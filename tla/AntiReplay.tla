----------------------------- MODULE AntiReplay -----------------------------
(***************************************************************************)
(* The two memories that keep a device's recorded traffic out, in one      *)
(* gateway: the guard of the nonces of Msg1 (ReplayGuard), which outlives  *)
(* the sessions, and the window of data nonces (DataWindow), which each    *)
(* session starts anew.  What connects them is the handshake: only a Msg1  *)
(* the guard has let through can lead to a session with an empty window.   *)
(***************************************************************************)
EXTENDS ReplayGuard, DataWindow

VARIABLE attempt   \* a Msg1 was accepted and its Msg3 has not come

replayVars == <<vars, windowVars, attempt>>

ReplayInit == Init /\ WindowInit /\ attempt = FALSE

\* HandleMsg1Tracked: the attempt begins if the nonce was not a repeat.
Msg1(k) ==
    /\ CheckAndRemember(k)
    /\ attempt' = (attempt \/ ~IsReplay(k))
    /\ UNCHANGED windowVars

Clock == Tick /\ UNCHANGED <<windowVars, attempt>>

\* handleMsg3: a session of its own replaces the one in the table.
Msg3 ==
    /\ attempt /\ attempt' = FALSE
    /\ seen' = {} /\ order' = <<>> /\ closed' = FALSE /\ opened' = <<>>
    /\ UNCHANGED vars

OnSession == WindowNext /\ UNCHANGED <<vars, attempt>>

ReplayNext == (\E k \in Nonces : Msg1(k)) \/ Clock \/ Msg3 \/ OnSession

ReplaySpec == ReplayInit /\ [][ReplayNext]_replayVars
-----------------------------------------------------------------------------
(***************************************************************************)
(* AntiReplayInv: both memories keep their word at once.  The generations  *)
(* of the guard hold what they should, however the sessions come and go,   *)
(* and the window of a session is its last packets, however many of the    *)
(* handshakes before it were repeats (HandleMsg1Tracked, handleMsg3).      *)
(***************************************************************************)
AntiReplayInv == Inv /\ WindowInv
=============================================================================
