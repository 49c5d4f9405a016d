---------------------------- MODULE KeyAgreement ----------------------------
(***************************************************************************)
(* What key rotation promises the data path, with no frame, thread or      *)
(* timer in sight: two ends of a link that comes and goes.  While the link *)
(* is up one end may move one key ahead of the other, the other may only   *)
(* follow to that very key, and nobody moves twice.  A new link starts     *)
(* from a fresh common key.                                                *)
(***************************************************************************)
EXTENDS Naturals, Sequences, Session

VARIABLES
    up,       \* the link can be used
    gwKey,    \* the key of either end; NoKey while the link is down
    devKey

kaVars == <<up, gwKey, devKey>>

Fresh(k) == Derived(k, NoKey)

KaInit == up = TRUE /\ gwKey = devKey /\ Fresh(gwKey)

DevMovesAhead ==
    /\ up /\ up' /\ gwKey = devKey
    /\ Derived(devKey', devKey) /\ UNCHANGED gwKey

GwMovesAhead ==
    /\ up /\ up' /\ gwKey = devKey
    /\ Derived(gwKey', gwKey) /\ UNCHANGED devKey

GwFollows ==
    /\ up /\ up' /\ Derived(devKey, gwKey)
    /\ gwKey' = devKey /\ UNCHANGED devKey

DevFollows ==
    /\ up /\ up' /\ Derived(gwKey, devKey)
    /\ devKey' = gwKey /\ UNCHANGED gwKey

Break == up /\ ~up' /\ gwKey' = NoKey /\ devKey' = NoKey

Establish == ~up /\ up' /\ gwKey' = devKey' /\ Fresh(gwKey')

KaNext ==
    \/ DevMovesAhead \/ GwMovesAhead \/ GwFollows \/ DevFollows
    \/ Break \/ Establish

KaSpec == KaInit /\ [][KaNext]_kaVars
=============================================================================
