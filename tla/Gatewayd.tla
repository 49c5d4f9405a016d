----------------------------- MODULE Gatewayd -----------------------------
(***************************************************************************)
(* The gatewayd process (cmd/gatewayd): its ports, the emulated devices it *)
(* starts in itself (internal/emulator), and how it stops.                 *)
(*                                                                         *)
(* The TCP server is TcpServer; the steps it shares with main, with the    *)
(* key material of the handshakes and with the emulators are joined here.  *)
(* The scheduler and the MQTT broker take no part.  The process may have   *)
(* run before: the registry then still holds the emulated devices' older   *)
(* keys.                                                                   *)
(***************************************************************************)
EXTENDS TcpServer

CONSTANTS
    Emulated,   \* the emulated devices
    StoreFails  \* whether a call of the registry may fail

ASSUME GatewaydAssumption == StoreFails \in BOOLEAN

VARIABLES
    main,        \* where main is
    late,        \* shutdownCtx has expired
    keys,        \* the key material of each handler's handshake, in the gateway
    registered,  \* each emulated device's keys in the registry
    storeFailed, \* a call of the registry has failed
    emulator,    \* where each emulator is
    lastErr,     \* what its last attempt met
    link         \* its connection

process   == <<main, late>>
registry  == <<registered, storeFailed>>
emulators == <<emulator, lastErr, link>>
daemonVars == <<vars, process, keys, registry, emulators>>

Mains  == {"reset", "serving", "stopREST", "stopTCP", "erase", "erased"}

\* "already registered", and every other error.
Errors == {"none", "exists", "other"}

GatewaydTypeOK ==
    /\ main \in Mains /\ late \in BOOLEAN /\ storeFailed \in BOOLEAN
    /\ keys \in [Conns -> {"none", "pending", "taken", "live", "gone"}]
    /\ registered \in [Emulated -> {"absent", "older", "own"}]
    /\ emulator \in [Emulated -> {"off", "fetch", "register", "dial", "online", "ended"}]
    /\ lastErr \in [Emulated -> Errors] /\ link \in [Emulated -> Conns \cup {None}]

\* Both ports are bound and the servers' goroutines started.
GatewaydInit ==
    /\ Init
    /\ main = "reset" /\ late = FALSE /\ storeFailed = FALSE
    /\ keys = [c \in Conns |-> "none"]
    /\ registered \in [Emulated -> {"absent", "older"}]
    /\ emulator = [d \in Emulated |-> "off"] /\ lastErr = [d \in Emulated |-> "none"]
    /\ link = [d \in Emulated |-> None]

Stopping == main \notin {"reset", "serving"}
Linked   == {link[d] : d \in Emulated}

\* No emulator and no pending handshake holds on to the connection.
Unused(c) == c \notin Linked /\ keys[c] = "none"
-----------------------------------------------------------------------------
(* main.                                                                   *)

\* Mutant: main starts the emulators without clearing the registry.
AfterResetKept == registered

AfterReset == [d \in Emulated |-> "absent"]

\* ResetDevices stops at the first Delete that fails; main goes on.
ResetDevices ==
    /\ main = "reset" /\ main' = "serving"
    /\ \/ registered' = AfterReset /\ UNCHANGED storeFailed
       \/ /\ StoreFails /\ storeFailed' = TRUE
          /\ \E done \in SUBSET Emulated :
                registered' = [d \in Emulated |-> IF d \in done THEN "absent" ELSE registered[d]]
    /\ emulator' = [d \in Emulated |-> "fetch"]
    /\ UNCHANGED <<vars, late, keys, lastErr, link>>

Signal ==
    /\ main = "serving" /\ main' = "stopREST"
    /\ UNCHANGED <<vars, late, keys, registry, emulators>>

\* The five seconds of shutdownCtx, which both servers' Shutdown share.
ContextExpires ==
    /\ main \in {"stopREST", "stopTCP"} /\ ~late /\ late' = TRUE
    /\ UNCHANGED <<vars, main, keys, registry, emulators>>

\* httpServer.Shutdown returns, in time or not, and tcpSrv.Shutdown begins.
RestStopped ==
    /\ main = "stopREST" /\ main' = "stopTCP" /\ Shutdown
    /\ UNCHANGED <<late, keys, registry, emulators>>

TcpShutdownEnds ==
    /\ ShutdownReturns \/ (late /\ ShutdownExpires)
    /\ UNCHANGED <<process, keys, registry, emulators>>

\* Mutant: the sessions are closed before the handlers have ended.
TcpStoppedNever == TRUE

TcpStopped == shutdown \in {"returned", "expired"}

MainErases ==
    /\ main = "stopTCP" /\ TcpStopped /\ main' = "erase"
    /\ UNCHANGED <<vars, late, keys, registry, emulators>>

\* Gateway.Shutdown, one locked section; main then returns.
GatewayShutdown ==
    /\ main = "erase" /\ main' = "erased"
    /\ keys' = [c \in Conns |->
          IF keys[c] \in {"pending", "live"} THEN "gone" ELSE keys[c]]
    /\ UNCHANGED <<vars, late, registry, emulators>>
-----------------------------------------------------------------------------
(* The handlers of the TCP server.                                         *)

Handling(c, from, to) ==
    /\ handler[c] = "running" /\ keys[c] = from /\ keys' = [keys EXCEPT ![c] = to]
    /\ UNCHANGED <<vars, process, registry>>

\* HandleMsg1 keeps the shared secret under the device's pending handshake.
Msg1(c) == Handling(c, "none", "pending") /\ UNCHANGED emulators

\* Msg3 is read and its pending entry taken out of the map; the device that
\* sent it takes its channel for ready.
TakePending(c) ==
    /\ socket[c] = "open" /\ Handling(c, "pending", "taken")
    /\ emulator' = [d \in Emulated |->
          IF emulator[d] = "dial" /\ link[d] = c THEN "online" ELSE emulator[d]]
    /\ UNCHANGED <<lastErr, link>>

\* The end of handleMsg3.
Install(c) == Handling(c, "taken", "live") /\ UNCHANGED emulators

\* handleConn returns, early or not, and closes the session it had.  Only the
\* Msg3 of a device whose keys are not those registered is refused.
HandlerLeaves(c) ==
    /\ keys[c] = "taken" => c \notin Linked
    /\ Leave(c)
    /\ keys' = [keys EXCEPT ![c] = IF keys[c] = "pending" THEN "pending" ELSE "none"]
    /\ UNCHANGED <<process, registry, emulators>>

\* prunePendingHandshakes: an abandoned handshake is forgotten.
Prune(c) ==
    /\ handler[c] \in {"left", "forgotten", "done"} /\ keys[c] = "pending"
    /\ keys' = [keys EXCEPT ![c] = "none"]
    /\ UNCHANGED <<vars, process, registry, emulators>>

ServerSteps ==
    /\ \/ \E c \in Conns : HangUp(c) \/ Accept(c) \/ Forget(c) \/ Done(c)
       \/ ServeStarts \/ AcceptClosed \/ AcceptError \/ Check \/ Spawn \/ Join
    /\ UNCHANGED <<process, keys, registry, emulators>>

\* A device that is not emulated dials.
DialIn(c) ==
    /\ Unused(c) /\ Dial(c)
    /\ UNCHANGED <<process, keys, registry, emulators>>
-----------------------------------------------------------------------------
(* An emulator: Run of internal/emulator, up to the loop that sends.       *)

At(d, place) == emulator[d] = place /\ lastErr[d] = "none"

Advance(d, to) == emulator' = [emulator EXCEPT ![d] = to] /\ UNCHANGED <<lastErr, link>>

Meets(d, err) == lastErr' = [lastErr EXCEPT ![d] = err] /\ UNCHANGED <<emulator, link>>

Fetch(d) ==
    /\ At(d, "fetch")
    /\ IF Stopping THEN Meets(d, "other") ELSE Advance(d, "register")
    /\ UNCHANGED <<vars, process, keys, registry>>

\* POST /devices: Store.Register, refused when the device has a row.  A
\* failure of the database may come after the row is written.
Register(d) ==
    /\ At(d, "register") /\ ~Stopping
    /\ \/ /\ registered[d] = "absent" /\ registered' = [registered EXCEPT ![d] = "own"]
          /\ Advance(d, "dial") /\ UNCHANGED storeFailed
       \/ registered[d] # "absent" /\ Meets(d, "exists") /\ UNCHANGED registry
       \/ /\ StoreFails /\ storeFailed' = TRUE /\ Meets(d, "other")
          /\ registered' \in {registered,
                [registered EXCEPT ![d] = IF registered[d] = "absent" THEN "own" ELSE @]}
    /\ UNCHANGED <<vars, process, keys>>

\* The server is gone, or authLimiter has blocked the address, for the wrong
\* tokens that other requests from it carry.
RegisterRefused(d) ==
    /\ At(d, "register") /\ Meets(d, "other")
    /\ UNCHANGED <<vars, process, keys, registry>>

\* Dial of the TCP client opens a connection...
EmulatorDials(d, c) ==
    /\ At(d, "dial") /\ link[d] = None
    /\ Unused(c) /\ Dial(c)
    /\ link' = [link EXCEPT ![d] = c]
    /\ UNCHANGED <<process, keys, registry, emulator, lastErr>>

CanOpen == listening /\ \E c \in Conns : Unused(c) /\ (socket[c] = "unopened" \/ Over(c))

\* ... which ends before the handshake has, or cannot be opened.
DialFails(d) ==
    /\ At(d, "dial")
    /\ IF link[d] = None THEN ~CanOpen ELSE socket[link[d]] = "closed"
    /\ lastErr' = [lastErr EXCEPT ![d] = "other"] /\ link' = [link EXCEPT ![d] = None]
    /\ UNCHANGED <<vars, process, keys, registry, emulator>>

Failed(d) == emulator[d] \in {"fetch", "register", "dial"} /\ lastErr[d] # "none"

\* Each stage is tried again until ConnectTimeout...
Retry(d) ==
    /\ Failed(d) /\ ~Stopping /\ Meets(d, "none")
    /\ UNCHANGED <<vars, process, keys, registry>>

\* ... or the context is done.
GiveUp(d) ==
    /\ Failed(d) /\ emulator' = [emulator EXCEPT ![d] = "ended"]
    /\ lastErr' = [lastErr EXCEPT ![d] = IF Stopping THEN "other" ELSE @]
    /\ UNCHANGED <<vars, process, keys, registry, link>>

\* The channel is closed, by the gateway or as the context is done.
Offline(d) ==
    /\ emulator[d] = "online"
    /\ \E c \in Conns : link[d] = c /\
          \/ socket[c] = "closed" /\ UNCHANGED vars
          \/ Stopping /\ HangUp(c)
    /\ emulator' = [emulator EXCEPT ![d] = "ended"]
    /\ lastErr' = [lastErr EXCEPT ![d] = "other"]
    /\ link' = [link EXCEPT ![d] = None]
    /\ UNCHANGED <<process, keys, registry>>

Attempt(d) ==
    \/ Fetch(d) \/ Register(d) \/ RegisterRefused(d)
    \/ DialFails(d) \/ \E c \in Conns : EmulatorDials(d, c)

GatewaydNext ==
    \/ ResetDevices \/ Signal \/ ContextExpires \/ RestStopped \/ TcpShutdownEnds
    \/ MainErases \/ GatewayShutdown \/ ServerSteps
    \/ \E c \in Conns :
          \/ Msg1(c) \/ TakePending(c) \/ Install(c)
          \/ HandlerLeaves(c) \/ Prune(c) \/ DialIn(c)
    \/ \E d \in Emulated : Attempt(d) \/ Retry(d) \/ GiveUp(d) \/ Offline(d)

GatewaydSpec == GatewaydInit /\ [][GatewaydNext]_daemonVars

ServerAlone(A) == A /\ UNCHANGED <<process, keys, registry, emulators>>

(***************************************************************************)
(* The goroutines of main, of the server and of the emulators run on.  A   *)
(* device that is not emulated may stay silent, so of its handler only the *)
(* end is certain, once its socket is closed.  The backlog is a queue, so  *)
(* that no connection waits in it for ever while others are accepted; and  *)
(* an emulator whose attempts keep failing comes to its ConnectTimeout.    *)
(***************************************************************************)
GatewaydFairness ==
    /\ WF_daemonVars(ResetDevices) /\ WF_daemonVars(ServerAlone(ServeStarts))
    /\ WF_daemonVars(ServerAlone(Check \/ Spawn \/ AcceptClosed \/ Join))
    /\ WF_daemonVars(ServerAlone(ShutdownReturns))
    /\ \A c \in Conns :
          /\ SF_daemonVars(ServerAlone(Accept(c)))
          /\ WF_daemonVars(ServerAlone(Forget(c) \/ Done(c)))
          /\ WF_daemonVars(socket[c] = "closed" /\ HandlerLeaves(c))
          /\ WF_daemonVars(Install(c))
          /\ WF_daemonVars(c \in Linked /\ (Msg1(c) \/ TakePending(c)))
    /\ \A d \in Emulated :
          /\ WF_daemonVars(Attempt(d)) /\ SF_daemonVars(GiveUp(d))

GatewaydFairSpec == GatewaydSpec /\ GatewaydFairness
-----------------------------------------------------------------------------
(***************************************************************************)
(* KeysErased: when main has come to its end no handshake or session key   *)
(* is left in the gateway, nor can a handler still install one, provided   *)
(* the five seconds were enough for both servers and the accept loop had   *)
(* not failed before (main.go:348-349, "the key material is not to stay in *)
(* memory"; gateway.go:183-184).                                           *)
(***************************************************************************)
KeysErased ==
    main = "erased" /\ ~late /\ serve # "failed" => \A c \in Conns : keys[c] \in {"none", "gone"}

(***************************************************************************)
(* EmulatedJoin: an emulated device gets its session, also when an earlier *)
(* run of the process has left other keys under its name, or its emulator  *)
(* ends on something other than its own registration: unless the registry  *)
(* has failed, the accept loop is dead or the process is stopping          *)
(* (reset.go:9-17, "the device would stay offline for ever").              *)
(***************************************************************************)
HasSession(d) == emulator[d] = "online" /\ link[d] \in Conns /\ keys[link[d]] = "live"

EmulatedJoin ==
    \A d \in Emulated : emulator[d] = "fetch" ~>
        \/ HasSession(d) \/ (emulator[d] = "ended" /\ lastErr[d] # "exists")
        \/ storeFailed \/ serve = "failed" \/ Stopping

(***************************************************************************)
(* What makes KeysErased hold.  MainPlaced: where main is says where the   *)
(* call of Shutdown is.  HandshakesPlaced: a handshake being finished or a *)
(* session belongs to a handler that runs, and a server that had not       *)
(* started when Shutdown was called never has one.                         *)
(***************************************************************************)
MainPlaced ==
    /\ main \in {"reset", "serving", "stopREST"} <=> shutdown = "idle"
    /\ main \in {"erase", "erased"} => shutdown \in {"returned", "expired"}
    /\ shutdown = "expired" => late

HandshakesPlaced ==
    /\ \A c \in Conns : keys[c] \in {"taken", "live"} => handler[c] = "running"
    /\ \A c \in Conns : keys[c] # "none" => handler[c] # "none"
    /\ serve = "before" \/ (closing /\ ~waits) =>
          serve # "spawn" /\ \A c \in Conns : handler[c] = "none"

DaemonInv ==
    /\ GatewaydTypeOK /\ ServeInv
    /\ MainPlaced /\ HandshakesPlaced /\ KeysErased
=============================================================================
