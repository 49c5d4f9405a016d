-------------------------- MODULE Gatewayd_proofs --------------------------
(***************************************************************************)
(* Proofs about Gatewayd, for any connections, any limit and any emulated  *)
(* devices: the process runs its TCP server as TcpServer says, and erases  *)
(* the keys it holds before it ends.                                       *)
(***************************************************************************)
EXTENDS Gatewayd, TcpServer_proofs

(***************************************************************************)
(* ServerMoves: whatever happens in the process, the server makes a step   *)
(* of its own or none.                                                     *)
(***************************************************************************)
LEMMA ServerMoves == GatewaydNext => [Next]_vars
<1> SUFFICES ASSUME GatewaydNext PROVE [Next]_vars  OBVIOUS
<1>1. CASE ResetDevices \/ Signal \/ ContextExpires \/ MainErases \/ GatewayShutdown
      BY <1>1 DEF ResetDevices, Signal, ContextExpires, MainErases, GatewayShutdown
<1>2. CASE RestStopped \/ TcpShutdownEnds  BY <1>2 DEF RestStopped, TcpShutdownEnds, Next
<1>3. CASE ServerSteps  BY <1>3 DEF ServerSteps, Next
<1>4. ASSUME NEW c \in Conns,
             \/ Msg1(c) \/ TakePending(c) \/ Install(c)
             \/ HandlerLeaves(c) \/ Prune(c) \/ DialIn(c)
      PROVE  [Next]_vars
      BY <1>4 DEF Msg1, TakePending, Install, Handling, HandlerLeaves, Prune, DialIn, Next
<1>5. ASSUME NEW d \in Emulated, Attempt(d) PROVE [Next]_vars
      BY <1>5 DEF Attempt, Fetch, Register, RegisterRefused, DialFails, EmulatorDials, Next
<1>6. ASSUME NEW d \in Emulated, Retry(d) \/ GiveUp(d) PROVE [Next]_vars
      BY <1>6 DEF Retry, GiveUp
<1>7. ASSUME NEW d \in Emulated, Offline(d) PROVE [Next]_vars
      BY <1>7 DEF Offline, Next
<1> QED  BY <1>1, <1>2, <1>3, <1>4, <1>5, <1>6, <1>7 DEF GatewaydNext

(***************************************************************************)
(* DaemonInit: the process starts with no handshake under way.             *)
(***************************************************************************)
LEMMA DaemonInit == GatewaydInit => DaemonInv
<1> SUFFICES ASSUME GatewaydInit PROVE DaemonInv  OBVIOUS
<1>1. ServeInv  BY ServeInit DEF GatewaydInit
<1>2. GatewaydTypeOK
      BY DEF GatewaydInit, GatewaydTypeOK, Mains, Errors
<1>3. MainPlaced /\ HandshakesPlaced /\ KeysErased
      BY DEF GatewaydInit, Init, MainPlaced, HandshakesPlaced, KeysErased
<1> QED  BY <1>1, <1>2, <1>3 DEF DaemonInv

(***************************************************************************)
(* KeysTyped: every step keeps the variables of main, of the handshakes    *)
(* and of the emulators in their types.                                    *)
(***************************************************************************)
LEMMA KeysTyped == GatewaydTypeOK /\ [GatewaydNext]_daemonVars => GatewaydTypeOK'
<1> SUFFICES ASSUME GatewaydTypeOK, [GatewaydNext]_daemonVars PROVE GatewaydTypeOK'
    OBVIOUS
<1> USE DEF GatewaydTypeOK, Mains, Errors, process, registry, emulators
<1>1. CASE ResetDevices
  <2>1. registered' \in [Emulated -> {"absent", "older", "own"}]
    <3>1. CASE registered' = AfterReset  BY <3>1 DEF AfterReset
    <3>2. ASSUME NEW cleared \in SUBSET Emulated,
                 registered' = [d \in Emulated |->
                                   IF d \in cleared THEN "absent" ELSE registered[d]]
          PROVE  registered' \in [Emulated -> {"absent", "older", "own"}]
          BY <3>2
    <3> QED  BY <1>1, <3>1, <3>2 DEF ResetDevices
  <2>2. emulator' \in [Emulated -> {"off", "fetch", "register", "dial", "online", "ended"}]
        BY <1>1 DEF ResetDevices
  <2>3. storeFailed' \in BOOLEAN  BY <1>1 DEF ResetDevices
  <2> QED  BY <1>1, <2>1, <2>2, <2>3 DEF ResetDevices
<1>2. CASE Signal \/ ContextExpires \/ RestStopped \/ TcpShutdownEnds \/ MainErases
      BY <1>2 DEF Signal, ContextExpires, RestStopped, TcpShutdownEnds, MainErases
<1>3. CASE GatewayShutdown  BY <1>3 DEF GatewayShutdown
<1>4. CASE ServerSteps  BY <1>4 DEF ServerSteps
<1>5. ASSUME NEW c \in Conns, Msg1(c) \/ TakePending(c) \/ Install(c) PROVE GatewaydTypeOK'
      BY <1>5 DEF Msg1, TakePending, Install, Handling
<1>6. ASSUME NEW c \in Conns, HandlerLeaves(c) \/ Prune(c) \/ DialIn(c) PROVE GatewaydTypeOK'
      BY <1>6 DEF HandlerLeaves, Prune, DialIn
<1>7. ASSUME NEW d \in Emulated, Fetch(d) \/ RegisterRefused(d) \/ DialFails(d)
      PROVE  GatewaydTypeOK'
      BY <1>7 DEF Fetch, RegisterRefused, DialFails, Advance, Meets
<1>8. ASSUME NEW d \in Emulated, Register(d) PROVE GatewaydTypeOK'
      BY <1>8 DEF Register, Advance, Meets
<1>9. ASSUME NEW d \in Emulated, NEW c \in Conns, EmulatorDials(d, c) PROVE GatewaydTypeOK'
      BY <1>9 DEF EmulatorDials
<1>10. ASSUME NEW d \in Emulated, Retry(d) \/ GiveUp(d) \/ Offline(d) PROVE GatewaydTypeOK'
      BY <1>10 DEF Retry, GiveUp, Offline, Meets
<1>11. CASE UNCHANGED daemonVars  BY <1>11 DEF daemonVars
<1> QED  BY <1>1, <1>2, <1>3, <1>4, <1>5, <1>6, <1>7, <1>8, <1>9, <1>10, <1>11
         DEF GatewaydNext, Attempt

(***************************************************************************)
(* NoHandlers: a Shutdown that has returned in time leaves no handler, if  *)
(* the accept loop has not failed.                                         *)
(***************************************************************************)
LEMMA NoHandlers ==
    DaemonInv /\ shutdown = "returned" /\ serve # "failed"
        => \A c \in Conns : handler[c] # "running"
<1> SUFFICES ASSUME DaemonInv, shutdown = "returned", serve # "failed"
             PROVE  \A c \in Conns : handler[c] # "running"
    OBVIOUS
<1>1. CASE waits
      BY <1>1 DEF DaemonInv, ServeInv, JoinedUnlessFailed, Working
<1>2. CASE ~waits
      BY <1>2 DEF DaemonInv, HandshakesPlaced, ServeInv, Placed
<1>3. waits \in BOOLEAN  BY DEF DaemonInv, ServeInv, TypeOK
<1> QED  BY <1>1, <1>2, <1>3

(***************************************************************************)
(* MainKept, HandshakesKept: the two placement invariants are preserved.   *)
(***************************************************************************)
LEMMA MainKept == DaemonInv /\ [GatewaydNext]_daemonVars => MainPlaced'
<1> SUFFICES ASSUME DaemonInv, [GatewaydNext]_daemonVars PROVE MainPlaced'  OBVIOUS
<1> USE DEF DaemonInv, GatewaydTypeOK, Mains, MainPlaced
<1>1. CASE UNCHANGED <<main, late, shutdown>>  BY <1>1
<1>2. CASE ResetDevices \/ Signal \/ ContextExpires \/ GatewayShutdown
      BY <1>2 DEF ResetDevices, Signal, ContextExpires, GatewayShutdown, vars, calls
<1>3. CASE RestStopped  BY <1>3 DEF RestStopped, Shutdown
<1>4. CASE TcpShutdownEnds
      BY <1>4 DEF TcpShutdownEnds, ShutdownReturns, ShutdownExpires, process
<1>5. CASE MainErases  BY <1>5 DEF MainErases, TcpStopped, vars, calls
<1>6. CASE ServerSteps
      BY <1>1, <1>6 DEF ServerSteps, process, calls, HangUp, Accept, Forget, Done, ServeStarts,
                        AcceptClosed, AcceptError, Check, Spawn, Join
<1>7. ASSUME NEW c \in Conns,
             \/ Msg1(c) \/ TakePending(c) \/ Install(c)
             \/ HandlerLeaves(c) \/ Prune(c) \/ DialIn(c)
      PROVE  UNCHANGED <<main, late, shutdown>>
      BY <1>7 DEF Msg1, TakePending, Install, Handling, HandlerLeaves, Leave, Prune, DialIn,
                  Dial, process, vars, calls
<1>8. ASSUME NEW d \in Emulated, Attempt(d) \/ Retry(d) \/ GiveUp(d) \/ Offline(d)
      PROVE  UNCHANGED <<main, late, shutdown>>
      BY <1>8 DEF Attempt, Fetch, Register, RegisterRefused, DialFails, EmulatorDials, Dial,
                  Retry, GiveUp, Offline, HangUp, process, vars, calls
<1>9. CASE UNCHANGED daemonVars  BY <1>1, <1>9 DEF daemonVars, process, vars, calls
<1> QED  BY <1>1, <1>2, <1>3, <1>4, <1>5, <1>6, <1>7, <1>8, <1>9 DEF GatewaydNext

\* Where the keys are, handler by handler.
LEMMA HandshakesKept == DaemonInv /\ [GatewaydNext]_daemonVars => HandshakesPlaced'
<1> SUFFICES ASSUME DaemonInv, [GatewaydNext]_daemonVars PROVE HandshakesPlaced'  OBVIOUS
<1> USE DEF DaemonInv, GatewaydTypeOK, HandshakesPlaced, ServeInv, TypeOK, Placed
<1>1. CASE UNCHANGED <<keys, handler, serve, closing, waits>>  BY <1>1
<1>2. CASE ResetDevices \/ Signal \/ ContextExpires \/ MainErases
      BY <1>1, <1>2 DEF ResetDevices, Signal, ContextExpires, MainErases, vars, shared, calls
<1>3. CASE GatewayShutdown  BY <1>3 DEF GatewayShutdown, vars, shared, calls
<1>4. CASE RestStopped
      BY <1>4 DEF RestStopped, Shutdown
<1>5. CASE TcpShutdownEnds
      BY <1>1, <1>5 DEF TcpShutdownEnds, ShutdownReturns, ShutdownExpires, shared
<1>6. CASE ServerSteps
  <2>1. CASE \E c \in Conns : HangUp(c) \/ Accept(c)
        BY <1>6, <2>1 DEF ServerSteps, HangUp, Accept, shared, calls
  <2>2. CASE \E c \in Conns : Forget(c) \/ Done(c)
        BY <1>6, <2>2 DEF ServerSteps, Forget, Done, shared, calls
  <2>3. CASE ServeStarts \/ AcceptClosed \/ AcceptError \/ Join
        BY <1>6, <2>3 DEF ServerSteps, ServeStarts, AcceptClosed, AcceptError, Join, shared, calls
  <2>4. CASE Check
        BY <1>6, <2>4 DEF ServerSteps, Check, Refuses, shared, calls
  <2>5. CASE Spawn
        BY <1>6, <2>5 DEF ServerSteps, Spawn, HandlersPlaced, shared, calls
  <2> QED  BY <1>6, <2>1, <2>2, <2>3, <2>4, <2>5 DEF ServerSteps
<1>7. ASSUME NEW c \in Conns, Msg1(c) \/ TakePending(c) \/ Install(c) PROVE HandshakesPlaced'
      BY <1>7 DEF Msg1, TakePending, Install, Handling, vars, shared, calls
<1>8. ASSUME NEW c \in Conns, HandlerLeaves(c) PROVE HandshakesPlaced'
      BY <1>8 DEF HandlerLeaves, Leave, shared, calls
<1>9. ASSUME NEW c \in Conns, Prune(c) PROVE HandshakesPlaced'
      BY <1>9 DEF Prune, vars, shared, calls
<1>10. ASSUME NEW c \in Conns, Unused(c), Dial(c), UNCHANGED keys PROVE HandshakesPlaced'
      BY <1>10 DEF Unused, Dial, shared, calls
<1>11. ASSUME NEW d \in Emulated,
              \/ Fetch(d) \/ Register(d) \/ RegisterRefused(d)
              \/ DialFails(d) \/ Retry(d) \/ GiveUp(d) \/ Offline(d)
      PROVE  UNCHANGED <<keys, handler, serve, closing, waits>>
      BY <1>11 DEF Fetch, Register, RegisterRefused, DialFails, Retry, GiveUp, Offline, HangUp,
                   vars, shared, calls
<1>12. CASE UNCHANGED daemonVars  BY <1>1, <1>12 DEF daemonVars, vars, shared, calls
<1> QED  BY <1>1, <1>2, <1>3, <1>4, <1>5, <1>6, <1>7, <1>8, <1>9, <1>10, <1>11, <1>12
         DEF GatewaydNext, Attempt, DialIn, EmulatorDials

(***************************************************************************)
(* DeadStaysDead, LastStep: the accept loop does not start again once it   *)
(* has failed, and main reaches its end by Gateway.Shutdown alone.         *)
(***************************************************************************)
LEMMA DeadStaysDead == [Next]_vars /\ serve = "failed" => serve' = "failed"
BY DEF Next, vars, sockets, calls, shared, Dial, HangUp, Accept, Leave, Forget, Done,
       ServeStarts, AcceptClosed, AcceptError, Check, Spawn, Join, Shutdown,
       ShutdownReturns, ShutdownExpires

\* The end of main.
LEMMA LastStep ==
    [GatewaydNext]_daemonVars /\ main' = "erased"
        => GatewayShutdown \/ (main = "erased" /\ UNCHANGED late)
<1> SUFFICES ASSUME [GatewaydNext]_daemonVars, main' = "erased", ~GatewayShutdown
             PROVE  main = "erased" /\ UNCHANGED late
    OBVIOUS
<1>1. CASE ResetDevices \/ Signal \/ ContextExpires \/ RestStopped \/ MainErases
      BY <1>1 DEF ResetDevices, Signal, ContextExpires, RestStopped, MainErases
<1>2. CASE TcpShutdownEnds \/ ServerSteps
      BY <1>2 DEF TcpShutdownEnds, ServerSteps, process
<1>3. ASSUME NEW c \in Conns,
             \/ Msg1(c) \/ TakePending(c) \/ Install(c)
             \/ HandlerLeaves(c) \/ Prune(c) \/ DialIn(c)
      PROVE  UNCHANGED process
      BY <1>3 DEF Msg1, TakePending, Install, Handling, HandlerLeaves, Prune, DialIn
<1>4. ASSUME NEW d \in Emulated, Attempt(d) \/ Retry(d) \/ GiveUp(d) \/ Offline(d)
      PROVE  UNCHANGED process
      BY <1>4 DEF Attempt, Fetch, Register, RegisterRefused, DialFails, EmulatorDials,
                  Retry, GiveUp, Offline
<1>5. CASE UNCHANGED daemonVars  BY <1>5 DEF daemonVars, process
<1> QED  BY <1>1, <1>2, <1>3, <1>4, <1>5 DEF GatewaydNext, process

(***************************************************************************)
(* ErasedStays: what GatewayShutdown leaves behind, and that no later step *)
(* puts key material back: there is no handler left to do it.              *)
(***************************************************************************)
LEMMA ErasedStays == DaemonInv /\ [GatewaydNext]_daemonVars => KeysErased'
<1> SUFFICES ASSUME DaemonInv, [GatewaydNext]_daemonVars,
                    main' = "erased", ~late', serve' # "failed"
             PROVE  \A c \in Conns : keys'[c] \in {"none", "gone"}
    BY DEF KeysErased
<1>1. serve # "failed"
  <2>1. [Next]_vars  BY ServerMoves DEF daemonVars
  <2> QED  BY <2>1, DeadStaysDead
<1>2. CASE GatewayShutdown
  <2>1. main = "erase" /\ ~late  BY <1>2 DEF GatewayShutdown
  <2>2. shutdown = "returned"  BY <2>1 DEF DaemonInv, MainPlaced
  <2>3. \A c \in Conns : handler[c] # "running"  BY <1>1, <2>2, NoHandlers
  <2>4. \A c \in Conns : keys[c] # "taken"  BY <2>3 DEF DaemonInv, HandshakesPlaced
  <2> QED  BY <1>2, <2>4 DEF GatewayShutdown, DaemonInv, GatewaydTypeOK
<1>3. CASE main = "erased" /\ UNCHANGED late
  <2>1. shutdown = "returned"  BY <1>3 DEF DaemonInv, MainPlaced
  <2>2. \A c \in Conns : handler[c] # "running"  BY <1>1, <2>1, NoHandlers
  <2>3. \A c \in Conns : keys[c] \in {"none", "gone"}
        BY <1>1, <1>3 DEF DaemonInv, KeysErased
  <2>4. keys \in [Conns -> {"none", "pending", "taken", "live", "gone"}]
        BY DEF DaemonInv, GatewaydTypeOK
  <2>5. CASE UNCHANGED keys  BY <2>3, <2>5
  <2>6. ASSUME NEW c \in Conns, Msg1(c) \/ TakePending(c) \/ Install(c) \/ HandlerLeaves(c)
        PROVE  FALSE
        BY <2>2, <2>6 DEF Msg1, TakePending, Install, Handling, HandlerLeaves, Leave
  <2>7. ASSUME NEW c \in Conns, Prune(c) PROVE FALSE
        BY <2>3, <2>7 DEF Prune
  <2>8. CASE \/ ResetDevices \/ Signal \/ ContextExpires \/ RestStopped \/ MainErases
             \/ GatewayShutdown \/ TcpShutdownEnds \/ ServerSteps
        BY <1>3, <2>5, <2>8 DEF ResetDevices, Signal, ContextExpires, RestStopped, MainErases,
                                GatewayShutdown, TcpShutdownEnds, ServerSteps
  <2>9. CASE (\E c \in Conns : DialIn(c))
             \/ \E d \in Emulated : Attempt(d) \/ Retry(d) \/ GiveUp(d) \/ Offline(d)
        BY <2>5, <2>9 DEF DialIn, Attempt, Fetch, Register, RegisterRefused, DialFails,
                          EmulatorDials, Retry, GiveUp, Offline
  <2>10. CASE UNCHANGED daemonVars  BY <2>5, <2>10 DEF daemonVars
  <2> QED  BY <2>6, <2>7, <2>8, <2>9, <2>10 DEF GatewaydNext
<1> QED  BY <1>2, <1>3, LastStep

(***************************************************************************)
(* DaemonCorrect: the invariant of the whole process.                      *)
(***************************************************************************)
THEOREM DaemonCorrect == GatewaydSpec => []DaemonInv
<1>1. DaemonInv /\ [GatewaydNext]_daemonVars => DaemonInv'
  <2> SUFFICES ASSUME DaemonInv, [GatewaydNext]_daemonVars PROVE DaemonInv'  OBVIOUS
  <2>1. ServeInv'
    <3>1. [Next]_vars  BY ServerMoves DEF daemonVars
    <3> QED  BY <3>1, ServeStep DEF DaemonInv
  <2>2. GatewaydTypeOK'  BY KeysTyped DEF DaemonInv
  <2> QED  BY <2>1, <2>2, MainKept, HandshakesKept, ErasedStays DEF DaemonInv
<1> QED  BY <1>1, DaemonInit, PTL DEF GatewaydSpec

(***************************************************************************)
(* KeysErasedCorrect: for any number of devices connected, connecting and  *)
(* in the middle of a handshake when the signal comes, no key outlives     *)
(* main, if the servers stop in time.                                      *)
(***************************************************************************)
THEOREM KeysErasedCorrect == GatewaydSpec => []KeysErased
<1>1. DaemonInv => KeysErased  BY DEF DaemonInv
<1> QED  BY <1>1, DaemonCorrect, PTL

(***************************************************************************)
(* RunsTcpServer: the process implements the TCP server's specification,   *)
(* so that what is proved of the server holds in the process.              *)
(***************************************************************************)
THEOREM RunsTcpServer == GatewaydSpec => Spec
<1>1. GatewaydInit => Init  BY DEF GatewaydInit
<1>2. [GatewaydNext]_daemonVars => [Next]_vars  BY ServerMoves DEF daemonVars
<1> QED  BY <1>1, <1>2, PTL DEF GatewaydSpec, Spec
============================================================================
