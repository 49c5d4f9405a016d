--------------------------- MODULE Gateway_proofs ---------------------------
(***************************************************************************)
(* The connection and session tables of Gateway.tla stay consistent for    *)
(* any number of overlapping connections and operator calls.               *)
(***************************************************************************)
EXTENDS Gateway, TLAPS

\* A connection number is never the number of none.
LEMMA ConnsNumbered == None \notin Conns /\ \A c \in Conns : c # None
BY GatewayAssumption DEF Conns, None

\* Nothing is registered, created or served at the start.
LEMMA InitInv == Init => GatewayInv
BY ConnsNumbered, GatewayAssumption DEF Init, GatewayInv, TypeOK, Placed, OneServed,
   TableOpen, AdmittedInv, ShutOutUnlessAdmitted, Welcome, Steps

\* The device's own steps open, use and end one socket.
LEMMA DeviceStep ==
    ASSUME GatewayInv, NEW c \in Conns, Connect(c) \/ SendMsg3(c) \/ Drop(c)
    PROVE  GatewayInv'
<1> USE DEF GatewayInv, TypeOK, Placed, OneServed, TableOpen, AdmittedInv,
            ShutOutUnlessAdmitted, ShuttingOut, Welcome, Steps, Go, tables, device, oper,
            histories
<1>1. CASE Connect(c)
  BY <1>1 DEF Connect
<1>2. CASE SendMsg3(c)
  BY <1>2 DEF SendMsg3
<1>3. CASE Drop(c)
  BY <1>3 DEF Drop
<1> QED BY <1>1, <1>2, <1>3

\* A handshake touches the tables last of all, and only for its own session.
LEMMA HandshakeStep ==
    ASSUME GatewayInv, NEW c \in Conns,
           \/ LookupMsg1(c) \/ PutPending(c) \/ ReadMsg3(c) \/ TakePending(c)
           \/ LookupMsg3(c) \/ CreateSession(c) \/ TakeCurrent(c)
    PROVE  GatewayInv'
<1> USE ConnsNumbered
    DEF GatewayInv, TypeOK, Placed, OneServed, TableOpen, AdmittedInv,
        ShutOutUnlessAdmitted, ShuttingOut, Welcome, Steps, Go, tables, device, oper,
        histories
<1>1. CASE LookupMsg1(c)
  BY <1>1 DEF LookupMsg1
<1>2. CASE PutPending(c)
  BY <1>2 DEF PutPending
<1>3. CASE ReadMsg3(c)
  BY <1>3 DEF ReadMsg3
<1>4. CASE TakePending(c)
  BY <1>4 DEF TakePending, TakesPending
<1>5. CASE LookupMsg3(c)
  BY <1>5 DEF LookupMsg3
<1>6. CASE CreateSession(c)
  BY <1>6 DEF CreateSession
<1>7. CASE TakeCurrent(c)
  BY <1>7 DEF TakeCurrent
<1> QED BY <1>1, <1>2, <1>3, <1>4, <1>5, <1>6, <1>7

\* registerConn hangs up on whom it replaces; unregisterConn removes no other.
LEMMA ServeStep ==
    ASSUME GatewayInv, NEW c \in Conns,
           \/ registerConn(c) \/ EndServe(c) \/ CloseSessionInstance(c)
           \/ unregisterConn(c) \/ Return(c)
    PROVE  GatewayInv'
<1> USE ConnsNumbered
    DEF GatewayInv, TypeOK, Placed, OneServed, TableOpen, AdmittedInv,
        ShutOutUnlessAdmitted, ShuttingOut, Welcome, Steps, Go, tables, device, oper,
        histories
<1>1. CASE registerConn(c)
  BY <1>1 DEF registerConn, HangUpReplaced, Hung
<1>2. CASE EndServe(c)
  BY <1>2 DEF EndServe
<1>3. CASE CloseSessionInstance(c)
  BY <1>3 DEF CloseSessionInstance, CloseTable
<1>4. CASE unregisterConn(c)
  BY <1>4 DEF unregisterConn, ConnsWithout
<1>5. CASE Return(c)
  BY <1>5 DEF Return, Hung
<1> QED BY <1>1, <1>2, <1>3, <1>4, <1>5

\* A failed firmware check revokes the device in the registry, then in the table.
LEMMA FirmwareStep ==
    ASSUME GatewayInv, NEW c \in Conns,
           FirmwareRevokes(c) \/ FirmwareRevokeFails(c) \/ FirmwareCloses(c)
    PROVE  GatewayInv'
<1> USE ConnsNumbered
    DEF GatewayInv, TypeOK, Placed, OneServed, TableOpen, AdmittedInv,
        ShutOutUnlessAdmitted, ShuttingOut, Welcome, Steps, Admitted, MarkRevoked,
        SpareSession, Go, tables, device, oper, histories
<1>1. CASE FirmwareRevokes(c)
  BY <1>1 DEF FirmwareRevokes
<1>2. CASE FirmwareRevokeFails(c)
  BY <1>2 DEF FirmwareRevokeFails
<1>3. CASE FirmwareCloses(c)
  BY <1>3 DEF FirmwareCloses, CloseTable
<1> QED BY <1>1, <1>2, <1>3

\* Other devices' handshakes and the operator's calls.
LEMMA OperatorStep == ASSUME GatewayInv, Prune \/ Operator PROVE GatewayInv'
<1> USE ConnsNumbered
    DEF GatewayInv, TypeOK, Placed, OneServed, TableOpen, AdmittedInv,
        ShutOutUnlessAdmitted, ShuttingOut, Welcome, Steps, Begins, Admitted, MarkRevoked,
        SpareSession, tables, device, oper, histories
<1>1. CASE Prune
  BY <1>1 DEF Prune
<1>2. CASE StoreRevoke
  BY <1>2 DEF StoreRevoke
<1>3. CASE StoreRevokeFails
  BY <1>3 DEF StoreRevokeFails
<1>4. CASE RevokeCloses
  BY <1>4 DEF RevokeCloses, CloseTable
<1>5. CASE FindConn
  BY <1>5 DEF FindConn
<1>6. CASE Disconnect
  BY <1>6, ZenonT(60) DEF Disconnect, Hung
<1>7. CASE DeleteCloses
  BY <1>7 DEF DeleteCloses, CloseTable
<1>8. CASE StoreDelete
  BY <1>8 DEF StoreDelete
<1>9. CASE Register
  BY <1>9 DEF Register
<1>10. CASE GetReregistered
  BY <1>10 DEF GetReregistered
<1>11. CASE StoreReregister
  BY <1>11 DEF StoreReregister
<1>12. CASE StoreReregisterFails
  BY <1>12 DEF StoreReregisterFails
<1>13. CASE ReregisterCloses
  BY <1>13 DEF ReregisterCloses, CloseTable
<1> QED BY <1>1, <1>2, <1>3, <1>4, <1>5, <1>6, <1>7, <1>8, <1>9, <1>10, <1>11, <1>12,
           <1>13 DEF Operator

(***************************************************************************)
(* GatewayInvCorrect: the invariant holds of every number of connections   *)
(* and operator calls (handleConn and the calls it makes in Gateway).      *)
(***************************************************************************)
THEOREM GatewayInvCorrect == Spec => []GatewayInv
<1>1. GatewayInv /\ [Next]_vars => GatewayInv'
  <2> SUFFICES ASSUME GatewayInv, [Next]_vars PROVE GatewayInv'
    OBVIOUS
  <2>1. ASSUME NEW c \in Conns, Connect(c) \/ SendMsg3(c) \/ Drop(c) PROVE GatewayInv'
    BY <2>1, DeviceStep
  <2>2. ASSUME NEW c \in Conns,
               Handler(c) \/ FirmwareRevokes(c) \/ FirmwareRevokeFails(c)
        PROVE  GatewayInv'
    BY <2>2, HandshakeStep, ServeStep, FirmwareStep DEF Handler
  <2>3. CASE Prune \/ Operator
    BY <2>3, OperatorStep
  <2>4. CASE UNCHANGED vars
    BY <2>4 DEF vars, tables, device, oper, histories, GatewayInv, TypeOK, Placed,
       OneServed, TableOpen, AdmittedInv, ShutOutUnlessAdmitted, ShuttingOut, Welcome
  <2> QED BY <2>1, <2>2, <2>3, <2>4 DEF Next
<1> QED BY InitInv, <1>1, PTL DEF Spec

(***************************************************************************)
(* OneServedCorrect: two live connections of the device are never served   *)
(* at once, however many of its handlers overlap (registerConn).           *)
(***************************************************************************)
THEOREM OneServedCorrect == Spec => []OneServed
BY GatewayInvCorrect, PTL DEF GatewayInv

(***************************************************************************)
(* TableOpenCorrect: a session that has been closed is never found in      *)
(* Gateway.sessions (closeSession, revokeAndCloseSession).                 *)
(***************************************************************************)
THEOREM TableOpenCorrect == Spec => []TableOpen
BY GatewayInvCorrect, PTL DEF GatewayInv

(***************************************************************************)
(* ShutOutCorrect: the only ways for a revoked, deleted or re-keyed device *)
(* to have a session are a handshake that had passed the registry before   *)
(* it changed, and a call of the registry that failed with its work done   *)
(* (revokeAndCloseSession, ReregisterDevice, DeleteDevice).                *)
(***************************************************************************)
THEOREM ShutOutCorrect == Spec => []ShutOutUnlessAdmitted
BY GatewayInvCorrect, PTL DEF GatewayInv

(***************************************************************************)
(* SupersededCorrect: however many handshakes of the device overlap, one   *)
(* that has been superseded never takes the entry of its successor         *)
(* (HandleMsg3Tracked compares the attempts).                              *)
(***************************************************************************)
THEOREM SupersededCorrect == Spec => SupersededGivesWay
<1>1. ASSUME GatewayInv, [Next]_vars, NEW c \in Conns, NEW d \in Conns,
             pending = c, d # c, pc[d] = "take", pc'[d] # "take"
      PROVE  pending' = c
  <2>1. pc \in [Conns -> Steps]
    BY <1>1 DEF GatewayInv, TypeOK
  <2>2. ASSUME NEW e \in Conns, Connect(e) \/ SendMsg3(e) \/ Drop(e) PROVE pending' = c
    BY <1>1, <2>2 DEF Connect, SendMsg3, Drop, tables
  <2>3. ASSUME NEW e \in Conns, e # d,
               Handler(e) \/ FirmwareRevokes(e) \/ FirmwareRevokeFails(e)
        PROVE  FALSE
    BY <1>1, <2>1, <2>3
    DEF Handler, LookupMsg1, PutPending, ReadMsg3, TakePending, LookupMsg3, CreateSession,
        TakeCurrent, registerConn, EndServe, FirmwareCloses, CloseSessionInstance,
        unregisterConn, Return, FirmwareRevokes, FirmwareRevokeFails, Go
  <2>4. ASSUME Handler(d) \/ FirmwareRevokes(d) \/ FirmwareRevokeFails(d)
        PROVE  pending' = c
    <3>1. TakePending(d)
      BY <1>1, <2>4
      DEF Handler, LookupMsg1, PutPending, ReadMsg3, LookupMsg3, CreateSession,
          TakeCurrent, registerConn, EndServe, FirmwareCloses, CloseSessionInstance,
          unregisterConn, Return, FirmwareRevokes, FirmwareRevokeFails
    <3> QED BY <1>1, <3>1 DEF TakePending, TakesPending
  <2>5. CASE Prune \/ Operator \/ UNCHANGED vars
    <3>1. UNCHANGED pc
      BY <2>5
      DEF Prune, Operator, StoreRevoke, StoreRevokeFails, RevokeCloses, FindConn,
          Disconnect, DeleteCloses, StoreDelete, Register, GetReregistered,
          StoreReregister, StoreReregisterFails, ReregisterCloses, vars
    <3> QED BY <1>1, <3>1
  <2> QED BY <1>1, <2>2, <2>3, <2>4, <2>5 DEF Next
<1>2. GatewayInv /\ [Next]_vars =>
        [\A c, d \in Conns :
            pending = c /\ d # c /\ pc[d] = "take" /\ pc'[d] # "take" => pending' = c]_vars
  BY <1>1
<1> QED BY GatewayInvCorrect, <1>2, PTL DEF Spec, SupersededGivesWay
=============================================================================
