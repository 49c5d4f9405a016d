------------------------------ MODULE Gateway ------------------------------
(***************************************************************************)
(* Connections of one device overlapping in the gateway: the handler       *)
(* goroutines of internal/transport/tcpserver (handleConn), the handshake  *)
(* and session tables of internal/gateway, and those who change the        *)
(* registry meanwhile: an operator, who revokes, deletes, enrols or        *)
(* re-registers the device, the scheduler, who revokes it, and a handler   *)
(* whose device fails its firmware check.  A call of the registry may      *)
(* fail, and a database may have done its work all the same.               *)
(*                                                                         *)
(* A device has one connection at a time, but the gateway may still be     *)
(* busy with the ones before it: a handler can sleep between any two of    *)
(* its locked sections, most of all at the registry and the journal, which *)
(* are a database.  Each locked section is a step.  A connection, its      *)
(* handshake attempt (PendingID), its connEntry and the session its        *)
(* handshake creates are all named by the same number.                     *)
(*                                                                         *)
(* Rotation and data are in Rotation.tla, the nonce check of Msg1 in       *)
(* ReplayGuard.tla.  The device may be replaced by another board that      *)
(* bears its identifier, or lose its keys and make new ones: a handshake   *)
(* is confirmed when the keys registered are those of the board.           *)
(***************************************************************************)
EXTENDS Naturals

CONSTANTS
    MaxConns,     \* bound: connections the device opens
    Boards,       \* the boards that bear the device's identifier, each with its keys
    Enrolled,     \* the one enrolled at the start, if any is
    Operations,   \* what the operator does, of the four below
    MaxOperations \* bound: how many times, enrolments not counted

ASSUME GatewayAssumption ==
    /\ MaxConns \in Nat \ {0} /\ MaxOperations \in Nat /\ Enrolled \in Boards
    /\ Operations \subseteq {"revoke", "delete", "register", "reregister"}

Conns == 1..MaxConns
None == 0

VARIABLES
    registry,   \* the DeviceRecord: "active", "revoked" or "absent"
    keys,       \* the board whose keys it has
    board,      \* the board each connection comes from
    matched,    \* the connections whose Msg2 was made for their board's keys
    pending,    \* Gateway.pendingHandshake: the attempt that owns the entry
    sessions,   \* Gateway.sessions: the session in the table
    session,    \* each connection's session object: "none", "open", "closed"
    conns,      \* Server.conns: the registered connection
    pc,         \* where each handler is
    own,        \* handleConn's ownSession
    net,        \* each socket: "unopened", "open", or which end closed it
    sentMsg3,   \* the connections on which the device has written Msg3
    operator, operatorConn,  \* where the operator's call is, the entry it took
    operations, \* how many calls there have been
    admitted,   \* history: handshakes past the registry when it changed
    spared      \* history: sessions there when a call that failed changed it

tables == <<pending, sessions, session, conns>>
device == <<board, matched>>
histories == <<admitted, spared>>
oper   == <<registry, keys, operator, operatorConn, operations, histories>>
vars   == <<tables, pc, own, net, sentMsg3, device, oper>>

Steps == {"unopened", "msg1", "pend", "read", "take", "lookup", "create",
          "current", "register", "serve", "judged", "close", "unregister", "return",
          "done"}

TypeOK ==
    /\ registry \in {"active", "revoked", "absent"}
    /\ {pending, sessions, conns, operatorConn} \subseteq Conns \cup {None}
    /\ session \in [Conns -> {"none", "open", "closed"}]
    /\ pc \in [Conns -> Steps] /\ own \in [Conns -> Conns \cup {None}]
    /\ net \in [Conns -> {"unopened", "open", "device", "gateway"}]
    /\ keys \in Boards /\ board \in [Conns -> Boards]
    /\ {sentMsg3, matched, admitted, spared} \subseteq SUBSET Conns
    /\ operator \in {"idle", "revoke", "disconnect", "disconnecting", "delete",
                    "rekey", "reregister"}
    /\ operations \in Nat

Init ==
    /\ registry \in {"active", "absent"} /\ pending = None /\ sessions = None /\ conns = None
    /\ session = [c \in Conns |-> "none"] /\ own = [c \in Conns |-> None]
    /\ pc = [c \in Conns |-> "unopened"] /\ net = [c \in Conns |-> "unopened"]
    /\ keys = Enrolled /\ board \in [Conns -> Boards]
    /\ sentMsg3 = {} /\ matched = {} /\ admitted = {} /\ spared = {}
    /\ operator = "idle" /\ operatorConn = None /\ operations = 0

Go(c, step) == pc' = [pc EXCEPT ![c] = step]

\* A socket this end closes after the device did stays the device's.
Hung(sockets, c) == IF sockets[c] = "open" THEN [sockets EXCEPT ![c] = "gateway"] ELSE sockets
-----------------------------------------------------------------------------
(* The device and the network.                                             *)

\* Dial, and Msg1 at once: only when the last connection is over.
Connect(c) ==
    /\ net[c] = "unopened" /\ \A d \in 1..(c - 1) : net[d] \in {"device", "gateway"}
    /\ net' = [net EXCEPT ![c] = "open"] /\ Go(c, "msg1")
    /\ UNCHANGED <<tables, own, sentMsg3, device, oper>>

\* Msg2 has come: the device answers and takes the channel for established.
SendMsg3(c) ==
    /\ net[c] = "open" /\ pc[c] = "read" /\ c \notin sentMsg3
    /\ sentMsg3' = sentMsg3 \cup {c}
    /\ UNCHANGED <<tables, pc, own, net, device, oper>>

\* A reboot, a Wi-Fi flap, or a peer silent past IdleTimeout.
Drop(c) ==
    /\ net[c] = "open" /\ net' = [net EXCEPT ![c] = "device"]
    /\ UNCHANGED <<tables, pc, own, sentMsg3, device, oper>>
-----------------------------------------------------------------------------
(* A handler: handleConn, and what it calls in Gateway.                    *)

\* The registry lets the device in, and has the keys of the board it is.
Welcome(c) == registry = "active" /\ board[c] = keys

\* HandleMsg1Tracked as far as BuildMsg2; Msg1 may outlive its connection, and
\* Store.Get may fail.
LookupMsg1(c) ==
    /\ pc[c] = "msg1"
    /\ \/ /\ registry = "active" /\ Go(c, "pend")
          /\ matched' = IF Welcome(c) THEN matched \cup {c} ELSE matched
       \/ Go(c, "return") /\ UNCHANGED matched
    /\ UNCHANGED <<tables, own, net, sentMsg3, board, oper>>

\* The rest of it: a newer attempt replaces the entry; then Msg2 is written.
PutPending(c) ==
    /\ pc[c] = "pend"
    /\ pending' = c /\ Go(c, "read")
    /\ UNCHANGED <<sessions, session, conns, own, net, sentMsg3, device, oper>>

\* prunePendingHandshakesLocked, on the Msg1 of any other device.
Prune ==
    /\ pending # None /\ pending' = None
    /\ UNCHANGED <<sessions, session, conns, pc, own, net, sentMsg3, device, oper>>

\* Msg3, which the socket may still hold when the device has gone.
ReadMsg3(c) ==
    /\ pc[c] = "read"
    /\ \/ c \in sentMsg3 /\ net[c] # "gateway" /\ Go(c, "take")
       \/ net[c] # "open" /\ Go(c, "return")
    /\ UNCHANGED <<tables, own, net, sentMsg3, device, oper>>

\* Mutant: HandleMsg3 as it was, before attempts had identifiers.
TakesPendingUntracked(c) == pending # None

TakesPending(c) == pending = c

\* The first locked section of handleMsg3, and the age check.
TakePending(c) ==
    /\ pc[c] = "take"
    /\ IF TakesPending(c)
       THEN pending' = None /\ \E step \in {"lookup", "return"} : Go(c, step)
       ELSE Go(c, "return") /\ UNCHANGED pending
    /\ UNCHANGED <<sessions, session, conns, own, net, sentMsg3, device, oper>>

\* Store.Get, which may fail, FinalizeHandshake and NewSession: Msg3 confirms the
\* secret of Msg2 and is signed with the board's key.
LookupMsg3(c) ==
    /\ pc[c] = "lookup"
    /\ \/ Welcome(c) /\ c \in matched /\ Go(c, "create")
       \/ Go(c, "return")
    /\ matched' = matched \ {c}
    /\ UNCHANGED <<tables, own, net, sentMsg3, board, oper>>

\* The second locked section: the entry is overwritten, whosever it was.
CreateSession(c) ==
    /\ pc[c] = "create"
    /\ session' = [session EXCEPT ![c] = "open"] /\ sessions' = c
    /\ Go(c, "current")
    /\ UNCHANGED <<pending, conns, own, net, sentMsg3, device, oper>>

\* CurrentSession: what the table holds by now.
TakeCurrent(c) ==
    /\ pc[c] = "current"
    /\ own' = [own EXCEPT ![c] = sessions]
    /\ Go(c, "register")
    /\ UNCHANGED <<tables, net, sentMsg3, device, oper>>

\* Mutant: the connection replaced is left open.
HangUpReplacedNever(c) == net

HangUpReplaced(c) == IF conns = None THEN net ELSE Hung(net, conns)

registerConn(c) ==
    /\ pc[c] = "register"
    /\ net' = HangUpReplaced(c) /\ conns' = c
    /\ Go(c, "serve")
    /\ UNCHANGED <<pending, sessions, session, own, sentMsg3, device, oper>>

\* serveSession returns when the socket gives an error.
EndServe(c) ==
    /\ pc[c] = "serve" /\ net[c] # "open"
    /\ Go(c, "close")
    /\ UNCHANGED <<tables, own, net, sentMsg3, device, oper>>

\* Mutants: the session is left in the table; it is left in it, closed.
CloseTableNever(s) == UNCHANGED <<sessions, session>>
CloseTableKeepsEntry(s) == session' = [session EXCEPT ![s] = "closed"] /\ UNCHANGED sessions

\* Session.Close and the deletion of the entry, under Gateway.mu.
CloseTable(s) == session' = [session EXCEPT ![s] = "closed"] /\ sessions' = None

CloseSessionInstance(c) ==
    /\ pc[c] = "close"
    /\ IF own[c] # None /\ sessions = own[c]
       THEN CloseTable(sessions)
       ELSE UNCHANGED <<sessions, session>>
    /\ Go(c, "unregister")
    /\ UNCHANGED <<pending, conns, own, net, sentMsg3, device, oper>>

\* Mutant: unregisterConn as it would be without comparing the entries.
ConnsWithoutAnyway(c) == None

ConnsWithout(c) == IF conns = c THEN None ELSE conns

unregisterConn(c) ==
    /\ pc[c] = "unregister"
    /\ conns' = ConnsWithout(c) /\ Go(c, "return")
    /\ UNCHANGED <<pending, sessions, session, own, net, sentMsg3, device, oper>>

\* The deferred conn.Close of handleConn.
Return(c) ==
    /\ pc[c] = "return"
    /\ net' = Hung(net, c) /\ Go(c, "done")
    /\ UNCHANGED <<tables, own, sentMsg3, device, oper>>

-----------------------------------------------------------------------------
(* A failed firmware check: VerifyFirmwareCheck, in a handler that serves. *)

\* Handshakes the registry has let through and that have no session yet.
Admitted == {c \in Conns : pc[c] = "create"}

\* What Store.Revoke does to the record of a device, and what that leaves.
MarkRevoked ==
    /\ registry # "absent" /\ registry' = "revoked"
    /\ admitted' = IF registry = "active" THEN Admitted ELSE admitted

\* A call that fails returns before it closes the session in the table.
SpareSession == spared' = spared \cup ({sessions} \cap Conns)

\* The verdict is that the device is revoked: Store.Revoke...
FirmwareRevokes(c) ==
    /\ pc[c] = "serve" /\ MarkRevoked /\ Go(c, "judged")
    /\ UNCHANGED <<tables, own, net, sentMsg3, device, keys, operator, operatorConn,
                   operations, spared>>

\* ... which may fail, with the record marked: then the handler reads on.
FirmwareRevokeFails(c) ==
    /\ pc[c] = "serve" /\ MarkRevoked /\ SpareSession
    /\ UNCHANGED <<tables, pc, own, net, sentMsg3, device, keys, operator,
                   operatorConn, operations>>

\* ... then the session in the table is closed, and serveSession returns: the
\* handler ends its own connection, and nobody calls Disconnect.
FirmwareCloses(c) ==
    /\ pc[c] = "judged" /\ Go(c, "close")
    /\ IF sessions # None THEN CloseTable(sessions) ELSE UNCHANGED <<sessions, session>>
    /\ UNCHANGED <<pending, conns, own, net, sentMsg3, device, oper>>

Handler(c) ==
    \/ LookupMsg1(c) \/ PutPending(c) \/ ReadMsg3(c) \/ TakePending(c)
    \/ LookupMsg3(c) \/ CreateSession(c) \/ TakeCurrent(c) \/ registerConn(c)
    \/ EndServe(c) \/ FirmwareCloses(c) \/ CloseSessionInstance(c)
    \/ unregisterConn(c) \/ Return(c)
-----------------------------------------------------------------------------
(* The operator: the REST handlers, and the scheduler's revocation.  Their *)
(* calls are taken one at a time here; Registry.tla has several at once.   *)

Begins(operation) ==
    /\ operator = "idle" /\ operation \in Operations /\ operations < MaxOperations
    /\ operations' = operations + 1

\* RevokeDevice: Store.Revoke...
StoreRevoke ==
    /\ Begins("revoke") /\ MarkRevoked /\ operator' = "revoke"
    /\ UNCHANGED <<tables, pc, own, net, sentMsg3, device, keys, operatorConn, spared>>

\* ... which may fail, with the record marked or not.  The session is not closed
\* then; the REST handler returns, and the scheduler goes on to Disconnect.
StoreRevokeFails ==
    /\ Begins("revoke") /\ operator' \in {"idle", "disconnect"}
    /\ \/ MarkRevoked /\ SpareSession
       \/ UNCHANGED <<registry, histories>>
    /\ UNCHANGED <<tables, pc, own, net, sentMsg3, device, keys, operatorConn>>

\* ... then the session in the table is closed...
RevokeCloses ==
    /\ operator = "revoke" /\ operator' = "disconnect"
    /\ IF sessions # None THEN CloseTable(sessions) ELSE UNCHANGED <<sessions, session>>
    /\ UNCHANGED <<pending, conns, pc, own, net, sentMsg3, device,
                   registry, keys, operatorConn, operations, histories>>

\* Mutant: the socket of a revoked device is nobody's business.
FindConnNever ==
    /\ operator = "disconnect" /\ operator' = "idle"
    /\ UNCHANGED <<tables, pc, own, net, sentMsg3, device,
                   registry, keys, operatorConn, operations, histories>>

\* ... and Server.Disconnect takes the registered entry...
FindConn ==
    /\ operator = "disconnect"
    /\ operatorConn' = conns /\ operator' = IF conns = None THEN "idle" ELSE "disconnecting"
    /\ UNCHANGED <<tables, pc, own, net, sentMsg3, device,
                   registry, keys, operations, histories>>

\* ... and closes it, whether or not it is still the registered one.
Disconnect ==
    /\ operator = "disconnecting" /\ operator' = "idle"
    /\ net' = Hung(net, operatorConn) /\ operatorConn' = None
    /\ UNCHANGED <<tables, pc, own, sentMsg3, device,
                   registry, keys, operations, histories>>

\* DeleteDevice closes the session first; no caller disconnects the device.
DeleteCloses ==
    /\ Begins("delete") /\ registry # "absent" /\ operator' = "delete"
    /\ IF sessions # None THEN CloseTable(sessions) ELSE UNCHANGED <<sessions, session>>
    /\ UNCHANGED <<pending, conns, pc, own, net, sentMsg3, device, registry, keys,
                   operatorConn, histories>>

\* Store.Delete, whose answer does not matter any more: it may have failed.
StoreDelete ==
    /\ operator = "delete" /\ operator' = "idle"
    /\ \/ registry' = "absent" /\ admitted' = Admitted \cup ({sessions} \cap Conns)
       \/ UNCHANGED <<registry, admitted>>
    /\ UNCHANGED <<tables, pc, own, net, sentMsg3, device, keys, operatorConn,
                   operations, spared>>

\* RegisterDevice, whose answer does not matter either.
Register ==
    /\ operator = "idle" /\ "register" \in Operations
    /\ registry = "absent" /\ registry' = "active"
    /\ keys' \in Boards
    /\ UNCHANGED <<tables, pc, own, net, sentMsg3, device,
                   operator, operatorConn, operations, histories>>

\* ReregisterDevice: Store.Get, which refuses a revoked device...
GetReregistered ==
    /\ Begins("reregister") /\ registry = "active" /\ operator' = "rekey"
    /\ UNCHANGED <<tables, pc, own, net, sentMsg3, device, registry, keys,
                   operatorConn, histories>>

\* ... then Store.Reregister, which leaves a revocation as it is...
StoreReregister ==
    /\ operator = "rekey" /\ operator' = "reregister"
    /\ keys' \in Boards /\ admitted' = Admitted
    /\ UNCHANGED <<tables, pc, own, net, sentMsg3, device, registry, operatorConn,
                   operations, spared>>

\* ... and may fail, with the keys replaced or not: the session stays.
StoreReregisterFails ==
    /\ operator = "rekey" /\ operator' = "idle"
    /\ \/ keys' \in Boards /\ admitted' = Admitted /\ SpareSession
       \/ UNCHANGED <<keys, histories>>
    /\ UNCHANGED <<tables, pc, own, net, sentMsg3, device, registry, operatorConn,
                   operations>>

\* Mutant: the session is left on the keys that were replaced.
ReregisterClosesNothing ==
    /\ operator = "reregister" /\ operator' = "idle"
    /\ UNCHANGED <<tables, pc, own, net, sentMsg3, device,
                   registry, keys, operatorConn, operations, histories>>

\* ... then the session in the table is closed; the socket is not.
ReregisterCloses ==
    /\ operator = "reregister" /\ operator' = "idle"
    /\ IF sessions # None THEN CloseTable(sessions) ELSE UNCHANGED <<sessions, session>>
    /\ UNCHANGED <<pending, conns, pc, own, net, sentMsg3, device,
                   registry, keys, operatorConn, operations, histories>>

Operator ==
    \/ StoreRevoke \/ StoreRevokeFails \/ RevokeCloses \/ FindConn \/ Disconnect
    \/ DeleteCloses \/ StoreDelete \/ Register
    \/ GetReregistered \/ StoreReregister \/ StoreReregisterFails \/ ReregisterCloses

Next ==
    \/ \E c \in Conns :
          \/ Connect(c) \/ SendMsg3(c) \/ Drop(c) \/ Handler(c)
          \/ FirmwareRevokes(c) \/ FirmwareRevokeFails(c)
    \/ Prune \/ Operator

Spec == Init /\ [][Next]_vars

(***************************************************************************)
(* Goroutines and the calls an operator has begun run on; nothing makes    *)
(* the device connect, answer, leave or fail a check, or the operator      *)
(* begin.                                                                  *)
(***************************************************************************)
Fairness ==
    /\ \A c \in Conns : WF_vars(Handler(c))
    /\ WF_vars(RevokeCloses \/ FindConn \/ Disconnect \/ StoreDelete
               \/ StoreReregister \/ StoreReregisterFails \/ ReregisterCloses)

FairSpec == Spec /\ Fairness
-----------------------------------------------------------------------------
(* What holds.                                                             *)

(***************************************************************************)
(* OneServed: of all the handlers that serve the device at once, those     *)
(* whose connection is not the registered one have had their socket        *)
(* closed; so two live connections never both carry the device's frames    *)
(* (registerConn, and the comparison in unregisterConn).                   *)
(***************************************************************************)
OneServed == \A c \in Conns : pc[c] = "serve" /\ net[c] = "open" => conns = c

(***************************************************************************)
(* TableOpen: the session in the table is one that has not been closed,    *)
(* whichever of the handlers and the operator closes sessions (a closed    *)
(* one would answer every frame with an error).                            *)
(***************************************************************************)
TableOpen == sessions # None => session[sessions] = "open"

(***************************************************************************)
(* ShutOutUnlessAdmitted: once the calls that revoked or deleted a device, *)
(* or replaced its keys, are over, it has a session only                   *)
(*   - from a handshake that was past the registry when that changed, or   *)
(*     that completed between the two halves of DeleteDevice;              *)
(*   - or the one it had when a call of the registry failed that had done  *)
(*     its work: then nobody closes it.                                    *)
(* None of these operations shuts it out at once (gateway.go:160-164,      *)
(* 349-351 and 403-404 say they do), and this is all that gets through.    *)
(***************************************************************************)
ShuttingOut ==
    operator \in {"revoke", "reregister"} \/ \E c \in Conns : pc[c] = "judged"

ShutOutUnlessAdmitted ==
    ~ShuttingOut /\ sessions # None
        => Welcome(sessions) \/ sessions \in admitted \cup spared

(***************************************************************************)
(* SupersededGivesWay: a handler whose attempt has been superseded leaves  *)
(* the pending entry to its owner, so a fast reconnect does not break both *)
(* connections (HandleMsg3Tracked; ROBUSTNESS.md, "A fast reconnect broke  *)
(* BOTH connections").                                                     *)
(***************************************************************************)
SupersededGivesWay ==
    [][\A c, d \in Conns :
          pending = c /\ d # c /\ pc[d] = "take" /\ pc'[d] # "take" => pending' = c]_vars

(***************************************************************************)
(* NothingLeft: when no connection is open any more, the two tables are    *)
(* emptied, whatever the order in which the handlers of overlapping        *)
(* connections finished: neither a session key nor a dead entry is kept    *)
(* (ROBUSTNESS.md, "Sessions were not released when a connection ended").  *)
(***************************************************************************)
Connected == \E c \in Conns : net[c] = "open"
NothingLeft == ~Connected ~> (Connected \/ (sessions = None /\ conns = None))

(***************************************************************************)
(* RevokedIsDisconnected: a device whose handlers are all serving when the *)
(* operator has revoked it, or when the scheduler has tried to, comes to   *)
(* have no open connection (Disconnect; whether it may make another is the *)
(* registry's affair).  A failed firmware check promises less: it ends the *)
(* connection of its handler, which need not be the registered one.        *)
(***************************************************************************)
Settled == \A c \in Conns : pc[c] \in {"unopened", "serve", "done"}
Revoking == operator \in {"revoke", "disconnect"} /\ Settled
RevokedIsDisconnected == Revoking ~> ~Connected
-----------------------------------------------------------------------------
(* The inductive invariant behind the invariants above.                    *)

\* A registered connection is one that serves or is leaving; a connection has
\* a handler exactly once it is opened.
Placed ==
    /\ conns # None => pc[conns] \in {"serve", "judged", "close", "unregister"}
    /\ \A c \in Conns : net[c] = "unopened" <=> pc[c] = "unopened"

\* Past the registry that has shut the device out there are admitted handshakes only.
AdmittedInv ==
    \A c \in Conns : pc[c] = "create" => Welcome(c) \/ c \in admitted

(***************************************************************************)
(* GatewayInv: the connection registered, the session in the table and the *)
(* handlers' places agree, at every interleaving of the locked sections.   *)
(***************************************************************************)
GatewayInv ==
    /\ TypeOK /\ Placed /\ OneServed /\ TableOpen
    /\ AdmittedInv /\ ShutOutUnlessAdmitted
-----------------------------------------------------------------------------
(* What the repository says and the code does not do.                      *)

(***************************************************************************)
(* ClosesItsOwn: when its connection ends, a handler closes the session of *)
(* its own handshake and no other ("we close strictly our own session",    *)
(* server.go:380-382, and session.go:116-117 on the wiping of its key).    *)
(* After a reconnection it may find the new session to be its own and      *)
(* close that, or not find its own in the table and leave it open.         *)
(***************************************************************************)
ClosesItsOwn ==
    [][\A c \in Conns :
          CloseSessionInstance(c) => session' = [session EXCEPT ![c] = "closed"]]_vars
=============================================================================
