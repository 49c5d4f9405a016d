---------------------------- MODULE Reconnection ----------------------------
(***************************************************************************)
(* A device that reconnects while the gateway is still busy with a control *)
(* frame of the connection before (serveSession in                         *)
(* internal/transport/tcpserver, and what it calls in internal/gateway).   *)
(*                                                                         *)
(* A handler finds the device's session in the table anew at every call:   *)
(* once for the key the frame's tag is checked with, and once more for the *)
(* session the rotation is applied to.  The scheduler does the same, and   *)
(* takes the connection it writes to from another table.  Rotation.tla has *)
(* one handler at a time and Gateway.tla no frames; here handlers overlap  *)
(* and rotate.  A connection and the session of its handshake have one     *)
(* number.                                                                 *)
(*                                                                         *)
(* A handshake is one step, the gateway's creation of the session.  Each   *)
(* operation of the device is one too, and data packets, which change no   *)
(* key, and revocations are left out: both are in Rotation.tla.            *)
(***************************************************************************)
EXTENDS Naturals, Sequences, Session

CONSTANTS
    MaxConns,   \* bound: connections the device opens
    MaxSecrets  \* bound: fresh KEM secrets drawn by both initiators

ASSUME ReconnectionAssumption == MaxConns \in Nat \ {0} /\ MaxSecrets \in Nat

Conns == 1..MaxConns
None == 0

VARIABLES
    gw,         \* the gateway's session objects, one of each connection
    dev,        \* the device's session, of its last connection
    current,    \* the device's last connection
    sessions,   \* Gateway.sessions: the session in the table
    conns,      \* Server.conns: the registered connection
    net,        \* each socket: "unopened", "open", or which end closed it
    toGw, toDev,\* frames in flight on each connection, and on the last
    pc, frame,  \* where each handler is and the frame it holds
    target,     \* the session its rotation is applied to
    own,        \* handleConn's ownSession
    schedPc, schedConn, schedFrame,  \* as in Rotation.tla
    schedTarget,\* the session the scheduler has fetched to rotate
    secrets,    \* how many KEM secrets there have been
    strays      \* history: frames each handler has applied to another's session

tables == <<sessions, conns, own>>
device == <<dev, current>>
wires  == <<net, toGw, toDev>>
hands  == <<pc, frame, target>>
sched  == <<schedPc, schedConn, schedFrame, schedTarget>>
vars   == <<gw, device, tables, wires, hands, sched, secrets, strays>>

Frame == [type: {"none", "rotationV2", "rotationAck"}, iteration: Nat, mi: Nat, key: Key]

FrameOf(type, it, mi, k) == [type |-> type, iteration |-> it, mi |-> mi, key |-> k]
NoFrame == FrameOf("none", 0, 0, NoKey)
RotationV2(it, mi, k) == FrameOf("rotationV2", it, mi, k)
RotationAck(it, k) == FrameOf("rotationAck", it, 0, k)

Prefixes(q) == {SubSeq(q, 1, n) : n \in 0..Len(q)}

TypeOK ==
    /\ gw \in [Conns -> SessionType] /\ dev \in SessionType
    /\ current \in Conns
    /\ {sessions, conns, schedConn, schedTarget} \subseteq Conns \cup {None}
    /\ {own, target} \subseteq [Conns -> Conns \cup {None}]
    /\ net \in [Conns -> {"unopened", "open", "device", "gateway"}]
    /\ toGw \in [Conns -> Seq(Frame)] /\ toDev \in Seq(Frame)
    /\ pc \in [Conns -> {"unopened", "register", "read", "check", "fetch", "apply",
                         "commit", "reply", "unregister", "done"}]
    /\ frame \in [Conns -> Frame] /\ schedFrame \in Frame
    /\ schedPc \in {"idle", "rotate", "initiate", "begin", "begun", "disconnect", "close"}
    /\ secrets \in Nat /\ strays \in [Conns -> Nat]

\* The device is connected for the first time.
Init ==
    /\ gw = [c \in Conns |-> IF c = 1 THEN NewSession(DeriveK0(1))
                                      ELSE Close(NewSession(NoKey))]
    /\ dev = NewSession(DeriveK0(1)) /\ current = 1
    /\ sessions = 1 /\ conns = 1 /\ own = [c \in Conns |-> IF c = 1 THEN 1 ELSE None]
    /\ net = [c \in Conns |-> IF c = 1 THEN "open" ELSE "unopened"]
    /\ toGw = [c \in Conns |-> <<>>] /\ toDev = <<>>
    /\ pc = [c \in Conns |-> IF c = 1 THEN "read" ELSE "unopened"]
    /\ frame = [c \in Conns |-> NoFrame] /\ target = [c \in Conns |-> None]
    /\ schedPc = "idle" /\ schedConn = None /\ schedTarget = None /\ schedFrame = NoFrame
    /\ secrets = 0 /\ strays = [c \in Conns |-> 0]

Go(c, step) == pc' = [pc EXCEPT ![c] = step]
ReadNext(c) == Go(c, "read") /\ frame' = [frame EXCEPT ![c] = NoFrame]

\* Only on its last connection, and while it is open, is there a device.
Delivered(c, f) == IF c = current /\ net[c] = "open" THEN Append(toDev, f) ELSE toDev

\* This end closes a socket: what it had not read is lost.
HangUp(c) ==
    IF c # None /\ net[c] = "open"
    THEN net' = [net EXCEPT ![c] = "gateway"] /\ toGw' = [toGw EXCEPT ![c] = <<>>]
    ELSE UNCHANGED <<net, toGw>>
-----------------------------------------------------------------------------
(* The device, and its next connection.                                    *)

DevConnected == ~dev.closed /\ net[current] = "open"

\* A RotationV2 of the gateway: the new key, and the ACK under the old one.
DevRotate ==
    /\ DevConnected /\ toDev # <<>> /\ Head(toDev).type = "rotationV2"
    /\ LET f == Head(toDev) IN
       IF f.key = dev.key /\ CanRespond(dev, f.iteration)
       THEN /\ dev' = RespondToRotationAtomic(dev, f.mi, f.iteration)
            /\ toGw' = [toGw EXCEPT ![current] = Append(@, RotationAck(f.iteration, dev.key))]
       ELSE UNCHANGED <<dev, toGw>>
    /\ toDev' = Tail(toDev)
    /\ UNCHANGED <<gw, current, tables, net, hands, sched, secrets, strays>>

DevAck ==
    /\ DevConnected /\ toDev # <<>> /\ Head(toDev).type = "rotationAck"
    /\ dev' = IF Head(toDev).key = dev.key /\ CanApplyAck(dev, Head(toDev).iteration)
              THEN ApplyRotationAck(dev) ELSE dev
    /\ toDev' = Tail(toDev)
    /\ UNCHANGED <<gw, current, tables, net, toGw, hands, sched, secrets, strays>>

\* ForceAtomicRotation, RotateIfNeededAtomic.
DevInitiate ==
    /\ DevConnected /\ CanBegin(dev, dev.iteration + 1) /\ secrets < MaxSecrets
    /\ LET mi == secrets + 1  it == dev.iteration + 1 IN
       /\ dev' = BeginRotate(dev, mi, it) /\ secrets' = mi
       /\ toGw' = [toGw EXCEPT ![current] = Append(@, RotationV2(it, mi, dev.key))]
    /\ UNCHANGED <<gw, current, tables, net, toDev, hands, sched, strays>>

\* It leaves, at any moment, or finds that the gateway has hung up.
DevHangUp ==
    /\ ~dev.closed
    /\ dev' = Close(dev) /\ toDev' = <<>>
    /\ IF net[current] = "open"
       THEN /\ net' = [net EXCEPT ![current] = "device"]
            /\ \E q \in Prefixes(toGw[current]) : toGw' = [toGw EXCEPT ![current] = q]
       ELSE UNCHANGED <<net, toGw>>
    /\ UNCHANGED <<gw, current, tables, hands, sched, secrets, strays>>

\* The second locked section of handleMsg3, whatever the handlers before do.
Establish(d) ==
    /\ dev.closed /\ d = current + 1
    /\ current' = d /\ dev' = NewSession(DeriveK0(d)) /\ toDev' = <<>>
    /\ net' = [net EXCEPT ![d] = "open"]
    /\ gw' = [gw EXCEPT ![d] = NewSession(DeriveK0(d))] /\ sessions' = d
    /\ Go(d, "register")
    /\ UNCHANGED <<conns, own, toGw, frame, target, sched, secrets, strays>>
-----------------------------------------------------------------------------
(* A handler.                                                              *)

\* CurrentSession and registerConn.
registerConn(c) ==
    /\ pc[c] = "register"
    /\ own' = [own EXCEPT ![c] = sessions] /\ conns' = c
    /\ HangUp(conns) /\ Go(c, "read")
    /\ UNCHANGED <<gw, device, sessions, toDev, frame, target, sched, secrets, strays>>

ReadFrame(c) ==
    /\ pc[c] = "read" /\ net[c] # "gateway" /\ toGw[c] # <<>>
    /\ frame' = [frame EXCEPT ![c] = Head(toGw[c])]
    /\ toGw' = [toGw EXCEPT ![c] = Tail(@)]
    /\ Go(c, "check")
    /\ UNCHANGED <<gw, device, tables, net, toDev, target, sched, secrets, strays>>

\* Mutant: a control frame that carries no tag.
TagVerifiesAny(c) == sessions # None

\* The tag, under the key of the session in the table.
TagVerifies(c) == sessions # None /\ frame[c].key = gw[sessions].key

CheckTag(c) ==
    /\ pc[c] = "check"
    /\ IF TagVerifies(c) THEN Go(c, "fetch") /\ UNCHANGED frame ELSE ReadNext(c)
    /\ UNCHANGED <<gw, device, tables, wires, target, sched, secrets, strays>>

\* Gateway.session, at the top of the Gateway's method: whose it is by now.
FetchSession(c) ==
    /\ pc[c] = "fetch"
    /\ IF sessions # None
       THEN target' = [target EXCEPT ![c] = sessions] /\ Go(c, "apply") /\ UNCHANGED frame
       ELSE ReadNext(c) /\ UNCHANGED target
    /\ UNCHANGED <<gw, device, tables, wires, sched, secrets, strays>>

\* The handler of c applies its frame to s.
Applied(c, s) == strays' = IF s = c THEN strays ELSE [strays EXCEPT ![c] = @ + 1]

ApplyAck(c) ==
    /\ pc[c] = "apply" /\ frame[c].type = "rotationAck"
    /\ LET s == target[c] IN
       IF CanApplyAck(gw[s], frame[c].iteration)
       THEN gw' = [gw EXCEPT ![s] = ApplyRotationAck(@)] /\ Applied(c, s)
       ELSE UNCHANGED <<gw, strays>>
    /\ ReadNext(c)
    /\ UNCHANGED <<device, tables, wires, target, sched, secrets>>

\* RespondToRotationAtomic locks the session twice: BeginRotate ...
BeginResponse(c) ==
    /\ pc[c] = "apply" /\ frame[c].type = "rotationV2"
    /\ LET s == target[c]  f == frame[c] IN
       IF CanRespond(gw[s], f.iteration)
       THEN /\ gw' = [gw EXCEPT ![s] = BeginRotate(@, f.mi, f.iteration)] /\ Applied(c, s)
            /\ Go(c, "commit") /\ UNCHANGED frame
       ELSE ReadNext(c) /\ UNCHANGED <<gw, strays>>
    /\ UNCHANGED <<device, tables, wires, target, sched, secrets>>

\* ... and CommitRotate, of what is pending by then.
CommitResponse(c) ==
    /\ pc[c] = "commit"
    /\ LET s == target[c] IN
       IF CanCommit(gw[s])
       THEN gw' = [gw EXCEPT ![s] = CommitRotate(@)] /\ Go(c, "reply") /\ UNCHANGED frame
       ELSE ReadNext(c) /\ UNCHANGED gw
    /\ UNCHANGED <<device, tables, wires, target, sched, secrets, strays>>

\* The ACK, on the handler's own connection, under the key of the check;
\* ioMu keeps it out of InitiateAtomicRotation.
Reply(c) ==
    /\ pc[c] = "reply" /\ ~(schedPc \in {"begin", "begun"} /\ schedConn = c)
    /\ toDev' = Delivered(c, RotationAck(frame[c].iteration, frame[c].key))
    /\ ReadNext(c)
    /\ UNCHANGED <<gw, device, tables, net, toGw, target, sched, secrets, strays>>

\* The read fails; CloseSessionInstance.
EndServe(c) ==
    /\ pc[c] = "read" /\ net[c] # "open" /\ toGw[c] = <<>>
    /\ IF own[c] # None /\ sessions = own[c]
       THEN gw' = [gw EXCEPT ![sessions] = Close(@)] /\ sessions' = None
       ELSE UNCHANGED <<gw, sessions>>
    /\ Go(c, "unregister")
    /\ UNCHANGED <<device, conns, own, wires, frame, target, sched, secrets, strays>>

ConnsWithout(c) == IF conns = c THEN None ELSE conns

\* unregisterConn, and the end of the goroutine.
unregisterConn(c) ==
    /\ pc[c] = "unregister" /\ Go(c, "done")
    /\ conns' = ConnsWithout(c)
    /\ UNCHANGED <<gw, device, sessions, own, wires, frame, target, sched, secrets, strays>>

Handler(c) ==
    \/ registerConn(c) \/ ReadFrame(c) \/ CheckTag(c) \/ FetchSession(c) \/ ApplyAck(c)
    \/ BeginResponse(c) \/ CommitResponse(c) \/ Reply(c) \/ EndServe(c) \/ unregisterConn(c)
-----------------------------------------------------------------------------
(* The scheduler, on whatever the tables hold at each of its calls.        *)

SchedTick ==
    /\ schedPc = "idle" /\ conns # None /\ schedPc' = "rotate"
    /\ UNCHANGED <<gw, device, tables, wires, hands, schedConn, schedFrame, schedTarget,
                   secrets, strays>>

Pending == sessions # None /\ gw[sessions].pendingActive

\* Mutant: a session that has been rotated once is taken for a sound one.
StaleOnlyFirst == Pending /\ gw[sessions].iteration = 0

\* Any pending rotation may have waited for RotationAckTimeout.
Stale == Pending

\* AbortStaleRotationIfNeeded
SchedAbort ==
    /\ schedPc = "rotate" /\ Stale
    /\ gw' = [gw EXCEPT ![sessions] = AbortRotate(@)] /\ schedPc' = "disconnect"
    /\ UNCHANGED <<device, tables, wires, hands, schedConn, schedFrame, schedTarget,
                   secrets, strays>>

\* HasPendingRotation, or no rotation due.
SchedWait ==
    /\ schedPc = "rotate" /\ schedPc' = "idle"
    /\ UNCHANGED <<gw, device, tables, wires, hands, schedConn, schedFrame, schedTarget,
                   secrets, strays>>

\* NeedsRotation, and activeConn of InitiateAtomicRotation.
SchedDecide ==
    /\ schedPc = "rotate" /\ sessions # None /\ ~Pending /\ conns # None
    /\ schedPc' = "initiate" /\ schedConn' = conns
    /\ UNCHANGED <<gw, device, tables, wires, hands, schedFrame, schedTarget,
                   secrets, strays>>

\* InitiateAtomicRotationToDevice: Gateway.session ...
SchedFetch ==
    /\ schedPc = "initiate"
    /\ schedTarget' = sessions /\ schedPc' = IF sessions = None THEN "idle" ELSE "begin"
    /\ UNCHANGED <<gw, device, tables, wires, hands, schedConn, schedFrame, secrets, strays>>

\* ... and, after a look into the registry, InitiateRotationAtomic.
SchedBegin ==
    /\ schedPc = "begin"
    /\ LET s == schedTarget  it == gw[s].iteration + 1  mi == secrets + 1 IN
       IF secrets < MaxSecrets /\ CanBegin(gw[s], it)
       THEN /\ gw' = [gw EXCEPT ![s] = BeginRotate(@, mi, it)]
            /\ schedFrame' = RotationV2(it, mi, NoKey)
            /\ secrets' = mi /\ schedPc' = "begun"
       ELSE schedPc' = "idle" /\ UNCHANGED <<gw, schedFrame, secrets>>
    /\ schedTarget' = None
    /\ UNCHANGED <<device, tables, wires, hands, schedConn, strays>>

\* ControlKey, and the write.
SchedWrite ==
    /\ schedPc = "begun" /\ schedPc' = "idle" /\ schedFrame' = NoFrame
    /\ toDev' = IF sessions = None THEN toDev
                ELSE Delivered(schedConn, [schedFrame EXCEPT !.key = gw[sessions].key])
    /\ UNCHANGED <<gw, device, tables, net, toGw, hands, schedConn, schedTarget,
                   secrets, strays>>

\* Mutant: the rotation is simply tried again.
SchedRetry ==
    /\ schedPc = "disconnect" /\ schedPc' = "idle"
    /\ UNCHANGED <<gw, device, tables, wires, hands, schedConn, schedFrame, schedTarget,
                   secrets, strays>>

\* Disconnect: activeConn ...
SchedDisconnect ==
    /\ schedPc = "disconnect"
    /\ schedConn' = conns /\ schedPc' = IF conns = None THEN "idle" ELSE "close"
    /\ UNCHANGED <<gw, device, tables, wires, hands, schedFrame, schedTarget,
                   secrets, strays>>

\* ... and Close, of a connection that may have been replaced since.
SchedClose ==
    /\ schedPc = "close" /\ schedPc' = "idle" /\ HangUp(schedConn)
    /\ UNCHANGED <<gw, device, tables, toDev, hands, schedConn, schedFrame, schedTarget,
                   secrets, strays>>

Scheduler ==
    \/ SchedTick \/ SchedAbort \/ SchedWait \/ SchedDecide
    \/ SchedFetch \/ SchedBegin \/ SchedWrite \/ SchedDisconnect \/ SchedClose

Next ==
    \/ DevRotate \/ DevAck \/ DevInitiate \/ DevHangUp
    \/ \E c \in Conns : Establish(c) \/ Handler(c)
    \/ Scheduler

Spec == Init /\ [][Next]_vars

(***************************************************************************)
(* Goroutines and the device's reader run on.  A session that lasts comes  *)
(* due for rotation (NeedsRotation), and of infinitely many ticks of a     *)
(* pending rotation one comes after RotationAckTimeout.                    *)
(***************************************************************************)
Fairness ==
    /\ \A c \in Conns : WF_vars(Handler(c))
    /\ WF_vars(DevRotate \/ DevAck) /\ WF_vars(Scheduler)
    /\ SF_vars(SchedAbort) /\ SF_vars(SchedDecide)

FairSpec == Spec /\ Fairness
-----------------------------------------------------------------------------
(* What holds.                                                             *)

(***************************************************************************)
(* OneStray: a handler applies at most one frame to the session of another *)
(* connection, the one whose tag it had checked when the device came      *)
(* back: no later frame of its connection verifies under the new session's *)
(* key, whatever its number, and however long the handler lives on         *)
(* (ControlKey, DecodeRotationV2, DecodeRotationAck).                      *)
(***************************************************************************)
OneStray == \A c \in Conns : strays[c] <= 1

(***************************************************************************)
(* ReconnectionInv: whatever handlers of successive connections and the    *)
(* scheduler do to each other's sessions, the session in the table is open,*)
(* the connection registered has a handler, and every rotation in progress *)
(* is of the next number and of the key in force: two of them never        *)
(* interleave in one session (BeginRotate, commitRotateLocked).  And of    *)
(* each handler at most one frame goes astray.                             *)
(***************************************************************************)
ReconnectionInv ==
    /\ TypeOK /\ OneStray
    /\ sessions # None => ~gw[sessions].closed
    /\ conns # None => pc[conns] \notin {"unopened", "done"}
    /\ \A c \in Conns : gw[c].pendingActive =>
          /\ gw[c].pendingIteration = gw[c].iteration + 1
          /\ Derived(gw[c].pendingKey, gw[c].key)

\* The gateway's session of the device's connection, both of them in use.
Facing == ~dev.closed /\ net[current] = "open" /\ ~gw[current].closed

CommitsCurrent == gw'[current].iteration = gw[current].iteration + 1

(***************************************************************************)
(* ConfirmedUnlessStray: as long as no handler has strayed, the gateway    *)
(* moves to a new key only when the device holds it, in force or pending,  *)
(* although sessions, connections and the handlers' and the scheduler's    *)
(* ideas of them change at every moment: neither a rollback that ends the  *)
(* connection before this one nor a rotation written on a connection that  *)
(* has been replaced makes it commit anything else (maybeRotate,           *)
(* InitiateAtomicRotation, ApplyRotationAck).  A stray ACK does: it        *)
(* confirms a rotation of the last session, and commits the one of the     *)
(* same number that the scheduler has begun in the new session.            *)
(***************************************************************************)
ConfirmedUnlessStray ==
    [][Facing /\ CommitsCurrent /\ (\A c \in Conns : strays'[c] = 0)
         => gw'[current].key \in {dev.key, dev.pendingKey}]_vars

(***************************************************************************)
(* AgreementUnlessStray: as long as no handler has strayed, the connection *)
(* of the device is the link of KeyAgreement.  Whatever handlers of        *)
(* earlier connections, the scheduler and the two tables make of each      *)
(* other, one end at a time moves a key ahead and the other only follows   *)
(* to that very key; a rotation that is rolled back costs the connection   *)
(* before anybody moves again; and the next connection starts afresh       *)
(* (serveSession, handleMsg3, maybeRotate).                                *)
(***************************************************************************)
NoStrays == \A c \in Conns : strays[c] = 0
Linked == Facing /\ NoStrays

Link == INSTANCE KeyAgreement WITH
    up     <- Linked,
    gwKey  <- IF Linked THEN gw[current].key ELSE NoKey,
    devKey <- IF Linked THEN dev.key ELSE NoKey

AgreementUnlessStray == Link!KaSpec

(***************************************************************************)
(* ApartHeals: ends that hold different keys, after a stray rotation as    *)
(* well, do not stay that way: the rotation that comes due is not answered *)
(* and the connection is ended, or they meet.  Past the bound on secrets   *)
(* no rotation comes due.                                                  *)
(***************************************************************************)
Apart == Facing /\ gw[current].key # dev.key
ApartHeals == Apart ~> (~Apart \/ secrets = MaxSecrets)
=============================================================================
