------------------------------ MODULE Rotation ------------------------------
(***************************************************************************)
(* Atomic key rotation between the gateway and one device.                 *)
(*                                                                         *)
(* Four threads share the two sessions: on the gateway the goroutine that  *)
(* serves the connection (tcpserver.serveSession) and the scheduler        *)
(* (scheduler.tick); on the device the thread that reads frames            *)
(* (tcpclient.Listen, lacert_handle_incoming) and the one that sends       *)
(* telemetry.  They talk over one TCP connection: two FIFO channels that   *)
(* lose nothing while it is open and may lose any suffix when it ends.     *)
(*                                                                         *)
(* Time is abstract: a rotation may be due at any tick and an unanswered   *)
(* one may be stale at any tick.  A new handshake waits for the handler of *)
(* the previous connection to return; overlapping handlers belong to       *)
(* Gateway.tla.                                                            *)
(***************************************************************************)
EXTENDS Integers, Sequences, Session

CONSTANTS
    MaxConns,             \* bound: handshakes in a behaviour
    MaxSecrets,           \* bound: fresh KEM secrets drawn by both initiators
    MaxQueue,             \* bound: frames in flight one way (socket buffers)
    MaxRotationFailures,  \* Scheduler.MaxRotationFailures
    DeviceInitiates,      \* the device calls ForceAtomicRotation
    Firmware              \* the device is the one-loop firmware, not tcpclient

ASSUME RotationAssumption ==
    /\ MaxConns \in Nat \ {0}
    /\ MaxSecrets \in Nat
    /\ MaxQueue \in Nat \ {0}
    /\ MaxRotationFailures \in Nat \ {0}
    /\ DeviceInitiates \in BOOLEAN
    /\ Firmware \in BOOLEAN
    /\ Firmware => ~DeviceInitiates

VARIABLES
    gw, dev,         \* the two session objects
    conn,            \* "open", or which end closed the connection
    toGw, toDev,     \* frames in flight
    gwPc, gwFrame,   \* handler goroutine and the frame it holds
    devPc, devFrame, \* reading thread of the device, the ACK it must write
    devSend,         \* frame the sending thread has sealed and not yet written
    schedPc,         \* where the scheduler is in maybeRotate
    schedFrame,      \* the RotationV2 it has begun and not yet written
    schedConn,       \* the connection whose connEntry it took
    failures,        \* Scheduler.rotationFailures[device]
    lastIteration,   \* Scheduler.lastIteration[device], -1 when absent
    revoked,         \* DeviceRecord.Revoked
    conns, secrets,  \* how many handshakes and KEM secrets there have been
    sinceSuccess     \* history: rollbacks since the gateway last committed, or
                     \* since the scheduler last gave the device up

netVars   == <<conn, toGw, toDev>>
gwVars    == <<gw, gwPc, gwFrame>>
devVars   == <<dev, devPc, devFrame, devSend>>
schedVars == <<schedPc, schedFrame, schedConn, failures, lastIteration, revoked>>
vars      == <<netVars, gwVars, devVars, schedVars, conns, secrets, sinceSuccess>>

FrameTypes == {"none", "data", "rotationV2", "rotationAck", "error"}

(***************************************************************************)
(* "key" is the key a data packet is sealed under or the control tag is    *)
(* computed with; a tag verifies exactly when the reader's key is that     *)
(* key, for nothing alters a frame in flight.  "mi" stands for the KEM     *)
(* ciphertext, which the peer's private key opens.                         *)
(***************************************************************************)
Frame == [type: FrameTypes, iteration: Nat, mi: Nat, key: Key]

NoFrame == [type |-> "none", iteration |-> 0, mi |-> 0, key |-> NoKey]
ErrorFrame == [NoFrame EXCEPT !.type = "error"]
DataFrame(k) == [NoFrame EXCEPT !.type = "data", !.key = k]
RotationV2(it, mi, k) ==
    [type |-> "rotationV2", iteration |-> it, mi |-> mi, key |-> k]
RotationAck(it, k) ==
    [type |-> "rotationAck", iteration |-> it, mi |-> 0, key |-> k]

Prefixes(q) == {SubSeq(q, 1, n) : n \in 0..Len(q)}

\* Server.conns still holds the entry until the handler has returned.
Registered == gwPc # "done"
NoSession == gw.closed

\* A write on a connection that has ended reaches nobody.
Written(q, f) == IF conn = "open" THEN Append(q, f) ELSE q
HasRoom(q) == conn = "open" => Len(q) < MaxQueue

TypeOK ==
    /\ gw \in SessionType /\ dev \in SessionType
    /\ conn \in {"open", "gateway", "device", "network"}
    /\ toGw \in Seq(Frame) /\ toDev \in Seq(Frame)
    /\ gwPc \in {"read", "check", "apply", "reply", "unregister", "done"}
    /\ devPc \in {"read", "reply", "done"}
    /\ gwFrame \in Frame /\ devFrame \in Frame
    /\ devSend \in Frame /\ schedFrame \in Frame
    /\ schedPc \in {"idle", "rotate", "initiate", "begun", "revoke", "disconnect", "close"}
    /\ schedConn \in Nat /\ failures \in Nat
    /\ lastIteration \in Nat \cup {-1}
    /\ revoked \in BOOLEAN
    /\ conns \in Nat /\ secrets \in Nat /\ sinceSuccess \in Nat

\* A handshake has just finished: both ends hold K0 and nothing is in flight.
Init ==
    /\ gw = NewSession(DeriveK0(1)) /\ dev = NewSession(DeriveK0(1))
    /\ conn = "open" /\ toGw = <<>> /\ toDev = <<>>
    /\ gwPc = "read" /\ gwFrame = NoFrame
    /\ devPc = "read" /\ devFrame = NoFrame /\ devSend = NoFrame
    /\ schedPc = "idle" /\ schedFrame = NoFrame /\ schedConn = 0
    /\ failures = 0 /\ lastIteration = -1 /\ revoked = FALSE
    /\ conns = 1 /\ secrets = 0 /\ sinceSuccess = 0
-----------------------------------------------------------------------------
(* The gateway's handler: serveSession and the end of handleConn.          *)

\* ReadFrame.  A socket this end has closed yields nothing more.
GwRead ==
    /\ gwPc = "read" /\ conn # "gateway" /\ toGw # <<>>
    /\ gwFrame' = Head(toGw) /\ toGw' = Tail(toGw)
    /\ gwPc' = "check"
    /\ UNCHANGED <<gw, conn, toDev, devVars, schedVars, conns, secrets, sinceSuccess>>

\* HandleData: whether the packet decrypts or not, the loop goes on.
GwData ==
    /\ gwPc = "check" /\ gwFrame.type = "data"
    /\ gwPc' = "read" /\ gwFrame' = NoFrame
    /\ UNCHANGED <<gw, netVars, devVars, schedVars, conns, secrets, sinceSuccess>>

\* ControlKey and the tag check; the key is taken before the rotation.
GwCheckTag ==
    /\ gwPc = "check" /\ gwFrame.type \in {"rotationV2", "rotationAck"}
    /\ IF ~NoSession /\ gwFrame.key = gw.key
       THEN gwPc' = "apply" /\ UNCHANGED gwFrame
       ELSE gwPc' = "read" /\ gwFrame' = NoFrame
    /\ UNCHANGED <<gw, netVars, devVars, schedVars, conns, secrets, sinceSuccess>>

\* HandleAtomicRotationFromDevice: the device is the initiator.
GwRespond ==
    /\ gwPc = "apply" /\ gwFrame.type = "rotationV2"
    /\ IF CanRespond(gw, gwFrame.iteration)
       THEN /\ gw' = RespondToRotationAtomic(gw, gwFrame.mi, gwFrame.iteration)
            /\ gwPc' = "reply"
            /\ gwFrame' = RotationAck(gwFrame.iteration, gwFrame.key)
            /\ sinceSuccess' = 0
       ELSE /\ gwPc' = "read" /\ gwFrame' = NoFrame
            /\ UNCHANGED <<gw, sinceSuccess>>
    /\ UNCHANGED <<netVars, devVars, schedVars, conns, secrets>>

\* entry.write of the ACK, under ioMu: not between the scheduler's BeginRotate
\* and its write on the same connection.
GwReply ==
    /\ gwPc = "reply" /\ HasRoom(toDev)
    /\ ~(schedPc = "begun" /\ schedConn = conns)
    /\ toDev' = Written(toDev, gwFrame)
    /\ gwPc' = "read" /\ gwFrame' = NoFrame
    /\ UNCHANGED <<gw, conn, toGw, devVars, schedVars, conns, secrets, sinceSuccess>>

\* ApplyRotationAckFromDevice: the gateway is the initiator.
GwApplyAck ==
    /\ gwPc = "apply" /\ gwFrame.type = "rotationAck"
    /\ IF CanApplyAck(gw, gwFrame.iteration)
       THEN gw' = ApplyRotationAck(gw) /\ sinceSuccess' = 0
       ELSE UNCHANGED <<gw, sinceSuccess>>
    /\ gwPc' = "read" /\ gwFrame' = NoFrame
    /\ UNCHANGED <<netVars, devVars, schedVars, conns, secrets>>

\* The read fails: serveSession returns and CloseSessionInstance wipes the keys.
GwReturn ==
    /\ gwPc = "read"
    /\ conn = "gateway" \/ (conn # "open" /\ toGw = <<>>)
    /\ gw' = Close(gw) /\ gwPc' = "unregister"
    /\ UNCHANGED <<gwFrame, netVars, devVars, schedVars, conns, secrets, sinceSuccess>>

\* Deferred unregisterConn; the goroutine is gone.
GwUnregister ==
    /\ gwPc = "unregister" /\ gwPc' = "done"
    /\ UNCHANGED <<gw, gwFrame, netVars, devVars, schedVars, conns, secrets, sinceSuccess>>
-----------------------------------------------------------------------------
(* The scheduler: tick, maybeRotate and the calls into Server and Gateway. *)

\* Mutant: pruning deletes the failure count with the other maps.
SchedTickPrunesFailures ==
    /\ schedPc = "idle"
    /\ IF Registered
       THEN schedPc' = "rotate" /\ UNCHANGED <<lastIteration, failures>>
       ELSE lastIteration' = -1 /\ failures' = 0 /\ UNCHANGED schedPc
    /\ UNCHANGED <<gwVars, netVars, devVars, schedFrame, schedConn, revoked,
                   conns, secrets, sinceSuccess>>

\* A tick takes the list of registered devices.  One that is not in it only
\* loses its lastIteration: the failure count outlives the connection.
SchedTick ==
    /\ schedPc = "idle"
    /\ IF Registered
       THEN schedPc' = "rotate" /\ UNCHANGED lastIteration
       ELSE lastIteration' = -1 /\ UNCHANGED schedPc
    /\ UNCHANGED <<gwVars, netVars, devVars, schedFrame, schedConn, failures, revoked,
                   conns, secrets, sinceSuccess>>

\* Mutant: below the threshold the rotation is simply tried again.
AfterRollbackRetry(fails) == IF fails < MaxRotationFailures THEN "idle" ELSE "revoke"

\* What maybeRotate does once it has rolled back.
AfterRollback(fails) == IF fails < MaxRotationFailures THEN "disconnect" ELSE "revoke"

\* Mutant: a device about to exceed its limit is not rolled back any more.
RotationStaleBelowLimit == gw.pendingActive /\ failures + 1 < MaxRotationFailures

\* Any pending rotation may have waited for RotationAckTimeout.
RotationStale == gw.pendingActive

\* AbortStaleRotationIfNeeded returns true: no ACK within RotationAckTimeout.
SchedAbort ==
    /\ schedPc = "rotate" /\ RotationStale
    /\ gw' = AbortRotate(gw)
    /\ failures' = failures + 1 /\ sinceSuccess' = sinceSuccess + 1
    /\ schedPc' = AfterRollback(failures + 1)
    /\ UNCHANGED <<gwPc, gwFrame, netVars, devVars, schedFrame, schedConn,
                   lastIteration, revoked, conns, secrets>>

\* The rotation is pending and not stale yet: leave it.
SchedWait ==
    /\ schedPc = "rotate" /\ gw.pendingActive
    /\ schedPc' = "idle"
    /\ UNCHANGED <<gwVars, netVars, devVars, schedFrame, schedConn, failures,
                   lastIteration, revoked, conns, secrets, sinceSuccess>>

SessionIteration == IF NoSession THEN 0 ELSE gw.iteration

checkRotationProgress ==
    /\ failures' = IF lastIteration # -1 /\ SessionIteration > lastIteration
                   THEN 0 ELSE failures
    /\ lastIteration' = SessionIteration

\* NeedsRotation, and activeConn of InitiateAtomicRotation when it is due.
SchedDecide ==
    /\ schedPc = "rotate" /\ ~gw.pendingActive
    /\ checkRotationProgress
    /\ \/ schedPc' = "idle" /\ UNCHANGED schedConn
       \/ ~NoSession /\ Registered /\ schedPc' = "initiate" /\ schedConn' = conns
    /\ UNCHANGED <<gwVars, netVars, devVars, schedFrame, revoked, conns, secrets,
                   sinceSuccess>>

\* Under ioMu of schedConn, on whatever session the gateway holds by now.
SchedBegin ==
    /\ schedPc = "initiate"
    /\ IF CanBegin(gw, gw.iteration + 1) /\ secrets < MaxSecrets
       THEN LET mi == secrets + 1  it == gw.iteration + 1 IN
            /\ gw' = BeginRotate(gw, mi, it)
            /\ schedFrame' = RotationV2(it, mi, gw.key)
            /\ secrets' = mi /\ schedPc' = "begun"
       ELSE schedPc' = "idle" /\ UNCHANGED <<gw, schedFrame, secrets>>
    /\ UNCHANGED <<gwPc, gwFrame, netVars, devVars, schedConn, failures,
                   lastIteration, revoked, conns, sinceSuccess>>

SchedWrite ==
    /\ schedPc = "begun"
    /\ IF schedConn = conns
       THEN HasRoom(toDev) /\ toDev' = Written(toDev, schedFrame)
       ELSE UNCHANGED toDev
    /\ schedPc' = "idle" /\ schedFrame' = NoFrame
    /\ UNCHANGED <<gwVars, conn, toGw, devVars, schedConn, failures, lastIteration,
                   revoked, conns, secrets, sinceSuccess>>

\* Mutant: a device that could not be revoked is left as it is.
SchedRevokeOrGiveUp ==
    /\ schedPc = "revoke"
    /\ \/ revoked' = TRUE /\ gw' = Close(gw) /\ schedPc' = "disconnect"
       \/ revoked' \in {revoked, TRUE} /\ schedPc' = "idle" /\ UNCHANGED gw
    /\ sinceSuccess' = 0
    /\ UNCHANGED <<gwPc, gwFrame, netVars, devVars, schedFrame, schedConn, failures,
                   lastIteration, conns, secrets>>

\* RevokeDevice: the record is marked, then the session closed.  When the store
\* fails the session stays, and a database may have marked the record all the
\* same; maybeRotate logs the error and goes on to Disconnect either way.
SchedRevoke ==
    /\ schedPc = "revoke"
    /\ \/ revoked' = TRUE /\ gw' = Close(gw)
       \/ revoked' \in {revoked, TRUE} /\ UNCHANGED gw
    /\ schedPc' = "disconnect" /\ sinceSuccess' = 0
    /\ UNCHANGED <<gwPc, gwFrame, netVars, devVars, schedFrame, schedConn, failures,
                   lastIteration, conns, secrets>>

\* The end of maybeRotate's branch: past the threshold the count is deleted,
\* whether the revocation worked or not.
EndDisconnect ==
    /\ schedPc' = "idle"
    /\ failures' = IF failures < MaxRotationFailures THEN failures ELSE 0

\* Disconnect, first half: activeConn.
SchedDisconnect ==
    /\ schedPc = "disconnect"
    /\ IF Registered
       THEN schedPc' = "close" /\ schedConn' = conns /\ UNCHANGED failures
       ELSE EndDisconnect /\ UNCHANGED schedConn
    /\ UNCHANGED <<gwVars, netVars, devVars, schedFrame, lastIteration, revoked,
                   conns, secrets, sinceSuccess>>

\* Disconnect, second half: the error frame may or may not get out, and what
\* the gateway had not read by then is lost.
SchedClose ==
    /\ schedPc = "close"
    /\ IF schedConn = conns /\ conn = "open"
       THEN /\ conn' = "gateway" /\ toGw' = <<>>
            /\ toDev' \in Prefixes(Append(toDev, ErrorFrame))
       ELSE UNCHANGED netVars
    /\ EndDisconnect
    /\ UNCHANGED <<gwVars, devVars, schedFrame, schedConn, lastIteration, revoked,
                   conns, secrets, sinceSuccess>>

\* forgetStaleFailures: the count is older than failureRetention.
SchedForget ==
    /\ schedPc = "idle" /\ failures > 0
    /\ failures' = 0 /\ sinceSuccess' = 0
    /\ UNCHANGED <<gwVars, netVars, devVars, schedPc, schedFrame, schedConn,
                   lastIteration, revoked, conns, secrets>>
-----------------------------------------------------------------------------
(* The device: its reading thread, then its sending thread.  The firmware  *)
(* does both in one loop: it seals and writes a packet without reading in  *)
(* between, and answers a rotation before it seals the next packet.        *)

\* The session is over: keys wiped, socket closed, nothing held is written.
DevStop ==
    /\ dev' = Close(dev)
    /\ devPc' = "done" /\ devFrame' = NoFrame /\ devSend' = NoFrame
    /\ conn' = IF conn = "open" THEN "device" ELSE conn

DevCanRead == devPc = "read" /\ toDev # <<>> /\ (Firmware => devSend = NoFrame)

\* Mutant: the ACK carries the tag of the key it announces.
AckOfNewKey(s, f) == RotationAck(f.iteration, deriveNextKey(s.key, f.mi, f.iteration))

\* The ACK of f from the session as it was before f was applied.
AckOf(s, f) == RotationAck(f.iteration, s.key)

\* A RotationV2: the tag, then the new key, then the ACK under the old one.
\* A refused frame is skipped by tcpclient; the firmware ends the session.
DevRotate ==
    /\ DevCanRead /\ Head(toDev).type = "rotationV2"
    /\ toDev' = Tail(toDev)
    /\ LET f == Head(toDev) IN
       IF f.key = dev.key /\ CanRespond(dev, f.iteration)
       THEN /\ dev' = RespondToRotationAtomic(dev, f.mi, f.iteration)
            /\ devPc' = "reply" /\ devFrame' = AckOf(dev, f)
            /\ UNCHANGED <<devSend, conn, toGw>>
       ELSE IF Firmware
       THEN DevStop /\ toGw' \in Prefixes(toGw)
       ELSE UNCHANGED <<devVars, conn, toGw>>
    /\ UNCHANGED <<gwVars, schedVars, conns, secrets, sinceSuccess>>

DevReply ==
    /\ devPc = "reply" /\ HasRoom(toGw)
    /\ toGw' = Written(toGw, devFrame)
    /\ devPc' = "read" /\ devFrame' = NoFrame
    /\ UNCHANGED <<dev, devSend, gwVars, conn, toDev, schedVars, conns, secrets,
                   sinceSuccess>>

\* A RotationAck; the firmware knows no such frame.
DevAck ==
    /\ DevCanRead /\ Head(toDev).type = "rotationAck"
    /\ toDev' = Tail(toDev)
    /\ LET f == Head(toDev) IN
       IF Firmware
       THEN DevStop /\ toGw' \in Prefixes(toGw)
       ELSE /\ dev' = IF f.key = dev.key /\ CanApplyAck(dev, f.iteration)
                      THEN ApplyRotationAck(dev) ELSE dev
            /\ UNCHANGED <<devPc, devFrame, devSend, conn, toGw>>
    /\ UNCHANGED <<gwVars, schedVars, conns, secrets, sinceSuccess>>

\* An error frame, or the read fails on a connection that has ended.
DevEnd ==
    /\ devPc = "read"
    /\ IF toDev = <<>> THEN conn # "open" ELSE DevCanRead /\ Head(toDev).type = "error"
    /\ DevStop
    /\ toDev' = <<>> /\ toGw' \in Prefixes(toGw)
    /\ UNCHANGED <<gwVars, schedVars, conns, secrets, sinceSuccess>>

\* Client.Close, or the board restarts, at any moment.
DevHangUp ==
    /\ devPc # "done" /\ conn = "open"
    /\ DevStop
    /\ toDev' = <<>> /\ toGw' \in Prefixes(toGw)
    /\ UNCHANGED <<gwVars, schedVars, conns, secrets, sinceSuccess>>

\* Mutant: a packet is sealed between the new key and its ACK.
DevCanSendEarly == devPc # "done" /\ devSend = NoFrame

DevCanSend ==
    devPc # "done" /\ devSend = NoFrame /\ (Firmware => devPc = "read")

\* SendData seals under the key of this moment ...
DevSeal ==
    /\ DevCanSend
    /\ devSend' = DataFrame(dev.key)
    /\ UNCHANGED <<dev, devPc, devFrame, gwVars, netVars, schedVars, conns, secrets,
                   sinceSuccess>>

\* ForceAtomicRotation, RotateIfNeededAtomic: the tag is under the old key.
DevInitiate ==
    /\ DeviceInitiates /\ DevCanSend
    /\ CanBegin(dev, dev.iteration + 1) /\ secrets < MaxSecrets
    /\ LET mi == secrets + 1  it == dev.iteration + 1 IN
       /\ dev' = BeginRotate(dev, mi, it)
       /\ devSend' = RotationV2(it, mi, dev.key)
       /\ secrets' = mi
    /\ UNCHANGED <<devPc, devFrame, gwVars, netVars, schedVars, conns, sinceSuccess>>

\* ... and writes when it gets the connection's mutex.
DevWrite ==
    /\ devSend # NoFrame /\ HasRoom(toGw)
    /\ toGw' = Written(toGw, devSend)
    /\ devSend' = NoFrame
    /\ UNCHANGED <<dev, devPc, devFrame, gwVars, conn, toDev, schedVars, conns,
                   secrets, sinceSuccess>>
-----------------------------------------------------------------------------
(* The network, and the device's next connection.                          *)

\* The connection breaks, or one end finds it silent for too long.
NetworkCut ==
    /\ conn = "open" /\ conn' = "network"
    /\ toGw' \in Prefixes(toGw) /\ toDev' \in Prefixes(toDev)
    /\ UNCHANGED <<gwVars, devVars, schedVars, conns, secrets, sinceSuccess>>

\* A whole handshake; the gateway refuses a revoked device.
Reconnect ==
    /\ gwPc = "done" /\ devPc = "done" /\ ~revoked /\ conns < MaxConns
    /\ conns' = conns + 1
    /\ gw' = NewSession(DeriveK0(conns + 1)) /\ dev' = NewSession(DeriveK0(conns + 1))
    /\ conn' = "open" /\ toGw' = <<>> /\ toDev' = <<>>
    /\ gwPc' = "read" /\ devPc' = "read"
    /\ UNCHANGED <<gwFrame, devFrame, devSend, schedVars, secrets, sinceSuccess>>

GwNext ==
    \/ GwRead \/ GwData \/ GwCheckTag \/ GwRespond \/ GwReply \/ GwApplyAck
    \/ GwReturn \/ GwUnregister

SchedNext ==
    \/ SchedTick \/ SchedAbort \/ SchedWait \/ SchedDecide \/ SchedBegin
    \/ SchedWrite \/ SchedRevoke \/ SchedDisconnect \/ SchedClose \/ SchedForget

DevNext ==
    \/ DevRotate \/ DevReply \/ DevAck \/ DevEnd \/ DevHangUp
    \/ DevSeal \/ DevInitiate \/ DevWrite

Next == GwNext \/ SchedNext \/ DevNext \/ NetworkCut \/ Reconnect

Spec == Init /\ [][Next]_vars

(***************************************************************************)
(* Fairness.  A goroutine or task that can run does run.  The scheduler    *)
(* ticks for ever, and a tick that comes after RotationAckTimeout rolls    *)
(* back: among infinitely many ticks of a pending rotation some tick does. *)
(* Nobody owes a packet, a rotation, a hang-up or a cut.                   *)
(***************************************************************************)
Fairness ==
    /\ WF_vars(GwNext)
    /\ WF_vars(DevRotate) /\ WF_vars(DevReply) /\ WF_vars(DevAck)
    /\ WF_vars(DevEnd) /\ WF_vars(DevWrite)
    /\ WF_vars(SchedTick) /\ SF_vars(SchedAbort)
    /\ WF_vars(SchedWait \/ SchedDecide \/ SchedBegin \/ SchedWrite)
    /\ WF_vars(SchedRevoke \/ SchedDisconnect \/ SchedClose)

FairSpec == Spec /\ Fairness
-----------------------------------------------------------------------------
(* Correctness.                                                            *)

\* The scheduler has decided to end the connection that is open now.
Dooming ==
    \/ schedPc \in {"revoke", "disconnect"}
    \/ schedPc = "close" /\ schedConn = conns

Live == conn = "open" /\ ~gw.closed /\ ~dev.closed /\ ~Dooming

InStep(a, b) == a.iteration = b.iteration /\ a.key = b.key

\* a is one step behind b and holds the key b uses as its pending one.
CanCatchUp(a, b) ==
    /\ a.pendingActive
    /\ b.iteration = a.iteration + 1
    /\ a.pendingIteration = b.iteration
    /\ a.pendingKey = b.key

Agree(a, b) == InStep(a, b) \/ CanCatchUp(a, b) \/ CanCatchUp(b, a)

(***************************************************************************)
(* The promise of the two-phase rotation (rotation_atomic.go): as long as  *)
(* nobody is ending the connection, either both ends use one key, or one   *)
(* of them is exactly one step behind and holds the other's key as its     *)
(* pending one.  No interleaving of acknowledgements, rollbacks, crossing  *)
(* rotations and reconnections leaves two ends that cannot meet.           *)
(***************************************************************************)
Recoverable == Live => Agree(gw, dev)

\* Every control frame carries the tag its reader computes: no rotation and
\* no ACK is thrown away on a live connection (serveSession, Listen).
TagsVerify ==
    Live =>
      /\ gwPc = "check" /\ gwFrame.type \in {"rotationV2", "rotationAck"}
           => gwFrame.key = gw.key
      /\ toDev # <<>> /\ devPc = "read"
           /\ Head(toDev).type \in {"rotationV2", "rotationAck"}
           => Head(toDev).key = dev.key

\* Every data packet is opened with the key it was sealed under, across any
\* number of rotations: none is lost to a rotation (HandleData).
NoDataLost ==
    Live /\ gwPc = "check" /\ gwFrame.type = "data" => gwFrame.key = gw.key

\* The scheduler forgets no rollback before the next success or before it has
\* tried to revoke the device, however the device reconnects and the maps are
\* pruned in between: a device that never acknowledges cannot put its
\* revocation off by reconnecting (pruneFirmwareCheckState).
FailuresCounted == failures >= sinceSuccess

\* The gateway moves to a new key only when its peer holds it, in force or
\* pending: it never commits on the ACK of another rotation.
CommitMeetsPeer ==
    [][Live /\ gw'.iteration = gw.iteration + 1
         => gw'.key \in {dev.key, dev.pendingKey}]_vars

\* The scheduler goes on to revoke only after MaxRotationFailures rollbacks in a
\* row, with no successful rotation between them (CONFIG, its own comment).
RevokedOnlyInARow == schedPc = "revoke" => sinceSuccess >= MaxRotationFailures

\* A rotation the gateway has begun is committed, rolled back or dies with
\* its session; it does not pend for ever (AbortStaleRotationIfNeeded).
RotationSettles == gw.pendingActive ~> ~gw.pendingActive

\* Two open ends with different keys do not stay that way: they meet or the
\* connection is ended (maybeRotate).
Diverged == conn = "open" /\ ~gw.closed /\ ~dev.closed /\ gw.key # dev.key
DivergenceHeals == Diverged ~> ~Diverged

\* A device the scheduler revokes is thrown off its connection and forgotten by
\* the server, even when the store could not mark it revoked (Disconnect).
RevokedIsCutOff ==
    revoked \/ schedPc = "revoke" ~> conn # "open" /\ gw.closed /\ ~Registered

\* The rotation, threads and frames and all, is an implementation of
\* KeyAgreement: a live connection is the link, the session keys its keys.
Agreement == INSTANCE KeyAgreement WITH
    up     <- Live,
    gwKey  <- IF Live THEN gw.key ELSE NoKey,
    devKey <- IF Live THEN dev.key ELSE NoKey

\* Every step of the two ends is a step of KeyAgreement or leaves it alone:
\* one end at a time is ahead, and the other only ever catches up with it.
ImplementsKeyAgreement == Agreement!KaSpec
-----------------------------------------------------------------------------
(* Why Recoverable holds: the inductive invariant.                         *)

PendingIsNext(s) ==
    s.pendingActive => /\ s.pendingIteration = s.iteration + 1
                       /\ Derived(s.pendingKey, s.key)

\* What a frame still on its way says about the session s of its sender: an
\* ACK is of a step s has taken; a rotation is of a step s has taken or of
\* the one s holds pending, with the very key the receiver would derive.
SentBy(f, s) ==
    /\ f.type = "rotationAck" => f.iteration <= s.iteration
    /\ f.type = "rotationV2" => f.iteration <= s.iteration + 1
    /\ f.type = "rotationV2" /\ f.iteration = s.iteration + 1 =>
         /\ s.pendingActive /\ s.pendingIteration = f.iteration
         /\ s.pendingKey = deriveNextKey(s.key, f.mi, f.iteration)

AllSentBy(q, s) == \A i \in 1..Len(q) : SentBy(q[i], s)

\* What each thread has left behind when it is past a point.
ThreadsInv ==
    /\ PendingIsNext(gw) /\ PendingIsNext(dev)
    /\ gwPc \in {"unregister", "done"} => gw.closed
    /\ devPc = "done" => dev.closed /\ devFrame = NoFrame /\ devSend = NoFrame
    /\ schedConn <= conns

FramesInv ==
    /\ AllSentBy(toGw, dev) /\ AllSentBy(toDev, gw)
    /\ gwPc \in {"check", "apply"} => SentBy(gwFrame, dev)
    /\ gwPc = "reply" => SentBy(gwFrame, gw)
    /\ SentBy(devFrame, dev) /\ SentBy(devSend, dev)
    /\ schedPc = "begun" /\ schedConn = conns => SentBy(schedFrame, gw)

\* Every frame says the truth about its sender, and the ends agree.  Tags
\* play no part in it.
RotationInv == TypeOK /\ ThreadsInv /\ (Live => FramesInv /\ Agree(gw, dev))
=============================================================================
