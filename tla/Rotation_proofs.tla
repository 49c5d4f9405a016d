-------------------------- MODULE Rotation_proofs --------------------------
(***************************************************************************)
(* Proofs about the key rotation, for any number of connections, secrets,  *)
(* frames in flight and permitted failures.                                *)
(***************************************************************************)
EXTENDS Rotation, SequenceTheorems, TLAPS
-----------------------------------------------------------------------------
(* The session operators keep the type of a session.                       *)

\* The wiped key is a key: closing a session keeps its type (Session.Close).
LEMMA NoKeyTyped == NoKey \in Key
BY DEF NoKey, Key

\* A handshake yields a session.
LEMMA NewSessionTyped ==
    ASSUME NEW c \in Nat
    PROVE  NewSession(DeriveK0(c)) \in SessionType
<1>1. DeriveK0(c) \in Key
  BY DEF DeriveK0, Key
<1> QED BY <1>1, NoKeyTyped DEF NewSession, SessionType

\* What each rotation operator and Close return is a session.
LEMMA SessionOpsTyped ==
    ASSUME NEW s \in SessionType, NEW mi \in Nat, NEW it \in Nat
    PROVE  /\ deriveNextKey(s.key, mi, it) \in Key
           /\ BeginRotate(s, mi, it) \in SessionType
           /\ CommitRotate(s) \in SessionType
           /\ RespondToRotationAtomic(s, mi, it) \in SessionType
           /\ AbortRotate(s) \in SessionType
           /\ Close(s) \in SessionType
<1> DEFINE K == deriveNextKey(s.key, mi, it)
<1>1. s.key \in Key /\ s.pendingKey \in Key /\ s.iteration \in Nat
      /\ s.pendingIteration \in Nat
  BY DEF SessionType
<1>3. K \in Key
  <2>1. <<mi, it>> \in Nat \X Nat
    OBVIOUS
  <2> QED BY <1>1, <2>1 DEF deriveNextKey, Key
<1> HIDE DEF K
<1>5. BeginRotate(s, mi, it) \in SessionType
  BY <1>3 DEF BeginRotate, SessionType, K
<1>6. \A t \in SessionType : CommitRotate(t) \in SessionType
  BY NoKeyTyped DEF CommitRotate, SessionType
<1>7. AbortRotate(s) \in SessionType /\ Close(s) \in SessionType
  BY NoKeyTyped DEF AbortRotate, Close, SessionType
<1> QED BY <1>3, <1>5, <1>6, <1>7 DEF RespondToRotationAtomic, K, ApplyRotationAck
-----------------------------------------------------------------------------
(* Type correctness.                                                       *)

\* Every frame constructor returns a frame.
LEMMA FrameTyped ==
    ASSUME NEW it \in Nat, NEW mi \in Nat, NEW k \in Key
    PROVE  /\ NoFrame \in Frame /\ ErrorFrame \in Frame /\ DataFrame(k) \in Frame
           /\ RotationV2(it, mi, k) \in Frame /\ RotationAck(it, k) \in Frame
<1>2. NoFrame \in Frame
  BY NoKeyTyped DEF NoFrame, Frame, FrameTypes
<1>3. ErrorFrame \in Frame /\ DataFrame(k) \in Frame
  BY <1>2 DEF ErrorFrame, DataFrame, Frame, FrameTypes
<1>4. RotationV2(it, mi, k) \in Frame
  BY DEF RotationV2, Frame, FrameTypes
<1>5. RotationAck(it, k) \in Frame
  BY DEF RotationAck, Frame, FrameTypes
<1> QED BY <1>2, <1>3, <1>4, <1>5

\* A prefix of a queue of frames holds the queue's first frames.
LEMMA PrefixTyped ==
    ASSUME NEW q \in Seq(Frame), NEW p \in Prefixes(q)
    PROVE  /\ p \in Seq(Frame)
           /\ Len(p) <= Len(q)
           /\ \A i \in 1..Len(p) : p[i] = q[i]
<1>1. PICK n \in 0..Len(q) : p = SubSeq(q, 1, n)
  BY DEF Prefixes
<1>2. Len(q) \in Nat
  OBVIOUS
<1> QED BY <1>1, <1>2

\* A connection just established is well typed (CompleteHandshake, handleMsg3).
LEMMA InitTyped == Init => TypeOK
<1> SUFFICES ASSUME Init PROVE TypeOK
  OBVIOUS
<1>1. NewSession(DeriveK0(1)) \in SessionType
  BY NewSessionTyped
<1>2. NoFrame \in Frame
  BY NoKeyTyped, FrameTyped
<1>3. <<>> \in Seq(Frame)
  OBVIOUS
<1> HIDE DEF NewSession
<1>4. gw \in SessionType /\ dev \in SessionType
  BY <1>1 DEF Init
<1>5. toGw \in Seq(Frame) /\ toDev \in Seq(Frame)
  BY <1>3 DEF Init
<1>6. /\ gwFrame \in Frame /\ devFrame \in Frame
      /\ devSend \in Frame /\ schedFrame \in Frame
  BY <1>2 DEF Init
<1> QED BY <1>4, <1>5, <1>6 DEF Init, TypeOK

\* What reading a frame and writing one do to a queue.
LEMMA QueueTyped ==
    ASSUME NEW q \in Seq(Frame), NEW f \in Frame
    PROVE  /\ q # <<>> => /\ Head(q) \in Frame /\ Tail(q) \in Seq(Frame)
                          /\ Head(q) = q[1] /\ 1 \in 1..Len(q)
                          /\ Len(Tail(q)) = Len(q) - 1
                          /\ \A i \in 1..Len(Tail(q)) : Tail(q)[i] = q[i + 1]
           /\ Append(q, f) \in Seq(Frame)
           /\ Written(q, f) \in Seq(Frame)
<1>1. q # <<>> => /\ Head(q) \in Frame /\ Tail(q) \in Seq(Frame)
                  /\ Head(q) = q[1] /\ 1 \in 1..Len(q)
                  /\ Len(Tail(q)) = Len(q) - 1
                  /\ \A i \in 1..Len(Tail(q)) : Tail(q)[i] = q[i + 1]
  OBVIOUS
<1>2. Append(q, f) \in Seq(Frame)
  OBVIOUS
<1> QED BY <1>1, <1>2 DEF Written

\* The handler goroutine (serveSession) keeps every variable in its type.
LEMMA GwTyped == TypeOK /\ GwNext => TypeOK'
<1> SUFFICES ASSUME TypeOK, GwNext PROVE TypeOK'
  OBVIOUS
<1> USE DEF TypeOK
<1>1. CASE GwRead
  BY <1>1, QueueTyped DEF GwRead, devVars, schedVars
<1>2. CASE GwData
  BY <1>2, NoKeyTyped, FrameTyped DEF GwData, netVars, devVars, schedVars
<1>3. CASE GwCheckTag
  BY <1>3, NoKeyTyped, FrameTyped DEF GwCheckTag, netVars, devVars, schedVars
<1>4. CASE GwRespond
  <2>1. gwFrame.iteration \in Nat /\ gwFrame.mi \in Nat /\ gwFrame.key \in Key
    BY DEF Frame
  <2>2. /\ RespondToRotationAtomic(gw, gwFrame.mi, gwFrame.iteration) \in SessionType
        /\ RotationAck(gwFrame.iteration, gwFrame.key) \in Frame
        /\ NoFrame \in Frame
    BY <2>1, SessionOpsTyped, FrameTyped
  <2> QED BY <1>4, <2>2 DEF GwRespond, netVars, devVars, schedVars
<1>5. CASE GwReply
  BY <1>5, QueueTyped, NoKeyTyped, FrameTyped DEF GwReply, devVars, schedVars
<1>6. CASE GwApplyAck
  <2>1. ApplyRotationAck(gw) \in SessionType /\ NoFrame \in Frame
    BY SessionOpsTyped, NoKeyTyped, FrameTyped DEF ApplyRotationAck
  <2> QED BY <1>6, <2>1 DEF GwApplyAck, netVars, devVars, schedVars
<1>7. CASE GwReturn
  BY <1>7, SessionOpsTyped DEF GwReturn, netVars, devVars, schedVars
<1>8. CASE GwUnregister
  BY <1>8 DEF GwUnregister, netVars, devVars, schedVars
<1> QED BY <1>1, <1>2, <1>3, <1>4, <1>5, <1>6, <1>7, <1>8 DEF GwNext

\* The scheduler (maybeRotate, Disconnect) keeps every variable in its type.
LEMMA SchedTyped == TypeOK /\ SchedNext => TypeOK'
<1> SUFFICES ASSUME TypeOK, SchedNext PROVE TypeOK'
  OBVIOUS
<1> USE DEF TypeOK
<1>1. CASE SchedTick
  BY <1>1 DEF SchedTick, gwVars, netVars, devVars
<1>2. CASE SchedAbort
  BY <1>2, SessionOpsTyped DEF SchedAbort, AfterRollback, netVars, devVars
<1>3. CASE SchedWait
  BY <1>3 DEF SchedWait, gwVars, netVars, devVars
<1>4. CASE SchedDecide
  <2>1. SessionIteration \in Nat
    BY DEF SessionIteration, SessionType
  <2> QED BY <1>4, <2>1 DEF SchedDecide, checkRotationProgress, gwVars, netVars, devVars
<1>5. CASE SchedBegin
  <2>1. /\ secrets + 1 \in Nat /\ gw.iteration + 1 \in Nat /\ gw.key \in Key
    BY DEF SessionType
  <2>2. /\ BeginRotate(gw, secrets + 1, gw.iteration + 1) \in SessionType
        /\ RotationV2(gw.iteration + 1, secrets + 1, gw.key) \in Frame
    BY <2>1, SessionOpsTyped, FrameTyped
  <2> QED BY <1>5, <2>1, <2>2 DEF SchedBegin, netVars, devVars
<1>6. CASE SchedWrite
  BY <1>6, QueueTyped, NoKeyTyped, FrameTyped DEF SchedWrite, gwVars, devVars
<1>7. CASE SchedRevoke
  BY <1>7, SessionOpsTyped DEF SchedRevoke, netVars, devVars
<1>8. CASE SchedDisconnect
  BY <1>8 DEF SchedDisconnect, EndDisconnect, gwVars, netVars, devVars
<1>9. CASE SchedClose
  <2>0. ErrorFrame \in Frame
    BY NoKeyTyped, FrameTyped
  <2>1. <<>> \in Seq(Frame) /\ Append(toDev, ErrorFrame) \in Seq(Frame)
    BY <2>0
  <2>2. \A p \in Prefixes(Append(toDev, ErrorFrame)) : p \in Seq(Frame)
    BY <2>1, PrefixTyped
  <2> QED BY <1>9, <2>1, <2>2 DEF SchedClose, EndDisconnect, gwVars, netVars, devVars
<1>10. CASE SchedForget
  BY <1>10 DEF SchedForget, gwVars, netVars, devVars
<1> QED BY <1>1, <1>2, <1>3, <1>4, <1>5, <1>6, <1>7, <1>8, <1>9, <1>10 DEF SchedNext

\* DevStop leaves typed variables behind, with any prefix of the channel.
LEMMA DevStopTyped ==
    TypeOK /\ DevStop => /\ dev' \in SessionType
                         /\ devPc' \in {"read", "reply", "done"}
                         /\ devFrame' \in Frame /\ devSend' \in Frame
                         /\ conn' \in {"open", "gateway", "device", "network"}
<1> SUFFICES ASSUME TypeOK, DevStop
             PROVE  /\ dev' \in SessionType
                    /\ devPc' \in {"read", "reply", "done"}
                    /\ devFrame' \in Frame /\ devSend' \in Frame
                    /\ conn' \in {"open", "gateway", "device", "network"}
  OBVIOUS
<1>1. Close(dev) \in SessionType
  BY SessionOpsTyped DEF TypeOK
<1>2. NoFrame \in Frame
  BY NoKeyTyped, FrameTyped
<1> QED BY <1>1, <1>2 DEF TypeOK, DevStop

\* The device, its reading and its sending thread, keeps the types.
LEMMA DevTyped == TypeOK /\ DevNext => TypeOK'
<1> SUFFICES ASSUME TypeOK, DevNext PROVE TypeOK'
  OBVIOUS
<1> USE DEF TypeOK
<1>0. /\ NoFrame \in Frame /\ <<>> \in Seq(Frame)
      /\ \A p \in Prefixes(toGw) : p \in Seq(Frame)
  BY NoKeyTyped, FrameTyped, PrefixTyped
<1>1. CASE DevRotate
  <2> DEFINE f == Head(toDev)
  <2>1. f \in Frame /\ toDev' \in Seq(Frame)
    BY <1>1, QueueTyped DEF DevRotate, DevCanRead
  <2>2. f.iteration \in Nat /\ f.mi \in Nat /\ dev.key \in Key
    BY <2>1 DEF Frame, SessionType
  <2> HIDE DEF f
  <2>3. /\ RespondToRotationAtomic(dev, f.mi, f.iteration) \in SessionType
        /\ AckOf(dev, f) \in Frame
    BY <2>2, SessionOpsTyped, FrameTyped DEF AckOf
  <2>4. CASE f.key = dev.key /\ CanRespond(dev, f.iteration)
    BY <1>1, <2>1, <2>3, <2>4 DEF DevRotate, gwVars, schedVars, f
  <2>5. CASE ~(f.key = dev.key /\ CanRespond(dev, f.iteration)) /\ Firmware
    BY <1>0, <1>1, <2>1, <2>5, DevStopTyped DEF DevRotate, gwVars, schedVars, f
  <2>6. CASE ~(f.key = dev.key /\ CanRespond(dev, f.iteration)) /\ ~Firmware
    BY <1>1, <2>1, <2>6 DEF DevRotate, gwVars, devVars, schedVars, f
  <2> QED BY <2>4, <2>5, <2>6
<1>2. CASE DevReply
  BY <1>0, <1>2, QueueTyped DEF DevReply, gwVars, schedVars
<1>3. CASE DevAck
  <2>1. toDev' \in Seq(Frame)
    BY <1>3, QueueTyped DEF DevAck, DevCanRead
  <2>2. ApplyRotationAck(dev) \in SessionType
    BY SessionOpsTyped DEF ApplyRotationAck
  <2>3. CASE Firmware
    BY <1>0, <1>3, <2>1, <2>3, DevStopTyped DEF DevAck, gwVars, schedVars
  <2>4. CASE ~Firmware
    BY <1>3, <2>1, <2>2, <2>4 DEF DevAck, gwVars, schedVars
  <2> QED BY <2>3, <2>4
<1>4. CASE DevEnd
  BY <1>0, <1>4, DevStopTyped DEF DevEnd, gwVars, schedVars
<1>5. CASE DevHangUp
  BY <1>0, <1>5, DevStopTyped DEF DevHangUp, gwVars, schedVars
<1>6. CASE DevSeal
  <2>1. DataFrame(dev.key) \in Frame
    BY FrameTyped DEF SessionType
  <2> QED BY <1>6, <2>1 DEF DevSeal, gwVars, netVars, schedVars
<1>7. CASE DevInitiate
  <2>1. secrets + 1 \in Nat /\ dev.iteration + 1 \in Nat /\ dev.key \in Key
    BY DEF SessionType
  <2>2. /\ BeginRotate(dev, secrets + 1, dev.iteration + 1) \in SessionType
        /\ RotationV2(dev.iteration + 1, secrets + 1, dev.key) \in Frame
    BY <2>1, SessionOpsTyped, FrameTyped
  <2> QED BY <1>7, <2>1, <2>2 DEF DevInitiate, gwVars, netVars, schedVars
<1>8. CASE DevWrite
  BY <1>0, <1>8, QueueTyped DEF DevWrite, gwVars, schedVars
<1> QED BY <1>1, <1>2, <1>3, <1>4, <1>5, <1>6, <1>7, <1>8 DEF DevNext

\* Every step keeps the types: the thread lemmas, a cut, a reconnection.
LEMMA NextTyped == TypeOK /\ [Next]_vars => TypeOK'
<1> SUFFICES ASSUME TypeOK, [Next]_vars PROVE TypeOK'
  OBVIOUS
<1>1. CASE NetworkCut
  <2>1. /\ \A p \in Prefixes(toGw) : p \in Seq(Frame)
        /\ \A p \in Prefixes(toDev) : p \in Seq(Frame)
    BY PrefixTyped DEF TypeOK
  <2> QED BY <1>1, <2>1 DEF TypeOK, NetworkCut, gwVars, devVars, schedVars
<1>2. CASE Reconnect
  <2>1. conns + 1 \in Nat /\ NewSession(DeriveK0(conns + 1)) \in SessionType
    BY NewSessionTyped DEF TypeOK
  <2>2. <<>> \in Seq(Frame)
    OBVIOUS
  <2> QED BY <1>2, <2>1, <2>2 DEF TypeOK, Reconnect, schedVars
<1>3. CASE UNCHANGED vars
  BY <1>3 DEF TypeOK, vars, gwVars, netVars, devVars, schedVars
<1> QED BY <1>1, <1>2, <1>3, GwTyped, SchedTyped, DevTyped DEF Next

\* The variables keep their types, however many handshakes, rotations and
\* frames there are.
THEOREM TypeCorrect == Spec => []TypeOK
BY InitTyped, NextTyped, PTL DEF Spec
-----------------------------------------------------------------------------
(* The inductive invariant, first on sessions and frames alone.            *)

\* A frame that is neither a rotation nor an ACK says nothing.
LEMMA SentByPlain ==
    ASSUME NEW s, NEW k
    PROVE  /\ SentBy(NoFrame, s) /\ SentBy(ErrorFrame, s) /\ SentBy(DataFrame(k), s)
BY DEF SentBy, NoFrame, ErrorFrame, DataFrame

\* The next key is one step from the key it is derived from.
LEMMA NextKeyDerived ==
    ASSUME NEW k \in Key, NEW mi \in Nat, NEW it \in Nat
    PROVE  Derived(deriveNextKey(k, mi, it), k)
<1>1. <<mi, it>> \in Nat \X Nat
  OBVIOUS
<1>2. ASSUME NEW S, NEW q \in Seq(S), NEW e \in S
      PROVE  Append(q, e) # <<>> /\ Append(q, e)[Len(Append(q, e))] = e
  BY AppendProperties
<1>3. ASSUME NEW e \in Nat \X Nat
      PROVE  Derived(Append(k, e), k)
  BY <1>2 DEF Derived, NoKey, Key
<1> QED BY <1>1, <1>3 DEF deriveNextKey

\* Beginning a rotation keeps what the sender's frames say and makes the new
\* frame true.
LEMMA SentByBegin ==
    ASSUME NEW s \in SessionType, NEW mi \in Nat, NEW it \in Nat, NEW k,
           CanBegin(s, it)
    PROVE  /\ \A f \in Frame : SentBy(f, s) => SentBy(f, BeginRotate(s, mi, it))
           /\ SentBy(RotationV2(it, mi, k), BeginRotate(s, mi, it))
           /\ PendingIsNext(BeginRotate(s, mi, it))
<1> DEFINE t == BeginRotate(s, mi, it)
<1>1. /\ t.iteration = s.iteration /\ t.key = s.key
      /\ t.pendingActive /\ t.pendingIteration = it
      /\ t.pendingKey = deriveNextKey(s.key, mi, it)
  BY DEF BeginRotate, SessionType
<1>2. ~s.pendingActive /\ it = s.iteration + 1
  BY DEF CanBegin
<1>3. Derived(deriveNextKey(s.key, mi, it), s.key)
  BY NextKeyDerived DEF SessionType
<1> HIDE DEF t
<1> QED BY <1>1, <1>2, <1>3 DEF SentBy, PendingIsNext, RotationV2, t

\* Committing the pending key keeps what the sender's frames say.
LEMMA SentByCommit ==
    ASSUME NEW s \in SessionType, PendingIsNext(s), s.pendingActive
    PROVE  /\ \A f \in Frame : SentBy(f, s) => SentBy(f, CommitRotate(s))
           /\ PendingIsNext(CommitRotate(s))
<1> DEFINE t == CommitRotate(s)
<1>1. t.iteration = s.iteration + 1 /\ s.iteration \in Nat /\ ~t.pendingActive
  BY DEF CommitRotate, SessionType, PendingIsNext
<1> HIDE DEF t
<1>2. ASSUME NEW f \in Frame, SentBy(f, s) PROVE SentBy(f, t)
  <2>1. f.iteration \in Nat
    BY DEF Frame
  <2> QED BY <1>1, <1>2, <2>1 DEF SentBy
<1> QED BY <1>1, <1>2 DEF PendingIsNext, t

\* So does answering the peer's rotation, and the answer is true.
LEMMA SentByRespond ==
    ASSUME NEW s \in SessionType, NEW mi \in Nat, NEW it \in Nat, NEW k,
           CanRespond(s, it)
    PROVE  /\ \A f \in Frame :
                SentBy(f, s) => SentBy(f, RespondToRotationAtomic(s, mi, it))
           /\ SentBy(RotationAck(it, k), RespondToRotationAtomic(s, mi, it))
           /\ PendingIsNext(RespondToRotationAtomic(s, mi, it))
<1> DEFINE t == BeginRotate(s, mi, it)
<1>1. t \in SessionType /\ t.pendingActive /\ PendingIsNext(t)
      /\ \A f \in Frame : SentBy(f, s) => SentBy(f, t)
  BY SessionOpsTyped, SentByBegin DEF CanRespond, BeginRotate, SessionType
<1>2. t.pendingIteration = it
  BY DEF BeginRotate, SessionType
<1> HIDE DEF t
<1>3. CommitRotate(t).iteration = it
  BY <1>1, <1>2 DEF CommitRotate, SessionType
<1>4. SentBy(RotationAck(it, k), CommitRotate(t))
  BY <1>3 DEF SentBy, RotationAck
<1> QED BY <1>1, <1>4, SentByCommit DEF RespondToRotationAtomic, t

\* The answer to a rotation moves one step along the chain of keys.
LEMMA RespondDerives ==
    ASSUME NEW s \in SessionType, NEW f \in Frame
    PROVE  Derived(RespondToRotationAtomic(s, f.mi, f.iteration).key, s.key)
<1>1. f.mi \in Nat /\ f.iteration \in Nat /\ s.key \in Key
  BY DEF Frame, SessionType
<1>2. RespondToRotationAtomic(s, f.mi, f.iteration).key
        = deriveNextKey(s.key, f.mi, f.iteration)
  BY DEF RespondToRotationAtomic, CommitRotate, BeginRotate, SessionType
<1> QED BY <1>1, <1>2, NextKeyDerived

\* Two ends that agree still do when one of them begins a rotation ...
LEMMA AgreeBegin ==
    ASSUME NEW a \in SessionType, NEW b \in SessionType,
           NEW mi \in Nat, NEW it \in Nat,
           Agree(a, b), CanBegin(a, it)
    PROVE  Agree(BeginRotate(a, mi, it), b)
<1> DEFINE t == BeginRotate(a, mi, it)
<1>1. t.iteration = a.iteration /\ t.key = a.key
  BY DEF BeginRotate, SessionType
<1>2. ~CanCatchUp(a, b)
  BY DEF CanBegin, CanCatchUp
<1> HIDE DEF t
<1> QED BY <1>1, <1>2 DEF Agree, InStep, CanCatchUp, t

\* ... when it answers a rotation the other one has sent ...
LEMMA AgreeRespond ==
    ASSUME NEW a \in SessionType, NEW b \in SessionType, NEW f \in Frame,
           f.type = "rotationV2", SentBy(f, b),
           Agree(a, b), CanRespond(a, f.iteration)
    PROVE  /\ Agree(RespondToRotationAtomic(a, f.mi, f.iteration), b)
           /\ CanCatchUp(b, RespondToRotationAtomic(a, f.mi, f.iteration))
           /\ InStep(a, b)
<1> DEFINE t == RespondToRotationAtomic(a, f.mi, f.iteration)
<1>1. t.iteration = f.iteration /\ t.key = deriveNextKey(a.key, f.mi, f.iteration)
  BY DEF RespondToRotationAtomic, CommitRotate, BeginRotate, SessionType
<1>2. /\ ~a.pendingActive /\ f.iteration = a.iteration + 1
      /\ f.iteration <= b.iteration + 1
      /\ a.iteration \in Nat /\ b.iteration \in Nat
  BY DEF CanRespond, CanBegin, SentBy, SessionType
<1>3. InStep(a, b)
  BY <1>2 DEF Agree, CanCatchUp
<1>4. CanCatchUp(b, t)
  <2> HIDE DEF t
  <2>1. f.iteration = b.iteration + 1 /\ a.key = b.key
    BY <1>2, <1>3 DEF InStep
  <2> QED BY <1>1, <2>1 DEF SentBy, CanCatchUp
<1> QED BY <1>3, <1>4 DEF Agree, t

\* ... and when it applies an ACK the other one has sent.
LEMMA AgreeAck ==
    ASSUME NEW a \in SessionType, NEW b \in SessionType, NEW f \in Frame,
           f.type = "rotationAck", SentBy(f, b), PendingIsNext(a),
           Agree(a, b), CanApplyAck(a, f.iteration)
    PROVE  /\ CanCatchUp(a, b)
           /\ InStep(ApplyRotationAck(a), b)
<1>1. /\ a.pendingActive /\ f.iteration = a.iteration + 1
      /\ f.iteration <= b.iteration
      /\ a.iteration \in Nat /\ b.iteration \in Nat
  BY DEF CanApplyAck, CanCommit, PendingIsNext, SentBy, SessionType
<1>2. CanCatchUp(a, b)
  BY <1>1 DEF Agree, InStep, CanCatchUp
<1>3. /\ ApplyRotationAck(a).iteration = a.pendingIteration
      /\ ApplyRotationAck(a).key = a.pendingKey
  BY DEF ApplyRotationAck, CommitRotate, SessionType
<1> QED BY <1>2, <1>3 DEF CanCatchUp, InStep

\* Agreement does not depend on which end is named first: the two ends run
\* the same Session code.
LEMMA AgreeSymmetric ==
    ASSUME NEW a, NEW b
    PROVE  Agree(a, b) <=> Agree(b, a)
BY DEF Agree, InStep
-----------------------------------------------------------------------------
(* The inductive invariant, step by step.                                  *)

\* Two sessions with the same K0 and no frame in flight satisfy the invariant.
LEMMA InitInv == Init => RotationInv
<1> SUFFICES ASSUME Init PROVE RotationInv
  OBVIOUS
<1>1. /\ ~gw.pendingActive /\ ~dev.pendingActive /\ ~gw.closed /\ gw = dev
  BY DEF Init, NewSession
<1>2. Len(<<>>) = 0
  OBVIOUS
<1>3. ThreadsInv
  BY <1>1 DEF Init, ThreadsInv, PendingIsNext
<1>4. FramesInv
  BY <1>2, SentByPlain DEF Init, FramesInv, AllSentBy
<1>5. Agree(gw, dev)
  BY <1>1 DEF Agree, InStep
<1> QED BY <1>3, <1>4, <1>5, InitTyped DEF RotationInv

\* What the ways of ending a rotation leave of a pending key.
LEMMA PendingOps ==
    ASSUME NEW s \in SessionType
    PROVE  /\ PendingIsNext(AbortRotate(s)) /\ PendingIsNext(Close(s))
           /\ Close(s).closed
           /\ AbortRotate(s).closed = s.closed
           /\ CommitRotate(s).closed = s.closed
           /\ PendingIsNext(CommitRotate(s))
           /\ \A mi, it : BeginRotate(s, mi, it).closed = s.closed
           /\ \A mi, it : RespondToRotationAtomic(s, mi, it).closed = s.closed
BY DEF SessionType, PendingIsNext, AbortRotate, Close, CommitRotate, BeginRotate,
       RespondToRotationAtomic

\* A connection that is live after a step was live before it, but for the
\* one a handshake has just opened; and the threads leave what they should.
LEMMA ThreadsStep ==
    ASSUME TypeOK, ThreadsInv, [Next]_vars
    PROVE  /\ ThreadsInv'
           /\ Live' => Live \/ Reconnect
<1> USE DEF TypeOK, ThreadsInv, Live, Dooming, Registered
<1>1. CASE GwNext
  <2>1. CASE GwRead
    BY <2>1 DEF GwRead, devVars, schedVars
  <2>2. CASE GwData
    BY <2>2 DEF GwData, netVars, devVars, schedVars
  <2>3. CASE GwCheckTag
    BY <2>3 DEF GwCheckTag, netVars, devVars, schedVars
  <2>4. CASE GwRespond
    <3>1. gwFrame.iteration \in Nat /\ gwFrame.mi \in Nat
      BY DEF Frame
    <3>2. /\ CanRespond(gw, gwFrame.iteration)
               => PendingIsNext(RespondToRotationAtomic(gw, gwFrame.mi, gwFrame.iteration))
          /\ RespondToRotationAtomic(gw, gwFrame.mi, gwFrame.iteration).closed = gw.closed
      BY <3>1, SentByRespond, PendingOps
    <3> QED BY <2>4, <3>2 DEF GwRespond, netVars, devVars, schedVars
  <2>5. CASE GwReply
    BY <2>5 DEF GwReply, devVars, schedVars
  <2>6. CASE GwApplyAck
    BY <2>6, PendingOps DEF GwApplyAck, ApplyRotationAck, netVars, devVars, schedVars
  <2>7. CASE GwReturn
    BY <2>7, PendingOps DEF GwReturn, netVars, devVars, schedVars
  <2>8. CASE GwUnregister
    BY <2>8 DEF GwUnregister, netVars, devVars, schedVars
  <2> QED BY <1>1, <2>1, <2>2, <2>3, <2>4, <2>5, <2>6, <2>7, <2>8 DEF GwNext
<1>2. CASE SchedNext
  <2>1. CASE SchedTick
    BY <2>1 DEF SchedTick, gwVars, netVars, devVars
  <2>2. CASE SchedAbort
    BY <2>2, PendingOps DEF SchedAbort, AfterRollback, netVars, devVars
  <2>3. CASE SchedWait
    BY <2>3 DEF SchedWait, gwVars, netVars, devVars
  <2>4. CASE SchedDecide
    BY <2>4 DEF SchedDecide, gwVars, netVars, devVars
  <2>5. CASE SchedBegin
    <3>1. secrets + 1 \in Nat /\ gw.iteration + 1 \in Nat
      BY DEF SessionType
    <3>2. /\ CanBegin(gw, gw.iteration + 1)
               => PendingIsNext(BeginRotate(gw, secrets + 1, gw.iteration + 1))
          /\ BeginRotate(gw, secrets + 1, gw.iteration + 1).closed = gw.closed
      BY <3>1, SentByBegin, PendingOps
    <3> QED BY <2>5, <3>2 DEF SchedBegin, netVars, devVars
  <2>6. CASE SchedWrite
    BY <2>6 DEF SchedWrite, gwVars, devVars
  <2>7. CASE SchedRevoke
    BY <2>7, PendingOps DEF SchedRevoke, netVars, devVars
  <2>8. CASE SchedDisconnect
    BY <2>8 DEF SchedDisconnect, EndDisconnect, gwVars, netVars, devVars
  <2>9. CASE SchedClose
    BY <2>9 DEF SchedClose, EndDisconnect, gwVars, netVars, devVars
  <2>10. CASE SchedForget
    BY <2>10 DEF SchedForget, gwVars, netVars, devVars
  <2> QED BY <1>2, <2>1, <2>2, <2>3, <2>4, <2>5, <2>6, <2>7, <2>8, <2>9, <2>10
          DEF SchedNext
<1>3. CASE DevNext
  <2>1. ASSUME DevStop, UNCHANGED <<gwVars, schedVars, conns>>
        PROVE  ThreadsInv' /\ ~Live'
    BY <2>1, PendingOps DEF DevStop, gwVars, schedVars
  <2>2. CASE DevRotate
    <3> DEFINE f == Head(toDev)
    <3>1. f \in Frame
      BY <2>2, QueueTyped DEF DevRotate, DevCanRead
    <3>2. f.iteration \in Nat /\ f.mi \in Nat
      BY <3>1 DEF Frame
    <3> HIDE DEF f
    <3>3. /\ CanRespond(dev, f.iteration)
               => PendingIsNext(RespondToRotationAtomic(dev, f.mi, f.iteration))
          /\ RespondToRotationAtomic(dev, f.mi, f.iteration).closed = dev.closed
      BY <3>2, SentByRespond, PendingOps
    <3>4. CASE f.key = dev.key /\ CanRespond(dev, f.iteration)
      BY <2>2, <3>3, <3>4 DEF DevRotate, DevCanRead, gwVars, schedVars, f
    <3>5. CASE ~(f.key = dev.key /\ CanRespond(dev, f.iteration)) /\ Firmware
      <4>1. DevStop /\ UNCHANGED <<gwVars, schedVars, conns>>
        BY <2>2, <3>5 DEF DevRotate, f
      <4> QED BY <2>1, <4>1
    <3>6. CASE ~(f.key = dev.key /\ CanRespond(dev, f.iteration)) /\ ~Firmware
      BY <2>2, <3>6 DEF DevRotate, gwVars, devVars, schedVars, f
    <3> QED BY <3>4, <3>5, <3>6
  <2>3. CASE DevReply
    BY <2>3 DEF DevReply, gwVars, schedVars
  <2>4. CASE DevAck
    <3>1. CASE Firmware
      <4>1. DevStop /\ UNCHANGED <<gwVars, schedVars, conns>>
        BY <2>4, <3>1 DEF DevAck
      <4> QED BY <2>1, <4>1
    <3>2. CASE ~Firmware
      BY <2>4, <3>2, PendingOps DEF DevAck, ApplyRotationAck, gwVars, schedVars
    <3> QED BY <3>1, <3>2
  <2>5. CASE DevEnd
    BY <2>5, <2>1 DEF DevEnd
  <2>6. CASE DevHangUp
    BY <2>6, <2>1 DEF DevHangUp
  <2>7. CASE DevSeal
    BY <2>7 DEF DevSeal, DevCanSend, gwVars, netVars, schedVars
  <2>8. CASE DevInitiate
    <3>1. secrets + 1 \in Nat /\ dev.iteration + 1 \in Nat
      BY DEF SessionType
    <3>2. /\ CanBegin(dev, dev.iteration + 1)
               => PendingIsNext(BeginRotate(dev, secrets + 1, dev.iteration + 1))
          /\ BeginRotate(dev, secrets + 1, dev.iteration + 1).closed = dev.closed
      BY <3>1, SentByBegin, PendingOps
    <3> QED BY <2>8, <3>2 DEF DevInitiate, DevCanSend, gwVars, netVars, schedVars
  <2>9. CASE DevWrite
    BY <2>9 DEF DevWrite, gwVars, schedVars
  <2> QED BY <1>3, <2>2, <2>3, <2>4, <2>5, <2>6, <2>7, <2>8, <2>9 DEF DevNext
<1>4. CASE NetworkCut
  BY <1>4 DEF NetworkCut, gwVars, devVars, schedVars
<1>5. CASE Reconnect
  <2>1. PendingIsNext(NewSession(DeriveK0(conns + 1)))
    BY DEF PendingIsNext, NewSession
  <2> QED BY <1>5, <2>1 DEF Reconnect, schedVars
<1>6. CASE UNCHANGED vars
  BY <1>6 DEF vars, gwVars, netVars, devVars, schedVars
<1> QED BY <1>1, <1>2, <1>3, <1>4, <1>5, <1>6 DEF Next

\* What a queue says of its sender survives reading, writing a true frame,
\* and any change of the sender that keeps its frames true.
LEMMA QueueSentBy ==
    ASSUME NEW q \in Seq(Frame), NEW s, AllSentBy(q, s)
    PROVE  /\ q # <<>> => SentBy(Head(q), s) /\ AllSentBy(Tail(q), s)
           /\ \A f \in Frame : SentBy(f, s) => /\ AllSentBy(Append(q, f), s)
                                               /\ AllSentBy(Written(q, f), s)
           /\ \A t : (\A f \in Frame : SentBy(f, s) => SentBy(f, t))
                        => AllSentBy(q, t)
<1>1. ASSUME q # <<>>
      PROVE  SentBy(Head(q), s) /\ AllSentBy(Tail(q), s)
  <2>1. NoFrame \in Frame
    BY NoKeyTyped, FrameTyped
  <2>2. /\ Head(q) = q[1] /\ 1 \in 1..Len(q)
        /\ Len(Tail(q)) = Len(q) - 1
        /\ \A i \in 1..Len(Tail(q)) : Tail(q)[i] = q[i + 1]
    BY <1>1, <2>1, QueueTyped
  <2>3. \A i \in 1..Len(Tail(q)) : i + 1 \in 1..Len(q)
    BY <2>2
  <2> QED BY <2>2, <2>3 DEF AllSentBy
<1>2. ASSUME NEW f \in Frame, SentBy(f, s)
      PROVE  AllSentBy(Append(q, f), s) /\ AllSentBy(Written(q, f), s)
  <2>1. /\ Len(Append(q, f)) = Len(q) + 1
        /\ \A i \in 1..Len(q) : Append(q, f)[i] = q[i]
        /\ Append(q, f)[Len(q) + 1] = f
    OBVIOUS
  <2>2. \A i \in 1..Len(q) + 1 : i \in 1..Len(q) \/ i = Len(q) + 1
    OBVIOUS
  <2>3. AllSentBy(Append(q, f), s)
    BY <1>2, <2>1, <2>2 DEF AllSentBy
  <2> QED BY <2>3 DEF Written
<1>3. ASSUME NEW t, \A f \in Frame : SentBy(f, s) => SentBy(f, t)
      PROVE  AllSentBy(q, t)
  <2>1. \A i \in 1..Len(q) : q[i] \in Frame
    OBVIOUS
  <2> QED BY <1>3, <2>1 DEF AllSentBy
<1> QED BY <1>1, <1>2, <1>3

\* If only the gateway's session moves, and keeps its frames true, all the
\* frames on their way stay true; likewise for the device's.
LEMMA GwMoves ==
    ASSUME TypeOK, FramesInv,
           \A f \in Frame : SentBy(f, gw) => SentBy(f, gw')
    PROVE  /\ AllSentBy(toDev, gw')
           /\ gwPc = "reply" => SentBy(gwFrame, gw')
           /\ schedPc = "begun" /\ schedConn = conns => SentBy(schedFrame, gw')
BY QueueSentBy DEF TypeOK, FramesInv

\* The same for the device: when its session moves so that it still bears out
\* each frame it has sent, it bears out all of those still on their way.
LEMMA DevMoves ==
    ASSUME TypeOK, FramesInv,
           \A f \in Frame : SentBy(f, dev) => SentBy(f, dev')
    PROVE  /\ AllSentBy(toGw, dev')
           /\ gwPc \in {"check", "apply"} => SentBy(gwFrame, dev')
           /\ SentBy(devFrame, dev') /\ SentBy(devSend, dev')
BY QueueSentBy DEF TypeOK, FramesInv

\* Each step of the handler goroutine keeps the invariant.
LEMMA GwStep ==
    ASSUME TypeOK, ThreadsInv, Live, FramesInv, Agree(gw, dev), GwNext, Live'
    PROVE  FramesInv' /\ Agree(gw, dev)'
<1> USE DEF TypeOK
<1>1. CASE GwRead
  <2>1. SentBy(Head(toGw), dev) /\ AllSentBy(Tail(toGw), dev)
    BY <1>1, QueueSentBy DEF GwRead, FramesInv
  <2> QED BY <1>1, <2>1 DEF GwRead, FramesInv, devVars, schedVars
<1>2. CASE GwData
  BY <1>2 DEF GwData, FramesInv, netVars, devVars, schedVars
<1>3. CASE GwCheckTag
  BY <1>3 DEF GwCheckTag, FramesInv, netVars, devVars, schedVars
<1>4. CASE GwRespond
  <2>1. gwFrame.iteration \in Nat /\ gwFrame.mi \in Nat /\ SentBy(gwFrame, dev)
    BY <1>4 DEF GwRespond, FramesInv, Frame
  <2>2. CASE CanRespond(gw, gwFrame.iteration)
    <3>1. gw' = RespondToRotationAtomic(gw, gwFrame.mi, gwFrame.iteration)
      BY <1>4, <2>2 DEF GwRespond
    <3>2. /\ \A f \in Frame : SentBy(f, gw) => SentBy(f, gw')
          /\ SentBy(RotationAck(gwFrame.iteration, gwFrame.key), gw')
      BY <2>1, <2>2, <3>1, SentByRespond
    <3>3. Agree(gw', dev)
      BY <1>4, <2>1, <2>2, <3>1, AgreeRespond DEF GwRespond
    <3>4. FramesInv'
      BY <1>4, <2>2, <3>2, GwMoves DEF GwRespond, FramesInv, netVars, devVars, schedVars
    <3> QED BY <1>4, <3>3, <3>4 DEF GwRespond, devVars
  <2>3. CASE ~CanRespond(gw, gwFrame.iteration)
    BY <1>4, <2>3 DEF GwRespond, FramesInv, netVars, devVars, schedVars
  <2> QED BY <2>2, <2>3
<1>5. CASE GwReply
  <2>1. AllSentBy(Written(toDev, gwFrame), gw)
    BY <1>5, QueueSentBy DEF GwReply, FramesInv
  <2> QED BY <1>5, <2>1 DEF GwReply, FramesInv, devVars, schedVars
<1>6. CASE GwApplyAck
  <2>1. CASE CanApplyAck(gw, gwFrame.iteration)
    <3>1. gw' = ApplyRotationAck(gw) /\ dev' = dev
      BY <1>6, <2>1 DEF GwApplyAck, devVars
    <3>2. PendingIsNext(gw) /\ gw.pendingActive
      BY <2>1 DEF ThreadsInv, CanApplyAck, CanCommit
    <3>3. \A f \in Frame : SentBy(f, gw) => SentBy(f, gw')
      BY <3>1, <3>2, SentByCommit DEF ApplyRotationAck
    <3>4. Agree(gw', dev')
      BY <1>6, <2>1, <3>1, <3>2, AgreeAck DEF GwApplyAck, FramesInv, Agree
    <3>5. FramesInv'
      BY <1>6, <3>3, GwMoves DEF GwApplyAck, FramesInv, netVars, devVars, schedVars
    <3> QED BY <3>4, <3>5
  <2>2. CASE ~CanApplyAck(gw, gwFrame.iteration)
    BY <1>6, <2>2 DEF GwApplyAck, FramesInv, netVars, devVars, schedVars
  <2> QED BY <2>1, <2>2
<1>7. CASE GwReturn
  BY <1>7, PendingOps DEF GwReturn, Live
<1>8. CASE GwUnregister
  BY <1>8 DEF GwUnregister, FramesInv, netVars, devVars, schedVars
<1> QED BY <1>1, <1>2, <1>3, <1>4, <1>5, <1>6, <1>7, <1>8 DEF GwNext

\* Each step of the scheduler keeps the invariant; a rollback only because it
\* is followed by the end of the connection (maybeRotate).
LEMMA SchedStep ==
    ASSUME TypeOK, ThreadsInv, Live, FramesInv, Agree(gw, dev), SchedNext, Live'
    PROVE  FramesInv' /\ Agree(gw, dev)'
<1> USE DEF TypeOK
<1>1. CASE SchedTick
  BY <1>1 DEF SchedTick, FramesInv, gwVars, netVars, devVars
<1>2. CASE SchedAbort
  BY <1>2 DEF SchedAbort, AfterRollback, Live, Dooming
<1>3. CASE SchedWait
  BY <1>3 DEF SchedWait, FramesInv, gwVars, netVars, devVars
<1>4. CASE SchedDecide
  BY <1>4 DEF SchedDecide, FramesInv, gwVars, netVars, devVars
<1>5. CASE SchedBegin
  <2> DEFINE mi == secrets + 1  it == gw.iteration + 1
  <2>1. mi \in Nat /\ it \in Nat
    BY DEF SessionType
  <2>2. CASE CanBegin(gw, it) /\ secrets < MaxSecrets
    <3>1. /\ gw' = BeginRotate(gw, mi, it) /\ dev' = dev
          /\ schedFrame' = RotationV2(it, mi, gw.key)
      BY <1>5, <2>2 DEF SchedBegin, devVars
    <3> HIDE DEF mi, it
    <3>2. /\ \A f \in Frame : SentBy(f, gw) => SentBy(f, gw')
          /\ SentBy(schedFrame', gw')
      BY <2>1, <2>2, <3>1, SentByBegin
    <3>3. Agree(gw', dev')
      BY <2>1, <2>2, <3>1, AgreeBegin
    <3>4. FramesInv'
      BY <1>5, <3>2, GwMoves DEF SchedBegin, FramesInv, netVars, devVars
    <3> QED BY <3>3, <3>4
  <2>3. CASE ~(CanBegin(gw, it) /\ secrets < MaxSecrets)
    BY <1>5, <2>3 DEF SchedBegin, FramesInv, netVars, devVars
  <2> QED BY <2>2, <2>3
<1>6. CASE SchedWrite
  <2>1. schedConn = conns => AllSentBy(Written(toDev, schedFrame), gw)
    BY <1>6, QueueSentBy DEF SchedWrite, FramesInv
  <2> QED BY <1>6, <2>1 DEF SchedWrite, FramesInv, gwVars, devVars
<1>7. CASE SchedRevoke
  BY <1>7 DEF SchedRevoke, Live, Dooming
<1>8. CASE SchedDisconnect
  BY <1>8 DEF SchedDisconnect, Live, Dooming
<1>9. CASE SchedClose
  BY <1>9 DEF SchedClose, EndDisconnect, FramesInv, Live, gwVars, netVars, devVars
<1>10. CASE SchedForget
  BY <1>10 DEF SchedForget, FramesInv, gwVars, netVars, devVars
<1> QED BY <1>1, <1>2, <1>3, <1>4, <1>5, <1>6, <1>7, <1>8, <1>9, <1>10 DEF SchedNext

\* Each step of the device keeps the invariant.
LEMMA DevStep ==
    ASSUME TypeOK, ThreadsInv, Live, FramesInv, Agree(gw, dev), DevNext, Live'
    PROVE  FramesInv' /\ Agree(gw, dev)'
<1> USE DEF TypeOK
<1>0. ~DevStop
  BY PendingOps DEF DevStop, Live
<1>1. CASE DevRotate
  <2> DEFINE f == Head(toDev)
  <2>1. /\ f \in Frame /\ f.type = "rotationV2" /\ SentBy(f, gw)
        /\ toDev' = Tail(toDev) /\ AllSentBy(toDev', gw)
        /\ UNCHANGED <<gwVars, schedVars, conns>>
    BY <1>1, QueueTyped, QueueSentBy DEF DevRotate, DevCanRead, FramesInv
  <2>2. f.iteration \in Nat /\ f.mi \in Nat
    BY <2>1 DEF Frame
  <2> HIDE DEF f
  <2>3. CASE f.key = dev.key /\ CanRespond(dev, f.iteration)
    <3>1. /\ dev' = RespondToRotationAtomic(dev, f.mi, f.iteration)
          /\ devFrame' = RotationAck(f.iteration, dev.key)
          /\ UNCHANGED <<devSend, toGw>>
      BY <1>1, <2>3 DEF DevRotate, AckOf, f
    <3>2. /\ \A g \in Frame : SentBy(g, dev) => SentBy(g, dev')
          /\ SentBy(devFrame', dev')
      BY <2>2, <2>3, <3>1, SentByRespond
    <3>3. Agree(dev', gw)
      BY <2>1, <2>3, <3>1, AgreeSymmetric, AgreeRespond
    <3>4. FramesInv'
      BY <2>1, <3>1, <3>2, DevMoves DEF FramesInv, gwVars, schedVars
    <3> QED BY <2>1, <3>3, <3>4, AgreeSymmetric DEF gwVars
  <2>4. CASE ~(f.key = dev.key /\ CanRespond(dev, f.iteration))
    <3>1. UNCHANGED <<devVars, toGw>>
      BY <1>0, <1>1, <2>4 DEF DevRotate, f
    <3> QED BY <2>1, <3>1 DEF FramesInv, gwVars, devVars, schedVars
  <2> QED BY <2>3, <2>4
<1>2. CASE DevReply
  <2>1. AllSentBy(Written(toGw, devFrame), dev)
    BY QueueSentBy DEF FramesInv
  <2> QED BY <1>2, <2>1, SentByPlain DEF DevReply, FramesInv, gwVars, schedVars
<1>3. CASE DevAck
  <2> DEFINE f == Head(toDev)
  <2>1. /\ f \in Frame /\ f.type = "rotationAck" /\ SentBy(f, gw)
        /\ toDev' = Tail(toDev) /\ AllSentBy(toDev', gw)
        /\ UNCHANGED <<gwVars, schedVars, conns>>
    BY <1>3, QueueTyped, QueueSentBy DEF DevAck, DevCanRead, FramesInv
  <2>2. /\ dev' = IF f.key = dev.key /\ CanApplyAck(dev, f.iteration)
                  THEN ApplyRotationAck(dev) ELSE dev
        /\ UNCHANGED <<devPc, devFrame, devSend, conn, toGw>>
    BY <1>0, <1>3 DEF DevAck
  <2> HIDE DEF f
  <2>3. CASE f.key = dev.key /\ CanApplyAck(dev, f.iteration)
    <3>1. PendingIsNext(dev) /\ dev.pendingActive
      BY <2>3 DEF ThreadsInv, CanApplyAck, CanCommit
    <3>2. \A g \in Frame : SentBy(g, dev) => SentBy(g, dev')
      BY <2>2, <2>3, <3>1, SentByCommit DEF ApplyRotationAck
    <3>3. InStep(dev', gw)
      BY <2>1, <2>2, <2>3, <3>1, AgreeSymmetric, AgreeAck
    <3>4. FramesInv'
      BY <2>1, <2>2, <3>2, DevMoves DEF FramesInv, gwVars, schedVars
    <3> QED BY <2>1, <3>3, <3>4, AgreeSymmetric DEF Agree, gwVars
  <2>4. CASE ~(f.key = dev.key /\ CanApplyAck(dev, f.iteration))
    BY <2>1, <2>2, <2>4 DEF FramesInv, gwVars, schedVars
  <2> QED BY <2>3, <2>4
<1>4. CASE DevEnd
  BY <1>0, <1>4 DEF DevEnd
<1>5. CASE DevHangUp
  BY <1>0, <1>5 DEF DevHangUp
<1>6. CASE DevSeal
  BY <1>6, SentByPlain DEF DevSeal, FramesInv, gwVars, netVars, schedVars
<1>7. CASE DevInitiate
  <2> DEFINE mi == secrets + 1  it == dev.iteration + 1
  <2>1. mi \in Nat /\ it \in Nat
    BY DEF SessionType
  <2>2. /\ CanBegin(dev, it) /\ dev' = BeginRotate(dev, mi, it)
        /\ devSend' = RotationV2(it, mi, dev.key) /\ gw' = gw
    BY <1>7 DEF DevInitiate, gwVars
  <2> HIDE DEF mi, it
  <2>3. /\ \A f \in Frame : SentBy(f, dev) => SentBy(f, dev')
        /\ SentBy(devSend', dev')
    BY <2>1, <2>2, SentByBegin
  <2>4. Agree(dev', gw)
    BY <2>1, <2>2, AgreeSymmetric, AgreeBegin
  <2>5. FramesInv'
    BY <1>7, <2>3, DevMoves DEF DevInitiate, FramesInv, gwVars, netVars, schedVars
  <2> QED BY <2>2, <2>4, <2>5, AgreeSymmetric
<1>8. CASE DevWrite
  <2>1. AllSentBy(Written(toGw, devSend), dev)
    BY QueueSentBy DEF FramesInv
  <2> QED BY <1>8, <2>1, SentByPlain DEF DevWrite, FramesInv, gwVars, schedVars
<1> QED BY <1>1, <1>2, <1>3, <1>4, <1>5, <1>6, <1>7, <1>8 DEF DevNext

\* Every step keeps the invariant.
LEMMA InvStep == RotationInv /\ [Next]_vars => RotationInv'
<1> SUFFICES ASSUME RotationInv, [Next]_vars
             PROVE  RotationInv'
  OBVIOUS
<1>0. TypeOK
  BY DEF RotationInv
<1>1. ThreadsInv' /\ (Live' => Live \/ Reconnect)
  BY <1>0, ThreadsStep DEF RotationInv
<1>2. ASSUME Live', Reconnect
      PROVE  FramesInv' /\ Agree(gw, dev)'
  <2>1. /\ Len(toGw') = 0 /\ Len(toDev') = 0 /\ gw' = dev'
        /\ gwPc' = "read" /\ devFrame' = NoFrame /\ devSend' = NoFrame
        /\ schedConn' # conns'
    BY <1>0, <1>2 DEF Reconnect, RotationInv, ThreadsInv, TypeOK, schedVars
  <2>2. FramesInv'
    BY <2>1, SentByPlain DEF FramesInv, AllSentBy
  <2> QED BY <2>1, <2>2 DEF Agree, InStep
<1>3. ASSUME Live', Live, ~Reconnect
      PROVE  FramesInv' /\ Agree(gw, dev)'
  <2>1. ThreadsInv /\ FramesInv /\ Agree(gw, dev)
    BY <1>3 DEF RotationInv
  <2>2. CASE NetworkCut
    BY <1>3, <2>2 DEF NetworkCut, Live
  <2>3. CASE UNCHANGED vars
    BY <2>1, <2>3 DEF FramesInv, vars, gwVars, netVars, devVars, schedVars
  <2> QED BY <1>0, <1>3, <2>1, <2>2, <2>3, GwStep, SchedStep, DevStep DEF Next
<1> QED BY <1>0, <1>1, <1>2, <1>3, NextTyped DEF RotationInv

\* The inductive invariant holds in every behaviour.
THEOREM InvCorrect == Spec => []RotationInv
BY InitInv, InvStep, PTL DEF Spec

\* On a connection nobody is ending the two ends share their key, or the one
\* that is a step behind holds the other's key as its pending one: whatever
\* the number of reconnections, rotations, rollbacks and frames in flight.
THEOREM RecoverableCorrect == Spec => []Recoverable
<1>1. RotationInv => Recoverable
  BY DEF RotationInv, Recoverable
<1> QED BY <1>1, InvCorrect, PTL

\* A commit of the gateway on a live connection is of a key the device holds
\* (ApplyRotationAck, RespondToRotationAtomic).
LEMMA CommitStep ==
    ASSUME TypeOK, RotationInv, Next, Live, gw'.iteration = gw.iteration + 1
    PROVE  gw'.key \in {dev.key, dev.pendingKey}
<1> USE DEF TypeOK
<1>1. ThreadsInv /\ FramesInv /\ Agree(gw, dev) /\ gw.iteration \in Nat
  BY DEF RotationInv, SessionType
<1>2. \A mi, it : /\ BeginRotate(gw, mi, it).iteration # gw.iteration + 1
                  /\ AbortRotate(gw).iteration # gw.iteration + 1
                  /\ Close(gw).iteration # gw.iteration + 1
  BY <1>1 DEF BeginRotate, AbortRotate, Close, SessionType
<1>3. CASE GwRespond
  <2>1. /\ gw' = RespondToRotationAtomic(gw, gwFrame.mi, gwFrame.iteration)
        /\ CanRespond(gw, gwFrame.iteration)
    BY <1>1, <1>3 DEF GwRespond
  <2>2. CanCatchUp(dev, gw')
    BY <1>1, <1>3, <2>1, AgreeRespond DEF GwRespond, FramesInv
  <2> QED BY <2>2 DEF CanCatchUp
<1>4. CASE GwApplyAck
  <2>1. gw' = ApplyRotationAck(gw) /\ CanApplyAck(gw, gwFrame.iteration)
    BY <1>1, <1>4 DEF GwApplyAck
  <2>2. InStep(gw', dev)
    BY <1>1, <1>4, <2>1, AgreeAck DEF GwApplyAck, FramesInv, ThreadsInv
  <2> QED BY <2>2 DEF InStep
<1>5. CASE GwReturn \/ SchedAbort \/ SchedBegin \/ SchedRevoke
  <2>1. \/ gw' = gw \/ gw' = AbortRotate(gw) \/ gw' = Close(gw)
        \/ \E mi, it : gw' = BeginRotate(gw, mi, it)
    BY <1>5 DEF GwReturn, SchedAbort, SchedBegin, SchedRevoke
  <2> QED BY <1>1, <1>2, <2>1
<1>6. CASE Reconnect
  BY <1>1, <1>6 DEF Reconnect, ThreadsInv, Live
<1>7. CASE UNCHANGED gw
  BY <1>1, <1>7
<1>8. CASE \/ GwRead \/ GwData \/ GwCheckTag \/ GwReply \/ GwUnregister
  BY <1>7, <1>8 DEF GwRead, GwData, GwCheckTag, GwReply, GwUnregister
<1>9. CASE \/ SchedTick \/ SchedWait \/ SchedDecide \/ SchedWrite
           \/ SchedDisconnect \/ SchedClose \/ SchedForget
  BY <1>7, <1>9 DEF SchedTick, SchedWait, SchedDecide, SchedWrite,
     SchedDisconnect, SchedClose, SchedForget, gwVars
<1>10. CASE DevNext \/ NetworkCut
  BY <1>7, <1>10 DEF DevNext, DevRotate, DevReply, DevAck, DevEnd, DevHangUp, DevSeal,
     DevInitiate, DevWrite, NetworkCut, gwVars
<1> QED BY <1>3, <1>4, <1>5, <1>6, <1>8, <1>9, <1>10 DEF Next, GwNext, SchedNext

\* No interleaving makes the gateway of a live connection commit a key its
\* peer does not hold: it never takes one rotation's ACK for another's.
THEOREM CommitCorrect == Spec => CommitMeetsPeer
<1>1. /\ TypeOK /\ RotationInv /\ [Next]_vars
      => [Live /\ gw'.iteration = gw.iteration + 1
            => gw'.key \in {dev.key, dev.pendingKey}]_vars
  BY CommitStep
<1> QED BY <1>1, TypeCorrect, InvCorrect, PTL DEF Spec, CommitMeetsPeer
-----------------------------------------------------------------------------
(* The rotation implements KeyAgreement.                                   *)

\* KeyAgreement sees the same keys as this module.
LEMMA SameDerived ==
    /\ Agreement!NoKey = NoKey
    /\ \A j, k : Agreement!Derived(j, k) <=> Derived(j, k)
BY DEF Agreement!NoKey, NoKey, Agreement!Derived, Derived

\* The initial states of Rotation are initial states of KeyAgreement.
LEMMA InitRefines == Init => Agreement!KaInit
<1> SUFFICES ASSUME Init PROVE Agreement!KaInit
  OBVIOUS
<1>1. Live /\ gw.key = DeriveK0(1) /\ dev.key = DeriveK0(1)
  BY DEF Init, Live, Dooming, NewSession
<1>2. Derived(DeriveK0(1), NoKey)
  BY DEF DeriveK0, Derived, NoKey
<1> QED BY <1>1, <1>2, SameDerived
        DEF Agreement!KaInit, Agreement!Fresh

\* While the connection stays live a step moves one end ahead, lets the one
\* behind follow, or touches no key.
LEMMA LiveRefines ==
    ASSUME TypeOK, RotationInv, Next, Live, Live'
    PROVE  \/ UNCHANGED <<gw.key, dev.key>>
           \/ /\ gw.key = dev.key
              /\ \/ Derived(dev.key', dev.key) /\ UNCHANGED gw
                 \/ Derived(gw.key', gw.key) /\ UNCHANGED dev
           \/ Derived(dev.key, gw.key) /\ gw.key' = dev.key /\ UNCHANGED dev
           \/ Derived(gw.key, dev.key) /\ dev.key' = gw.key /\ UNCHANGED gw
<1> USE DEF TypeOK
<1>0. /\ ThreadsInv /\ FramesInv /\ Agree(gw, dev)
      /\ ~DevStop
  BY PendingOps DEF RotationInv, DevStop, Live
<1>1. CASE GwRespond
  <2>1. CASE CanRespond(gw, gwFrame.iteration)
    <3>1. /\ gw' = RespondToRotationAtomic(gw, gwFrame.mi, gwFrame.iteration)
          /\ dev' = dev /\ SentBy(gwFrame, dev) /\ gwFrame.type = "rotationV2"
      BY <1>0, <1>1, <2>1 DEF GwRespond, FramesInv, devVars
    <3>2. gw.key = dev.key
      BY <1>0, <2>1, <3>1, AgreeRespond DEF InStep
    <3>3. Derived(gw'.key, gw.key)
      BY <2>1, <3>1, RespondDerives
    <3> QED BY <3>1, <3>2, <3>3
  <2>2. CASE ~CanRespond(gw, gwFrame.iteration)
    BY <1>1, <2>2 DEF GwRespond, devVars
  <2> QED BY <2>1, <2>2
<1>2. CASE GwApplyAck
  <2>1. CASE CanApplyAck(gw, gwFrame.iteration)
    <3>1. /\ gw' = ApplyRotationAck(gw) /\ dev' = dev
          /\ SentBy(gwFrame, dev) /\ gwFrame.type = "rotationAck"
      BY <1>0, <1>2, <2>1 DEF GwApplyAck, FramesInv, devVars
    <3>2. CanCatchUp(gw, dev) /\ InStep(gw', dev)
      BY <1>0, <2>1, <3>1, AgreeAck DEF ThreadsInv
    <3>3. Derived(dev.key, gw.key) /\ gw'.key = dev.key
      BY <1>0, <3>2 DEF CanCatchUp, InStep, ThreadsInv, PendingIsNext
    <3> QED BY <3>1, <3>3
  <2>2. CASE ~CanApplyAck(gw, gwFrame.iteration)
    BY <1>2, <2>2 DEF GwApplyAck, devVars
  <2> QED BY <2>1, <2>2
<1>3. CASE DevRotate
  <2> DEFINE f == Head(toDev)
  <2>1. f \in Frame /\ f.type = "rotationV2" /\ SentBy(f, gw) /\ gw' = gw
    BY <1>0, <1>3, QueueTyped, QueueSentBy DEF DevRotate, DevCanRead, FramesInv, gwVars
  <2> HIDE DEF f
  <2>2. CASE f.key = dev.key /\ CanRespond(dev, f.iteration)
    <3>1. dev' = RespondToRotationAtomic(dev, f.mi, f.iteration)
      BY <1>3, <2>2 DEF DevRotate, f
    <3>2. gw.key = dev.key
      BY <1>0, <2>1, <2>2, AgreeSymmetric, AgreeRespond DEF InStep
    <3>3. Derived(dev'.key, dev.key)
      BY <2>1, <2>2, <3>1, RespondDerives
    <3> QED BY <2>1, <3>2, <3>3
  <2>3. CASE ~(f.key = dev.key /\ CanRespond(dev, f.iteration))
    BY <1>0, <1>3, <2>1, <2>3 DEF DevRotate, devVars, f
  <2> QED BY <2>2, <2>3
<1>4. CASE DevAck
  <2> DEFINE f == Head(toDev)
  <2>1. /\ f \in Frame /\ f.type = "rotationAck" /\ SentBy(f, gw) /\ gw' = gw
        /\ dev' = IF f.key = dev.key /\ CanApplyAck(dev, f.iteration)
                  THEN ApplyRotationAck(dev) ELSE dev
    BY <1>0, <1>4, QueueTyped, QueueSentBy DEF DevAck, DevCanRead, FramesInv, gwVars
  <2> HIDE DEF f
  <2>2. CASE f.key = dev.key /\ CanApplyAck(dev, f.iteration)
    <3>1. CanCatchUp(dev, gw) /\ InStep(dev', gw)
      BY <1>0, <2>1, <2>2, AgreeSymmetric, AgreeAck DEF ThreadsInv
    <3>2. Derived(gw.key, dev.key) /\ dev'.key = gw.key
      BY <1>0, <3>1 DEF CanCatchUp, InStep, ThreadsInv, PendingIsNext
    <3> QED BY <2>1, <3>2
  <2>3. CASE ~(f.key = dev.key /\ CanApplyAck(dev, f.iteration))
    BY <2>1, <2>3
  <2> QED BY <2>2, <2>3
<1>5. CASE GwReturn \/ SchedAbort \/ SchedRevoke
  <2>1. Close(gw).closed
    BY PendingOps
  <2> QED BY <1>5, <2>1 DEF GwReturn, SchedAbort, SchedRevoke, AfterRollback, Live, Dooming
<1>6. CASE SchedBegin
  <2>1. \A mi, it : BeginRotate(gw, mi, it).key = gw.key
    BY DEF BeginRotate, SessionType
  <2> QED BY <1>6, <2>1 DEF SchedBegin, devVars
<1>7. CASE DevInitiate
  <2>1. \A mi, it : BeginRotate(dev, mi, it).key = dev.key
    BY DEF BeginRotate, SessionType
  <2> QED BY <1>7, <2>1 DEF DevInitiate, gwVars
<1>8. CASE DevEnd \/ DevHangUp \/ NetworkCut \/ Reconnect
  BY <1>0, <1>8 DEF DevEnd, DevHangUp, NetworkCut, Reconnect, ThreadsInv, Live
<1>9. CASE \/ GwRead \/ GwData \/ GwCheckTag \/ GwReply \/ GwUnregister
  BY <1>9 DEF GwRead, GwData, GwCheckTag, GwReply, GwUnregister, devVars
<1>10. CASE \/ SchedTick \/ SchedWait \/ SchedDecide \/ SchedWrite
            \/ SchedDisconnect \/ SchedClose \/ SchedForget
  BY <1>10 DEF SchedTick, SchedWait, SchedDecide, SchedWrite,
     SchedDisconnect, SchedClose, SchedForget, gwVars, devVars
<1>11. CASE DevReply \/ DevSeal \/ DevWrite
  BY <1>11 DEF DevReply, DevSeal, DevWrite, gwVars
<1> QED BY <1>1, <1>2, <1>3, <1>4, <1>5, <1>6, <1>7, <1>8, <1>9, <1>10, <1>11
        DEF Next, GwNext, SchedNext, DevNext

\* Every step of Rotation is a step of KeyAgreement or stutters.
LEMMA NextRefines ==
    TypeOK /\ RotationInv /\ [Next]_vars => [Agreement!KaNext]_Agreement!kaVars
<1> SUFFICES ASSUME TypeOK, RotationInv, [Next]_vars
             PROVE  [Agreement!KaNext]_Agreement!kaVars
  OBVIOUS
<1>0. Live \in BOOLEAN /\ Live' \in BOOLEAN
  BY DEF Live
<1> USE <1>0, SameDerived DEF Agreement!KaNext, Agreement!kaVars
<1>1. CASE Live /\ ~Live'
  <2>1. Agreement!Break
    BY <1>1 DEF Agreement!Break
  <2> QED BY <2>1
<1>2. CASE ~Live /\ ~Live'
  BY <1>2
<1>3. CASE ~Live /\ Live'
  <2>1. Reconnect
    BY <1>3, ThreadsStep DEF RotationInv
  <2>2. gw'.key = DeriveK0(conns + 1) /\ dev'.key = DeriveK0(conns + 1)
    BY <2>1 DEF Reconnect, NewSession
  <2>3. Derived(DeriveK0(conns + 1), NoKey)
    BY DEF DeriveK0, Derived, NoKey
  <2>4. Agreement!Establish
    BY <1>3, <2>2, <2>3 DEF Agreement!Establish, Agreement!Fresh
  <2> QED BY <2>4
<1>4. CASE Live /\ Live' /\ Next
  <2>1. CASE UNCHANGED <<gw.key, dev.key>>
    BY <1>4, <2>1
  <2>2. CASE gw.key = dev.key /\ Derived(dev.key', dev.key) /\ UNCHANGED gw
    BY <1>4, <2>2 DEF Agreement!DevMovesAhead
  <2>3. CASE gw.key = dev.key /\ Derived(gw.key', gw.key) /\ UNCHANGED dev
    BY <1>4, <2>3 DEF Agreement!GwMovesAhead
  <2>4. CASE Derived(dev.key, gw.key) /\ gw.key' = dev.key /\ UNCHANGED dev
    BY <1>4, <2>4 DEF Agreement!GwFollows
  <2>5. CASE Derived(gw.key, dev.key) /\ dev.key' = gw.key /\ UNCHANGED gw
    BY <1>4, <2>5 DEF Agreement!DevFollows
  <2> QED BY <1>4, <2>1, <2>2, <2>3, <2>4, <2>5, LiveRefines
<1>5. CASE Live /\ Live' /\ UNCHANGED vars
  BY <1>5 DEF vars, gwVars, devVars
<1> QED BY <1>1, <1>2, <1>3, <1>4, <1>5

\* The two-phase rotation implements the key agreement it stands for, with
\* any number of handshakes, rotations, rollbacks and crossing requests.
THEOREM AgreementRefined == Spec => ImplementsKeyAgreement
BY InitRefines, NextRefines, TypeCorrect, InvCorrect, PTL
   DEF Spec, ImplementsKeyAgreement, Agreement!KaSpec
-----------------------------------------------------------------------------
(* The count of failures, when only the gateway starts rotations.          *)

\* No rotation is on its way to the gateway.
NoneAsked ==
    /\ \A i \in 1..Len(toGw) : toGw[i].type # "rotationV2"
    /\ {gwFrame.type, devFrame.type, devSend.type} \cap {"rotationV2"} = {}

\* A rotation begins at an iteration the scheduler has seen, so an iteration it
\* has not seen is a success that no rollback has followed.  A count past the
\* threshold is deleted after an attempt to revoke only.
CountInv ==
    /\ NoneAsked
    /\ gw.pendingActive /\ lastIteration # -1 => gw.iteration <= lastIteration
    /\ schedPc = "initiate" =>
         ~gw.pendingActive /\ lastIteration # -1 /\ gw.iteration <= lastIteration
    /\ lastIteration # -1 /\ SessionIteration > lastIteration => sinceSuccess = 0
    /\ schedPc \in {"disconnect", "close"} /\ failures >= MaxRotationFailures =>
         sinceSuccess = 0
    /\ FailuresCounted

\* What the operators of a session do to its iteration and its pending mark.
LEMMA SessionMarks ==
    ASSUME NEW s \in SessionType, NEW mi, NEW it
    PROVE  /\ BeginRotate(s, mi, it).iteration = s.iteration
           /\ BeginRotate(s, mi, it).closed = s.closed
           /\ ~CommitRotate(s).pendingActive
           /\ ~AbortRotate(s).pendingActive /\ AbortRotate(s).iteration = s.iteration
           /\ AbortRotate(s).closed = s.closed
           /\ ~Close(s).pendingActive /\ Close(s).iteration = s.iteration
           /\ Close(s).closed
BY DEF SessionType, BeginRotate, CommitRotate, AbortRotate, Close

\* Only the device could ask the gateway for a rotation.
LEMMA AskedStep ==
    ASSUME ~DeviceInitiates, TypeOK, NoneAsked, [Next]_vars
    PROVE  NoneAsked'
<1> USE DEF NoneAsked, TypeOK
<1>0. /\ NoFrame.type # "rotationV2"
      /\ \A k : DataFrame(k).type # "rotationV2"
      /\ \A it, k : RotationAck(it, k).type # "rotationV2"
      /\ \A s, f : AckOf(s, f).type # "rotationV2"
      /\ \A p \in Prefixes(toGw) : \A i \in 1..Len(p) : p[i].type # "rotationV2"
  <2>1. ASSUME NEW p \in Prefixes(toGw), NEW i \in 1..Len(p)
        PROVE  p[i].type # "rotationV2"
    <3>1. Len(p) <= Len(toGw) /\ p[i] = toGw[i] /\ p \in Seq(Frame)
      BY PrefixTyped
    <3>2. i \in 1..Len(toGw)
      BY <3>1
    <3> QED BY <3>1, <3>2
  <2> QED BY <2>1 DEF NoFrame, DataFrame, RotationAck, AckOf
<1>1. CASE GwRead
  <2>1. toGw # <<>> /\ gwFrame' = Head(toGw) /\ toGw' = Tail(toGw)
    BY <1>1 DEF GwRead
  <2>2. /\ Head(toGw) = toGw[1] /\ 1 \in 1..Len(toGw)
        /\ Len(Tail(toGw)) = Len(toGw) - 1
        /\ \A i \in 1..Len(Tail(toGw)) : Tail(toGw)[i] = toGw[i + 1]
    BY <2>1, QueueTyped, NoKeyTyped, FrameTyped
  <2>3. \A i \in 1..Len(toGw') : toGw'[i].type # "rotationV2"
    BY <2>1, <2>2
  <2> QED BY <1>1, <2>1, <2>2, <2>3 DEF GwRead, devVars
<1>2. CASE GwData \/ GwCheckTag \/ GwRespond \/ GwReply \/ GwApplyAck \/ GwReturn
           \/ GwUnregister
  BY <1>0, <1>2
  DEF GwData, GwCheckTag, GwRespond, GwReply, GwApplyAck, GwReturn, GwUnregister,
      netVars, devVars
<1>3. CASE SchedNext
  <2>1. /\ UNCHANGED <<gwFrame, devFrame, devSend>>
        /\ toGw' = toGw \/ toGw' = <<>>
    BY <1>3
    DEF SchedNext, SchedTick, SchedAbort, SchedWait, SchedDecide, SchedBegin, SchedWrite,
        SchedRevoke, SchedDisconnect, SchedClose, SchedForget, gwVars, netVars, devVars
  <2> QED BY <2>1
<1>4. CASE DevRotate \/ DevAck \/ DevEnd \/ DevHangUp \/ NetworkCut
  <2>1. toGw' = toGw \/ toGw' \in Prefixes(toGw)
    BY <1>4 DEF DevRotate, DevAck, DevEnd, DevHangUp, NetworkCut
  <2>2. gwFrame' = gwFrame
    BY <1>4 DEF DevRotate, DevAck, DevEnd, DevHangUp, NetworkCut, gwVars
  <2>3. /\ devFrame' \in {devFrame, NoFrame, AckOf(dev, Head(toDev))}
        /\ devSend' \in {devSend, NoFrame}
    BY <1>4 DEF DevRotate, DevAck, DevEnd, DevHangUp, DevStop, NetworkCut, devVars
  <2> QED BY <1>0, <2>1, <2>2, <2>3
<1>5. CASE DevReply \/ DevWrite
  <2>1. PICK f \in {devFrame, devSend} : toGw' = Written(toGw, f)
    BY <1>5 DEF DevReply, DevWrite
  <2>2. \A i \in 1..Len(toGw') : toGw'[i].type # "rotationV2"
    <3>1. /\ Len(Append(toGw, f)) = Len(toGw) + 1
          /\ \A i \in 1..Len(toGw) : Append(toGw, f)[i] = toGw[i]
          /\ Append(toGw, f)[Len(toGw) + 1] = f
      BY AppendProperties
    <3>2. Len(toGw) \in Nat
      BY LenProperties
    <3>3. f.type # "rotationV2"
      OBVIOUS
    <3>4. \A i \in 1..Len(Append(toGw, f)) : i \in 1..Len(toGw) \/ i = Len(toGw) + 1
      BY <3>1, <3>2
    <3>5. \A i \in 1..Len(Append(toGw, f)) : Append(toGw, f)[i].type # "rotationV2"
      BY <3>1, <3>3, <3>4
    <3> QED BY <2>1, <3>5 DEF Written
  <2> QED BY <1>0, <1>5, <2>2 DEF DevReply, DevWrite, gwVars
<1>6. CASE DevSeal
  BY <1>0, <1>6 DEF DevSeal, gwVars, netVars
<1>7. ~DevInitiate
  BY DEF DevInitiate
<1>8. CASE Reconnect
  BY <1>8 DEF Reconnect
<1>9. CASE UNCHANGED vars
  BY <1>9 DEF vars, gwVars, netVars, devVars
<1> QED BY <1>1, <1>2, <1>3, <1>4, <1>5, <1>6, <1>7, <1>8, <1>9
        DEF Next, GwNext, DevNext

\* A commit is no rollback; nothing but an ACK makes the gateway commit.
LEMMA GwCountStep ==
    ASSUME TypeOK, CountInv, GwNext, NoneAsked'
    PROVE  CountInv'
<1> USE SessionMarks DEF CountInv, TypeOK, FailuresCounted, SessionIteration, NoSession
<1>1. CASE GwRead \/ GwData \/ GwCheckTag \/ GwReply \/ GwUnregister
  BY <1>1 DEF GwRead, GwData, GwCheckTag, GwReply, GwUnregister, schedVars
<1>2. ~GwRespond
  BY DEF GwRespond, NoneAsked
<1>3. CASE GwApplyAck
  <2>1. CASE CanApplyAck(gw, gwFrame.iteration)
    <3>1. ~gw'.pendingActive /\ sinceSuccess' = 0 /\ UNCHANGED schedVars /\ gw.pendingActive
      BY <1>3, <2>1 DEF GwApplyAck, ApplyRotationAck, CanApplyAck, CanCommit
    <3> QED BY <3>1 DEF schedVars
  <2>2. CASE ~CanApplyAck(gw, gwFrame.iteration)
    BY <1>3, <2>2 DEF GwApplyAck, schedVars
  <2> QED BY <2>1, <2>2
<1>4. CASE GwReturn
  <2>1. ~gw'.pendingActive /\ gw'.closed /\ gw'.iteration = gw.iteration
    BY <1>4 DEF GwReturn
  <2>2. UNCHANGED schedVars /\ UNCHANGED sinceSuccess
    BY <1>4 DEF GwReturn
  <2> QED BY <2>1, <2>2 DEF schedVars
<1> QED BY <1>1, <1>2, <1>3, <1>4 DEF GwNext

\* A rollback is counted; the count is reset on an unseen success only.
LEMMA SchedCountStep ==
    ASSUME TypeOK, CountInv, SchedNext, NoneAsked'
    PROVE  CountInv'
<1> USE SessionMarks DEF CountInv, TypeOK, FailuresCounted, SessionIteration, NoSession
<1>0. gw.iteration \in Nat
  BY DEF SessionType
<1>1. CASE SchedTick \/ SchedWait \/ SchedWrite \/ SchedForget
  BY <1>1 DEF SchedTick, SchedWait, SchedWrite, SchedForget, gwVars
<1>2. CASE SchedAbort
  <2>1. ~gw'.pendingActive /\ gw'.iteration = gw.iteration /\ gw'.closed = gw.closed
    BY <1>2 DEF SchedAbort
  <2>2. /\ gw.pendingActive /\ schedPc' \in {"disconnect", "revoke"}
        /\ schedPc' = "disconnect" => ~(failures' >= MaxRotationFailures)
    BY <1>2, RotationAssumption DEF SchedAbort, RotationStale, AfterRollback
  <2>3. ~(lastIteration # -1 /\ SessionIteration > lastIteration)
    BY <1>0, <2>2
  <2> QED BY <1>0, <1>2, <2>1, <2>2, <2>3 DEF SchedAbort
<1>3. CASE SchedDecide
  <2>1. UNCHANGED <<gw, revoked, sinceSuccess>> /\ ~gw.pendingActive
    BY <1>3 DEF SchedDecide, gwVars
  <2>2. lastIteration' = SessionIteration /\ (schedPc' = "initiate" => ~gw.closed)
    BY <1>3 DEF SchedDecide, checkRotationProgress
  <2>3. failures' = failures \/ (failures' = 0 /\ sinceSuccess = 0)
    BY <1>3 DEF SchedDecide, checkRotationProgress
  <2>4. schedPc' \in {"idle", "initiate"}
    BY <1>3 DEF SchedDecide
  <2> QED BY <1>0, <2>1, <2>2, <2>3, <2>4
<1>4. CASE SchedBegin
  <2>1. /\ UNCHANGED <<lastIteration, failures, revoked, sinceSuccess>>
        /\ schedPc' \in {"begun", "idle"}
    BY <1>4 DEF SchedBegin
  <2>2. gw'.iteration = gw.iteration /\ gw'.closed = gw.closed
    BY <1>4 DEF SchedBegin
  <2>3. gw.iteration <= lastIteration
    BY <1>4 DEF SchedBegin
  <2> QED BY <2>1, <2>2, <2>3
<1>5. CASE SchedRevoke
  <2>1. UNCHANGED <<failures, lastIteration>> /\ sinceSuccess' = 0 /\ schedPc' = "disconnect"
    BY <1>5 DEF SchedRevoke
  <2>2. gw' = gw \/ gw' = Close(gw)
    BY <1>5 DEF SchedRevoke
  <2>3. /\ gw'.pendingActive => gw.pendingActive
        /\ gw'.iteration = gw.iteration
    BY <2>2
  <2> QED BY <1>0, <2>1, <2>3
<1>6. CASE SchedDisconnect \/ SchedClose
  <2>1. UNCHANGED <<gw, lastIteration, revoked, sinceSuccess>> /\ schedPc' \in {"idle", "close"}
    BY <1>6 DEF SchedDisconnect, SchedClose, EndDisconnect, gwVars
  <2>2. \/ failures' = failures
        \/ failures >= MaxRotationFailures /\ failures' = 0
    BY <1>6, RotationAssumption DEF SchedDisconnect, SchedClose, EndDisconnect
  <2>3. schedPc \in {"disconnect", "close"}
    BY <1>6 DEF SchedDisconnect, SchedClose
  <2> QED BY <2>1, <2>2, <2>3, RotationAssumption
<1> QED BY <1>1, <1>2, <1>3, <1>4, <1>5, <1>6 DEF SchedNext

\* The device and the network do not count; a new session starts at zero.
LEMMA OtherCountStep ==
    ASSUME TypeOK, CountInv, DevNext \/ NetworkCut \/ Reconnect \/ UNCHANGED vars, NoneAsked'
    PROVE  CountInv'
<1> USE DEF CountInv, TypeOK, FailuresCounted, SessionIteration, NoSession
<1>1. CASE Reconnect
  <2>1. ~gw'.pendingActive /\ gw'.iteration = 0
    BY <1>1 DEF Reconnect, NewSession
  <2> QED BY <1>1, <2>1 DEF Reconnect, schedVars
<1>2. CASE DevNext \/ NetworkCut \/ UNCHANGED vars
  <2>1. UNCHANGED <<gw, schedVars, sinceSuccess>>
    BY <1>2 DEF DevNext, DevRotate, DevReply, DevAck, DevEnd, DevHangUp, DevSeal,
       DevInitiate, DevWrite, NetworkCut, vars, gwVars
  <2> QED BY <2>1 DEF schedVars
<1> QED BY <1>1, <1>2

(***************************************************************************)
(* FailuresCorrect: when only the gateway starts rotations, as with the    *)
(* firmware, the scheduler forgets no rollback before the next success or  *)
(* before it has tried to revoke the device, however many connections      *)
(* there are (checkRotationProgress, EndDisconnect).                       *)
(***************************************************************************)
THEOREM FailuresCorrect == ASSUME ~DeviceInitiates PROVE Spec => []FailuresCounted
<1>1. Init => CountInv
  BY DEF Init, CountInv, NoneAsked, NewSession, NoFrame, FailuresCounted, SessionIteration
<1>2. TypeOK /\ CountInv /\ [Next]_vars => CountInv'
  <2> SUFFICES ASSUME TypeOK, CountInv, [Next]_vars PROVE CountInv'
    OBVIOUS
  <2>1. NoneAsked'
    BY AskedStep DEF CountInv
  <2> QED BY <2>1, GwCountStep, SchedCountStep, OtherCountStep DEF Next
<1>3. CountInv => FailuresCounted
  BY DEF CountInv
<1> QED BY TypeCorrect, <1>1, <1>2, <1>3, PTL DEF Spec

-----------------------------------------------------------------------------
(* The keys of the frames in flight, when the device is the firmware.      *)

\* The frames on their way up, oldest first: the one the gateway's handler
\* holds, those in the channel, and the one the device has yet to write.
Held == IF gwPc \in {"check", "apply"} THEN <<gwFrame>> ELSE <<>>

Kept ==
    IF devPc = "reply" THEN <<devFrame>>
    ELSE IF devSend # NoFrame THEN <<devSend>> ELSE <<>>

Upward == Held \o (toGw \o Kept)

\* Those on their way down: the channel, and the rotation not yet written.
Downward ==
    IF schedPc = "begun" /\ schedConn = conns
    THEN Append(toDev, schedFrame) ELSE toDev

\* Data packets only, all of them under k.
Plain(q, k) == \A i \in 1..Len(q) : q[i].type = "data" /\ q[i].key = k

\* One ACK, of the step it; data under k before it and under k2 after it.
Turning(q, k, k2, it) ==
    \E n \in 1..Len(q) :
       /\ q[n].type = "rotationAck" /\ q[n].key = k /\ q[n].iteration = it
       /\ \A i \in 1..Len(q) : i < n => q[i].type = "data" /\ q[i].key = k
       /\ \A i \in 1..Len(q) : i > n => q[i].type = "data" /\ q[i].key = k2

\* Nothing, or the one rotation that s can answer.
Asks(q, s) ==
    q = <<>> \/ /\ Len(q) = 1 /\ q[1].type = "rotationV2"
                /\ q[1].key = s.key /\ q[1].iteration = s.iteration + 1

\* Before a rotation reaches the device all frames are under the common key;
\* from then until the gateway commits, its ACK marks where the key changes.
StreamInv ==
    \/ /\ InStep(gw, dev) /\ Plain(Upward, dev.key) /\ Asks(Downward, dev)
       /\ Downward # <<>> => gw.pendingActive
    \/ /\ CanCatchUp(gw, dev) /\ Downward = <<>>
       /\ Turning(Upward, gw.key, dev.key, dev.iteration)

\* The firmware answers a rotation before it seals the next packet, and never
\* holds a rotation of its own.
FirmwareLoop ==
    /\ NoneAsked /\ gwPc # "reply" /\ ~dev.pendingActive
    /\ IF devPc = "reply" THEN devSend = NoFrame ELSE devFrame = NoFrame

SealedInv == FirmwareLoop /\ (Live => StreamInv)

\* A one-frame queue in front of another, as one queue.
LEMMA Single ==
    ASSUME NEW f \in Frame, NEW u \in Seq(Frame)
    PROVE  /\ <<f>> \in Seq(Frame) /\ <<f>> \o u \in Seq(Frame)
           /\ Len(<<f>> \o u) = Len(u) + 1
           /\ (<<f>> \o u)[1] = f
           /\ \A i \in 1..Len(u) : (<<f>> \o u)[i + 1] = u[i]
<1>1. <<f>> \in Seq(Frame) /\ Len(<<f>>) = 1 /\ <<f>>[1] = f
  OBVIOUS
<1>2. /\ <<f>> \o u \in Seq(Frame) /\ Len(<<f>> \o u) = 1 + Len(u)
      /\ \A i \in 1..1 + Len(u) :
           (<<f>> \o u)[i] = IF i <= 1 THEN <<f>>[i] ELSE u[i - 1]
  BY <1>1, ConcatProperties
<1>3. Len(u) \in Nat
  BY LenProperties
<1>4. \A i \in 1..Len(u) : i + 1 \in 1..1 + Len(u) /\ ~(i + 1 <= 1) /\ (i + 1) - 1 = i
  BY <1>3
<1> QED BY <1>1, <1>2, <1>3, <1>4

\* Taking the first frame of a queue and putting it in front changes nothing.
LEMMA HeadAndTail ==
    ASSUME NEW q \in Seq(Frame), q # <<>>
    PROVE  <<Head(q)>> \o Tail(q) = q
<1>1. /\ Head(q) \in Frame /\ Tail(q) \in Seq(Frame) /\ Len(Tail(q)) = Len(q) - 1
      /\ \A i \in 1..Len(Tail(q)) : Tail(q)[i] = q[i + 1]
  BY HeadTailProperties
<1>2. Head(q) = q[1] /\ Len(q) \in Nat
  OBVIOUS
<1>3. \A i \in 1..Len(q) : (<<Head(q)>> \o Tail(q))[i] = q[i]
  <2> SUFFICES ASSUME NEW i \in 1..Len(q) PROVE (<<Head(q)>> \o Tail(q))[i] = q[i]
    OBVIOUS
  <2>1. CASE i = 1
    BY <1>1, <1>2, <2>1, Single
  <2>2. CASE i # 1
    <3>1. i - 1 \in 1..Len(Tail(q)) /\ (i - 1) + 1 = i
      BY <1>1, <1>2, <2>2
    <3> QED BY <1>1, <3>1, Single
  <2> QED BY <2>1, <2>2
<1>4. /\ <<Head(q)>> \o Tail(q) \in Seq(Frame)
      /\ Len(<<Head(q)>> \o Tail(q)) = Len(q)
  BY <1>1, <1>2, Single
<1> QED BY <1>3, <1>4, SeqEqual

\* The oldest frame can be read.
LEMMA FirstOut ==
    ASSUME NEW f \in Frame, NEW u \in Seq(Frame), NEW k, NEW k2, NEW it
    PROVE  /\ Plain(<<f>> \o u, k) => f.type = "data" /\ f.key = k /\ Plain(u, k)
           /\ Turning(<<f>> \o u, k, k2, it) =>
                /\ f.key = k
                /\ \/ f.type = "data" /\ Turning(u, k, k2, it)
                   \/ f.type = "rotationAck" /\ f.iteration = it /\ Plain(u, k2)
<1> DEFINE q == <<f>> \o u
<1>0. Len(u) \in Nat
  BY LenProperties
<1>1. /\ Len(q) = Len(u) + 1 /\ q[1] = f
      /\ \A i \in 1..Len(u) : q[i + 1] = u[i]
  BY Single
<1>2. 1 \in 1..Len(q) /\ \A i \in 1..Len(u) : i + 1 \in 1..Len(q) /\ i + 1 > 1
  BY <1>0, <1>1
<1> HIDE DEF q
<1>3. ASSUME Plain(q, k)
      PROVE  f.type = "data" /\ f.key = k /\ Plain(u, k)
  BY <1>1, <1>2, <1>3 DEF Plain
<1>4. ASSUME Turning(q, k, k2, it)
      PROVE  /\ f.key = k
             /\ \/ f.type = "data" /\ Turning(u, k, k2, it)
                \/ f.type = "rotationAck" /\ f.iteration = it /\ Plain(u, k2)
  <2>1. PICK n \in 1..Len(q) :
           /\ q[n].type = "rotationAck" /\ q[n].key = k /\ q[n].iteration = it
           /\ \A i \in 1..Len(q) : i < n => q[i].type = "data" /\ q[i].key = k
           /\ \A i \in 1..Len(q) : i > n => q[i].type = "data" /\ q[i].key = k2
    BY <1>4 DEF Turning
  <2>2. CASE n = 1
    BY <1>1, <1>2, <2>1, <2>2 DEF Plain
  <2>3. CASE n # 1
    <3> DEFINE m == n - 1
    <3>1. m \in 1..Len(u) /\ m + 1 = n /\ 1 < n
      BY <1>0, <1>1, <2>3
    <3>2. \A i \in 1..Len(u) : (i < m => i + 1 < n) /\ (i > m => i + 1 > n)
      BY <1>0, <3>1
    <3> HIDE DEF m
    <3>3. f.type = "data" /\ f.key = k
      BY <1>1, <1>2, <2>1, <3>1
    <3>4. u[m].type = "rotationAck" /\ u[m].key = k /\ u[m].iteration = it
      BY <1>1, <2>1, <3>1
    <3>5. /\ \A i \in 1..Len(u) : i < m => u[i].type = "data" /\ u[i].key = k
          /\ \A i \in 1..Len(u) : i > m => u[i].type = "data" /\ u[i].key = k2
      BY <1>1, <1>2, <2>1, <3>2
    <3>6. Turning(u, k, k2, it)
      BY <3>1, <3>4, <3>5 DEF Turning
    <3> QED BY <3>3, <3>6
  <2> QED BY <2>2, <2>3
<1> QED BY <1>3, <1>4 DEF q

\* A frame can be added behind the last.
LEMMA LastIn ==
    ASSUME NEW q \in Seq(Frame), NEW f \in Frame, NEW k, NEW k2, NEW it
    PROVE  /\ Plain(q, k) /\ f.type = "data" /\ f.key = k => Plain(Append(q, f), k)
           /\ Plain(q, k) /\ f.type = "rotationAck" /\ f.key = k /\ f.iteration = it
                => Turning(Append(q, f), k, k2, it)
           /\ Turning(q, k, k2, it) /\ f.type = "data" /\ f.key = k2
                => Turning(Append(q, f), k, k2, it)
<1> DEFINE r == Append(q, f)
<1>0. Len(q) \in Nat
  BY LenProperties
<1>1. /\ Len(r) = Len(q) + 1 /\ r[Len(q) + 1] = f
      /\ \A i \in 1..Len(q) : r[i] = q[i]
  BY AppendProperties
<1>2. /\ Len(q) + 1 \in 1..Len(r)
      /\ \A i \in 1..Len(r) : i \in 1..Len(q) \/ i = Len(q) + 1
      /\ \A i \in 1..Len(q) : i \in 1..Len(r) /\ i < Len(q) + 1 /\ ~(Len(q) + 1 < i)
  BY <1>0, <1>1
<1> HIDE DEF r
<1>3. ASSUME Plain(q, k), f.type = "data", f.key = k PROVE Plain(r, k)
  BY <1>1, <1>2, <1>3 DEF Plain
<1>4. ASSUME Plain(q, k), f.type = "rotationAck", f.key = k, f.iteration = it
      PROVE  Turning(r, k, k2, it)
  <2>1. \A i \in 1..Len(r) : i < Len(q) + 1 => r[i].type = "data" /\ r[i].key = k
    BY <1>0, <1>1, <1>2, <1>4 DEF Plain
  <2>2. \A i \in 1..Len(r) : ~(i > Len(q) + 1)
    BY <1>0, <1>1
  <2> QED BY <1>1, <1>2, <1>4, <2>1, <2>2 DEF Turning
<1>5. ASSUME Turning(q, k, k2, it), f.type = "data", f.key = k2
      PROVE  Turning(r, k, k2, it)
  <2>1. PICK n \in 1..Len(q) :
           /\ q[n].type = "rotationAck" /\ q[n].key = k /\ q[n].iteration = it
           /\ \A i \in 1..Len(q) : i < n => q[i].type = "data" /\ q[i].key = k
           /\ \A i \in 1..Len(q) : i > n => q[i].type = "data" /\ q[i].key = k2
    BY <1>5 DEF Turning
  <2>2. n \in 1..Len(r) /\ r[n] = q[n] /\ n < Len(q) + 1
    BY <1>1, <1>2
  <2>3. \A i \in 1..Len(r) : i < n => r[i].type = "data" /\ r[i].key = k
    <3>1. \A i \in 1..Len(r) : i < n => i \in 1..Len(q)
      BY <1>0, <1>2, <2>2
    <3> QED BY <1>1, <2>1, <3>1
  <2>4. \A i \in 1..Len(r) : i > n => r[i].type = "data" /\ r[i].key = k2
    BY <1>1, <1>2, <1>5, <2>1
  <2> QED BY <2>1, <2>2, <2>3, <2>4 DEF Turning
<1> QED BY <1>3, <1>4, <1>5 DEF r

\* Writing the frame that was kept moves nothing in the stream; keeping a new
\* one puts it behind the others.
LEMMA Behind ==
    ASSUME NEW h \in Seq(Frame), NEW q \in Seq(Frame), NEW f \in Frame
    PROVE  /\ h \o (Append(q, f) \o <<>>) = h \o (q \o <<f>>)
           /\ h \o (q \o <<f>>) = Append(h \o (q \o <<>>), f)
           /\ h \o (q \o <<>>) \in Seq(Frame)
<1>1. /\ <<f>> \in Seq(Frame) /\ Append(q, f) \in Seq(Frame)
      /\ h \o q \in Seq(Frame) /\ q \o <<>> = q
  BY ConcatProperties, ConcatEmptySeq
<1>2. Append(q, f) \o <<>> = Append(q, f) /\ Append(q, f) = q \o <<f>>
  BY <1>1, ConcatEmptySeq, AppendIsConcat
<1>3. Append(h \o q, f) = (h \o q) \o <<f>>
  BY <1>1, AppendIsConcat
<1>4. (h \o q) \o <<f>> = h \o (q \o <<f>>)
  BY <1>1, ConcatAssociative
<1> QED BY <1>1, <1>2, <1>3, <1>4

\* Frames in flight are frames; the stream through the handler's hands.
LEMMA StreamTyped ==
    ASSUME TypeOK
    PROVE  /\ Held \in Seq(Frame) /\ Kept \in Seq(Frame)
           /\ toGw \o Kept \in Seq(Frame) /\ Upward \in Seq(Frame)
           /\ Downward \in Seq(Frame)
           /\ gwPc \in {"check", "apply"} => Upward = <<gwFrame>> \o (toGw \o Kept)
           /\ gwPc \notin {"check", "apply"} => Upward = toGw \o Kept
           /\ toDev # <<>> => Downward # <<>> /\ Downward[1] = Head(toDev)
           /\ Downward = <<>> => toDev = <<>>
           /\ toDev # <<>> /\ Len(Downward) = 1 => Downward = toDev /\ Tail(toDev) = <<>>
<1> USE DEF TypeOK
<1>0. <<>> \in Seq(Frame)
  OBVIOUS
<1>1. Held \in Seq(Frame) /\ Kept \in Seq(Frame)
  BY <1>0, Single DEF Held, Kept
<1>2. toGw \o Kept \in Seq(Frame) /\ Upward \in Seq(Frame)
  BY <1>1, ConcatProperties DEF Upward
<1>3. <<>> \o (toGw \o Kept) = toGw \o Kept
  BY <1>2, ConcatEmptySeq
<1>4. /\ Append(toDev, schedFrame) \in Seq(Frame)
      /\ Append(toDev, schedFrame) # <<>>
      /\ Len(Append(toDev, schedFrame)) = Len(toDev) + 1
      /\ \A i \in 1..Len(toDev) : Append(toDev, schedFrame)[i] = toDev[i]
  BY AppendProperties
<1>5. toDev # <<>> => /\ 1 \in 1..Len(toDev) /\ Head(toDev) = toDev[1]
                      /\ Len(toDev) + 1 # 1
  OBVIOUS
<1>6. ASSUME toDev # <<>>, Len(toDev) = 1 PROVE Tail(toDev) = <<>>
  <2>1. Tail(toDev) \in Seq(Frame) /\ Len(Tail(toDev)) = 0
    BY <1>6, HeadTailProperties
  <2> QED BY <2>1, EmptySeq
<1> QED BY <1>1, <1>2, <1>3, <1>4, <1>5, <1>6 DEF Upward, Held, Downward

\* The loop's discipline survives every step.
LEMMA LoopStep ==
    ASSUME Firmware, TypeOK, FirmwareLoop, [Next]_vars
    PROVE  FirmwareLoop'
<1> USE DEF FirmwareLoop, TypeOK
<1>0. ~DeviceInitiates
  BY RotationAssumption
<1>1. NoneAsked'
  BY <1>0, AskedStep
<1>2. ~GwRespond /\ ~GwReply
  BY DEF GwRespond, GwReply, NoneAsked
<1>3. gwPc' # "reply"
  BY <1>2 DEF Next, GwNext, SchedNext, DevNext, GwRead, GwData, GwCheckTag, GwApplyAck,
     GwReturn, GwUnregister, SchedTick, SchedAbort, SchedWait, SchedDecide, SchedBegin,
     SchedWrite, SchedRevoke, SchedDisconnect, SchedClose, SchedForget, DevRotate,
     DevReply, DevAck, DevEnd, DevHangUp, DevSeal, DevInitiate, DevWrite, NetworkCut,
     Reconnect, gwVars, vars
<1> DEFINE Order == IF devPc = "reply" THEN devSend = NoFrame ELSE devFrame = NoFrame
<1>4. ~dev'.pendingActive /\ Order'
  <2>1. ASSUME DevStop PROVE ~dev'.pendingActive /\ Order'
    BY <2>1, SessionMarks DEF DevStop
  <2>2. CASE DevRotate
    <3>1. \A s, mi, it : ~RespondToRotationAtomic(s, mi, it).pendingActive
                         \/ s \notin SessionType
      BY DEF RespondToRotationAtomic, CommitRotate, BeginRotate, SessionType
    <3> QED BY <2>1, <2>2, <3>1 DEF DevRotate, DevCanRead
  <2>3. CASE DevAck \/ DevEnd \/ DevHangUp
    BY <2>1, <2>3 DEF DevAck, DevEnd, DevHangUp
  <2>4. CASE DevReply \/ DevSeal \/ DevWrite
    BY <2>4 DEF DevReply, DevSeal, DevCanSend, DevWrite
  <2>5. CASE DevInitiate
    BY <1>0, <2>5 DEF DevInitiate
  <2>6. CASE Reconnect
    BY <2>6 DEF Reconnect, NewSession
  <2>7. CASE GwNext \/ SchedNext \/ NetworkCut \/ UNCHANGED vars
    <3>1. UNCHANGED devVars
      BY <2>7 DEF GwNext, SchedNext, GwRead, GwData, GwCheckTag, GwRespond, GwReply,
         GwApplyAck, GwReturn, GwUnregister, SchedTick, SchedAbort, SchedWait,
         SchedDecide, SchedBegin, SchedWrite, SchedRevoke, SchedDisconnect, SchedClose,
         SchedForget, NetworkCut, vars
    <3> QED BY <3>1 DEF devVars
  <2> QED BY <2>2, <2>3, <2>4, <2>5, <2>6, <2>7 DEF Next, DevNext
<1> QED BY <1>1, <1>3, <1>4

\* No handler step disturbs the order of keys: a data packet leaves the front
\* of the stream, and so does the ACK when the gateway commits.
LEMMA GwStream ==
    ASSUME Firmware, TypeOK, ThreadsInv, FirmwareLoop, Live, StreamInv, GwNext, Live'
    PROVE  StreamInv'
<1> USE DEF TypeOK
<1> DEFINE u == toGw \o Kept
<1>0. u \in Seq(Frame) /\ gwFrame \in Frame
  BY StreamTyped
<1>1. ~GwRespond /\ ~GwReply /\ ~GwReturn /\ ~GwUnregister
  BY PendingOps DEF FirmwareLoop, NoneAsked, GwRespond, GwReply, GwReturn, GwUnregister,
     ThreadsInv, Live
<1>2. CASE GwRead
  <2>1. Upward = toGw \o Kept
    BY <1>2, StreamTyped DEF GwRead
  <2>2. toGw = <<Head(toGw)>> \o Tail(toGw)
    BY <1>2, HeadAndTail DEF GwRead
  <2>3. Head(toGw) \in Frame /\ Tail(toGw) \in Seq(Frame) /\ Kept \in Seq(Frame)
    BY <1>2, HeadTailProperties, StreamTyped DEF GwRead
  <2>4. (<<Head(toGw)>> \o Tail(toGw)) \o Kept = <<Head(toGw)>> \o (Tail(toGw) \o Kept)
    BY <2>3, Single, ConcatAssociative
  <2>5. Upward' = <<Head(toGw)>> \o (Tail(toGw) \o Kept)
    BY <1>2 DEF GwRead, Upward, Held, Kept, devVars
  <2>6. Upward' = Upward
    BY <2>1, <2>2, <2>4, <2>5
  <2> QED BY <1>2, <2>6 DEF GwRead, StreamInv, Downward, devVars, schedVars
<1>3. CASE GwData
  <2>1. Upward = <<gwFrame>> \o u /\ gwFrame.type = "data"
    BY <1>3, StreamTyped DEF GwData
  <2>2. Upward' = <<>> \o u
    BY <1>3 DEF GwData, Upward, Held, Kept, netVars, devVars
  <2>3. Upward' = u
    BY <1>0, <2>2, ConcatEmptySeq
  <2> HIDE DEF u
  <2>4. Plain(Upward, dev.key) => Plain(Upward', dev.key)
    BY <1>0, <2>1, <2>3, FirstOut
  <2>5. Turning(Upward, gw.key, dev.key, dev.iteration)
          => Turning(Upward', gw.key, dev.key, dev.iteration)
    BY <1>0, <2>1, <2>3, FirstOut
  <2> QED BY <1>3, <2>4, <2>5 DEF GwData, StreamInv, Downward, netVars, devVars, schedVars
<1>4. CASE GwCheckTag
  <2>1. Upward = <<gwFrame>> \o u /\ gwFrame.type # "data"
    BY <1>4, StreamTyped DEF GwCheckTag
  <2> HIDE DEF u
  <2>2. gwFrame.key = gw.key
    <3>1. ~Plain(Upward, dev.key)
      BY <1>0, <2>1, FirstOut
    <3>2. Turning(Upward, gw.key, dev.key, dev.iteration) => gwFrame.key = gw.key
      BY <1>0, <2>1, FirstOut
    <3> QED BY <3>1, <3>2 DEF StreamInv
  <2>3. gwPc' = "apply" /\ UNCHANGED gwFrame
    BY <1>4, <2>2 DEF GwCheckTag, NoSession, Live
  <2>4. Upward' = Upward
    BY <1>4, <2>3 DEF GwCheckTag, Upward, Held, Kept, netVars, devVars
  <2> QED BY <1>4, <2>4 DEF GwCheckTag, StreamInv, Downward, netVars, devVars, schedVars
<1>5. CASE GwApplyAck
  <2>1. Upward = <<gwFrame>> \o u /\ gwFrame.type # "data"
    BY <1>5, StreamTyped DEF GwApplyAck
  <2>2. Upward' = <<>> \o u
    BY <1>5 DEF GwApplyAck, Upward, Held, Kept, netVars, devVars
  <2>3. Upward' = u
    BY <1>0, <2>2, ConcatEmptySeq
  <2> HIDE DEF u
  <2>4. /\ CanCatchUp(gw, dev) /\ Downward = <<>>
        /\ gwFrame.iteration = dev.iteration /\ Plain(u, dev.key)
    <3>1. ~Plain(Upward, dev.key)
      BY <1>0, <2>1, FirstOut
    <3>2. Turning(Upward, gw.key, dev.key, dev.iteration)
            => gwFrame.iteration = dev.iteration /\ Plain(u, dev.key)
      BY <1>0, <2>1, FirstOut
    <3> QED BY <3>1, <3>2 DEF StreamInv
  <2>5. CanApplyAck(gw, gwFrame.iteration)
    BY <2>4 DEF CanCatchUp, CanApplyAck, CanCommit, Live
  <2>6. gw' = ApplyRotationAck(gw) /\ dev' = dev
    BY <1>5, <2>5 DEF GwApplyAck, devVars
  <2>7. /\ ApplyRotationAck(gw).iteration = gw.pendingIteration
        /\ ApplyRotationAck(gw).key = gw.pendingKey
    BY DEF ApplyRotationAck, CommitRotate, SessionType
  <2>8. InStep(gw', dev')
    BY <2>4, <2>6, <2>7 DEF InStep, CanCatchUp
  <2>9. Downward' = <<>>
    BY <1>5, <2>4 DEF GwApplyAck, Downward, netVars, schedVars
  <2> QED BY <2>3, <2>4, <2>6, <2>8, <2>9 DEF StreamInv, Asks
<1> QED BY <1>1, <1>2, <1>3, <1>4, <1>5 DEF GwNext

\* The scheduler asks for a rotation only when none is under way, and what it
\* begins and what it writes is the same one frame.
LEMMA SchedStream ==
    ASSUME Firmware, TypeOK, FirmwareLoop, Live, StreamInv, SchedNext, Live'
    PROVE  StreamInv'
<1> USE DEF TypeOK
<1>1. ~SchedAbort /\ ~SchedRevoke
  BY PendingOps DEF SchedAbort, SchedRevoke, AfterRollback, Live, Dooming
<1>2. UNCHANGED <<gwPc, gwFrame, toGw, devVars, conns>>
  BY <1>1 DEF SchedNext, SchedTick, SchedWait, SchedDecide, SchedBegin, SchedWrite,
     SchedDisconnect, SchedClose, SchedForget, Live, Dooming, gwVars, netVars
<1>3. Upward' = Upward /\ dev' = dev
  BY <1>2 DEF Upward, Held, Kept, devVars
<1>4. CASE \/ SchedTick \/ SchedWait \/ SchedDecide \/ SchedDisconnect \/ SchedClose
           \/ SchedForget
  <2>1. gw' = gw /\ Downward' = Downward
    BY <1>4 DEF SchedTick, SchedWait, SchedDecide, SchedDisconnect, SchedClose,
       SchedForget, EndDisconnect, Downward, Live, Dooming, gwVars, netVars
  <2> QED BY <1>3, <2>1 DEF StreamInv
<1>5. CASE SchedBegin
  <2> DEFINE mi == secrets + 1  it == gw.iteration + 1
  <2>1. CASE CanBegin(gw, it) /\ secrets < MaxSecrets
    <3>1. /\ gw' = BeginRotate(gw, mi, it) /\ schedFrame' = RotationV2(it, mi, gw.key)
          /\ schedPc' = "begun" /\ UNCHANGED <<toDev, schedConn, conns>>
      BY <1>5, <2>1 DEF SchedBegin, netVars
    <3>2. /\ gw'.iteration = gw.iteration /\ gw'.key = gw.key /\ gw'.pendingActive
          /\ schedFrame'.type = "rotationV2" /\ schedFrame'.key = gw.key
          /\ schedFrame'.iteration = it
      BY <3>1 DEF BeginRotate, SessionType, RotationV2
    <3>3. InStep(gw, dev) /\ Plain(Upward, dev.key) /\ Downward = <<>>
      BY <2>1 DEF StreamInv, CanCatchUp, CanBegin
    <3>4. toDev = <<>>
      BY <3>3, StreamTyped
    <3>5. schedFrame' \in Frame
      BY NextTyped DEF Next
    <3>6. Len(Append(<<>>, schedFrame')) = 1 /\ Append(<<>>, schedFrame')[1] = schedFrame'
      BY <3>5
    <3>7. Downward' = <<>> \/ Downward' = Append(<<>>, schedFrame')
      BY <3>1, <3>4 DEF Downward
    <3>8. Asks(Downward', dev)
      BY <3>2, <3>3, <3>6, <3>7 DEF Asks, InStep
    <3> QED BY <1>3, <3>2, <3>3, <3>8 DEF StreamInv, InStep
  <2>2. CASE ~(CanBegin(gw, it) /\ secrets < MaxSecrets)
    <3>1. gw' = gw /\ Downward' = Downward
      BY <1>5, <2>2 DEF SchedBegin, Downward, netVars
    <3> QED BY <1>3, <3>1 DEF StreamInv
  <2> QED BY <2>1, <2>2
<1>6. CASE SchedWrite
  <2>1. gw' = gw /\ Downward' = Downward
    BY <1>6 DEF SchedWrite, Downward, Written, Live, gwVars
  <2> QED BY <1>3, <2>1 DEF StreamInv
<1> QED BY <1>1, <1>4, <1>5, <1>6 DEF SchedNext

\* The firmware answers the rotation at the front, behind all it has sent under
\* the old key and before anything it seals under the new one.
LEMMA DevStream ==
    ASSUME Firmware, TypeOK, FramesInv, Agree(gw, dev), FirmwareLoop, Live, StreamInv,
           DevNext, Live'
    PROVE  StreamInv'
<1> USE DEF TypeOK
<1>0. ~DevStop
  BY PendingOps DEF DevStop, Live
<1>1. ~DevAck /\ ~DevEnd /\ ~DevHangUp /\ ~DevInitiate
  BY <1>0, RotationAssumption DEF DevAck, DevEnd, DevHangUp, DevInitiate
<1>2. UNCHANGED gwVars /\ UNCHANGED schedVars /\ UNCHANGED conns
  BY <1>0, <1>1 DEF DevNext, DevRotate, DevReply, DevSeal, DevWrite
<1>3. Held' = Held /\ Held \in Seq(Frame)
  BY <1>2, StreamTyped DEF Held, gwVars
<1>4. CASE DevRotate
  <2> DEFINE f == Head(toDev)
  <2>1. /\ toDev # <<>> /\ devPc = "read" /\ devSend = NoFrame
        /\ f.type = "rotationV2" /\ toDev' = Tail(toDev)
    BY <1>4 DEF DevRotate, DevCanRead
  <2>2. f \in Frame /\ SentBy(f, gw)
    BY <2>1, QueueTyped, QueueSentBy, NoKeyTyped, FrameTyped DEF FramesInv
  <2>3. Downward # <<>> /\ Downward[1] = f
    BY <2>1, StreamTyped
  <2>4. InStep(gw, dev) /\ Plain(Upward, dev.key) /\ Asks(Downward, dev)
    BY <2>3 DEF StreamInv
  <2>5. f.key = dev.key /\ f.iteration = dev.iteration + 1 /\ Len(Downward) = 1
    BY <2>3, <2>4 DEF Asks
  <2>6. Downward = toDev /\ toDev' = <<>>
    BY <2>1, <2>5, StreamTyped
  <2> HIDE DEF f
  <2>7. CanRespond(dev, f.iteration)
    BY <2>5 DEF CanRespond, CanBegin, FirmwareLoop, Live
  <2>8. /\ dev' = RespondToRotationAtomic(dev, f.mi, f.iteration)
        /\ devPc' = "reply" /\ devFrame' = AckOf(dev, f) /\ UNCHANGED toGw
    BY <1>4, <2>5, <2>7 DEF DevRotate, f
  <2>9. CanCatchUp(gw, dev') /\ dev'.iteration = f.iteration
    <3>1. CanCatchUp(gw, dev')
      BY <2>1, <2>2, <2>7, <2>8, AgreeSymmetric, AgreeRespond DEF f
    <3>2. dev'.iteration = f.iteration
      BY <2>8 DEF RespondToRotationAtomic, CommitRotate, BeginRotate, SessionType
    <3> QED BY <3>1, <3>2
  <2>10. Downward' = <<>>
    <3>1. ~(schedPc = "begun" /\ schedConn = conns)
      <4>1. Len(Append(toDev, schedFrame)) = Len(toDev) + 1
        BY AppendProperties
      <4> QED BY <2>5, <2>6, <4>1 DEF Downward
    <3> QED BY <1>2, <2>6, <3>1 DEF Downward, schedVars
  <2>11. Upward = Held \o (toGw \o <<>>) /\ Upward' = Held \o (toGw \o <<AckOf(dev, f)>>)
    BY <1>3, <2>1, <2>8 DEF Upward, Kept
  <2>12. /\ AckOf(dev, f) \in Frame /\ AckOf(dev, f).type = "rotationAck"
         /\ AckOf(dev, f).key = dev.key /\ AckOf(dev, f).iteration = f.iteration
    <3>1. f.iteration \in Nat /\ dev.key \in Key
      BY <2>2 DEF Frame, SessionType
    <3> QED BY <3>1, FrameTyped DEF AckOf, RotationAck
  <2>13. Upward' = Append(Upward, AckOf(dev, f)) /\ Upward \in Seq(Frame)
    BY <1>3, <2>11, <2>12, Behind
  <2>14. Turning(Upward', dev.key, dev'.key, f.iteration)
    BY <2>4, <2>12, <2>13, LastIn
  <2>15. gw' = gw /\ gw.key = dev.key
    BY <1>2, <2>4 DEF gwVars, InStep
  <2> QED BY <2>9, <2>10, <2>14, <2>15 DEF StreamInv
<1>5. CASE DevReply
  <2>1. /\ toGw' = Append(toGw, devFrame) /\ devPc = "reply" /\ devPc' # "reply"
        /\ devSend' = NoFrame /\ UNCHANGED <<dev, toDev>>
    BY <1>5 DEF DevReply, Written, Live, FirmwareLoop
  <2>2. /\ Upward = Held \o (toGw \o <<devFrame>>)
        /\ Upward' = Held \o (Append(toGw, devFrame) \o <<>>)
    BY <1>3, <2>1 DEF Upward, Kept
  <2>3. Upward' = Upward
    BY <1>3, <2>2, Behind
  <2> QED BY <1>2, <2>1, <2>3 DEF StreamInv, Downward, gwVars, schedVars
<1>6. CASE DevSeal
  <2>1. /\ devPc = "read" /\ devSend = NoFrame /\ devSend' = DataFrame(dev.key)
        /\ UNCHANGED <<dev, devPc, toGw, toDev>>
    BY <1>6 DEF DevSeal, DevCanSend, netVars
  <2>2. /\ DataFrame(dev.key) \in Frame /\ DataFrame(dev.key).type = "data"
        /\ DataFrame(dev.key).key = dev.key /\ DataFrame(dev.key) # NoFrame
    BY FrameTyped DEF SessionType, DataFrame, NoFrame
  <2>3. /\ Upward = Held \o (toGw \o <<>>)
        /\ Upward' = Held \o (toGw \o <<DataFrame(dev.key)>>)
    BY <1>3, <2>1, <2>2 DEF Upward, Kept
  <2>4. Upward' = Append(Upward, DataFrame(dev.key)) /\ Upward \in Seq(Frame)
    BY <1>3, <2>2, <2>3, Behind
  <2>5. /\ Plain(Upward, dev.key) => Plain(Upward', dev.key)
        /\ Turning(Upward, gw.key, dev.key, dev.iteration)
             => Turning(Upward', gw.key, dev.key, dev.iteration)
    BY <2>2, <2>4, LastIn
  <2> QED BY <1>2, <2>1, <2>5 DEF StreamInv, Downward, gwVars, schedVars
<1>7. CASE DevWrite
  <2>1. /\ toGw' = Append(toGw, devSend) /\ devSend # NoFrame /\ devPc # "reply"
        /\ devSend' = NoFrame /\ UNCHANGED <<dev, devPc, toDev>>
    BY <1>7 DEF DevWrite, Written, Live, FirmwareLoop
  <2>2. /\ Upward = Held \o (toGw \o <<devSend>>)
        /\ Upward' = Held \o (Append(toGw, devSend) \o <<>>)
    BY <1>3, <2>1 DEF Upward, Kept
  <2>3. Upward' = Upward
    BY <1>3, <2>2, Behind
  <2> QED BY <1>2, <2>1, <2>3 DEF StreamInv, Downward, gwVars, schedVars
<1> QED BY <1>1, <1>4, <1>5, <1>6, <1>7 DEF DevNext

\* The keys of the frames in flight are in order in every reachable state.
LEMMA SealedCorrect == ASSUME Firmware PROVE Spec => []SealedInv
<1>1. Init => SealedInv
  <2> SUFFICES ASSUME Init PROVE SealedInv
    OBVIOUS
  <2>1. FirmwareLoop
    BY DEF Init, FirmwareLoop, NoneAsked, NewSession, NoFrame
  <2>2. <<>> \o (<<>> \o <<>>) = <<>> /\ Len(<<>>) = 0
    OBVIOUS
  <2>3. Upward = <<>> /\ Downward = <<>>
    BY <2>2 DEF Init, Upward, Held, Kept, Downward
  <2>4. StreamInv
    BY <2>2, <2>3 DEF Init, StreamInv, InStep, Plain, Asks
  <2> QED BY <2>1, <2>4 DEF SealedInv
<1>2. TypeOK /\ RotationInv /\ SealedInv /\ [Next]_vars => SealedInv'
  <2> SUFFICES ASSUME TypeOK, RotationInv, SealedInv, [Next]_vars PROVE SealedInv'
    OBVIOUS
  <2>1. FirmwareLoop'
    BY LoopStep DEF SealedInv
  <2>2. ASSUME Live' PROVE StreamInv'
    <3>1. CASE Reconnect
      <4>1. ~(schedPc' = "begun" /\ schedConn' = conns')
        BY <3>1 DEF Reconnect, schedVars, RotationInv, ThreadsInv, TypeOK
      <4>2. /\ gwPc' = "read" /\ devPc' = "read" /\ devSend' = NoFrame
            /\ toGw' = <<>> /\ toDev' = <<>> /\ InStep(gw', dev')
        BY <3>1 DEF Reconnect, RotationInv, ThreadsInv, InStep
      <4>3. <<>> \o (<<>> \o <<>>) = <<>> /\ Len(<<>>) = 0
        OBVIOUS
      <4>4. Upward' = <<>> /\ Downward' = <<>>
        BY <4>1, <4>2, <4>3 DEF Upward, Held, Kept, Downward
      <4> QED BY <4>2, <4>3, <4>4 DEF StreamInv, Plain, Asks
    <3>2. CASE ~Reconnect
      <4>1. Live /\ FramesInv /\ Agree(gw, dev) /\ StreamInv /\ ThreadsInv
        BY <2>2, <3>2, ThreadsStep DEF SealedInv, RotationInv
      <4>2. CASE UNCHANGED vars
        BY <4>1, <4>2 DEF vars, gwVars, netVars, devVars, schedVars, StreamInv, Upward,
           Held, Kept, Downward
      <4>3. CASE NetworkCut
        BY <2>2, <4>3 DEF NetworkCut, Live
      <4> QED BY <2>2, <3>2, <4>1, <4>2, <4>3, GwStream, SchedStream, DevStream
              DEF SealedInv, Next
    <3> QED BY <3>1, <3>2
  <2> QED BY <2>1, <2>2 DEF SealedInv
<1> QED BY TypeCorrect, InvCorrect, <1>1, <1>2, PTL DEF Spec

(***************************************************************************)
(* TagsCorrect: with the firmware no rotation and no ACK is thrown away on *)
(* a live connection, for any number of them and however the packets       *)
(* around them are queued (serveSession, lacert_handle_incoming).          *)
(***************************************************************************)
THEOREM TagsCorrect == ASSUME Firmware PROVE Spec => []TagsVerify
<1>1. TypeOK /\ SealedInv => TagsVerify
  <2> SUFFICES ASSUME TypeOK, SealedInv, Live PROVE TagsVerify
    BY DEF TagsVerify
  <2>1. ASSUME gwPc = "check", gwFrame.type \in {"rotationV2", "rotationAck"}
        PROVE  gwFrame.key = gw.key
    <3>1. /\ Upward = <<gwFrame>> \o (toGw \o Kept) /\ gwFrame \in Frame
          /\ toGw \o Kept \in Seq(Frame) /\ gwFrame.type # "data"
      BY <2>1, StreamTyped DEF TypeOK
    <3>2. /\ ~Plain(Upward, dev.key)
          /\ Turning(Upward, gw.key, dev.key, dev.iteration) => gwFrame.key = gw.key
      BY <3>1, FirstOut
    <3> QED BY <3>2 DEF SealedInv, StreamInv
  <2>2. ASSUME toDev # <<>> PROVE Head(toDev).key = dev.key
    <3>1. Downward # <<>> /\ Downward[1] = Head(toDev)
      BY <2>2, StreamTyped
    <3> QED BY <3>1 DEF SealedInv, StreamInv, Asks
  <2> QED BY <2>1, <2>2 DEF TagsVerify
<1> QED BY TypeCorrect, SealedCorrect, <1>1, PTL

(***************************************************************************)
(* DataCorrect: with the firmware every packet is opened with the key it   *)
(* was sealed under, across any number of rotations (HandleData): the ACK  *)
(* that makes the gateway change its key is behind the last packet of the  *)
(* old one.                                                                *)
(***************************************************************************)
THEOREM DataCorrect == ASSUME Firmware PROVE Spec => []NoDataLost
<1>1. TypeOK /\ SealedInv => NoDataLost
  <2> SUFFICES ASSUME TypeOK, SealedInv, Live, gwPc = "check", gwFrame.type = "data"
               PROVE  gwFrame.key = gw.key
    BY DEF NoDataLost
  <2>1. /\ Upward = <<gwFrame>> \o (toGw \o Kept) /\ gwFrame \in Frame
        /\ toGw \o Kept \in Seq(Frame)
    BY StreamTyped DEF TypeOK
  <2>2. /\ Plain(Upward, dev.key) => gwFrame.key = dev.key
        /\ Turning(Upward, gw.key, dev.key, dev.iteration) => gwFrame.key = gw.key
    BY <2>1, FirstOut
  <2> QED BY <2>2 DEF SealedInv, StreamInv, InStep
<1> QED BY TypeCorrect, SealedCorrect, <1>1, PTL
=============================================================================
