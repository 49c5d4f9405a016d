------------------------ MODULE Reconnection_proofs ------------------------
(***************************************************************************)
(* Handlers of successive connections on each other's sessions, for any    *)
(* number of connections and of rotations.                                 *)
(***************************************************************************)
EXTENDS Reconnection, SequenceTheorems, TLAPS
-----------------------------------------------------------------------------
(* A session by itself.                                                    *)

\* The chain of keys that the c-th handshake began.
Of(k, c) == k # NoKey /\ k[1] = <<c, 0>>

PendingIsNext(s) ==
    s.pendingActive => /\ s.pendingIteration = s.iteration + 1
                       /\ Derived(s.pendingKey, s.key)

\* A session of connection c: its keys, in force and pending, are of c's chain.
Sound(s, c) ==
    s \in SessionType /\ PendingIsNext(s) /\ (~s.closed => Of(s.key, c))

\* The wiped key is a key (Session.Close).
LEMMA NoKeyTyped == NoKey \in Key
BY DEF NoKey, Key

\* A key and the one derived from it: the next link of the same chain.
LEMMA NextKey ==
    ASSUME NEW k \in Key, NEW mi \in Nat, NEW it \in Nat
    PROVE  /\ deriveNextKey(k, mi, it) \in Key
           /\ Derived(deriveNextKey(k, mi, it), k)
<1>1. <<mi, it>> \in Nat \X Nat
  OBVIOUS
<1>2. ASSUME NEW S, NEW q \in Seq(S), NEW e \in S
      PROVE  /\ Append(q, e) \in Seq(S) /\ Append(q, e) # <<>>
             /\ Append(q, e)[Len(Append(q, e))] = e
  BY AppendProperties
<1>3. ASSUME NEW e \in Nat \X Nat
      PROVE  Append(k, e) \in Key /\ Derived(Append(k, e), k)
  BY <1>2 DEF Derived, NoKey, Key
<1> QED BY <1>1, <1>3 DEF deriveNextKey

\* A derived key is of the chain of the key it comes from.
LEMMA SameChain ==
    ASSUME NEW c, NEW k \in Key, NEW k2 \in Key, Of(k, c), Derived(k2, k)
    PROVE  Of(k2, c)
<1> DEFINE e == k2[Len(k2)]
<1>1. k2 # <<>> /\ k2 = Append(k, e) /\ k # <<>>
  BY DEF Derived, Of, NoKey
<1>2. e \in Nat \X Nat
  BY <1>1 DEF Key
<1> HIDE DEF e
<1>3. Append(k, e)[1] = k[1]
  BY <1>1, <1>2 DEF Key
<1> QED BY <1>1, <1>3 DEF Of, NoKey

\* A new session starts its own chain (CompleteHandshake).
LEMMA SoundNew ==
    ASSUME NEW c \in Nat
    PROVE  /\ Sound(NewSession(DeriveK0(c)), c)
           /\ ~NewSession(DeriveK0(c)).closed
           /\ Sound(Close(NewSession(NoKey)), c)
<1>1. DeriveK0(c) \in Key /\ Of(DeriveK0(c), c)
  BY DEF DeriveK0, Key, Of, NoKey
<1> QED BY <1>1, NoKeyTyped DEF Sound, NewSession, SessionType, PendingIsNext, Close

\* A rotation begun keeps the session sound: the pending key is the next one.
LEMMA SoundBegin ==
    ASSUME NEW c, NEW s, Sound(s, c), NEW mi \in Nat, NEW it \in Nat, CanBegin(s, it)
    PROVE  /\ Sound(BeginRotate(s, mi, it), c)
           /\ BeginRotate(s, mi, it).closed = s.closed
           /\ BeginRotate(s, mi, it).iteration = s.iteration
           /\ BeginRotate(s, mi, it).key = s.key
           /\ BeginRotate(s, mi, it).pendingActive
           /\ BeginRotate(s, mi, it).pendingIteration = it
           /\ BeginRotate(s, mi, it).pendingKey = deriveNextKey(s.key, mi, it)
<1> DEFINE K == deriveNextKey(s.key, mi, it)
<1>1. s \in SessionType /\ s.key \in Key
  BY DEF Sound, SessionType
<1>2. K \in Key /\ Derived(K, s.key)
  BY <1>1, NextKey
<1>3. it = s.iteration + 1
  BY DEF CanBegin
<1> HIDE DEF K
<1> QED BY <1>1, <1>2, <1>3 DEF Sound, BeginRotate, SessionType, PendingIsNext, K

\* A pending key put in force keeps the session in its chain.
LEMMA SoundCommit ==
    ASSUME NEW c, NEW s, Sound(s, c), s.pendingActive
    PROVE  /\ Sound(CommitRotate(s), c)
           /\ CommitRotate(s).closed = s.closed
           /\ CommitRotate(s).iteration = s.iteration + 1
           /\ CommitRotate(s).key = s.pendingKey
           /\ ~CommitRotate(s).pendingActive
<1>1. /\ s \in SessionType /\ s.key \in Key /\ s.pendingKey \in Key
      /\ Derived(s.pendingKey, s.key) /\ s.pendingIteration = s.iteration + 1
  BY DEF Sound, SessionType, PendingIsNext
<1>2. ~s.closed => Of(s.pendingKey, c)
  BY <1>1, SameChain DEF Sound
<1> QED BY <1>1, <1>2, NoKeyTyped DEF Sound, CommitRotate, SessionType, PendingIsNext

\* A rotation given up, and a session closed.
LEMMA SoundEnd ==
    ASSUME NEW c, NEW s, Sound(s, c)
    PROVE  /\ Sound(AbortRotate(s), c) /\ Sound(Close(s), c)
           /\ AbortRotate(s).closed = s.closed
           /\ AbortRotate(s).iteration = s.iteration /\ AbortRotate(s).key = s.key
           /\ ~AbortRotate(s).pendingActive
           /\ Close(s).closed /\ Close(s).iteration = s.iteration
BY NoKeyTyped DEF Sound, AbortRotate, Close, SessionType, PendingIsNext

\* A rotation of the peer's answered: begun and committed at once.
LEMMA SoundRespond ==
    ASSUME NEW c, NEW s, Sound(s, c), NEW mi \in Nat, NEW it \in Nat, CanRespond(s, it)
    PROVE  /\ Sound(RespondToRotationAtomic(s, mi, it), c)
           /\ RespondToRotationAtomic(s, mi, it).closed = s.closed
           /\ RespondToRotationAtomic(s, mi, it).iteration = s.iteration + 1
           /\ RespondToRotationAtomic(s, mi, it).key = deriveNextKey(s.key, mi, it)
           /\ ~RespondToRotationAtomic(s, mi, it).pendingActive
<1> DEFINE t == BeginRotate(s, mi, it)
<1>1. /\ Sound(t, c) /\ t.closed = s.closed /\ t.pendingActive
      /\ t.iteration = s.iteration /\ t.pendingKey = deriveNextKey(s.key, mi, it)
  BY SoundBegin DEF CanRespond
<1> HIDE DEF t
<1> QED BY <1>1, SoundCommit DEF RespondToRotationAtomic, t
-----------------------------------------------------------------------------
(* The first invariant: whose session and whose frames are whose.          *)

\* The table holds the last session or none; a connection yet to come has
\* left no trace; what a handler has fetched is its own session or a later one.
NumbersInv ==
    /\ sessions \in {None, current}
    /\ \A c \in Conns : c > current => pc[c] = "unopened" /\ toGw[c] = <<>>
    /\ \A c \in Conns : pc[c] \in {"apply", "commit"} => target[c] \in c..current
    /\ schedPc = "begin" => schedTarget \in 1..current

\* The frames of connection c, all sealed in its chain of keys.
FramesOf(c) == {f \in Frame : Of(f.key, c)}

KeysInv ==
    /\ Sound(dev, current)
    /\ \A c \in Conns :
         /\ Sound(gw[c], c) /\ toGw[c] \in Seq(FramesOf(c))
         /\ pc[c] = "check" => frame[c] \in FramesOf(c)

\* A handler that has strayed is of a connection that is over, and no frame
\* of it gets past the tag any more.
StraysInv ==
    \A c \in Conns : strays[c] > 0 =>
        strays[c] = 1 /\ c < current /\ pc[c] \notin {"fetch", "apply"}

TablesInv ==
    /\ sessions # None => ~gw[sessions].closed
    /\ conns # None => pc[conns] \notin {"unopened", "done"}

SoundInv == TypeOK /\ NumbersInv /\ KeysInv /\ StraysInv /\ TablesInv

\* Two chains have no key in common, so a tag proves whose frame it is.
LEMMA TagTells ==
    ASSUME NEW c \in Conns, NEW d \in Conns, NEW k, Of(k, c), Of(k, d)
    PROVE  c = d
BY DEF Of, Conns

\* What is sent, read and cut off keeps to the kind of frame a queue holds.
LEMMA QueueOf ==
    ASSUME NEW S, NEW q \in Seq(S)
    PROVE  /\ \A p \in Prefixes(q) : p \in Seq(S)
           /\ \A f \in S : Append(q, f) \in Seq(S)
           /\ q # <<>> => Head(q) \in S /\ Tail(q) \in Seq(S)
           /\ <<>> \in Seq(S)
<1>1. ASSUME NEW p \in Prefixes(q) PROVE p \in Seq(S)
  <2>1. PICK n \in 0..Len(q) : p = SubSeq(q, 1, n)
    BY DEF Prefixes
  <2> QED BY <2>1
<1> QED BY <1>1

\* Every frame constructor returns a frame of the chain of its key.
LEMMA FrameTyped ==
    ASSUME NEW it \in Nat, NEW mi \in Nat, NEW k \in Key
    PROVE  /\ NoFrame \in Frame
           /\ RotationV2(it, mi, k) \in Frame /\ RotationAck(it, k) \in Frame
           /\ \A c : Of(k, c) => /\ RotationV2(it, mi, k) \in FramesOf(c)
                                 /\ RotationAck(it, k) \in FramesOf(c)
BY NoKeyTyped DEF NoFrame, Frame, FrameOf, RotationV2, RotationAck, FramesOf

\* One gateway session moves, and stays open or closed.
LEMMA GwSet ==
    ASSUME SoundInv, NEW s \in Conns, NEW t, Sound(t, s), t.closed = gw[s].closed,
           gw' = [gw EXCEPT ![s] = t]
    PROVE  /\ gw' \in [Conns -> SessionType]
           /\ \A c \in Conns : Sound(gw'[c], c) /\ gw'[c].closed = gw[c].closed
BY DEF SoundInv, TypeOK, KeysInv, Sound

\* One entry of a table of the connections is set.
LEMMA Set ==
    ASSUME NEW S, NEW f \in [Conns -> S], NEW c \in Conns, NEW v \in S
    PROVE  /\ [f EXCEPT ![c] = v] \in [Conns -> S] /\ [f EXCEPT ![c] = v][c] = v
           /\ \A d \in Conns : d # c => [f EXCEPT ![c] = v][d] = f[d]
OBVIOUS

\* This end closes a socket; the frames it drops are of that connection.
LEMMA HangUpKeeps ==
    ASSUME SoundInv, NEW d \in Conns \cup {None}, HangUp(d)
    PROVE  /\ net' \in [Conns -> {"unopened", "open", "device", "gateway"}]
           /\ toGw' \in [Conns -> Seq(Frame)]
           /\ \A c \in Conns : toGw'[c] \in {toGw[c], <<>>}
           /\ \A c \in Conns : toGw'[c] \in Seq(FramesOf(c))
           /\ \A c \in Conns : net'[c] \in {net[c], "gateway"}
<1>1. \A c \in Conns : <<>> \in Seq(FramesOf(c)) /\ <<>> \in Seq(Frame)
  OBVIOUS
<1>2. /\ net \in [Conns -> {"unopened", "open", "device", "gateway"}]
      /\ toGw \in [Conns -> Seq(Frame)] /\ \A c \in Conns : toGw[c] \in Seq(FramesOf(c))
  BY DEF SoundInv, TypeOK, KeysInv
<1>3. CASE d # None /\ net[d] = "open"
  <2>1. d \in Conns /\ net' = [net EXCEPT ![d] = "gateway"]
        /\ toGw' = [toGw EXCEPT ![d] = <<>>]
    BY <1>3 DEF HangUp
  <2>2. \A c \in Conns : toGw'[c] \in {toGw[c], <<>>} /\ net'[c] \in {net[c], "gateway"}
    BY <1>2, <2>1
  <2>3. toGw' \in [Conns -> Seq(Frame)]
    BY <1>1, <1>2, <2>1
  <2>4. \A c \in Conns : toGw'[c] \in Seq(FramesOf(c))
    BY <1>1, <1>2, <2>2
  <2> QED BY <1>2, <2>1, <2>2, <2>3, <2>4
<1>4. CASE ~(d # None /\ net[d] = "open")
  BY <1>2, <1>4 DEF HangUp
<1> QED BY <1>3, <1>4

\* The first connection is sound.
LEMMA InitSound == Init => SoundInv
<1> SUFFICES ASSUME Init PROVE SoundInv
  OBVIOUS
<1>0. 1 \in Conns /\ None \notin Conns /\ MaxConns \in Nat
  BY ReconnectionAssumption DEF Conns, None
<1>1. \A c \in Conns : Sound(gw[c], c)
  BY SoundNew DEF Init, Conns
<1>2. Sound(dev, 1) /\ ~gw[1].closed
  BY <1>0, SoundNew DEF Init
<1>3. NoFrame \in Frame
  BY NoKeyTyped, FrameTyped
<1>4. \A c \in Conns : <<>> \in Seq(FramesOf(c)) /\ <<>> \in Seq(Frame)
  OBVIOUS
<1>5. /\ {sessions, conns, schedConn, schedTarget} \subseteq Conns \cup {None}
      /\ {own, target} \subseteq [Conns -> Conns \cup {None}]
  BY <1>0 DEF Init
<1>6. gw \in [Conns -> SessionType] /\ dev \in SessionType
  BY <1>1, <1>2 DEF Init, Sound
<1>7. TypeOK
  BY <1>0, <1>3, <1>4, <1>5, <1>6 DEF Init, TypeOK
<1>8. NumbersInv /\ StraysInv /\ TablesInv
  BY <1>0, <1>2 DEF Init, NumbersInv, StraysInv, TablesInv, Conns
<1>9. KeysInv
  BY <1>1, <1>2, <1>4 DEF Init, KeysInv
<1> QED BY <1>7, <1>8, <1>9 DEF SoundInv

\* The device keeps its session sound, and seals under its own chain.
LEMMA DevSound ==
    ASSUME SoundInv, DevRotate \/ DevAck \/ DevInitiate \/ DevHangUp
    PROVE  SoundInv'
<1> USE DEF SoundInv, TypeOK
<1>0. /\ current \in Conns /\ Sound(dev, current) /\ dev.key \in Key /\ secrets \in Nat
      /\ dev.iteration \in Nat
  BY DEF KeysInv, Sound, SessionType
<1>1. UNCHANGED <<gw, current, tables, hands, sched, strays>>
  BY DEF DevRotate, DevAck, DevInitiate, DevHangUp
<1>2. /\ Sound(dev', current) /\ secrets' \in Nat
      /\ net' \in [Conns -> {"unopened", "open", "device", "gateway"}]
      /\ toDev' \in Seq(Frame)
      /\ toGw' \in [Conns -> Seq(Frame)] /\ toGw'[current] \in Seq(FramesOf(current))
      /\ \A c \in Conns : c # current => toGw'[c] = toGw[c]
  <2>0. toGw[current] \in Seq(Frame) /\ toGw[current] \in Seq(FramesOf(current))
    BY <1>0 DEF KeysInv
  <2>1. CASE DevRotate
    <3> DEFINE f == Head(toDev)
    <3>1. f \in Frame /\ toDev' \in Seq(Frame) /\ UNCHANGED <<net, secrets>>
      BY <2>1, QueueOf DEF DevRotate
    <3>2. f.iteration \in Nat /\ f.mi \in Nat
      BY <3>1 DEF Frame
    <3> HIDE DEF f
    <3>3. CASE f.key = dev.key /\ CanRespond(dev, f.iteration)
      <4>1. /\ dev' = RespondToRotationAtomic(dev, f.mi, f.iteration)
            /\ toGw' = [toGw EXCEPT ![current] =
                          Append(toGw[current], RotationAck(f.iteration, dev.key))]
            /\ ~dev.closed
        BY <2>1, <3>3 DEF DevRotate, DevConnected, f
      <4>2. Sound(dev', current)
        BY <1>0, <3>2, <3>3, <4>1, SoundRespond
      <4>3. /\ RotationAck(f.iteration, dev.key) \in Frame
            /\ RotationAck(f.iteration, dev.key) \in FramesOf(current)
        BY <1>0, <3>2, <4>1, FrameTyped DEF Sound
      <4>4. /\ Append(toGw[current], RotationAck(f.iteration, dev.key)) \in Seq(Frame)
            /\ Append(toGw[current], RotationAck(f.iteration, dev.key))
                 \in Seq(FramesOf(current))
        BY <2>0, <4>3, QueueOf
      <4> QED BY <1>0, <3>1, <4>1, <4>2, <4>4
    <3>4. CASE ~(f.key = dev.key /\ CanRespond(dev, f.iteration))
      BY <1>0, <2>0, <2>1, <3>1, <3>4 DEF DevRotate, f
    <3> QED BY <3>3, <3>4
  <2>2. CASE DevAck
    <3>1. toDev' \in Seq(Frame) /\ UNCHANGED <<net, secrets, toGw>>
      BY <2>2, QueueOf DEF DevAck
    <3>2. Sound(dev', current)
      BY <1>0, <2>2, SoundCommit DEF DevAck, CanApplyAck, CanCommit, ApplyRotationAck
    <3> QED BY <2>0, <3>1, <3>2
  <2>3. CASE DevInitiate
    <3> DEFINE mi == secrets + 1  it == dev.iteration + 1
    <3>1. /\ mi \in Nat /\ it \in Nat /\ UNCHANGED <<net, toDev>> /\ secrets' = mi
          /\ dev' = BeginRotate(dev, mi, it) /\ CanBegin(dev, it) /\ ~dev.closed
          /\ toGw' = [toGw EXCEPT ![current] =
                        Append(toGw[current], RotationV2(it, mi, dev.key))]
      BY <1>0, <2>3 DEF DevInitiate, DevConnected
    <3> HIDE DEF mi, it
    <3>2. Sound(dev', current)
      BY <1>0, <3>1, SoundBegin
    <3>3. /\ RotationV2(it, mi, dev.key) \in Frame
          /\ RotationV2(it, mi, dev.key) \in FramesOf(current)
      BY <1>0, <3>1, FrameTyped DEF Sound
    <3>4. /\ Append(toGw[current], RotationV2(it, mi, dev.key)) \in Seq(Frame)
          /\ Append(toGw[current], RotationV2(it, mi, dev.key)) \in Seq(FramesOf(current))
      BY <2>0, <3>3, QueueOf
    <3> QED BY <1>0, <3>1, <3>2, <3>4
  <2>4. CASE DevHangUp
    <3>1. Sound(dev', current) /\ secrets' = secrets /\ toDev' = <<>>
      BY <1>0, <2>4, SoundEnd DEF DevHangUp
    <3>2. \A q \in Prefixes(toGw[current]) : q \in Seq(Frame) /\ q \in Seq(FramesOf(current))
      BY <2>0, QueueOf
    <3>3. CASE net[current] = "open"
      <4>1. PICK q \in Prefixes(toGw[current]) : toGw' = [toGw EXCEPT ![current] = q]
        BY <2>4, <3>3 DEF DevHangUp
      <4>2. net' = [net EXCEPT ![current] = "device"]
        BY <2>4, <3>3 DEF DevHangUp
      <4> QED BY <1>0, <3>1, <3>2, <4>1, <4>2
    <3>4. CASE net[current] # "open"
      BY <1>0, <2>0, <2>4, <3>1, <3>4 DEF DevHangUp
    <3> QED BY <3>3, <3>4
  <2> QED BY <2>1, <2>2, <2>3, <2>4
<1>3. TypeOK'
  BY <1>0, <1>1, <1>2 DEF tables, hands, sched, Sound
<1>4. NumbersInv'
  BY <1>0, <1>1, <1>2 DEF NumbersInv, tables, hands, sched, Conns
<1>5. KeysInv'
  BY <1>0, <1>1, <1>2 DEF KeysInv, hands
<1>6. StraysInv' /\ TablesInv'
  BY <1>1 DEF StraysInv, TablesInv, tables, hands
<1> QED BY <1>3, <1>4, <1>5, <1>6

\* A new session begins its own chain, and no trace is left of it before.
LEMMA EstablishSound ==
    ASSUME SoundInv, NEW d \in Conns, Establish(d)
    PROVE  SoundInv'
<1> USE DEF SoundInv, TypeOK
<1>0. d \in Nat /\ current \in Conns /\ d = current + 1 /\ d # None /\ d # current
  BY DEF Establish, Conns, None
<1>1. Sound(NewSession(DeriveK0(d)), d) /\ ~NewSession(DeriveK0(d)).closed
  BY <1>0, SoundNew
<1>2. /\ current' = d /\ sessions' = d /\ toDev' = <<>>
      /\ dev' = NewSession(DeriveK0(d))
      /\ gw' = [gw EXCEPT ![d] = NewSession(DeriveK0(d))]
      /\ net' = [net EXCEPT ![d] = "open"] /\ pc' = [pc EXCEPT ![d] = "register"]
      /\ UNCHANGED <<conns, own, toGw, frame, target, sched, secrets, strays>>
  BY DEF Establish, Go
<1> HIDE DEF NewSession
<1>3. TypeOK'
  BY <1>0, <1>1, <1>2 DEF Sound, sched
<1>4. NumbersInv'
  BY <1>0, <1>2 DEF NumbersInv, sched, Conns
<1>5. KeysInv'
  BY <1>0, <1>1, <1>2 DEF KeysInv
<1>6. StraysInv'
  BY <1>0, <1>2 DEF StraysInv, Conns
<1>7. TablesInv'
  BY <1>0, <1>1, <1>2 DEF TablesInv
<1> QED BY <1>3, <1>4, <1>5, <1>6, <1>7

\* The scheduler moves at most the session it has fetched or the one in the
\* table, and closes at most one socket.
LEMMA SchedSound ==
    ASSUME SoundInv, Scheduler
    PROVE  SoundInv'
<1> USE DEF SoundInv, TypeOK
<1>0. current \in Conns /\ None \notin Conns /\ secrets \in Nat /\ NoFrame \in Frame
  <2>1. NoFrame \in Frame
    BY NoKeyTyped, FrameTyped
  <2> QED BY <2>1 DEF Conns, None
<1>1. UNCHANGED <<device, tables, hands, strays>>
  BY DEF Scheduler, SchedTick, SchedAbort, SchedWait, SchedDecide, SchedFetch, SchedBegin,
     SchedWrite, SchedDisconnect, SchedClose
<1>2. CASE SchedTick \/ SchedWait \/ SchedDecide \/ SchedDisconnect
  <2>1. UNCHANGED <<gw, wires, schedTarget, schedFrame, secrets>>
    BY <1>2 DEF SchedTick, SchedWait, SchedDecide, SchedDisconnect
  <2>2. schedConn' \in {schedConn, conns}
        /\ schedPc' \in {"idle", "rotate", "initiate", "close"}
    BY <1>2 DEF SchedTick, SchedWait, SchedDecide, SchedDisconnect
  <2>3. TypeOK'
    BY <1>1, <2>1, <2>2 DEF device, tables, hands, wires
  <2>4. NumbersInv' /\ KeysInv' /\ StraysInv' /\ TablesInv'
    BY <1>1, <2>1, <2>2
    DEF NumbersInv, KeysInv, StraysInv, TablesInv, device, tables, hands, wires
  <2> QED BY <2>3, <2>4
<1>3. CASE SchedFetch
  <2>1. /\ UNCHANGED <<gw, wires, schedConn, schedFrame, secrets>> /\ schedTarget' = sessions
        /\ schedPc' = IF sessions = None THEN "idle" ELSE "begin"
    BY <1>3 DEF SchedFetch
  <2>2. TypeOK'
    BY <1>1, <2>1 DEF device, tables, hands, wires
  <2>3. NumbersInv'
    BY <1>0, <1>1, <2>1 DEF NumbersInv, device, tables, hands, wires, Conns, None
  <2>4. KeysInv' /\ StraysInv' /\ TablesInv'
    BY <1>1, <2>1 DEF KeysInv, StraysInv, TablesInv, device, tables, hands, wires
  <2> QED BY <2>2, <2>3, <2>4
<1>4. ASSUME NEW s \in Conns, NEW t, Sound(t, s), t.closed = gw[s].closed,
             gw' = [gw EXCEPT ![s] = t], UNCHANGED wires,
             schedPc' \in {"disconnect", "begun"}, schedFrame' \in Frame, secrets' \in Nat,
             schedTarget' \in {schedTarget, None}, UNCHANGED schedConn
      PROVE  SoundInv'
  <2>1. /\ gw' \in [Conns -> SessionType]
        /\ \A c \in Conns : Sound(gw'[c], c) /\ gw'[c].closed = gw[c].closed
    BY <1>4, GwSet
  <2>2. TypeOK'
    <3>1. UNCHANGED <<dev, current, sessions, conns, schedConn, own, target, net, toGw, toDev,
                      pc, frame, strays>>
      BY <1>1, <1>4 DEF device, tables, hands, wires
    <3>2. schedTarget' \in Conns \cup {None} /\ UNCHANGED schedConn
      BY <1>4
    <3> QED BY <1>4, <2>1, <3>1, <3>2, ZenonT(40)
  <2>3. NumbersInv' /\ StraysInv'
    BY <1>1, <1>4 DEF NumbersInv, StraysInv, device, tables, hands, wires
  <2>4. KeysInv'
    BY <1>1, <1>4, <2>1 DEF KeysInv, device, hands, wires
  <2>5. TablesInv'
    BY <1>1, <2>1 DEF TablesInv, tables, hands
  <2> QED BY <2>2, <2>3, <2>4, <2>5
<1>5. CASE SchedAbort
  <2>1. /\ sessions \in Conns /\ gw' = [gw EXCEPT ![sessions] = AbortRotate(gw[sessions])]
        /\ schedPc' = "disconnect"
        /\ UNCHANGED <<wires, schedConn, schedFrame, schedTarget, secrets>>
    BY <1>5 DEF SchedAbort, Stale, Pending
  <2>2. /\ Sound(AbortRotate(gw[sessions]), sessions)
        /\ AbortRotate(gw[sessions]).closed = gw[sessions].closed
    BY <2>1, SoundEnd DEF KeysInv
  <2> QED BY <1>4, <2>1, <2>2
<1>6. CASE SchedBegin
  <2> DEFINE s == schedTarget  it == gw[s].iteration + 1  mi == secrets + 1
  <2>1. s \in Conns
    BY <1>0, <1>6, ReconnectionAssumption DEF SchedBegin, NumbersInv, Conns
  <2>2. gw[s].iteration \in Nat /\ mi \in Nat /\ it \in Nat /\ Sound(gw[s], s)
    <3>1. Sound(gw[s], s)
      BY <2>1 DEF KeysInv
    <3>2. gw[s].iteration \in Nat
      BY <3>1 DEF Sound, SessionType
    <3> QED BY <1>0, <3>1, <3>2
  <2>3. CASE secrets < MaxSecrets /\ CanBegin(gw[s], it)
    <3>1. /\ gw' = [gw EXCEPT ![s] = BeginRotate(gw[s], mi, it)]
          /\ schedFrame' = RotationV2(it, mi, NoKey) /\ secrets' = mi
          /\ schedPc' = "begun" /\ schedTarget' = None
          /\ UNCHANGED <<wires, schedConn>>
      BY <1>6, <2>3 DEF SchedBegin
    <3> HIDE DEF s, it, mi
    <3>2. /\ Sound(BeginRotate(gw[s], mi, it), s)
          /\ BeginRotate(gw[s], mi, it).closed = gw[s].closed
      BY ONLY <2>2, <2>3, SoundBegin
    <3>3. schedFrame' \in Frame
      BY <2>2, <3>1, NoKeyTyped, FrameTyped
    <3> QED BY <1>4, <2>1, <2>2, <3>1, <3>2, <3>3
  <2>4. CASE ~(secrets < MaxSecrets /\ CanBegin(gw[s], it))
    <3>1. /\ UNCHANGED <<gw, wires, schedConn, schedFrame, secrets>>
          /\ schedPc' = "idle" /\ schedTarget' = None
      BY <1>6, <2>4 DEF SchedBegin
    <3>2. TypeOK'
      BY <1>1, <3>1 DEF device, tables, hands, wires
    <3>3. NumbersInv' /\ KeysInv' /\ StraysInv' /\ TablesInv'
      BY <1>1, <3>1
      DEF NumbersInv, KeysInv, StraysInv, TablesInv, device, tables, hands, wires
    <3> QED BY <3>2, <3>3
  <2> QED BY <2>3, <2>4
<1>7. CASE SchedWrite
  <2>1. /\ UNCHANGED <<gw, net, toGw, schedConn, schedTarget, secrets>>
        /\ schedPc' = "idle" /\ schedFrame' = NoFrame
    BY <1>7 DEF SchedWrite
  <2>2. toDev' \in Seq(Frame)
    <3>1. CASE sessions # None
      <4>1. sessions \in Conns /\ gw[sessions].key \in Key
        BY <3>1 DEF SessionType
      <4>2. [schedFrame EXCEPT !.key = gw[sessions].key] \in Frame
        BY <4>1 DEF Frame
      <4> QED BY <1>7, <3>1, <4>2, QueueOf DEF SchedWrite, Delivered
    <3> QED BY <1>7, <3>1 DEF SchedWrite
  <2>3. TypeOK'
    BY <1>0, <1>1, <2>1, <2>2 DEF device, tables, hands
  <2>4. NumbersInv' /\ KeysInv' /\ StraysInv' /\ TablesInv'
    BY <1>1, <2>1 DEF NumbersInv, KeysInv, StraysInv, TablesInv, device, tables, hands
  <2> QED BY <2>3, <2>4
<1>8. CASE SchedClose
  <2>1. /\ HangUp(schedConn) /\ schedPc' = "idle"
        /\ UNCHANGED <<gw, toDev, schedConn, schedFrame, schedTarget, secrets>>
    BY <1>8 DEF SchedClose
  <2>2. /\ net' \in [Conns -> {"unopened", "open", "device", "gateway"}]
        /\ toGw' \in [Conns -> Seq(Frame)]
        /\ \A c \in Conns : toGw'[c] \in {toGw[c], <<>>} /\ toGw'[c] \in Seq(FramesOf(c))
    BY <2>1, HangUpKeeps
  <2>3. TypeOK'
    BY <1>1, <2>1, <2>2 DEF device, tables, hands
  <2>4. NumbersInv'
    BY <1>1, <2>1, <2>2 DEF NumbersInv, device, tables, hands
  <2>5. KeysInv' /\ StraysInv' /\ TablesInv'
    BY <1>1, <2>1, <2>2 DEF KeysInv, StraysInv, TablesInv, device, tables, hands
  <2> QED BY <2>3, <2>4, <2>5
<1> QED BY <1>2, <1>3, <1>5, <1>6, <1>7, <1>8 DEF Scheduler

\* A handler's steps that only read, check or fetch, or that keep the tables.
LEMMA HandlerReads ==
    ASSUME SoundInv, NEW c \in Conns,
           ReadFrame(c) \/ CheckTag(c) \/ FetchSession(c) \/ Reply(c)
    PROVE  SoundInv'
<1> USE DEF SoundInv, TypeOK
<1>0. /\ current \in Conns /\ None \notin Conns /\ c \in Nat /\ current \in Nat
      /\ NoFrame \in Frame
  <2>1. NoFrame \in Frame
    BY NoKeyTyped, FrameTyped
  <2> QED BY <2>1 DEF Conns, None
<1>1. UNCHANGED <<gw, device, tables, net, sched, secrets, strays>>
  BY DEF ReadFrame, CheckTag, FetchSession, Reply, wires
<1>2. c <= current
  BY <1>0 DEF NumbersInv, ReadFrame, CheckTag, FetchSession, Reply
<1>3. CASE ReadFrame(c)
  <2>1. /\ pc' = [pc EXCEPT ![c] = "check"] /\ frame' = [frame EXCEPT ![c] = Head(toGw[c])]
        /\ toGw' = [toGw EXCEPT ![c] = Tail(toGw[c])] /\ toGw[c] # <<>>
        /\ UNCHANGED <<toDev, target>>
    BY <1>3 DEF ReadFrame, Go
  <2>2. toGw[c] \in Seq(Frame) /\ toGw[c] \in Seq(FramesOf(c))
    BY DEF KeysInv
  <2>3. /\ Head(toGw[c]) \in Frame /\ Tail(toGw[c]) \in Seq(Frame)
        /\ Head(toGw[c]) \in FramesOf(c) /\ Tail(toGw[c]) \in Seq(FramesOf(c))
    BY <2>1, <2>2, QueueOf
  <2>4. TypeOK'
    BY <1>1, <2>1, <2>3 DEF device, tables, sched
  <2>5. NumbersInv'
    BY <1>0, <1>1, <1>2, <2>1 DEF NumbersInv, device, tables, sched
  <2>6. KeysInv'
    BY <1>1, <2>1, <2>3 DEF KeysInv, device
  <2>7. StraysInv' /\ TablesInv'
    BY <1>1, <2>1 DEF StraysInv, TablesInv, device, tables
  <2> QED BY <2>4, <2>5, <2>6, <2>7
<1>4. CASE CheckTag(c)
  <2>0. /\ UNCHANGED <<toGw, toDev, target>>
        /\ frame' = frame \/ frame' = [frame EXCEPT ![c] = NoFrame]
        /\ pc' = [pc EXCEPT ![c] = "fetch"] \/ pc' = [pc EXCEPT ![c] = "read"]
    BY <1>4 DEF CheckTag, ReadNext, Go, wires
  <2>1. /\ UNCHANGED <<toGw, toDev, target>> /\ frame' \in [Conns -> Frame]
        /\ pc' = [pc EXCEPT ![c] = "fetch"] \/ pc' = [pc EXCEPT ![c] = "read"]
        /\ \A d \in Conns : d # c => frame'[d] = frame[d]
    <3>1. frame' \in [Conns -> Frame] /\ \A d \in Conns : d # c => frame'[d] = frame[d]
      BY <1>0, <2>0, Set
    <3> QED BY <2>0, <3>1
  <2>2. TypeOK'
    BY <1>1, <2>1 DEF device, tables, sched
  <2>3. NumbersInv'
    <3>1. \A d \in Conns : d > current => pc'[d] = pc[d] /\ toGw'[d] = toGw[d]
      BY <1>0, <1>2, <2>1
    <3>2. \A d \in Conns : pc'[d] \in {"apply", "commit"} => target'[d] \in d..current
      BY <2>1 DEF NumbersInv, Conns
    <3> QED BY <1>1, <3>1, <3>2 DEF NumbersInv, device, tables, sched
  <2>4. KeysInv'
    BY <1>1, <2>1 DEF KeysInv, device
  <2>5. TablesInv'
    BY <1>1, <2>1 DEF TablesInv, tables
  <2>6. strays[c] > 0 => pc'[c] # "fetch"
    <3>1. SUFFICES ASSUME strays[c] > 0, TagVerifies(c) PROVE FALSE
      BY <1>4 DEF CheckTag, ReadNext, Go
    <3>2. c < current /\ sessions = current /\ pc[c] = "check" /\ ~gw[current].closed
      BY <1>4, <3>1 DEF StraysInv, TagVerifies, NumbersInv, TablesInv, CheckTag
    <3>3. Of(frame[c].key, c) /\ Of(gw[current].key, current)
      BY <1>0, <3>2 DEF KeysInv, FramesOf, Sound
    <3>4. c = current
      BY <1>0, <3>1, <3>2, <3>3, TagTells DEF TagVerifies
    <3> QED BY <1>0, <3>2, <3>4
  <2>7. StraysInv'
    BY <1>1, <2>1, <2>6 DEF StraysInv, device
  <2> QED BY <2>2, <2>3, <2>4, <2>5, <2>7
<1>5. CASE FetchSession(c)
  <2>0. /\ UNCHANGED <<toGw, toDev>>
        /\ frame' = frame \/ frame' = [frame EXCEPT ![c] = NoFrame]
        /\ \/ pc' = [pc EXCEPT ![c] = "apply"] /\ target' = [target EXCEPT ![c] = current]
              /\ sessions = current
           \/ pc' = [pc EXCEPT ![c] = "read"] /\ UNCHANGED target
    BY <1>5 DEF FetchSession, ReadNext, Go, wires, NumbersInv
  <2>1. /\ UNCHANGED <<toGw, toDev>> /\ frame' \in [Conns -> Frame]
        /\ pc' \in [Conns -> {"unopened", "register", "read", "check", "fetch", "apply",
                               "commit", "reply", "unregister", "done"}]
        /\ target' \in [Conns -> Conns \cup {None}]
        /\ pc'[c] \in {"apply", "read"} /\ (pc'[c] = "apply" => target'[c] = current)
        /\ \A d \in Conns : d # c => frame'[d] = frame[d] /\ pc'[d] = pc[d]
                                    /\ target'[d] = target[d]
    <3>1. frame' \in [Conns -> Frame] /\ \A d \in Conns : d # c => frame'[d] = frame[d]
      BY <1>0, <2>0, Set
    <3>2. target \in [Conns -> Conns \cup {None}]
      OBVIOUS
    <3>3. CASE /\ pc' = [pc EXCEPT ![c] = "apply"]
               /\ target' = [target EXCEPT ![c] = current]
      BY <1>0, <2>0, <3>1, <3>2, <3>3
    <3>4. CASE pc' = [pc EXCEPT ![c] = "read"] /\ UNCHANGED target
      BY <1>0, <2>0, <3>1, <3>2, <3>4
    <3> QED BY <2>0, <3>3, <3>4
  <2>2. TypeOK'
    BY <1>1, <2>1 DEF device, tables, sched
  <2>3. NumbersInv'
    <3>1. \A d \in Conns : d > current => pc'[d] = pc[d] /\ toGw'[d] = toGw[d]
      BY <1>0, <1>2, <2>1
    <3>2. \A d \in Conns : pc'[d] \in {"apply", "commit"} => target'[d] \in d..current
      BY <1>0, <1>2, <2>1 DEF NumbersInv, Conns
    <3> QED BY <1>1, <3>1, <3>2 DEF NumbersInv, device, tables, sched
  <2>4. KeysInv'
    BY <1>1, <2>1 DEF KeysInv, device
  <2>5. TablesInv'
    BY <1>1, <2>1 DEF TablesInv, tables
  <2>6. pc[c] = "fetch"
    BY <1>5 DEF FetchSession
  <2>7. StraysInv'
    BY <1>1, <2>1, <2>6 DEF StraysInv, device
  <2> QED BY <2>2, <2>3, <2>4, <2>5, <2>7
<1>6. CASE Reply(c)
  <2>1. /\ pc' = [pc EXCEPT ![c] = "read"] /\ frame' = [frame EXCEPT ![c] = NoFrame]
        /\ UNCHANGED <<toGw, target>>
        /\ toDev' = Delivered(c, RotationAck(frame[c].iteration, frame[c].key))
    BY <1>6 DEF Reply, ReadNext, Go
  <2>2. toDev' \in Seq(Frame)
    <3>1. frame[c].iteration \in Nat /\ frame[c].key \in Key
      BY DEF Frame
    <3>2. RotationAck(frame[c].iteration, frame[c].key) \in Frame
      BY <3>1, FrameTyped
    <3> QED BY <2>1, <3>2, QueueOf DEF Delivered
  <2>3. TypeOK'
    BY <1>0, <1>1, <2>1, <2>2 DEF device, tables, sched
  <2>4. NumbersInv'
    BY <1>0, <1>1, <1>2, <2>1 DEF NumbersInv, device, tables, sched
  <2>5. KeysInv' /\ StraysInv' /\ TablesInv'
    BY <1>1, <2>1 DEF KeysInv, StraysInv, TablesInv, device, tables
  <2> QED BY <2>3, <2>4, <2>5
<1> QED BY <1>3, <1>4, <1>5, <1>6

\* A handler's steps on the session it has fetched: the first frame of its
\* connection that it applies to another's session is the last.
LEMMA HandlerApplies ==
    ASSUME SoundInv, NEW c \in Conns,
           ApplyAck(c) \/ BeginResponse(c) \/ CommitResponse(c)
    PROVE  SoundInv'
<1> USE DEF SoundInv, TypeOK
<1> DEFINE s == target[c]  f == frame[c]
<1>0. /\ current \in Conns /\ NoFrame \in Frame /\ c \in Nat /\ current \in Nat
      /\ pc[c] \in {"apply", "commit"}
      /\ f \in Frame /\ f.iteration \in Nat /\ f.mi \in Nat
  <2>1. NoFrame \in Frame
    BY NoKeyTyped, FrameTyped
  <2>2. f \in Frame
    OBVIOUS
  <2> QED BY <2>1, <2>2 DEF Conns, Frame, ApplyAck, BeginResponse, CommitResponse
<1>1. s \in c..current /\ s \in Conns /\ Sound(gw[s], s)
  <2>1. s \in c..current
    BY <1>0 DEF NumbersInv
  <2> HIDE DEF s
  <2>2. s \in Conns
    BY <2>1, ReconnectionAssumption DEF Conns
  <2>3. Sound(gw[s], s)
    BY <2>2 DEF KeysInv
  <2> QED BY <2>1, <2>2, <2>3
<1>2. /\ UNCHANGED <<device, tables, wires, target, sched, secrets>>
      /\ frame' \in [Conns -> Frame] /\ \A d \in Conns : d # c => frame'[d] = frame[d]
      /\ \E p \in {"read", "commit", "reply"} :
           pc' = [pc EXCEPT ![c] = p] /\ (p = "commit" => pc[c] = "apply")
  <2>1. /\ UNCHANGED <<device, tables, wires, target, sched, secrets>>
        /\ frame' = frame \/ frame' = [frame EXCEPT ![c] = NoFrame]
        /\ \E p \in {"read", "commit", "reply"} :
             pc' = [pc EXCEPT ![c] = p] /\ (p = "commit" => pc[c] = "apply")
    BY DEF ApplyAck, BeginResponse, CommitResponse, ReadNext, Go
  <2>2. NoFrame \in Frame
    BY NoKeyTyped, FrameTyped
  <2>3. frame' \in [Conns -> Frame] /\ \A d \in Conns : d # c => frame'[d] = frame[d]
    <3>1. frame \in [Conns -> Frame] /\ c \in Conns
      OBVIOUS
    <3> QED BY ONLY <2>1, <2>2, <3>1, Set
  <2> QED BY ONLY <2>1, <2>3
<1>3. /\ gw' \in [Conns -> SessionType]
      /\ \A d \in Conns : Sound(gw'[d], d) /\ gw'[d].closed = gw[d].closed
  <2>1. CASE gw' = gw
    BY <2>1 DEF KeysInv
  <2>2. ASSUME NEW t, Sound(t, s), t.closed = gw[s].closed, gw' = [gw EXCEPT ![s] = t]
        PROVE  /\ gw' \in [Conns -> SessionType]
               /\ \A d \in Conns : Sound(gw'[d], d) /\ gw'[d].closed = gw[d].closed
    BY <1>1, <2>2, GwSet
  <2> HIDE DEF s, f
  <2>3. CASE ApplyAck(c) /\ gw' # gw
    <3>1. gw[s].pendingActive /\ gw' = [gw EXCEPT ![s] = CommitRotate(gw[s])]
      BY <2>3 DEF ApplyAck, CanApplyAck, CanCommit, ApplyRotationAck, s, f
    <3>2. Sound(CommitRotate(gw[s]), s) /\ CommitRotate(gw[s]).closed = gw[s].closed
      BY <1>1, <3>1, SoundCommit
    <3> QED BY <2>2, <3>1, <3>2
  <2>4. CASE BeginResponse(c) /\ gw' # gw
    <3>1. /\ CanBegin(gw[s], f.iteration)
          /\ gw' = [gw EXCEPT ![s] = BeginRotate(gw[s], f.mi, f.iteration)]
      BY <2>4 DEF BeginResponse, CanRespond, s, f
    <3>2. /\ Sound(BeginRotate(gw[s], f.mi, f.iteration), s)
          /\ BeginRotate(gw[s], f.mi, f.iteration).closed = gw[s].closed
      BY ONLY <1>0, <1>1, <3>1, SoundBegin
    <3> QED BY <2>2, <3>1, <3>2
  <2>5. CASE CommitResponse(c) /\ gw' # gw
    <3>1. gw[s].pendingActive /\ gw' = [gw EXCEPT ![s] = CommitRotate(gw[s])]
      BY <2>5 DEF CommitResponse, CanCommit, s
    <3>2. Sound(CommitRotate(gw[s]), s) /\ CommitRotate(gw[s]).closed = gw[s].closed
      BY <1>1, <3>1, SoundCommit
    <3> QED BY <2>2, <3>1, <3>2
  <2> QED BY <2>1, <2>3, <2>4, <2>5
<1>4. \/ strays' = strays
      \/ s # c /\ pc[c] = "apply" /\ strays' = [strays EXCEPT ![c] = strays[c] + 1]
  BY DEF ApplyAck, BeginResponse, CommitResponse, Applied
<1>5. TypeOK'
  <2>1. pc' \in [Conns -> {"unopened", "register", "read", "check", "fetch", "apply",
                           "commit", "reply", "unregister", "done"}]
    BY <1>2
  <2>2. strays' \in [Conns -> Nat]
    <3>1. strays \in [Conns -> Nat] /\ strays[c] + 1 \in Nat
      OBVIOUS
    <3> QED BY <1>4, <3>1
  <2> QED BY <1>2, <1>3, <2>1, <2>2 DEF device, tables, wires, sched
<1>6. NumbersInv'
  BY <1>0, <1>1, <1>2 DEF NumbersInv, device, tables, wires, sched
<1>7. KeysInv'
  BY <1>2, <1>3 DEF KeysInv, device, wires
<1>8. TablesInv'
  BY <1>2, <1>3 DEF TablesInv, tables
<1>9. StraysInv'
  <2>1. CASE strays' = strays
    BY <1>2, <2>1 DEF StraysInv, device
  <2>2. CASE s # c /\ pc[c] = "apply" /\ strays' = [strays EXCEPT ![c] = strays[c] + 1]
    <3>1. strays[c] = 0 /\ c < current
      BY <1>0, <1>1, <2>2 DEF StraysInv
    <3>2. strays'[c] = 1 /\ \A d \in Conns : d # c => strays'[d] = strays[d]
      BY <2>2, <3>1
    <3> QED BY <1>2, <3>1, <3>2 DEF StraysInv, device
  <2> QED BY <1>4, <2>1, <2>2
<1> QED BY <1>5, <1>6, <1>7, <1>8, <1>9

\* A handler enters and leaves the tables.
LEMMA HandlerTables ==
    ASSUME SoundInv, NEW c \in Conns, registerConn(c) \/ EndServe(c) \/ unregisterConn(c)
    PROVE  SoundInv'
<1> USE DEF SoundInv, TypeOK
<1>0. /\ current \in Conns /\ None \notin Conns /\ c \in Nat /\ current \in Nat /\ c # None
  BY DEF Conns, None
<1>1. UNCHANGED <<device, toDev, frame, target, sched, secrets, strays>>
  BY DEF registerConn, EndServe, unregisterConn, wires
<1>2. CASE registerConn(c)
  <2>1. /\ pc[c] = "register" /\ own' = [own EXCEPT ![c] = sessions] /\ conns' = c
        /\ HangUp(conns) /\ pc' = [pc EXCEPT ![c] = "read"] /\ UNCHANGED <<gw, sessions>>
    BY <1>2 DEF registerConn, Go
  <2>2. /\ net' \in [Conns -> {"unopened", "open", "device", "gateway"}]
        /\ toGw' \in [Conns -> Seq(Frame)]
        /\ \A d \in Conns : toGw'[d] \in {toGw[d], <<>>} /\ toGw'[d] \in Seq(FramesOf(d))
    BY <2>1, HangUpKeeps
  <2>6. own' \in [Conns -> Conns \cup {None}] /\ conns' \in Conns
    BY <2>1
  <2>3. TypeOK'
    <3>1. pc' \in [Conns -> {"unopened", "register", "read", "check", "fetch", "apply",
                             "commit", "reply", "unregister", "done"}]
      BY <2>1
    <3>2. UNCHANGED <<dev, current, sessions, schedConn, schedTarget, schedFrame, schedPc,
                      gw, toDev, frame, target, secrets, strays>>
      BY <1>1, <2>1 DEF device, sched
    <3> QED BY <2>2, <2>6, <3>1, <3>2, ZenonT(40)
  <2>4. NumbersInv'
    BY <1>0, <1>1, <2>1, <2>2 DEF NumbersInv, device, sched
  <2>5. KeysInv' /\ StraysInv' /\ TablesInv'
    BY <1>0, <1>1, <2>1, <2>2 DEF KeysInv, StraysInv, TablesInv, device
  <2> QED BY <2>3, <2>4, <2>5
<1>3. CASE EndServe(c)
  <2>1. /\ pc[c] = "read" /\ UNCHANGED <<conns, own, net, toGw>>
        /\ pc' = [pc EXCEPT ![c] = "unregister"]
        /\ \/ /\ sessions # None /\ sessions' = None
              /\ gw' = [gw EXCEPT ![sessions] = Close(gw[sessions])]
           \/ UNCHANGED <<gw, sessions>>
    BY <1>3 DEF EndServe, Go, wires
  <2>2. gw' \in [Conns -> SessionType] /\ \A d \in Conns : Sound(gw'[d], d)
    <3>1. CASE /\ sessions # None
               /\ gw' = [gw EXCEPT ![sessions] = Close(gw[sessions])]
      <4>1. sessions \in Conns /\ Sound(gw[sessions], sessions)
        BY <3>1 DEF KeysInv
      <4>2. Sound(Close(gw[sessions]), sessions)
        BY <4>1, SoundEnd
      <4>3. Close(gw[sessions]) \in SessionType
        BY <4>2 DEF Sound
      <4> QED BY <3>1, <4>1, <4>2, <4>3 DEF KeysInv
    <3> QED BY <2>1, <3>1 DEF KeysInv
  <2>3. TypeOK'
    BY <1>1, <2>1, <2>2 DEF device, sched
  <2>4. NumbersInv'
    BY <1>0, <1>1, <2>1 DEF NumbersInv, device, sched
  <2>5. KeysInv' /\ StraysInv' /\ TablesInv'
    BY <1>0, <1>1, <2>1, <2>2 DEF KeysInv, StraysInv, TablesInv, device
  <2> QED BY <2>3, <2>4, <2>5
<1>4. CASE unregisterConn(c)
  <2>1. /\ pc[c] = "unregister" /\ UNCHANGED <<gw, sessions, own, net, toGw>>
        /\ pc' = [pc EXCEPT ![c] = "done"] /\ conns' = IF conns = c THEN None ELSE conns
    BY <1>4 DEF unregisterConn, ConnsWithout, Go, wires
  <2>2. TypeOK'
    BY <1>1, <2>1 DEF device, sched
  <2>3. NumbersInv'
    BY <1>0, <1>1, <2>1 DEF NumbersInv, device, sched
  <2>4. KeysInv' /\ StraysInv' /\ TablesInv'
    BY <1>0, <1>1, <2>1 DEF KeysInv, StraysInv, TablesInv, device
  <2> QED BY <2>2, <2>3, <2>4
<1> QED BY <1>2, <1>3, <1>4

\* Every step keeps the invariant.
LEMMA NextSound == SoundInv /\ [Next]_vars => SoundInv'
<1> SUFFICES ASSUME SoundInv, [Next]_vars PROVE SoundInv'
  OBVIOUS
<1>1. CASE UNCHANGED vars
  BY <1>1 DEF vars, device, tables, wires, hands, sched, SoundInv, TypeOK, NumbersInv,
     KeysInv, StraysInv, TablesInv
<1> QED BY <1>1, DevSound, EstablishSound, SchedSound, HandlerReads, HandlerApplies,
           HandlerTables DEF Next, Handler

LEMMA SoundCorrect == Spec => []SoundInv
BY InitSound, NextSound, PTL DEF Spec

(***************************************************************************)
(* ReconnectionCorrect: for any number of connections and rotations, the   *)
(* session in the table is open, every rotation in progress is of the next *)
(* number and of the key in force, and no handler strays twice             *)
(* (serveSession, BeginRotate, ControlKey).                                *)
(***************************************************************************)
THEOREM ReconnectionCorrect == Spec => []ReconnectionInv
<1>1. SoundInv => ReconnectionInv
  <2> SUFFICES ASSUME SoundInv PROVE ReconnectionInv
    OBVIOUS
  <2>1. OneStray
    <3>1. ASSUME NEW c \in Conns PROVE strays[c] <= 1
      <4>1. strays[c] \in Nat
        BY DEF SoundInv, TypeOK
      <4>2. strays[c] > 0 => strays[c] = 1
        BY DEF SoundInv, StraysInv
      <4> QED BY <4>1, <4>2
    <3> QED BY <3>1 DEF OneStray
  <2>2. \A c \in Conns : PendingIsNext(gw[c])
    BY DEF SoundInv, KeysInv, Sound
  <2> QED BY <2>1, <2>2 DEF SoundInv, TablesInv, PendingIsNext, ReconnectionInv
<1> QED BY SoundCorrect, <1>1, PTL
-----------------------------------------------------------------------------
(* The second invariant: what the device and the gateway know of each      *)
(* other over the last connection.                                         *)

\* The gateway's session of the device's connection.
G == gw[current]

\* Which tables can hold the last connection, and when; a handler that has
\* another's session to commit has strayed.
ConnInv ==
    /\ \A c \in Conns :
         /\ pc[c] = "commit" => /\ frame[c].type = "rotationV2"
                                /\ target[c] # c => strays[c] > 0
         /\ pc[c] \in {"unregister", "done"} => net[c] # "open"
    /\ {conns, schedConn} \subseteq 0..current
    /\ current \in {conns, schedConn} => pc[current] # "register"
    /\ net[current] = "open" /\ pc[current] # "register" => conns = current
    /\ schedPc = "begin" /\ schedConn = current => schedTarget = current

\* The scheduler is about to end the last connection.
Doomed ==
    \/ schedPc = "disconnect" /\ conns = current
    \/ schedPc = "close" /\ schedConn = current

InStep(a, b) == a.iteration = b.iteration /\ a.key = b.key

\* b is a rotation ahead, and if a holds a pending key it is b's.
CanFollow(a, b) ==
    /\ b.iteration = a.iteration + 1
    /\ a.pendingActive => a.pendingKey = b.key

\* The rotation of f is the one pending in s.
Holds(s, f) ==
    /\ s.pendingActive /\ s.pendingIteration = f.iteration
    /\ s.pendingKey = deriveNextKey(s.key, f.mi, f.iteration)

\* A frame of the device's: it acknowledges what the device has done, or asks
\* for the rotation that the device holds pending, or is out of date.
FromDev(f) ==
    /\ f.type = "rotationAck" => f.iteration <= dev.iteration
    /\ f.type = "rotationV2" =>
         \/ f.iteration = dev.iteration + 1 /\ Holds(dev, f)
         \/ f.iteration <= dev.iteration /\ f.iteration <= G.iteration

\* A frame of the gateway's, likewise; a rotation it has rolled back is never
\* answered in time, because the connection is about to end.
FromGw(f) ==
    /\ f.type = "rotationAck" => f.iteration <= G.iteration
    /\ f.type = "rotationV2" =>
         \/ f.iteration <= G.iteration
         \/ f.iteration = G.iteration + 1 /\ (Holds(G, f) \/ Doomed)

DevFrames == {f \in Frame : FromDev(f)}
GwFrames == {f \in Frame : FromGw(f)}

\* The two ends agree, or one is a rotation ahead and the other can follow.
Phase ==
    \/ InStep(G, dev)
    \/ CanFollow(G, dev) /\ (G.pendingActive \/ Doomed)
    \/ CanFollow(dev, G) /\ dev.pendingActive

WiresInv ==
    /\ toGw[current] \in Seq(DevFrames) /\ toDev \in Seq(GwFrames)
    /\ pc[current] = "register" => toDev = <<>> /\ InStep(G, dev)

HandsInv ==
    /\ pc[current] \in {"check", "fetch", "apply", "commit"} => FromDev(frame[current])
    /\ pc[current] = "commit" => \/ Holds(G, frame[current])
                                 \/ Doomed /\ ~G.pendingActive
    /\ pc[current] = "reply" => frame[current].iteration <= G.iteration

SchedInv ==
    /\ schedPc = "begun" /\ schedConn = current => FromGw(schedFrame)
    /\ schedPc \in {"disconnect", "close"} /\ G.pendingActive => pc[current] = "commit"

FacingInv == Phase /\ WiresInv /\ HandsInv /\ SchedInv

LinkInv == ConnInv /\ (Facing /\ NoStrays => FacingInv)

\* What the first invariant says of the two ends.
LEMMA Ends ==
    ASSUME SoundInv
    PROVE  /\ current \in Conns /\ current \in Nat
           /\ Sound(G, current) /\ G.iteration \in Nat /\ G.key \in Key
           /\ Sound(dev, current) /\ dev.iteration \in Nat /\ dev.key \in Key
           /\ G.pendingActive => G.pendingIteration = G.iteration + 1
           /\ dev.pendingActive => dev.pendingIteration = dev.iteration + 1
<1>1. current \in Conns /\ current \in Nat
  BY DEF SoundInv, TypeOK, Conns
<1>2. Sound(G, current) /\ Sound(dev, current)
  BY <1>1 DEF SoundInv, KeysInv, G
<1>3. ASSUME NEW s, Sound(s, current)
      PROVE  /\ s.iteration \in Nat /\ s.key \in Key
             /\ s.pendingActive => s.pendingIteration = s.iteration + 1
  BY <1>3 DEF Sound, SessionType, PendingIsNext
<1> QED BY <1>1, <1>2, <1>3

\* A queue of frames of one kind is one of frames of a wider kind.
LEMMA Wider ==
    ASSUME NEW S, NEW T, NEW q \in Seq(S), S \subseteq T
    PROVE  q \in Seq(T)
OBVIOUS

\* Nothing that either end knows of the other has changed.
LEMMA FacingKept ==
    ASSUME SoundInv, FacingInv, UNCHANGED <<dev, current, toDev>>, G' = G,
           toGw'[current] = toGw[current], pc'[current] = pc[current],
           frame'[current] = frame[current], Doomed => Doomed',
           schedPc' = "begun" /\ schedConn' = current
             => schedPc = "begun" /\ schedConn = current /\ schedFrame' = schedFrame,
           schedPc' \in {"disconnect", "close"} => schedPc \in {"disconnect", "close"}
    PROVE  FacingInv'
<1>1. \A f : (FromDev(f)' <=> FromDev(f)) /\ (FromGw(f) => FromGw(f)')
  BY DEF FromDev, FromGw
<1>2. DevFrames' = DevFrames /\ GwFrames \subseteq GwFrames'
  BY <1>1 DEF DevFrames, GwFrames
<1>3. toDev \in Seq(GwFrames')
  BY <1>2, Wider DEF FacingInv, WiresInv
<1>4. WiresInv'
  BY <1>2, <1>3 DEF FacingInv, WiresInv
<1>5. Phase' /\ HandsInv' /\ SchedInv'
  BY <1>1 DEF FacingInv, Phase, HandsInv, SchedInv
<1> QED BY <1>4, <1>5 DEF FacingInv

\* Every step keeps what the tables say of the last connection.
LEMMA ConnStep ==
    ASSUME SoundInv, ConnInv, [Next]_vars
    PROVE  ConnInv'
<1> USE DEF SoundInv, TypeOK
<1>0. current \in Conns /\ current \in Nat /\ None = 0 /\ \A c \in Conns : c \in Nat /\ c # None
  BY DEF Conns, None
<1>1. CASE DevRotate \/ DevAck \/ DevInitiate \/ DevHangUp
  <2>1. UNCHANGED <<current, tables, hands, sched, strays>>
        /\ (net' = net \/ net' = [net EXCEPT ![current] = "device"])
    BY <1>1 DEF DevRotate, DevAck, DevInitiate, DevHangUp
  <2> QED BY <1>0, <2>1 DEF ConnInv, tables, hands, sched
<1>2. ASSUME NEW d \in Conns, Establish(d) PROVE ConnInv'
  <2>1. /\ d = current + 1 /\ current' = d /\ net' = [net EXCEPT ![d] = "open"]
        /\ pc' = [pc EXCEPT ![d] = "register"]
        /\ UNCHANGED <<conns, frame, target, sched, strays>>
    BY <1>2 DEF Establish, Go
  <2>2. {conns, schedConn} \subseteq 0..current /\ current' \notin {conns, schedConn}
    BY <1>0, <2>1 DEF ConnInv
  <2> QED BY <1>0, <2>1, <2>2, SMTT(30) DEF ConnInv, sched
<1>3. CASE Scheduler
  <2>1. UNCHANGED <<device, tables, hands, strays>>
    BY <1>3 DEF Scheduler, SchedTick, SchedAbort, SchedWait, SchedDecide, SchedFetch,
       SchedBegin, SchedWrite, SchedDisconnect, SchedClose
  <2>2. CASE SchedClose
    <3>1. UNCHANGED schedConn /\ schedPc' = "idle" /\ \A c \in Conns : net'[c] \in {net[c], "gateway"}
      BY <1>0, <2>2, HangUpKeeps DEF SchedClose
    <3> QED BY <1>0, <2>1, <3>1 DEF ConnInv, device, tables, hands
  <2>3. CASE ~SchedClose
    <3>1. UNCHANGED net /\ schedConn' \in {schedConn, conns}
      BY <1>3, <2>3 DEF Scheduler, SchedTick, SchedAbort, SchedWait, SchedDecide, SchedFetch,
         SchedBegin, SchedWrite, SchedDisconnect, wires
    <3>2. schedPc' = "begin" => schedTarget' = current
      BY <1>0, <1>3, <2>3 DEF Scheduler, SchedTick, SchedAbort, SchedWait, SchedDecide,
         SchedFetch, SchedBegin, SchedWrite, SchedDisconnect, NumbersInv
    <3> QED BY <1>0, <2>1, <3>1, <3>2 DEF ConnInv, device, tables, hands
  <2> QED BY <2>2, <2>3
<1>4. ASSUME NEW c \in Conns, Handler(c) PROVE ConnInv'
  <2>1. UNCHANGED <<device, sched>>
    BY <1>4 DEF Handler, registerConn, ReadFrame, CheckTag, FetchSession, ApplyAck,
       BeginResponse, CommitResponse, Reply, EndServe, unregisterConn
  <2>2. CASE registerConn(c)
    <3>1. /\ pc[c] = "register" /\ pc' = [pc EXCEPT ![c] = "read"] /\ conns' = c
          /\ HangUp(conns) /\ UNCHANGED <<frame, target, strays>>
      BY <2>2 DEF registerConn, Go
    <3>2. \A d \in Conns : net'[d] \in {net[d], "gateway"}
      BY <3>1, HangUpKeeps
    <3>3. c \in 0..current
      BY <1>0, <3>1 DEF NumbersInv
    <3>4. c # current /\ pc[current] # "register" => net'[current] # "open"
      <4>1. conns = current /\ net[current] = "open" => net'[current] = "gateway"
        BY <1>0, <3>1 DEF HangUp
      <4> QED BY <1>0, <3>2, <4>1 DEF ConnInv
    <3> QED BY <1>0, <2>1, <3>1, <3>2, <3>3, <3>4 DEF ConnInv, device, sched
  <2>3. CASE ReadFrame(c) \/ CheckTag(c) \/ FetchSession(c) \/ Reply(c)
    <3>1. /\ UNCHANGED <<net, conns, strays>> /\ pc[c] \notin {"register", "unregister", "done"}
          /\ \E p \in {"read", "check", "fetch", "apply"} : pc' = [pc EXCEPT ![c] = p]
          /\ \A d \in Conns : d # c => frame'[d] = frame[d] /\ target'[d] = target[d]
      BY <2>3 DEF ReadFrame, CheckTag, FetchSession, Reply, ReadNext, Go, wires, tables
    <3> QED BY <1>0, <2>1, <3>1 DEF ConnInv, device, sched
  <2>4. CASE ApplyAck(c) \/ BeginResponse(c) \/ CommitResponse(c)
    <3>1. /\ UNCHANGED <<net, conns, target>> /\ pc[c] \in {"apply", "commit"}
          /\ \E p \in {"read", "commit", "reply"} :
               /\ pc' = [pc EXCEPT ![c] = p]
               /\ p = "commit" => /\ frame[c].type = "rotationV2" /\ UNCHANGED frame
                                  /\ Applied(c, target[c])
          /\ \A d \in Conns : d # c => frame'[d] = frame[d]
          /\ strays' = strays \/ strays' = [strays EXCEPT ![c] = strays[c] + 1]
      BY <2>4 DEF ApplyAck, BeginResponse, CommitResponse, ReadNext, Go, wires, tables, Applied
    <3>2. \A d \in Conns : strays[d] > 0 => strays'[d] > 0
      <4>1. ASSUME NEW d \in Conns, strays[d] > 0 PROVE strays'[d] > 0
        <5>1. strays[d] \in Nat /\ (strays'[d] = strays[d] \/ strays'[d] = strays[d] + 1)
          BY <3>1
        <5> QED BY <4>1, <5>1
      <4> QED BY <4>1
    <3>3. target[c] # c /\ Applied(c, target[c]) => strays'[c] > 0
      <4>1. strays[c] \in Nat
        OBVIOUS
      <4> QED BY <4>1 DEF Applied
    <3> QED BY <1>0, <2>1, <3>1, <3>2, <3>3 DEF ConnInv, device, sched
  <2>5. CASE EndServe(c)
    <3>1. /\ UNCHANGED <<net, conns, frame, target, strays>> /\ net[c] # "open"
          /\ pc[c] = "read" /\ pc' = [pc EXCEPT ![c] = "unregister"]
      BY <2>5 DEF EndServe, Go, wires
    <3> QED BY <1>0, <2>1, <3>1 DEF ConnInv, device, sched
  <2>6. CASE unregisterConn(c)
    <3>1. /\ UNCHANGED <<net, frame, target, strays>> /\ net[c] # "open"
          /\ pc[c] = "unregister" /\ pc' = [pc EXCEPT ![c] = "done"]
          /\ conns' \in {conns, None} /\ (conns # c => conns' = conns)
      BY <2>6 DEF unregisterConn, ConnsWithout, Go, wires, ConnInv
    <3> QED BY <1>0, <2>1, <3>1 DEF ConnInv, device, sched
  <2> QED BY <1>4, <2>2, <2>3, <2>4, <2>5, <2>6 DEF Handler
<1>5. CASE UNCHANGED vars
  BY <1>5 DEF vars, ConnInv, device, tables, wires, hands, sched
<1> QED BY <1>1, <1>2, <1>3, <1>4, <1>5 DEF Next

\* An answer of the device, or a rotation that it begins, keeps the two ends
\* in touch: it answers only the rotation that the gateway holds, or one that
\* the gateway has rolled back on a connection that is about to end.
LEMMA DevFacing ==
    ASSUME SoundInv, LinkInv, DevRotate \/ DevAck \/ DevInitiate \/ DevHangUp,
           Facing', NoStrays'
    PROVE  FacingInv'
<1>0. /\ UNCHANGED <<gw, current, tables, hands, sched, strays, net>>
      /\ ~dev.closed /\ ~DevHangUp
  <2>1. ~DevHangUp
    <3>1. Close(dev).closed
      BY Ends, SoundEnd
    <3> QED BY <3>1 DEF DevHangUp, Facing
  <2> QED BY <2>1 DEF DevRotate, DevAck, DevInitiate, DevConnected
<1>1. G' = G /\ (Doomed' <=> Doomed) /\ GwFrames' = GwFrames
  BY <1>0 DEF G, Doomed, GwFrames, FromGw, tables, sched
<1>2. ConnInv /\ FacingInv
  BY <1>0 DEF LinkInv, Facing, NoStrays
<1>3. /\ current \in Conns /\ toGw[current] \in Seq(DevFrames) /\ toDev \in Seq(GwFrames)
      /\ toGw \in [Conns -> Seq(Frame)]
      /\ Phase /\ HandsInv /\ SchedInv
  BY <1>2, Ends DEF FacingInv, WiresInv, SoundInv, TypeOK
<1>4. ASSUME Phase', \A f \in Frame : FromDev(f) => FromDev(f)',
             toGw'[current] \in Seq(DevFrames'), toDev' \in Seq(GwFrames),
             pc[current] = "register" => toDev' = <<>> /\ InStep(G, dev')
      PROVE  FacingInv'
  <2>1. frame[current] \in Frame
    BY <1>3 DEF SoundInv, TypeOK
  <2>2. WiresInv'
    BY <1>0, <1>1, <1>4 DEF WiresInv, hands
  <2>3. HandsInv'
    BY <1>0, <1>1, <1>3, <1>4, <2>1 DEF HandsInv, hands
  <2>4. SchedInv'
    BY <1>0, <1>1, <1>3 DEF SchedInv, FromGw, sched, hands
  <2> QED BY <1>4, <2>2, <2>3, <2>4 DEF FacingInv
<1>5. ASSUME \A f \in Frame : FromDev(f) => FromDev(f)'
      PROVE  /\ toGw[current] \in Seq(DevFrames')
             /\ \A f \in DevFrames' : Append(toGw[current], f) \in Seq(DevFrames')
  <2>1. DevFrames \subseteq DevFrames'
    BY <1>5 DEF DevFrames
  <2>2. toGw[current] \in Seq(DevFrames')
    BY <1>3, <2>1, Wider
  <2> QED BY <2>2, QueueOf
<1>6. CASE DevRotate
  <2> DEFINE f == Head(toDev)
  <2>1. /\ toDev # <<>> /\ f.type = "rotationV2" /\ toDev' = Tail(toDev)
        /\ \/ /\ f.key = dev.key /\ CanRespond(dev, f.iteration)
              /\ dev' = RespondToRotationAtomic(dev, f.mi, f.iteration)
              /\ toGw' = [toGw EXCEPT ![current] =
                            Append(toGw[current], RotationAck(f.iteration, dev.key))]
           \/ UNCHANGED <<dev, toGw>>
    BY <1>6 DEF DevRotate
  <2>2. f \in GwFrames /\ Tail(toDev) \in Seq(GwFrames)
    BY <1>3, <2>1, QueueOf
  <2>3. f.iteration \in Nat /\ f.mi \in Nat /\ FromGw(f) /\ pc[current] # "register"
    BY <1>2, <2>1, <2>2 DEF GwFrames, Frame, FacingInv, WiresInv
  <2> HIDE DEF f
  <2>4. CASE UNCHANGED <<dev, toGw>>
    <3>1. \A x \in Frame : FromDev(x) => FromDev(x)'
      BY <1>1, <2>4 DEF FromDev
    <3>2. Phase'
      BY <1>1, <1>3, <2>4 DEF Phase
    <3> QED BY <1>4, <1>5, <2>1, <2>2, <2>3, <2>4, <3>1, <3>2
  <2>5. CASE /\ CanRespond(dev, f.iteration)
             /\ dev' = RespondToRotationAtomic(dev, f.mi, f.iteration)
             /\ toGw' = [toGw EXCEPT ![current] =
                           Append(toGw[current], RotationAck(f.iteration, dev.key))]
    <3>1. ~dev.pendingActive /\ f.iteration = dev.iteration + 1
      BY <2>5 DEF CanRespond, CanBegin
    <3>2. InStep(G, dev) /\ f.iteration = G.iteration + 1 /\ (Holds(G, f) \/ Doomed)
      BY <1>3, <2>1, <2>3, <3>1, Ends DEF Phase, InStep, CanFollow, FromGw
    <3>3. /\ dev'.iteration = dev.iteration + 1 /\ ~dev'.pendingActive
          /\ dev'.key = deriveNextKey(dev.key, f.mi, f.iteration)
      BY <2>3, <2>5, Ends, SoundRespond
    <3>4. Holds(G, f) \/ ~G.pendingActive
      <4>1. SUFFICES ASSUME Doomed, G.pendingActive PROVE FALSE
        BY <3>2
      <4>2. pc[current] = "commit" /\ Holds(G, frame[current]) /\ FromDev(frame[current])
        BY <1>3, <4>1 DEF Doomed, SchedInv, HandsInv
      <4>3. frame[current].type = "rotationV2"
        BY <1>2, <1>3, <4>2 DEF ConnInv
      <4> QED BY <3>1, <3>2, <4>2, <4>3, Ends DEF FromDev, Holds
    <3>5. Phase'
      BY <1>1, <3>2, <3>3, <3>4, Ends DEF Phase, InStep, CanFollow, Holds
    <3>6. \A x \in Frame : FromDev(x) => FromDev(x)'
      <4>1. ASSUME NEW x \in Frame, FromDev(x) PROVE FromDev(x)'
        BY <1>1, <3>1, <3>3, <4>1, Ends DEF FromDev, Holds, Frame
      <4> QED BY <4>1
    <3>7. ASSUME NEW a, a = RotationAck(f.iteration, dev.key) PROVE a \in DevFrames'
      <4>1. a \in Frame
        BY <2>3, <3>7, Ends, FrameTyped
      <4>2. FromDev(a)'
        BY <2>3, <3>1, <3>3, <3>7, Ends DEF FromDev, RotationAck, FrameOf
      <4> QED BY <4>1, <4>2 DEF DevFrames
    <3>8. toGw'[current] \in Seq(DevFrames')
      BY <1>3, <1>5, <2>5, <3>6, <3>7
    <3> QED BY <1>4, <2>1, <2>2, <2>3, <3>5, <3>6, <3>8
  <2> QED BY <2>1, <2>4, <2>5
<1>7. CASE DevAck
  <2> DEFINE f == Head(toDev)
  <2>1. /\ toDev # <<>> /\ f.type = "rotationAck" /\ toDev' = Tail(toDev) /\ UNCHANGED toGw
        /\ dev' = dev \/ (CanApplyAck(dev, f.iteration) /\ dev' = CommitRotate(dev))
    BY <1>7 DEF DevAck, ApplyRotationAck
  <2>2. f \in GwFrames /\ Tail(toDev) \in Seq(GwFrames)
    BY <1>3, <2>1, QueueOf
  <2>3. f.iteration \in Nat /\ FromGw(f) /\ pc[current] # "register"
    BY <1>2, <2>1, <2>2 DEF GwFrames, Frame, FacingInv, WiresInv
  <2> HIDE DEF f
  <2>4. CASE dev' = dev
    <3>1. \A x \in Frame : FromDev(x) => FromDev(x)'
      BY <1>1, <2>4 DEF FromDev
    <3>2. Phase'
      BY <1>1, <1>3, <2>4 DEF Phase
    <3> QED BY <1>4, <1>5, <2>1, <2>2, <2>3, <2>4, <3>1, <3>2
  <2>5. CASE CanApplyAck(dev, f.iteration) /\ dev' = CommitRotate(dev)
    <3>1. dev.pendingActive /\ f.iteration = dev.iteration + 1 /\ f.iteration <= G.iteration
      BY <2>1, <2>3, <2>5, Ends DEF CanApplyAck, CanCommit, FromGw
    <3>2. CanFollow(dev, G)
      BY <1>3, <3>1, <2>3, Ends DEF Phase, InStep, CanFollow
    <3>3. dev'.iteration = dev.iteration + 1 /\ dev'.key = dev.pendingKey
          /\ ~dev'.pendingActive
      BY <2>5, <3>1, Ends, SoundCommit
    <3>4. Phase'
      BY <1>1, <3>1, <3>2, <3>3 DEF Phase, InStep, CanFollow
    <3>5. \A x \in Frame : FromDev(x) => FromDev(x)'
      <4>1. ASSUME NEW x \in Frame, FromDev(x) PROVE FromDev(x)'
        BY <1>1, <3>1, <3>2, <3>3, <4>1, Ends DEF FromDev, CanFollow, Frame
      <4> QED BY <4>1
    <3> QED BY <1>4, <1>5, <2>1, <2>2, <2>3, <3>4, <3>5
  <2> QED BY <2>1, <2>4, <2>5
<1>8. CASE DevInitiate
  <2> DEFINE mi == secrets + 1  it == dev.iteration + 1
  <2>1. /\ CanBegin(dev, it) /\ dev' = BeginRotate(dev, mi, it) /\ UNCHANGED toDev
        /\ toGw' = [toGw EXCEPT ![current] =
                      Append(toGw[current], RotationV2(it, mi, dev.key))]
    BY <1>8 DEF DevInitiate
  <2>2. mi \in Nat /\ it \in Nat
    <3>1. secrets \in Nat
      BY DEF SoundInv, TypeOK
    <3> QED BY <3>1, Ends
  <2>3. ~dev.pendingActive /\ it = dev.iteration + 1
    BY <2>1 DEF CanBegin
  <2> HIDE DEF mi, it
  <2>4. /\ dev'.iteration = dev.iteration /\ dev'.key = dev.key /\ dev'.pendingActive
        /\ dev'.pendingIteration = it /\ dev'.pendingKey = deriveNextKey(dev.key, mi, it)
    BY <2>1, <2>2, Ends, SoundBegin
  <2>5. Phase' /\ (InStep(G, dev) => InStep(G, dev'))
    BY <1>1, <1>3, <2>3, <2>4 DEF Phase, InStep, CanFollow
  <2>6. \A x \in Frame : FromDev(x) => FromDev(x)'
    <3>1. ASSUME NEW x \in Frame, FromDev(x) PROVE FromDev(x)'
      BY <1>1, <2>3, <2>4, <3>1 DEF FromDev, Holds
    <3> QED BY <3>1
  <2>7. ASSUME NEW a, a = RotationV2(it, mi, dev.key) PROVE a \in DevFrames'
    <3>1. a \in Frame
      BY <2>2, <2>7, Ends, FrameTyped
    <3>2. FromDev(a)'
      <4>1. a.type = "rotationV2" /\ a.iteration = it /\ a.mi = mi
        BY <2>7 DEF RotationV2, FrameOf
      <4> QED BY <2>3, <2>4, <4>1 DEF FromDev, Holds
    <3> QED BY <3>1, <3>2 DEF DevFrames
  <2>8. toGw'[current] \in Seq(DevFrames')
    BY <1>3, <1>5, <2>1, <2>6, <2>7
  <2>9. pc[current] = "register" => toDev' = <<>> /\ InStep(G, dev')
    BY <1>2, <2>1, <2>5 DEF FacingInv, WiresInv
  <2> QED BY <1>3, <1>4, <2>1, <2>5, <2>6, <2>8, <2>9
<1> QED BY <1>0, <1>6, <1>7, <1>8

\* The ends of a new connection start from the same key.
LEMMA EstablishFacing ==
    ASSUME SoundInv, ConnInv, NEW d \in Conns, Establish(d)
    PROVE  FacingInv'
<1>0. d \in Nat /\ current \in Nat /\ d = current + 1
  BY Ends DEF Establish, Conns
<1>1. /\ current' = d /\ toDev' = <<>> /\ dev' = NewSession(DeriveK0(d)) /\ pc'[d] = "register"
      /\ gw'[d] = NewSession(DeriveK0(d)) /\ UNCHANGED <<toGw, sched>>
  BY DEF Establish, Go, SoundInv, TypeOK
<1>2. G' = dev' /\ ~G.pendingActive'
  BY <1>1 DEF G, NewSession
<1>3. toGw'[d] = <<>> /\ schedConn' # d
  BY <1>0, <1>1 DEF SoundInv, NumbersInv, ConnInv, sched
<1>4. WiresInv'
  <2>1. \A S : <<>> \in Seq(S)
    OBVIOUS
  <2> QED BY <1>1, <1>2, <1>3, <2>1 DEF WiresInv, InStep
<1>5. Phase' /\ HandsInv' /\ SchedInv'
  BY <1>1, <1>2, <1>3 DEF Phase, InStep, HandsInv, SchedInv
<1> QED BY <1>4, <1>5 DEF FacingInv

\* The scheduler begins a rotation only where the ends are in step or the
\* gateway is ahead, and when it gives one up it ends the connection as well.
LEMMA SchedFacing ==
    ASSUME SoundInv, LinkInv, Scheduler, Facing', NoStrays'
    PROVE  FacingInv'
<1>0. UNCHANGED <<dev, current, conns, pc, frame, strays>>
  BY DEF Scheduler, SchedTick, SchedAbort, SchedWait, SchedDecide, SchedFetch, SchedBegin,
     SchedWrite, SchedDisconnect, SchedClose, device, tables, hands
<1>1. /\ current \in Conns /\ current # None /\ gw \in [Conns -> SessionType]
      /\ net \in [Conns -> {"unopened", "open", "device", "gateway"}]
      /\ toGw \in [Conns -> Seq(Frame)]
      /\ schedConn \in Conns \cup {None} /\ secrets \in Nat /\ secrets + 1 \in Nat
  <2>1. current \in Conns /\ current # None
    BY Ends DEF Conns, None
  <2>2. /\ gw \in [Conns -> SessionType]
        /\ net \in [Conns -> {"unopened", "open", "device", "gateway"}]
        /\ toGw \in [Conns -> Seq(Frame)]
        /\ schedConn \in Conns \cup {None} /\ secrets \in Nat
    BY DEF SoundInv, TypeOK
  <2> QED BY <2>1, <2>2
<1>2. /\ ConnInv /\ net[current] = "open" /\ (SchedClose => schedConn # current)
      /\ toGw'[current] = toGw[current]
  <2>1. CASE SchedClose
    BY <1>0, <1>1, <2>1 DEF SchedClose, HangUp, Facing, LinkInv
  <2>2. CASE ~SchedClose
    <3>1. UNCHANGED <<net, toGw>>
      BY <2>2 DEF Scheduler, SchedTick, SchedAbort, SchedWait, SchedDecide, SchedFetch,
         SchedBegin, SchedWrite, SchedDisconnect, wires
    <3> QED BY <1>0, <2>2, <3>1 DEF Facing, LinkInv
  <2> QED BY <2>1, <2>2
<1>3. \/ G' = G /\ (schedPc' = "begun" => schedConn # current)
      \/ /\ schedPc = "rotate" /\ schedPc' = "disconnect" /\ G' = AbortRotate(G)
         /\ UNCHANGED <<toDev, schedConn, schedFrame>>
      \/ /\ schedPc = "begin" /\ schedPc' = "begun" /\ CanBegin(G, G.iteration + 1)
         /\ G' = BeginRotate(G, secrets + 1, G.iteration + 1)
         /\ schedFrame' = RotationV2(G.iteration + 1, secrets + 1, NoKey)
         /\ UNCHANGED <<toDev, schedConn>>
  <2>1. CASE SchedAbort
    <3>1. sessions = current
      BY <2>1 DEF SchedAbort, Stale, Pending, SoundInv, NumbersInv
    <3>2. /\ gw' = [gw EXCEPT ![current] = AbortRotate(gw[current])]
          /\ schedPc = "rotate" /\ schedPc' = "disconnect"
          /\ UNCHANGED <<toDev, schedConn, schedFrame>>
      BY <2>1, <3>1 DEF SchedAbort, wires
    <3> QED BY <1>0, <1>1, <3>2 DEF G
  <2>2. CASE SchedBegin
    <3>1. \/ UNCHANGED gw /\ schedPc' = "idle"
          \/ /\ CanBegin(gw[schedTarget], gw[schedTarget].iteration + 1)
             /\ gw' = [gw EXCEPT ![schedTarget] = BeginRotate(gw[schedTarget], secrets + 1,
                                                    gw[schedTarget].iteration + 1)]
             /\ schedFrame' = RotationV2(gw[schedTarget].iteration + 1, secrets + 1, NoKey)
             /\ schedPc' = "begun"
      BY <2>2 DEF SchedBegin
    <3>2. schedPc = "begin" /\ UNCHANGED <<toDev, schedConn>>
      BY <2>2 DEF SchedBegin, wires
    <3>3. schedTarget # current => schedConn # current
      BY <1>2, <3>2 DEF ConnInv
    <3>4. CASE schedTarget = current
      BY <1>0, <1>1, <3>1, <3>2, <3>4 DEF G
    <3>5. CASE schedTarget # current
      BY <1>0, <1>1, <3>1, <3>2, <3>3, <3>5 DEF G
    <3> QED BY <3>4, <3>5
  <2>3. CASE ~SchedAbort /\ ~SchedBegin
    <3>1. UNCHANGED gw /\ schedPc' # "begun"
      BY <2>3 DEF Scheduler, SchedTick, SchedWait, SchedDecide, SchedFetch, SchedWrite,
         SchedDisconnect, SchedClose
    <3> QED BY <1>0, <3>1 DEF G
  <2> QED BY <2>1, <2>2, <2>3
<1>4. G'.closed = G.closed
  <2>1. AbortRotate(G).closed = G.closed
    BY Ends, SoundEnd
  <2>2. ASSUME CanBegin(G, G.iteration + 1)
        PROVE  BeginRotate(G, secrets + 1, G.iteration + 1).closed = G.closed
    <3>1. G.iteration + 1 \in Nat
      BY Ends
    <3> QED BY <1>1, <2>2, <3>1, Ends, SoundBegin
  <2> QED BY <1>3, <2>1, <2>2
<1>5. FacingInv
  <2>1. Facing /\ NoStrays
    BY <1>0, <1>2, <1>4 DEF Facing, NoStrays, G
  <2> QED BY <2>1 DEF LinkInv
<1>6. /\ toGw[current] \in Seq(DevFrames) /\ toDev \in Seq(GwFrames)
      /\ Phase /\ HandsInv /\ SchedInv /\ frame[current] \in Frame /\ schedFrame \in Frame
  BY <1>1, <1>5 DEF FacingInv, WiresInv, SoundInv, TypeOK
<1>7. pc[current] # "register" => conns = current
  BY <1>2 DEF ConnInv
<1>8. ASSUME Phase', \A f \in Frame : FromDev(f) => FromDev(f)', toDev' \in Seq(GwFrames'),
             pc[current] = "register" => toDev' = <<>> /\ InStep(G', dev),
             G'.iteration = G.iteration, HandsInv', SchedInv'
      PROVE  FacingInv'
  <2>1. DevFrames \subseteq DevFrames'
    BY <1>8 DEF DevFrames
  <2>2. toGw'[current'] \in Seq(DevFrames')
    BY <1>0, <1>2, <1>6, <2>1, Wider
  <2>3. WiresInv'
    BY <1>0, <1>8, <2>2 DEF WiresInv
  <2> QED BY <1>8, <2>3 DEF FacingInv
<1>9. CASE SchedWrite
  <2>1. /\ G' = G /\ schedPc = "begun" /\ schedPc' = "idle" /\ UNCHANGED schedConn
        /\ \/ UNCHANGED toDev
           \/ /\ schedConn = current
              /\ toDev' = Append(toDev, [schedFrame EXCEPT !.key = gw[sessions].key])
              /\ sessions \in Conns
    BY <1>0, <1>9 DEF SchedWrite, Delivered, G, SoundInv, TypeOK
  <2>2. (Doomed' <=> Doomed) /\ GwFrames' = GwFrames
    BY <1>0, <2>1 DEF Doomed, GwFrames, FromGw
  <2>3. ASSUME schedConn = current, sessions \in Conns
        PROVE  [schedFrame EXCEPT !.key = gw[sessions].key] \in GwFrames
    <3>1. FromGw(schedFrame) /\ gw[sessions].key \in Key
      BY <1>1, <1>6, <2>1, <2>3 DEF SchedInv, SessionType
    <3> QED BY <1>6, <3>1 DEF GwFrames, FromGw, Holds, Frame
  <2>4. toDev' \in Seq(GwFrames')
    BY <1>6, <2>1, <2>2, <2>3, QueueOf
  <2>5. Phase' /\ HandsInv' /\ SchedInv' /\ \A f \in Frame : FromDev(f) => FromDev(f)'
    BY <1>0, <1>6, <2>1, <2>2 DEF Phase, HandsInv, SchedInv, FromDev
  <2>6. pc[current] = "register" => toDev' = <<>> /\ InStep(G', dev)
    BY <1>2, <1>5, <2>1 DEF FacingInv, WiresInv, ConnInv
  <2> QED BY <1>8, <2>1, <2>4, <2>5, <2>6
<1>10. CASE G' = G /\ ~SchedWrite
  <2>1. (schedPc' = "begun" => schedConn' # current) /\ UNCHANGED toDev
    <3>1. (schedPc' = "begun" => UNCHANGED schedConn) /\ UNCHANGED toDev
      BY <1>10 DEF Scheduler, SchedTick, SchedAbort, SchedWait, SchedDecide, SchedFetch,
         SchedBegin, SchedDisconnect, SchedClose, wires
    <3>2. ~(CanBegin(G, G.iteration + 1) /\ G' = BeginRotate(G, secrets + 1, G.iteration + 1))
      <4>1. G.iteration + 1 \in Nat
        BY Ends
      <4>2. CanBegin(G, G.iteration + 1) =>
              BeginRotate(G, secrets + 1, G.iteration + 1).pendingActive
        <5>1. Sound(G, current) /\ secrets + 1 \in Nat
          BY <1>1, Ends
        <5> QED BY ONLY <4>1, <5>1, SoundBegin
      <4>3. CanBegin(G, G.iteration + 1) => ~G.pendingActive
        BY DEF CanBegin
      <4> QED BY <1>10, <4>2, <4>3
    <3> QED BY <1>3, <3>1, <3>2
  <2>2. Doomed => Doomed'
    BY <1>0, <1>1, <1>2, <1>10 DEF Doomed, Scheduler, SchedTick, SchedAbort, SchedWait,
       SchedDecide, SchedFetch, SchedBegin, SchedDisconnect, SchedClose
  <2>3. CASE ~SchedAbort
    <3>1. schedPc' \in {"disconnect", "close"} => schedPc \in {"disconnect", "close"}
      BY <1>10, <2>3, SMTT(60) DEF Scheduler, SchedTick, SchedWait, SchedDecide, SchedFetch,
         SchedBegin, SchedDisconnect, SchedClose
    <3> QED BY <1>0, <1>2, <1>5, <1>10, <2>1, <2>2, <3>1, FacingKept
  <2>4. CASE SchedAbort
    <3>1. G.pendingActive /\ sessions = current
      BY <2>4 DEF SchedAbort, Stale, Pending, SoundInv, NumbersInv, G
    <3>2. gw' = [gw EXCEPT ![current] = AbortRotate(gw[current])]
      BY <2>4, <3>1 DEF SchedAbort
    <3>3. G' = AbortRotate(G)
      BY <1>0, <1>1, <3>2 DEF G
    <3>4. ~AbortRotate(G).pendingActive
      <4>1. Sound(G, current)
        BY Ends
      <4> QED BY ONLY <4>1, SoundEnd
    <3> QED BY <1>10, <3>1, <3>3, <3>4, Zenon
  <2> QED BY <2>3, <2>4
<1>11. CASE /\ schedPc = "rotate" /\ schedPc' = "disconnect" /\ G' = AbortRotate(G)
            /\ UNCHANGED <<toDev, schedConn, schedFrame>>
  <2>1. G'.iteration = G.iteration /\ G'.key = G.key /\ ~G'.pendingActive
    BY <1>11, Ends, SoundEnd
  <2>2. ~Doomed /\ (pc[current] # "register" => Doomed')
    BY <1>0, <1>7, <1>11 DEF Doomed
  <2>3. pc[current] = "register" => toDev' = <<>> /\ InStep(G', dev)
    BY <1>5, <1>11, <2>1 DEF FacingInv, WiresInv, InStep
  <2>4. toDev' \in Seq(GwFrames')
    <3>1. CASE pc[current] = "register"
      <4>1. \A S : <<>> \in Seq(S)
        OBVIOUS
      <4> QED BY <2>3, <3>1, <4>1
    <3>2. CASE pc[current] # "register"
      <4>1. GwFrames \subseteq GwFrames'
        BY <2>1, <2>2, <3>2 DEF GwFrames, FromGw
      <4> QED BY <1>6, <1>11, <4>1, Wider
    <3> QED BY <3>1, <3>2
  <2>5. Phase'
    BY <1>0, <1>6, <2>1, <2>2, <2>3 DEF Phase, InStep, CanFollow
  <2>6. HandsInv' /\ SchedInv' /\ \A f \in Frame : FromDev(f) => FromDev(f)'
    BY <1>0, <1>6, <1>11, <2>1, <2>2 DEF HandsInv, SchedInv, FromDev
  <2> QED BY <1>8, <2>1, <2>3, <2>4, <2>5, <2>6
<1>12. CASE /\ schedPc = "begin" /\ schedPc' = "begun" /\ CanBegin(G, G.iteration + 1)
            /\ G' = BeginRotate(G, secrets + 1, G.iteration + 1)
            /\ schedFrame' = RotationV2(G.iteration + 1, secrets + 1, NoKey)
            /\ UNCHANGED <<toDev, schedConn>>
  <2> DEFINE mi == secrets + 1  it == G.iteration + 1
  <2>1. /\ G'.iteration = G.iteration /\ G'.key = G.key /\ G'.pendingActive
        /\ G'.pendingIteration = it /\ G'.pendingKey = deriveNextKey(G.key, mi, it)
        /\ ~G.pendingActive
    <3>1. G.iteration + 1 \in Nat
      BY Ends
    <3>2. ~G.pendingActive
      BY <1>12 DEF CanBegin
    <3> QED BY <1>1, <1>12, <3>1, <3>2, Ends, SoundBegin
  <2>2. ~Doomed /\ ~Doomed'
    BY <1>12 DEF Doomed
  <2>3. pc[current] = "register" => toDev' = <<>> /\ InStep(G', dev)
    BY <1>5, <1>12, <2>1 DEF FacingInv, WiresInv, InStep
  <2>4. toDev' \in Seq(GwFrames')
    <3>1. GwFrames \subseteq GwFrames'
      BY <2>1, <2>2 DEF GwFrames, FromGw, Holds
    <3> QED BY <1>6, <1>12, <3>1, Wider
  <2>5. Phase'
    BY <1>0, <1>6, <2>1, <2>2 DEF Phase, InStep, CanFollow
  <2>6. HandsInv' /\ \A f \in Frame : FromDev(f) => FromDev(f)'
    BY <1>0, <1>6, <2>1, <2>2 DEF HandsInv, FromDev, Holds
  <2>7. FromGw(schedFrame)'
    <3>1. schedFrame'.type = "rotationV2" /\ schedFrame'.iteration = it /\ schedFrame'.mi = mi
      BY <1>12 DEF RotationV2, FrameOf
    <3> QED BY <2>1, <3>1 DEF FromGw, Holds
  <2>8. SchedInv'
    BY <1>12, <2>7 DEF SchedInv
  <2> QED BY <1>8, <2>1, <2>3, <2>4, <2>5, <2>6, <2>8
<1> QED BY <1>3, <1>9, <1>10, <1>11, <1>12

\* What a handler does to its own session, of which the device is the peer,
\* moves it to the key the device holds; what the others do is not seen here.
LEMMA HandlerFacing ==
    ASSUME SoundInv, LinkInv, NEW c \in Conns, Handler(c), Facing', NoStrays'
    PROVE  FacingInv'
<1>0. UNCHANGED <<dev, current, schedPc, schedConn, schedFrame>>
  BY DEF Handler, registerConn, ReadFrame, CheckTag, FetchSession, ApplyAck, BeginResponse,
     CommitResponse, Reply, EndServe, unregisterConn, device, sched
<1>1. /\ current \in Conns /\ current # None /\ c # None /\ gw \in [Conns -> SessionType]
      /\ net \in [Conns -> {"unopened", "open", "device", "gateway"}]
      /\ toGw \in [Conns -> Seq(Frame)] /\ frame \in [Conns -> Frame]
      /\ pc \in [Conns -> {"unopened", "register", "read", "check", "fetch", "apply",
                           "commit", "reply", "unregister", "done"}]
      /\ strays \in [Conns -> Nat]
  <2>1. current # None /\ c # None
    BY Ends DEF Conns, None
  <2> QED BY <2>1, Ends DEF SoundInv, TypeOK
<1> DEFINE s == target[c]
<1>2. /\ NoStrays
      /\ ApplyAck(c) \/ BeginResponse(c) \/ CommitResponse(c) =>
           /\ s \in Conns
           /\ s = current /\ gw' # gw => c = current
           /\ c = current => s = current
  <2>1. CASE ApplyAck(c) \/ BeginResponse(c) \/ CommitResponse(c)
    <3>1. /\ pc[c] \in {"apply", "commit"} /\ (CommitResponse(c) => pc[c] = "commit")
          /\ strays' = strays \/ (s # c /\ strays' = [strays EXCEPT ![c] = strays[c] + 1])
          /\ gw' # gw /\ ~CommitResponse(c) => Applied(c, s)
      BY <2>1 DEF ApplyAck, BeginResponse, CommitResponse, Applied
    <3>2. s \in c..current
      BY <3>1 DEF SoundInv, NumbersInv
    <3> HIDE DEF s
    <3>3. s \in Conns /\ (c = current => s = current)
      BY <3>2, ReconnectionAssumption, Ends DEF Conns
    <3>4. ~(strays' = [strays EXCEPT ![c] = strays[c] + 1])
      BY <1>1 DEF NoStrays
    <3>5. NoStrays /\ (gw' # gw /\ ~CommitResponse(c) => s = c)
      BY <3>1, <3>4 DEF NoStrays, Applied
    <3>6. CommitResponse(c) => s = c
      BY <3>1, <3>5 DEF LinkInv, ConnInv, NoStrays, s
    <3> QED BY <3>3, <3>5, <3>6 DEF s
  <2>2. CASE ~(ApplyAck(c) \/ BeginResponse(c) \/ CommitResponse(c))
    BY <2>2 DEF Handler, registerConn, ReadFrame, CheckTag, FetchSession, Reply, EndServe,
       unregisterConn, NoStrays
  <2> QED BY <2>1, <2>2
<1> HIDE DEF s
\* The connection stays open: neither end leaves, no other replaces it.
<1>3. /\ net[current] = "open" /\ toGw'[current] \in {toGw[current], Tail(toGw[current])}
      /\ c # current \/ ~ReadFrame(c) => toGw'[current] = toGw[current]
  <2>1. CASE registerConn(c)
    <3>1. HangUp(conns) /\ net'[current] = "open"
      BY <1>0, <2>1 DEF registerConn, Facing
    <3>2. conns \in Conns \cup {None}
      BY DEF SoundInv, TypeOK
    <3> QED BY <1>1, <2>1, <3>1, <3>2 DEF HangUp, registerConn, ReadFrame
  <2>2. CASE ~registerConn(c)
    <3>1. UNCHANGED net /\ (UNCHANGED toGw \/ ReadFrame(c))
      BY <2>2 DEF Handler, ReadFrame, CheckTag, FetchSession, ApplyAck, BeginResponse,
         CommitResponse, Reply, EndServe, unregisterConn, wires
    <3> QED BY <1>0, <1>1, <3>1 DEF Facing, ReadFrame
  <2> QED BY <2>1, <2>2
<1>4. /\ ConnInv /\ net'[current] = "open" /\ ~dev.closed /\ ~G'.closed
  BY <1>0 DEF LinkInv, Facing, G
<1>5. FacingInv /\ ~G.closed
  <2>1. ~G.closed
    <3>1. CASE gw' = gw
      BY <1>0, <1>4, <3>1 DEF G
    <3>2. CASE gw' # gw /\ EndServe(c)
      <4>1. sessions = current /\ gw' = [gw EXCEPT ![current] = Close(gw[current])]
        BY <3>2 DEF EndServe, SoundInv, NumbersInv
      <4>2. G' = Close(G)
        BY <1>0, <1>1, <4>1 DEF G
      <4> QED BY <1>4, <4>2, Ends, SoundEnd
    <3>3. CASE gw' # gw /\ ~EndServe(c)
      <4>1. ApplyAck(c) \/ BeginResponse(c) \/ CommitResponse(c)
        BY <3>3 DEF Handler, registerConn, ReadFrame, CheckTag, FetchSession, Reply,
           unregisterConn
      <4>2. ~gw[s].closed /\ \E t : gw' = [gw EXCEPT ![s] = t]
        BY <3>3, <4>1 DEF ApplyAck, BeginResponse, CommitResponse, CanApplyAck, CanRespond,
           CanBegin, CanCommit, s
      <4> QED BY <1>0, <1>1, <1>4, <4>2 DEF G
    <3> QED BY <3>1, <3>2, <3>3
  <2> QED BY <1>2, <1>3, <1>4, <2>1 DEF LinkInv, Facing, G
<1>6. CASE c # current
  <2>1. G' = G
    <3>1. CASE ApplyAck(c) \/ BeginResponse(c) \/ CommitResponse(c)
      <4>1. gw' = gw \/ \E t : gw' = [gw EXCEPT ![s] = t]
        BY <3>1 DEF ApplyAck, BeginResponse, CommitResponse, s
      <4> QED BY <1>0, <1>1, <1>2, <1>6, <3>1, <4>1 DEF G
    <3>2. CASE EndServe(c)
      <4>1. CASE gw' # gw
        <5>1. sessions = current /\ gw' = [gw EXCEPT ![current] = Close(gw[current])]
          BY <3>2, <4>1 DEF EndServe, SoundInv, NumbersInv
        <5>2. G' = Close(G)
          BY <1>0, <1>1, <5>1 DEF G
        <5> QED BY <1>4, <5>2, Ends, SoundEnd
      <4> QED BY <1>0, <4>1 DEF G
    <3>3. CASE ~(ApplyAck(c) \/ BeginResponse(c) \/ CommitResponse(c) \/ EndServe(c))
      BY <1>0, <3>3 DEF Handler, registerConn, ReadFrame, CheckTag, FetchSession, Reply,
         unregisterConn, G
    <3> QED BY <3>1, <3>2, <3>3
  <2>2. /\ UNCHANGED toDev /\ pc'[current] = pc[current] /\ frame'[current] = frame[current]
        /\ conns' = conns \/ registerConn(c) \/ conns = c
    BY <1>1, <1>6 DEF Handler, registerConn, ReadFrame, CheckTag, FetchSession, ApplyAck,
       BeginResponse, CommitResponse, Reply, EndServe, unregisterConn, ConnsWithout,
       ReadNext, Go, Delivered, wires, tables
  <2>3. ~(registerConn(c) /\ conns = current)
    BY <1>1, <1>3, <1>4 DEF registerConn, HangUp
  <2>4. Doomed => Doomed'
    BY <1>0, <1>6, <2>2, <2>3 DEF Doomed
  <2> QED BY <1>0, <1>3, <1>5, <1>6, <2>1, <2>2, <2>4, FacingKept
<1>7. /\ toGw[current] \in Seq(DevFrames) /\ toDev \in Seq(GwFrames) /\ frame[current] \in Frame
      /\ Phase /\ HandsInv /\ SchedInv
      /\ pc[current] \in {"check", "fetch", "apply", "commit"} => FromDev(frame[current])
  BY <1>1, <1>5 DEF FacingInv, WiresInv, HandsInv
\* The handler of the last connection, past its registration.
<1> DEFINE f == frame[current]
<1>8. f \in Frame /\ f.iteration \in Nat /\ f.mi \in Nat /\ schedFrame \in Frame
  BY <1>1 DEF Frame, SoundInv, TypeOK
<1> HIDE DEF f
<1>9. ASSUME c = current, Phase', HandsInv', Doomed => Doomed', pc'[current] # "register",
             \A x \in Frame : FromGw(x) => FromGw(x)',
             G'.iteration \in {G.iteration, G.iteration + 1},
             UNCHANGED toDev \/ \E a \in GwFrames' : toDev' = Append(toDev, a),
             \/ G'.pendingActive => pc'[current] = "commit"
             \/ G' = G /\ pc[current] # "commit"
      PROVE  FacingInv'
  <2>1. GwFrames \subseteq GwFrames' /\ DevFrames \subseteq DevFrames'
    <3>1. ASSUME NEW x \in Frame, FromDev(x) PROVE FromDev(x)'
      BY <1>0, <1>9, <3>1, Ends DEF FromDev, Frame
    <3> QED BY <1>9, <3>1 DEF GwFrames, DevFrames
  <2>2. toDev \in Seq(GwFrames') /\ \A a \in GwFrames' : Append(toDev, a) \in Seq(GwFrames')
    <3>1. toDev \in Seq(GwFrames')
      BY <1>7, <2>1, Wider
    <3> QED BY <3>1, QueueOf
  <2>3. toGw'[current] \in Seq(DevFrames')
    <3>1. toGw'[current] # toGw[current] => toGw[current] # <<>>
      BY <1>1, <1>3, <1>9 DEF ReadFrame
    <3>2. toGw'[current] \in Seq(DevFrames)
      BY <1>3, <1>7, <3>1, QueueOf
    <3> QED BY <2>1, <3>2, Wider
  <2>4. WiresInv'
    BY <1>0, <1>9, <2>2, <2>3 DEF WiresInv
  <2>5. SchedInv'
    BY <1>0, <1>7, <1>8, <1>9 DEF SchedInv
  <2> QED BY <1>9, <2>4, <2>5 DEF FacingInv
<1>10. CASE c = current /\ (registerConn(c) \/ EndServe(c) \/ unregisterConn(c))
  <2>1. registerConn(c)
    BY <1>1, <1>3, <1>4, <1>10 DEF EndServe, unregisterConn, ConnInv
  <2>2. /\ pc[current] = "register" /\ pc'[current] = "read" /\ conns' = current
        /\ UNCHANGED <<gw, toDev, frame>>
    BY <1>1, <1>10, <2>1 DEF registerConn, Go
  <2>3. G' = G /\ (Doomed => Doomed')
    BY <1>0, <2>2 DEF G, Doomed
  <2>4. \A x : FromGw(x) => FromGw(x)'
    BY <2>3 DEF FromGw
  <2>5. Phase' /\ HandsInv'
    BY <1>0, <1>7, <2>2, <2>3 DEF Phase, HandsInv
  <2> QED BY <1>9, <1>10, <2>2, <2>3, <2>4, <2>5
<1>11. CASE c = current /\ (ReadFrame(c) \/ CheckTag(c) \/ FetchSession(c) \/ Reply(c))
  <2>1. UNCHANGED <<gw, conns>>
    BY <1>11 DEF ReadFrame, CheckTag, FetchSession, Reply, tables
  <2>2. G' = G /\ (Doomed <=> Doomed') /\ GwFrames' = GwFrames
    BY <1>0, <2>1 DEF G, Doomed, GwFrames, FromGw
  <2>3. \A x : (FromGw(x) => FromGw(x)') /\ (FromDev(x) => FromDev(x)')
    BY <1>0, <2>2 DEF FromGw, FromDev
  <2>4. Phase'
    BY <1>0, <1>7, <2>2 DEF Phase
  <2>5. CASE ReadFrame(c)
    <3>1. /\ toGw[current] # <<>> /\ frame'[current] = Head(toGw[current]) /\ UNCHANGED toDev
          /\ pc[current] = "read" /\ pc'[current] = "check"
      BY <1>1, <1>11, <2>5 DEF ReadFrame, Go
    <3>2. frame'[current] \in DevFrames
      BY <1>7, <3>1, QueueOf
    <3>3. FromDev(frame'[current])
      BY <3>2 DEF DevFrames
    <3>4. HandsInv'
      BY <1>0, <2>2, <3>1, <3>3 DEF HandsInv, FromDev
    <3> QED BY <1>9, <1>11, <2>2, <2>3, <2>4, <3>1, <3>4
  <2>6. CASE CheckTag(c) \/ FetchSession(c)
    <3>1. /\ UNCHANGED toDev /\ pc[current] \in {"check", "fetch"}
          /\ \/ pc'[current] = "read"
             \/ pc'[current] \in {"fetch", "apply"} /\ frame'[current] = frame[current]
      BY <1>1, <1>11, <2>6 DEF CheckTag, FetchSession, ReadNext, Go, wires
    <3>2. HandsInv'
      BY <1>0, <1>7, <2>2, <2>3, <3>1 DEF HandsInv
    <3> QED BY <1>9, <1>11, <2>2, <2>3, <2>4, <3>1, <3>2
  <2>7. CASE Reply(c)
    <3>1. /\ pc[current] = "reply" /\ pc'[current] = "read"
          /\ toDev' = Append(toDev, RotationAck(f.iteration, f.key))
      BY <1>1, <1>3, <1>11, <2>7 DEF Reply, ReadNext, Go, Delivered, f
    <3>2. ASSUME NEW a, a = RotationAck(f.iteration, f.key) PROVE a \in GwFrames
      <4>1. f.iteration <= G.iteration /\ f.key \in Key
        BY <1>7, <1>8, <3>1 DEF HandsInv, Frame, f
      <4>2. a \in Frame /\ a.type = "rotationAck" /\ a.iteration = f.iteration
        BY <1>8, <3>2, <4>1, FrameTyped DEF RotationAck, FrameOf
      <4> QED BY <4>1, <4>2 DEF GwFrames, FromGw
    <3>3. HandsInv'
      BY <1>0, <3>1 DEF HandsInv
    <3> QED BY <1>9, <1>11, <2>2, <2>3, <2>4, <3>1, <3>2, <3>3
  <2> QED BY <1>11, <2>5, <2>6, <2>7
<1>12. CASE c = current /\ ApplyAck(c)
  <2>1. /\ UNCHANGED <<conns, toDev>> /\ pc[current] = "apply" /\ pc'[current] = "read"
        /\ f.type = "rotationAck" /\ s = current
        /\ \/ UNCHANGED gw
           \/ /\ CanApplyAck(gw[s], f.iteration)
              /\ gw' = [gw EXCEPT ![s] = CommitRotate(gw[s])]
    BY <1>1, <1>2, <1>12 DEF ApplyAck, ApplyRotationAck, ReadNext, Go, wires, tables, s, f
  <2>2. (Doomed <=> Doomed') /\ HandsInv'
    BY <1>0, <2>1 DEF Doomed, HandsInv
  <2>3. CASE UNCHANGED gw
    <3>1. G' = G /\ GwFrames' = GwFrames /\ \A x : FromGw(x) => FromGw(x)'
      BY <1>0, <2>2, <2>3 DEF G, GwFrames, FromGw
    <3>2. Phase'
      BY <1>0, <1>7, <2>2, <3>1 DEF Phase
    <3> QED BY <1>9, <1>12, <2>1, <2>2, <3>1, <3>2
  <2>4. CASE CanApplyAck(gw[s], f.iteration) /\ gw' = [gw EXCEPT ![s] = CommitRotate(gw[s])]
    <3>1. G' = CommitRotate(G) /\ CanApplyAck(G, f.iteration)
      BY <1>0, <1>1, <2>1, <2>4 DEF G
    <3>2. G.pendingActive /\ f.iteration = G.iteration + 1 /\ f.iteration <= dev.iteration
      BY <1>7, <2>1, <3>1, Ends DEF CanApplyAck, CanCommit, FromDev, f
    <3>3. CanFollow(G, dev)
      BY <1>7, <3>2, Ends DEF Phase, InStep, CanFollow
    <3>4. G'.iteration = G.iteration + 1 /\ G'.key = G.pendingKey /\ ~G'.pendingActive
      BY <3>1, <3>2, Ends, SoundCommit
    <3>5. Phase'
      BY <1>0, <3>2, <3>3, <3>4 DEF Phase, InStep, CanFollow
    <3>6. ASSUME NEW x \in Frame, FromGw(x) PROVE FromGw(x)'
      BY <2>2, <3>4, <3>6, Ends DEF FromGw, Frame
    <3> QED BY <1>9, <1>12, <2>1, <2>2, <3>4, <3>5, <3>6
  <2> QED BY <2>1, <2>3, <2>4
<1>13. CASE c = current /\ BeginResponse(c)
  <2>1. /\ UNCHANGED <<conns, toDev>> /\ pc[current] = "apply" /\ f.type = "rotationV2"
        /\ s = current
        /\ \/ UNCHANGED gw /\ pc'[current] = "read"
           \/ /\ CanBegin(gw[s], f.iteration) /\ pc'[current] = "commit"
              /\ gw' = [gw EXCEPT ![s] = BeginRotate(gw[s], f.mi, f.iteration)]
              /\ frame'[current] = f
    BY <1>1, <1>2, <1>13 DEF BeginResponse, CanRespond, ReadNext, Go, wires, tables, s, f
  <2>2. Doomed <=> Doomed'
    BY <1>0, <2>1 DEF Doomed
  <2>3. CASE UNCHANGED gw /\ pc'[current] = "read"
    <3>1. G' = G /\ GwFrames' = GwFrames /\ \A x : FromGw(x) => FromGw(x)'
      BY <1>0, <2>2, <2>3 DEF G, GwFrames, FromGw
    <3>2. Phase' /\ HandsInv'
      BY <1>0, <1>7, <2>2, <2>3, <3>1 DEF Phase, HandsInv
    <3> QED BY <1>9, <1>13, <2>1, <2>2, <2>3, <3>1, <3>2
  <2>4. CASE /\ CanBegin(gw[s], f.iteration) /\ pc'[current] = "commit"
             /\ gw' = [gw EXCEPT ![s] = BeginRotate(gw[s], f.mi, f.iteration)]
             /\ frame'[current] = f
    <3>1. /\ G' = BeginRotate(G, f.mi, f.iteration) /\ CanBegin(G, f.iteration)
          /\ ~G.pendingActive /\ f.iteration = G.iteration + 1
      BY <1>0, <1>1, <2>1, <2>4 DEF G, CanBegin
    <3>2. FromDev(f) /\ f.iteration = dev.iteration + 1 /\ Holds(dev, f)
      BY <1>7, <2>1, <3>1, Ends DEF FromDev, f
    <3>3. InStep(G, dev)
      BY <1>7, <3>1, <3>2, Ends DEF Phase, InStep, CanFollow
    <3>4. /\ G'.iteration = G.iteration /\ G'.key = G.key /\ G'.pendingActive
          /\ G'.pendingIteration = f.iteration
          /\ G'.pendingKey = deriveNextKey(G.key, f.mi, f.iteration)
      BY <1>8, <3>1, Ends, SoundBegin
    <3>5. Phase'
      BY <1>0, <3>3, <3>4 DEF Phase, InStep
    <3>6. ASSUME NEW x \in Frame, FromGw(x) PROVE FromGw(x)'
      BY <2>2, <3>1, <3>4, <3>6 DEF FromGw, Holds
    <3>7. ASSUME NEW x, x = f PROVE Holds(G', x) /\ FromDev(x)'
      BY <1>0, <3>2, <3>4, <3>7 DEF Holds, FromDev
    <3>8. HandsInv'
      BY <1>0, <2>4, <3>7 DEF HandsInv, FromDev
    <3> QED BY <1>9, <1>13, <2>1, <2>2, <2>4, <3>4, <3>5, <3>6, <3>8
  <2> QED BY <2>1, <2>3, <2>4
<1>14. CASE c = current /\ CommitResponse(c)
  <2>1. /\ UNCHANGED <<conns, toDev>> /\ pc[current] = "commit" /\ s = current
        /\ f.type = "rotationV2"
        /\ \/ UNCHANGED gw /\ ~CanCommit(gw[s]) /\ pc'[current] = "read"
           \/ /\ CanCommit(gw[s]) /\ pc'[current] = "reply"
              /\ gw' = [gw EXCEPT ![s] = CommitRotate(gw[s])]
              /\ frame'[current] = f
    BY <1>1, <1>2, <1>4, <1>14
    DEF CommitResponse, ReadNext, Go, wires, tables, ConnInv, s, f
  <2>2. Doomed <=> Doomed'
    BY <1>0, <2>1 DEF Doomed
  <2>3. CASE UNCHANGED gw /\ ~CanCommit(gw[s]) /\ pc'[current] = "read"
    <3>1. G' = G /\ GwFrames' = GwFrames /\ \A x : FromGw(x) => FromGw(x)'
      BY <1>0, <2>2, <2>3 DEF G, GwFrames, FromGw
    <3>2. Phase' /\ HandsInv'
      BY <1>0, <1>7, <2>2, <2>3, <3>1 DEF Phase, HandsInv
    <3>3. ~G'.pendingActive
      BY <1>5, <2>1, <2>3, <3>1 DEF CanCommit, G
    <3> QED BY <1>9, <1>14, <2>1, <2>2, <2>3, <3>1, <3>2, <3>3
  <2>4. CASE /\ CanCommit(gw[s]) /\ pc'[current] = "reply"
             /\ gw' = [gw EXCEPT ![s] = CommitRotate(gw[s])] /\ frame'[current] = f
    <3>1. G' = CommitRotate(G) /\ G.pendingActive /\ Holds(G, f) /\ FromDev(f)
      BY <1>0, <1>1, <1>7, <2>1, <2>4 DEF G, CanCommit, HandsInv, f
    <3>2. /\ f.iteration = G.iteration + 1 /\ f.iteration = dev.iteration + 1
          /\ Holds(dev, f)
      BY <1>8, <2>1, <3>1, Ends DEF FromDev, Holds
    <3>3. InStep(G, dev)
      BY <1>7, <3>2, Ends DEF Phase, InStep, CanFollow
    <3>4. G'.iteration = G.iteration + 1 /\ G'.key = G.pendingKey /\ ~G'.pendingActive
      BY <3>1, Ends, SoundCommit
    <3>5. CanFollow(dev, G') /\ dev.pendingActive
      BY <3>1, <3>2, <3>3, <3>4 DEF Holds, InStep, CanFollow
    <3>6. Phase' /\ HandsInv'
      BY <1>0, <1>8, <2>4, <3>2, <3>4, <3>5, Ends DEF Phase, HandsInv
    <3>7. ASSUME NEW x \in Frame, FromGw(x) PROVE FromGw(x)'
      BY <2>2, <3>4, <3>7, Ends DEF FromGw, Frame
    <3> QED BY <1>9, <1>14, <2>1, <2>2, <2>4, <3>4, <3>6, <3>7
  <2> QED BY <2>1, <2>3, <2>4
<1> QED BY <1>6, <1>10, <1>11, <1>12, <1>13, <1>14 DEF Handler

\* Every step keeps the invariant.
LEMMA LinkStep ==
    ASSUME SoundInv, LinkInv, [Next]_vars
    PROVE  LinkInv'
<1>1. ConnInv'
  BY ConnStep DEF LinkInv
<1>2. ASSUME Facing', NoStrays' PROVE FacingInv'
  <2>1. CASE UNCHANGED vars
    <3>1. UNCHANGED <<gw, dev, current, conns, net, toGw, toDev, pc, frame, schedPc,
                      schedConn, schedFrame, strays>>
      BY <2>1 DEF vars, device, tables, wires, hands, sched
    <3>2. FacingInv
      BY <1>2, <3>1 DEF LinkInv, Facing, NoStrays
    <3>3. G' = G /\ (Doomed <=> Doomed')
      BY <3>1 DEF G, Doomed
    <3> QED BY <3>1, <3>2, <3>3, FacingKept
  <2>2. ASSUME NEW d \in Conns, Establish(d) PROVE FacingInv'
    BY <2>2, EstablishFacing DEF LinkInv
  <2> QED BY <1>2, <2>1, <2>2, DevFacing, SchedFacing, HandlerFacing DEF Next
<1> QED BY <1>1, <1>2 DEF LinkInv

LEMMA InitLink == Init => LinkInv
<1> SUFFICES ASSUME Init PROVE LinkInv
  OBVIOUS
<1>1. current = 1 /\ G = dev /\ dev = NewSession(DeriveK0(1)) /\ current \in Conns
  BY ReconnectionAssumption DEF Init, G, Conns
<1>2. ConnInv
  BY <1>1 DEF Init, ConnInv, Conns, None
<1>3. FacingInv
  <2>1. \A S : <<>> \in Seq(S)
    OBVIOUS
  <2> QED BY <1>1, <2>1
      DEF Init, FacingInv, Phase, InStep, WiresInv, HandsInv, SchedInv
<1> QED BY <1>2, <1>3 DEF LinkInv

LEMMA LinkCorrect == Spec => [](SoundInv /\ LinkInv)
BY InitSound, NextSound, InitLink, LinkStep, PTL DEF Spec

\* Only a handler that commits moves the session of a connected device on.
LEMMA CommitOnly ==
    ASSUME SoundInv, [Next]_vars, Facing, CommitsCurrent
    PROVE  \E c \in Conns :
             /\ target[c] = current /\ gw'[current] = CommitRotate(G) /\ CanCommit(G)
             /\ \/ ApplyAck(c) /\ CanApplyAck(G, frame[c].iteration) /\ Applied(c, current)
                \/ CommitResponse(c)
<1>1. /\ current \in Conns /\ gw \in [Conns -> SessionType] /\ G.iteration \in Nat
      /\ gw'[current].iteration = G.iteration + 1 /\ secrets \in Nat
  BY Ends DEF SoundInv, TypeOK, CommitsCurrent, G
<1>2. gw'[current].iteration # G.iteration
  BY <1>1
<1>3. gw' # gw
  BY <1>2 DEF G
<1>4. ASSUME NEW d \in Conns, NEW t, gw' = [gw EXCEPT ![d] = t]
      PROVE  d = current /\ gw'[current] = t
  BY <1>1, <1>2, <1>4 DEF G
<1>5. ~SchedAbort
  <2>1. SUFFICES ASSUME SchedAbort PROVE FALSE
    OBVIOUS
  <2>2. sessions = current /\ gw' = [gw EXCEPT ![current] = AbortRotate(gw[current])]
    BY <2>1 DEF SchedAbort, Stale, Pending, SoundInv, NumbersInv
  <2>3. gw'[current] = AbortRotate(G)
    BY <1>1, <2>2 DEF G
  <2> QED BY <1>2, <2>3, Ends, SoundEnd
<1>6. ~SchedBegin
  <2> DEFINE s == schedTarget  it == gw[s].iteration + 1  mi == secrets + 1
  <2>1. SUFFICES ASSUME SchedBegin PROVE FALSE
    OBVIOUS
  <2>2. CanBegin(gw[s], it) /\ gw' = [gw EXCEPT ![s] = BeginRotate(gw[s], mi, it)]
    BY <1>3, <2>1 DEF SchedBegin
  <2>3. s \in Conns
    BY <2>1, ReconnectionAssumption, Ends DEF SchedBegin, SoundInv, NumbersInv, Conns
  <2> HIDE DEF mi
  <2>4. s = current /\ gw'[current] = BeginRotate(gw[s], mi, it)
    BY <1>4, <2>2, <2>3
  <2>5. mi \in Nat /\ G.iteration + 1 \in Nat
    BY <1>1 DEF mi
  <2>6. gw'[current] = BeginRotate(G, mi, G.iteration + 1) /\ CanBegin(G, G.iteration + 1)
    BY <2>2, <2>4 DEF G
  <2> QED BY <1>2, <2>5, <2>6, Ends, SoundBegin
<1>7. \A c \in Conns : ~EndServe(c)
  <2>1. SUFFICES ASSUME NEW c \in Conns, EndServe(c) PROVE FALSE
    OBVIOUS
  <2>2. sessions = current /\ gw' = [gw EXCEPT ![current] = Close(gw[current])]
    BY <1>3, <2>1 DEF EndServe, SoundInv, NumbersInv
  <2>3. gw'[current] = Close(G)
    BY <1>1, <2>2 DEF G
  <2> QED BY <1>2, <2>3, Ends, SoundEnd
<1>8. PICK c \in Conns : ApplyAck(c) \/ BeginResponse(c) \/ CommitResponse(c)
  <2>1. \A d : ~Establish(d)
    BY DEF Establish, Facing
  <2>2. ~(DevRotate \/ DevAck \/ DevInitiate \/ DevHangUp) /\ ~UNCHANGED vars
    BY <1>3 DEF DevRotate, DevAck, DevInitiate, DevHangUp, vars
  <2>3. ~Scheduler
    BY <1>3, <1>5, <1>6 DEF Scheduler, SchedTick, SchedWait, SchedDecide, SchedFetch,
       SchedWrite, SchedDisconnect, SchedClose
  <2>4. PICK c \in Conns : Handler(c)
    BY <2>1, <2>2, <2>3 DEF Next
  <2> QED BY <1>3, <1>7, <2>4 DEF Handler, registerConn, ReadFrame, CheckTag, FetchSession,
       Reply, unregisterConn
<1> DEFINE s == target[c]  f == frame[c]
<1>9. s \in Conns /\ f.iteration \in Nat /\ f.mi \in Nat
  <2>1. pc[c] \in {"apply", "commit"}
    BY <1>8 DEF ApplyAck, BeginResponse, CommitResponse
  <2>2. s \in c..current
    BY <2>1 DEF SoundInv, NumbersInv
  <2> HIDE DEF s
  <2>3. s \in Conns
    BY <2>2, ReconnectionAssumption, Ends DEF Conns
  <2>4. f \in Frame
    BY DEF SoundInv, TypeOK
  <2> QED BY <2>3, <2>4 DEF Frame
<1>10. \/ /\ ApplyAck(c) /\ CanApplyAck(gw[s], f.iteration) /\ Applied(c, s)
          /\ gw' = [gw EXCEPT ![s] = CommitRotate(gw[s])]
       \/ /\ CanBegin(gw[s], f.iteration)
          /\ gw' = [gw EXCEPT ![s] = BeginRotate(gw[s], f.mi, f.iteration)]
       \/ /\ CommitResponse(c) /\ CanCommit(gw[s])
          /\ gw' = [gw EXCEPT ![s] = CommitRotate(gw[s])]
  BY <1>3, <1>8 DEF ApplyAck, BeginResponse, CommitResponse, CanRespond, ApplyRotationAck
<1> HIDE DEF s, f
<1>11. s = current /\ gw[s] = G
  BY <1>4, <1>9, <1>10 DEF G
<1>12. ASSUME CanBegin(G, f.iteration), gw'[current] = BeginRotate(G, f.mi, f.iteration)
       PROVE  FALSE
  BY <1>2, <1>9, <1>12, Ends, SoundBegin
<1>13. /\ gw'[current] = CommitRotate(G) /\ CanCommit(G)
       /\ \/ ApplyAck(c) /\ CanApplyAck(G, f.iteration) /\ Applied(c, current)
          \/ CommitResponse(c)
  BY <1>4, <1>9, <1>10, <1>11, <1>12 DEF CanApplyAck
<1> QED BY <1>11, <1>13 DEF s, f

(***************************************************************************)
(* Confirmed: for any number of connections and rotations, as long as no   *)
(* handler has strayed, the gateway moves the session of a connected       *)
(* device only to a key that the device holds (ApplyRotationAck,           *)
(* RespondToRotationAtomic).                                               *)
(***************************************************************************)
THEOREM Confirmed == Spec => ConfirmedUnlessStray
<1>1. ASSUME SoundInv, LinkInv, [Next]_vars, Facing, CommitsCurrent,
             \A c \in Conns : strays'[c] = 0
      PROVE  gw'[current].key \in {dev.key, dev.pendingKey}
  <2>1. PICK c \in Conns :
          /\ target[c] = current /\ gw'[current] = CommitRotate(G) /\ CanCommit(G)
          /\ \/ ApplyAck(c) /\ CanApplyAck(G, frame[c].iteration) /\ Applied(c, current)
             \/ CommitResponse(c)
    BY <1>1, CommitOnly
  <2>2. strays \in [Conns -> Nat] /\ frame[c] \in Frame
    BY <1>1 DEF SoundInv, TypeOK
  <2>3. NoStrays /\ (ApplyAck(c) => c = current)
    <3>1. CASE CommitResponse(c)
      <4>1. pc[c] = "commit" /\ UNCHANGED strays
        BY <3>1 DEF CommitResponse
      <4> QED BY <1>1, <4>1 DEF NoStrays, ApplyAck
    <3>2. CASE Applied(c, current)
      <4>1. c = current
        <5>1. SUFFICES ASSUME c # current PROVE FALSE
          OBVIOUS
        <5>2. strays[c] \in Nat /\ strays'[c] = strays[c] + 1
          BY <2>2, <3>2, <5>1 DEF Applied
        <5> QED BY <1>1, <5>2
      <4> QED BY <1>1, <3>2, <4>1 DEF NoStrays, Applied
    <3> QED BY <2>1, <3>1, <3>2
  <2>4. CommitResponse(c) => c = current /\ frame[c].type = "rotationV2"
    <3>1. CommitResponse(c) => pc[c] = "commit"
      BY DEF CommitResponse
    <3> QED BY <1>1, <2>1, <2>3, <3>1 DEF LinkInv, ConnInv, NoStrays
  <2>5. FacingInv /\ FromDev(frame[c]) /\ G.pendingActive
    <3>1. FacingInv
      BY <1>1, <2>3 DEF LinkInv
    <3>2. pc[c] \in {"apply", "commit"} /\ c = current
      BY <2>1, <2>3, <2>4 DEF ApplyAck, CommitResponse
    <3> QED BY <2>1, <3>1, <3>2 DEF FacingInv, HandsInv, CanCommit
  <2>6. gw'[current].key = G.pendingKey /\ frame[c].iteration \in Nat
    BY <1>1, <2>1, <2>2, <2>5, Ends, SoundCommit DEF Frame
  <2>7. CASE ApplyAck(c) /\ CanApplyAck(G, frame[c].iteration)
    <3>1. frame[c].iteration = G.iteration + 1 /\ frame[c].iteration <= dev.iteration
      BY <1>1, <2>5, <2>7, Ends DEF ApplyAck, CanApplyAck, FromDev
    <3>2. CanFollow(G, dev)
      BY <1>1, <2>5, <2>6, <3>1, Ends DEF FacingInv, Phase, InStep, CanFollow
    <3> QED BY <2>5, <2>6, <3>2 DEF CanFollow
  <2>8. CASE CommitResponse(c)
    <3>1. Holds(G, frame[c])
      BY <2>4, <2>5, <2>8 DEF FacingInv, HandsInv, CommitResponse
    <3>2. /\ frame[c].iteration = G.iteration + 1 /\ frame[c].iteration = dev.iteration + 1
          /\ Holds(dev, frame[c])
      BY <1>1, <2>4, <2>5, <2>6, <2>8, <3>1, Ends DEF FromDev, Holds
    <3>3. InStep(G, dev)
      BY <1>1, <2>5, <3>2, Ends DEF FacingInv, Phase, InStep, CanFollow
    <3> QED BY <2>6, <3>1, <3>2, <3>3 DEF Holds, InStep
  <2> QED BY <2>1, <2>7, <2>8
<1>2. SoundInv /\ LinkInv /\ [Next]_vars
        => [Facing /\ CommitsCurrent /\ (\A c \in Conns : strays'[c] = 0)
              => gw'[current].key \in {dev.key, dev.pendingKey}]_vars
  BY <1>1
<1> QED BY <1>2, LinkCorrect, PTL DEF Spec, ConfirmedUnlessStray
-----------------------------------------------------------------------------
(* Until a frame strays, the connection is the link of KeyAgreement.       *)

\* KeyAgreement sees the same keys as this module.
LEMMA LinkSameDerived ==
    /\ Link!NoKey = NoKey
    /\ \A j, k : Link!Derived(j, k) <=> Derived(j, k)
BY DEF Link!NoKey, NoKey, Link!Derived, Derived

\* The first handshake leaves both ends with one fresh key.
LEMMA InitLinked == Init => Link!KaInit
<1> SUFFICES ASSUME Init PROVE Link!KaInit
  OBVIOUS
<1>1. 1 \in Conns
  BY ReconnectionAssumption DEF Conns
<1>2. /\ Linked /\ gw[current].key = DeriveK0(1) /\ dev.key = DeriveK0(1)
  BY <1>1 DEF Init, Linked, Facing, NoStrays, NewSession
<1>3. Derived(DeriveK0(1), NoKey)
  BY DEF DeriveK0, Derived, NoKey
<1> QED BY <1>2, <1>3, LinkSameDerived DEF Link!KaInit, Link!Fresh

\* What a step can do to the gateway's sessions, and that the step is then
\* not one of the device's.
LEMMA GwMoves ==
    ASSUME SoundInv, Next, gw' # gw, \A d \in Conns : ~Establish(d)
    PROVE  /\ UNCHANGED device
           /\ \E s, t :
                /\ s \in Conns /\ gw' = [gw EXCEPT ![s] = t]
                /\ \/ \E mi, it : t = BeginRotate(gw[s], mi, it)
                   \/ t \in {AbortRotate(gw[s]), Close(gw[s])}
                   \/ gw[s].pendingActive /\ t = CommitRotate(gw[s])
<1>1. ASSUME NEW c \in Conns, Handler(c)
      PROVE  /\ UNCHANGED device
             /\ \E s, t :
                  /\ s \in Conns /\ gw' = [gw EXCEPT ![s] = t]
                  /\ \/ \E mi, it : t = BeginRotate(gw[s], mi, it)
                     \/ t \in {AbortRotate(gw[s]), Close(gw[s])}
                     \/ gw[s].pendingActive /\ t = CommitRotate(gw[s])
  <2>1. ApplyAck(c) \/ BeginResponse(c) \/ CommitResponse(c) \/ EndServe(c)
    BY <1>1 DEF Handler, registerConn, ReadFrame, CheckTag, FetchSession, Reply,
       unregisterConn
  <2>2. CASE EndServe(c)
    <3>1. sessions \in Conns /\ gw' = [gw EXCEPT ![sessions] = Close(gw[sessions])]
      BY <2>2, Ends DEF EndServe, SoundInv, NumbersInv
    <3> QED BY <2>2, <3>1 DEF EndServe
  <2>3. CASE ApplyAck(c) \/ BeginResponse(c) \/ CommitResponse(c)
    <3>1. target[c] \in c..current
      BY <2>3 DEF ApplyAck, BeginResponse, CommitResponse, SoundInv, NumbersInv
    <3>2. target[c] \in Conns
      BY <3>1, ReconnectionAssumption, Ends DEF Conns
    <3> QED BY <2>3, <3>2 DEF ApplyAck, BeginResponse, CommitResponse, ApplyRotationAck,
         CanApplyAck, CanCommit
  <2> QED BY <2>1, <2>2, <2>3
<1>2. CASE Scheduler
  <2>1. UNCHANGED device /\ (SchedAbort \/ SchedBegin)
    BY <1>2 DEF Scheduler, SchedTick, SchedAbort, SchedWait, SchedDecide, SchedFetch,
       SchedBegin, SchedWrite, SchedDisconnect, SchedClose
  <2>2. CASE SchedAbort
    <3>1. sessions \in Conns /\ gw' = [gw EXCEPT ![sessions] = AbortRotate(gw[sessions])]
      BY <2>2, Ends DEF SchedAbort, Stale, Pending, SoundInv, NumbersInv
    <3> QED BY <2>1, <3>1
  <2>3. CASE SchedBegin
    <3>1. schedTarget \in Conns
      BY <2>3, ReconnectionAssumption, Ends DEF SchedBegin, SoundInv, NumbersInv, Conns
    <3> QED BY <2>1, <2>3, <3>1 DEF SchedBegin
  <2> QED BY <2>1, <2>2, <2>3
<1>3. ~(DevRotate \/ DevAck \/ DevInitiate \/ DevHangUp)
  BY DEF DevRotate, DevAck, DevInitiate, DevHangUp
<1> QED BY <1>1, <1>2, <1>3 DEF Next

\* A session once closed stays closed, and while a link is in use only a
\* commit changes the gateway's key.
LEMMA GwEnd ==
    ASSUME SoundInv, [Next]_vars, \A d \in Conns : ~Establish(d)
    PROVE  /\ current' = current
           /\ G.closed => G'.closed
           /\ Facing /\ Facing' /\ G'.key # G.key => CommitsCurrent
<1>1. current' = current
  BY DEF Next, DevRotate, DevAck, DevInitiate, DevHangUp, Handler, registerConn, ReadFrame,
     CheckTag, FetchSession, ApplyAck, BeginResponse, CommitResponse, Reply, EndServe,
     unregisterConn, Scheduler, SchedTick, SchedAbort, SchedWait, SchedDecide, SchedFetch,
     SchedBegin, SchedWrite, SchedDisconnect, SchedClose, device, vars
<1>2. CASE gw' = gw
  BY <1>1, <1>2 DEF G
<1>3. CASE gw' # gw
  <2>1. Next
    BY <1>3 DEF vars
  <2>2. PICK s, t :
          /\ s \in Conns /\ gw' = [gw EXCEPT ![s] = t]
          /\ \/ \E mi, it : t = BeginRotate(gw[s], mi, it)
             \/ t \in {AbortRotate(gw[s]), Close(gw[s])}
             \/ gw[s].pendingActive /\ t = CommitRotate(gw[s])
    BY <1>3, <2>1, GwMoves
  <2>3. gw \in [Conns -> SessionType] /\ current \in Conns
    BY DEF SoundInv, TypeOK
  <2>4. CASE s # current
    BY <1>1, <2>2, <2>3, <2>4 DEF G
  <2>5. CASE s = current
    <3>1. G' = t /\ gw'[current] = G' /\ G \in SessionType
      BY <1>1, <2>2, <2>3, <2>5 DEF G
    <3>2. CASE \E mi, it : t = BeginRotate(G, mi, it)
      <4>1. G'.key = G.key /\ G'.closed = G.closed
        BY <3>1, <3>2 DEF BeginRotate, SessionType
      <4> QED BY <1>1, <4>1
    <3>3. CASE t = AbortRotate(G)
      <4>1. G'.key = G.key /\ G'.closed = G.closed
        BY <3>1, <3>3 DEF AbortRotate, SessionType
      <4> QED BY <1>1, <4>1
    <3>4. CASE t = Close(G)
      <4>1. G'.closed
        BY <3>1, <3>4 DEF Close, SessionType
      <4> QED BY <1>1, <4>1 DEF Facing, G
    <3>5. CASE G.pendingActive /\ t = CommitRotate(G)
      <4>1. /\ G'.closed = G.closed /\ G'.iteration = G.iteration + 1
        BY <3>1, <3>5, Ends, SoundCommit
      <4> QED BY <1>1, <3>1, <4>1 DEF CommitsCurrent, G
    <3> QED BY <2>2, <2>5, <3>2, <3>3, <3>4, <3>5 DEF G
  <2> QED BY <2>4, <2>5
<1> QED BY <1>2, <1>3

\* A link is not mended: only a new connection brings one up.
LEMMA Relinks ==
    ASSUME SoundInv, [Next]_vars, ~Linked, Linked'
    PROVE  \E d \in Conns : Establish(d)
<1>1. SUFFICES ASSUME \A d \in Conns : ~Establish(d) PROVE FALSE
  OBVIOUS
<1>2. current' = current /\ ~G.closed /\ current \in Conns /\ current # None
  BY <1>1, GwEnd, Ends DEF Linked, Facing, G, Conns, None
<1>3. NoStrays
  <2>1. ASSUME NEW c \in Conns PROVE strays[c] = 0
    <3>1. \/ strays' = strays
          \/ \E d \in Conns : strays' = [strays EXCEPT ![d] = strays[d] + 1]
      BY <1>1 DEF Next, DevRotate, DevAck, DevInitiate, DevHangUp, Handler, registerConn,
         ReadFrame, CheckTag, FetchSession, ApplyAck, BeginResponse, CommitResponse, Reply,
         EndServe, unregisterConn, Applied, Scheduler, SchedTick, SchedAbort, SchedWait,
         SchedDecide, SchedFetch, SchedBegin, SchedWrite, SchedDisconnect, SchedClose, vars
    <3>2. strays'[c] = 0 /\ strays \in [Conns -> Nat]
      BY DEF Linked, NoStrays, SoundInv, TypeOK
    <3>3. strays[c] \in Nat /\ (strays'[c] = strays[c] \/ strays'[c] = strays[c] + 1)
      BY <3>1, <3>2
    <3> QED BY <3>2, <3>3
  <2> QED BY <2>1 DEF NoStrays
<1>4. ~dev.closed
  <2>1. dev' = dev \/ dev' = Close(dev) \/ ~dev.closed
    BY <1>1 DEF Next, DevRotate, DevAck, DevInitiate, DevHangUp, DevConnected, Handler,
       registerConn, ReadFrame, CheckTag, FetchSession, ApplyAck, BeginResponse,
       CommitResponse, Reply, EndServe, unregisterConn, Scheduler, SchedTick, SchedAbort,
       SchedWait, SchedDecide, SchedFetch, SchedBegin, SchedWrite, SchedDisconnect,
       SchedClose, device, vars
  <2> QED BY <2>1, Ends, SoundEnd DEF Linked, Facing
<1>5. net[current] = "open"
  <2>1. net \in [Conns -> {"unopened", "open", "device", "gateway"}]
    BY DEF SoundInv, TypeOK
  <2>2. \/ net' = net
        \/ \E d \in Conns, e \in {"device", "gateway"} : net' = [net EXCEPT ![d] = e]
    <3>1. ASSUME NEW d \in Conns \cup {None}, HangUp(d)
          PROVE  net' = net \/ \E x \in Conns : net' = [net EXCEPT ![x] = "gateway"]
      BY <3>1 DEF HangUp
    <3>2. conns \in Conns \cup {None} /\ schedConn \in Conns \cup {None}
      BY DEF SoundInv, TypeOK
    <3>3. ASSUME NEW c \in Conns, registerConn(c) PROVE HangUp(conns)
      BY <3>3 DEF registerConn
    <3>4. SchedClose => HangUp(schedConn)
      BY DEF SchedClose
    <3>5. DevHangUp => net' = net \/ net' = [net EXCEPT ![current] = "device"]
      BY DEF DevHangUp
    <3>6. ASSUME ~DevHangUp, ~SchedClose, \A c \in Conns : ~registerConn(c)
          PROVE  net' = net
      BY <1>1, <3>6 DEF Next, DevRotate, DevAck, DevInitiate, Handler, ReadFrame, CheckTag,
         FetchSession, ApplyAck, BeginResponse, CommitResponse, Reply, EndServe,
         unregisterConn, Scheduler, SchedTick, SchedAbort, SchedWait, SchedDecide,
         SchedFetch, SchedBegin, SchedWrite, SchedDisconnect, wires, vars
    <3> QED BY <1>2, <3>1, <3>2, <3>3, <3>4, <3>5, <3>6
  <2> QED BY <1>2, <2>1, <2>2 DEF Linked, Facing
<1> QED BY <1>2, <1>3, <1>4, <1>5 DEF Linked, Facing, G

\* Of two ends that are at most a rotation apart before and after, one that
\* puts its pending key in force goes ahead of the other or catches up with it.
LEMMA GwCommits ==
    ASSUME SoundInv, Phase, Phase', UNCHANGED dev, G.pendingActive, G' = CommitRotate(G)
    PROVE  \/ G.key = dev.key /\ Derived(G'.key, G.key)
           \/ Derived(dev.key, G.key) /\ G'.key = dev.key
<1>1. /\ G'.iteration = G.iteration + 1 /\ G'.key = G.pendingKey
      /\ Derived(G.pendingKey, G.key)
  BY Ends, SoundCommit DEF Sound, PendingIsNext
<1>2. ~CanFollow(dev, G)
  BY <1>1, Ends DEF Phase, InStep, CanFollow
<1> QED BY <1>1, <1>2 DEF Phase, InStep, CanFollow

\* The device likewise, with a rotation of its own or one of the gateway's.
LEMMA DevCommits ==
    ASSUME SoundInv, Phase, Phase', G' = G, DevRotate \/ DevAck
    PROVE  \/ dev'.key = dev.key
           \/ G.key = dev.key /\ Derived(dev'.key, dev.key)
           \/ Derived(G.key, dev.key) /\ dev'.key = G.key
<1> DEFINE f == Head(toDev)
<1>1. f \in Frame
  BY QueueOf DEF DevRotate, DevAck, SoundInv, TypeOK
<1>2. f.iteration \in Nat /\ f.mi \in Nat
  BY <1>1 DEF Frame
<1>3. \/ dev' = dev
      \/ dev' = RespondToRotationAtomic(dev, f.mi, f.iteration) /\ CanRespond(dev, f.iteration)
      \/ dev' = CommitRotate(dev) /\ dev.pendingActive
  BY DEF DevRotate, DevAck, ApplyRotationAck, CanApplyAck, CanCommit
<1> HIDE DEF f
<1>4. CASE dev' = RespondToRotationAtomic(dev, f.mi, f.iteration)
           /\ CanRespond(dev, f.iteration)
  <2>1. /\ dev'.iteration = dev.iteration + 1 /\ Derived(dev'.key, dev.key)
        /\ ~dev.pendingActive
    <3>1. /\ dev'.iteration = dev.iteration + 1
          /\ dev'.key = deriveNextKey(dev.key, f.mi, f.iteration)
      BY <1>2, <1>4, Ends, SoundRespond
    <3>2. Derived(deriveNextKey(dev.key, f.mi, f.iteration), dev.key)
      BY <1>2, Ends, NextKey
    <3> QED BY <1>4, <3>1, <3>2 DEF CanRespond, CanBegin
  <2>2. ~CanFollow(G, dev)
    BY <2>1, Ends DEF Phase, InStep, CanFollow
  <2> QED BY <2>1, <2>2 DEF Phase, InStep
<1>5. CASE dev' = CommitRotate(dev) /\ dev.pendingActive
  <2>1. /\ dev'.iteration = dev.iteration + 1 /\ dev'.key = dev.pendingKey
        /\ Derived(dev.pendingKey, dev.key)
    BY <1>5, Ends, SoundCommit DEF Sound, PendingIsNext
  <2>2. ~CanFollow(G, dev)
    BY <2>1, Ends DEF Phase, InStep, CanFollow
  <2> QED BY <1>5, <2>1, <2>2 DEF Phase, InStep, CanFollow
<1> QED BY <1>3, <1>4, <1>5

\* While the link is in use a step moves one end ahead, lets the one behind
\* follow, or touches no key.
LEMMA LinkedMoves ==
    ASSUME SoundInv, LinkInv, LinkInv', [Next]_vars, Linked, Linked'
    PROVE  \/ G'.key = G.key /\ dev'.key = dev.key
           \/ /\ G.key = dev.key
              /\ \/ Derived(dev'.key, dev.key) /\ G'.key = G.key
                 \/ Derived(G'.key, G.key) /\ dev'.key = dev.key
           \/ Derived(dev.key, G.key) /\ G'.key = dev.key /\ dev'.key = dev.key
           \/ Derived(G.key, dev.key) /\ dev'.key = G.key /\ G'.key = G.key
<1>1. Facing /\ Facing' /\ Phase /\ Phase'
  BY DEF Linked, LinkInv, FacingInv
<1>2. \A d \in Conns : ~Establish(d)
  BY <1>1 DEF Facing, Establish
<1>3. current' = current
  BY <1>2, GwEnd
<1>4. CASE G'.key # G.key
  <2>1. CommitsCurrent /\ Next /\ gw' # gw
    BY <1>1, <1>2, <1>3, <1>4, GwEnd DEF G, vars
  <2>2. UNCHANGED dev
    BY <1>2, <2>1, GwMoves DEF device
  <2>3. gw'[current] = CommitRotate(G) /\ CanCommit(G)
    BY <1>1, <2>1, CommitOnly
  <2>4. G' = CommitRotate(G) /\ G.pendingActive
    BY <1>3, <2>3 DEF G, CanCommit
  <2> QED BY <1>1, <2>2, <2>4, GwCommits
<1>5. CASE G'.key = G.key /\ (DevRotate \/ DevAck)
  <2>1. G' = G
    BY <1>5 DEF DevRotate, DevAck, G
  <2> QED BY <1>1, <1>5, <2>1, DevCommits
<1>6. CASE G'.key = G.key /\ DevInitiate
  <2>1. \A mi, it : BeginRotate(dev, mi, it).key = dev.key
    BY DEF BeginRotate, SoundInv, TypeOK, SessionType
  <2> QED BY <1>6, <2>1 DEF DevInitiate
<1>7. ~DevHangUp
  <2>1. Close(dev).closed
    BY Ends, SoundEnd
  <2> QED BY <1>1, <2>1 DEF DevHangUp, Facing
<1>8. ASSUME ~(DevRotate \/ DevAck \/ DevInitiate) PROVE dev' = dev
  BY <1>2, <1>7, <1>8 DEF Next, Handler, registerConn, ReadFrame, CheckTag, FetchSession,
     ApplyAck, BeginResponse, CommitResponse, Reply, EndServe, unregisterConn, Scheduler,
     SchedTick, SchedAbort, SchedWait, SchedDecide, SchedFetch, SchedBegin, SchedWrite,
     SchedDisconnect, SchedClose, device, vars
<1> QED BY <1>4, <1>5, <1>6, <1>8

\* Every step of Reconnection is a step of KeyAgreement or leaves it alone.
LEMMA LinkRefines ==
    SoundInv /\ LinkInv /\ LinkInv' /\ [Next]_vars => [Link!KaNext]_Link!kaVars
<1> SUFFICES ASSUME SoundInv, LinkInv, LinkInv', [Next]_vars
             PROVE  [Link!KaNext]_Link!kaVars
  OBVIOUS
<1>0. Linked \in BOOLEAN /\ Linked' \in BOOLEAN
  BY DEF Linked
<1> USE <1>0, LinkSameDerived DEF Link!KaNext, Link!kaVars
<1>1. CASE Linked /\ ~Linked'
  <2>1. Link!Break
    BY <1>1 DEF Link!Break
  <2> QED BY <2>1
<1>2. CASE ~Linked /\ ~Linked'
  BY <1>2
<1>3. CASE ~Linked /\ Linked'
  <2>1. PICK d \in Conns : Establish(d)
    BY <1>3, Relinks
  <2>2. /\ current' = d /\ gw' = [gw EXCEPT ![d] = NewSession(DeriveK0(d))]
        /\ dev' = NewSession(DeriveK0(d)) /\ gw \in [Conns -> SessionType]
    BY <2>1 DEF Establish, SoundInv, TypeOK
  <2>3. gw'[current'].key = DeriveK0(d) /\ dev'.key = DeriveK0(d)
    BY <2>2 DEF NewSession
  <2>4. Derived(DeriveK0(d), NoKey)
    BY DEF DeriveK0, Derived, NoKey
  <2>5. Link!Establish
    BY <1>3, <2>3, <2>4 DEF Link!Establish, Link!Fresh
  <2> QED BY <2>5
<1>4. CASE Linked /\ Linked'
  <2>1. CASE G'.key = G.key /\ dev'.key = dev.key
    BY <1>4, <2>1 DEF G
  <2>2. CASE G.key = dev.key /\ Derived(dev'.key, dev.key) /\ G'.key = G.key
    BY <1>4, <2>2 DEF Link!DevMovesAhead, G
  <2>3. CASE G.key = dev.key /\ Derived(G'.key, G.key) /\ dev'.key = dev.key
    BY <1>4, <2>3 DEF Link!GwMovesAhead, G
  <2>4. CASE Derived(dev.key, G.key) /\ G'.key = dev.key /\ dev'.key = dev.key
    BY <1>4, <2>4 DEF Link!GwFollows, G
  <2>5. CASE Derived(G.key, dev.key) /\ dev'.key = G.key /\ G'.key = G.key
    BY <1>4, <2>5 DEF Link!DevFollows, G
  <2> QED BY <1>4, <2>1, <2>2, <2>3, <2>4, <2>5, LinkedMoves
<1> QED BY <1>1, <1>2, <1>3, <1>4

(***************************************************************************)
(* LinkAgreement: for any number of connections and rotations, until a     *)
(* handler strays the connection of the device implements KeyAgreement     *)
(* (serveSession, handleMsg3, maybeRotate): what handlers and the scheduler*)
(* of other connections do at the same time is a stutter or a broken link. *)
(***************************************************************************)
THEOREM LinkAgreement == Spec => AgreementUnlessStray
<1>1. Spec => [](SoundInv /\ LinkInv)
  BY LinkCorrect
<1> QED BY <1>1, InitLinked, LinkRefines, PTL DEF Spec, AgreementUnlessStray, Link!KaSpec
=============================================================================
