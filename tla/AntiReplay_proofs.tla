-------------------------- MODULE AntiReplay_proofs --------------------------
(***************************************************************************)
(* Neither memory of AntiReplay.tla forgets early or refuses too much, for *)
(* every size of the window, every TTL and every set of nonces.            *)
(***************************************************************************)
EXTENDS AntiReplay, SequenceTheorems, FiniteSetTheorems, TLAPS
-----------------------------------------------------------------------------
(* The guard by itself: the lifetime of a handshake nonce in ReplayGuard,   *)
(* for every TTL and every sequence of calls.                              *)

\* Half the TTL is a natural number no greater than it (Go's ttl/2).
LEMMA HalfBound == Half \in Nat /\ Half <= TTL
BY ReplayGuardAssumption DEF Half

\* Nothing is remembered at the start (NewReplayGuard).
LEMMA InitInv == Init => Inv
BY DEF Init, Inv, TypeOK, Located, Dated, Holds, Empty, Never

\* Moving the generations, when that is due, disturbs none of the parts.
LEMMA Moved ==
    ASSUME Inv
    PROVE  LET moved == IF RotationDue THEN now ELSE rotated
           IN  /\ CurrentNow \in [DOMAIN CurrentNow -> Nat]
               /\ PreviousNow \in [DOMAIN PreviousNow -> Nat]
               /\ DOMAIN CurrentNow \subseteq Nonces
               /\ DOMAIN PreviousNow \subseteq Nonces
               /\ moved \in Nat /\ moved <= now
               /\ \A k \in Nonces : accepted[k] # Never =>
                     \/ Holds(CurrentNow, k, accepted[k])
                     \/ Holds(PreviousNow, k, accepted[k]) /\ accepted[k] <= moved
                     \/ accepted[k] + Half <= moved
               /\ \A k \in Nonces : \A m \in {CurrentNow, PreviousNow} :
                     k \in DOMAIN m => accepted[k] # Never /\ m[k] <= accepted[k]
<1> USE HalfBound DEF Inv, TypeOK, Located, Dated
<1>1. CASE RotationDue
  <2>1. CurrentNow = Empty /\ PreviousNow = current
    BY <1>1 DEF CurrentNow, PreviousNow
  <2>2. Empty \in [{} -> Nat] /\ DOMAIN Empty = {}
    BY DEF Empty
  <2>3. rotated + Half <= now
    BY <1>1 DEF RotationDue
  <2>4. ASSUME NEW k \in Nonces, accepted[k] # Never
        PROVE  \/ Holds(current, k, accepted[k]) /\ accepted[k] <= now
               \/ accepted[k] + Half <= now
    <3>1. accepted[k] \in Nat
      BY <2>4 DEF Never
    <3> QED BY <2>3, <2>4, <3>1
  <2> QED BY <1>1, <2>1, <2>2, <2>4
<1>2. CASE ~RotationDue
  BY <1>2 DEF CurrentNow, PreviousNow
<1> QED BY <1>1, <1>2

\* A call leaves the invariant true: what it accepts, it records in current.
LEMMA CallInv == ASSUME Inv, NEW k \in Nonces, CheckAndRemember(k) PROVE Inv'
<1> DEFINE moved == IF RotationDue THEN now ELSE rotated
<1>1. previous' = PreviousNow /\ rotated' = moved /\ now' = now
  BY DEF CheckAndRemember
<1>2. CASE IsReplay(k)
  <2>1. current' = CurrentNow /\ accepted' = accepted
    BY <1>2 DEF CheckAndRemember
  <2> QED BY <1>1, <2>1, Moved DEF Inv, TypeOK, Located, Dated, Holds
<1>3. CASE ~IsReplay(k)
  <2>1. /\ current' = Remember(CurrentNow, k, now)
        /\ accepted' = [accepted EXCEPT ![k] = now]
    BY <1>3 DEF CheckAndRemember
  <2>2. now \in Nat /\ accepted \in [Nonces -> Nat \cup {Never}]
    BY DEF Inv, TypeOK
  <2>3. /\ DOMAIN current' = DOMAIN CurrentNow \cup {k}
        /\ current'[k] = now /\ accepted'[k] = now
        /\ \A x \in DOMAIN CurrentNow \ {k} : current'[x] = CurrentNow[x]
        /\ \A x \in Nonces \ {k} : accepted'[x] = accepted[x]
    BY <2>1, <2>2 DEF Remember
  <2>4. TypeOK'
    BY <1>1, <2>1, <2>2, Moved DEF TypeOK, Remember
  <2>5. Located'
    BY <1>1, <2>2, <2>3, Moved DEF Located, Holds, Inv
  <2>6. Dated'
    <3>1. ASSUME NEW x \in Nonces, NEW m \in {current', previous'}, x \in DOMAIN m
          PROVE  accepted'[x] # Never /\ m[x] <= accepted'[x]
      <4>1. CASE x = k /\ m = previous'
        <5>1. PreviousNow[k] \in Nat /\ PreviousNow[k] <= now
          BY <1>1, <3>1, <4>1, <2>2, Moved DEF Inv, Located
        <5> QED BY <1>1, <2>2, <2>3, <4>1, <5>1 DEF Never
      <4>2. CASE x = k /\ m = current'
        BY <2>2, <2>3, <4>2 DEF Never
      <4>3. CASE x # k
        BY <1>1, <2>3, <3>1, <4>3, Moved
      <4> QED BY <3>1, <4>1, <4>2, <4>3
    <3> QED BY <3>1 DEF Dated
  <2> QED BY <2>4, <2>5, <2>6 DEF Inv
<1> QED BY <1>2, <1>3

\* The clock only makes records older.
LEMMA TickInv == ASSUME Inv, Tick PROVE Inv'
<1>1. now \in Nat /\ rotated \in Nat /\ accepted \in [Nonces -> Nat \cup {Never}]
  BY DEF Inv, TypeOK
<1>2. now' = now + 1 /\ UNCHANGED <<current, previous, rotated, accepted>>
  BY DEF Tick
<1>3. TypeOK' /\ Dated'
  BY <1>1, <1>2 DEF Inv, TypeOK, Dated
<1>4. Located'
  BY <1>1, <1>2 DEF Inv, Located, Holds, Never
<1> QED BY <1>3, <1>4 DEF Inv

(***************************************************************************)
(* InvCorrect: every reachable state of the guard satisfies the inductive  *)
(* invariant (rotateIfDueLocked and CheckAndRemember preserve it).         *)
(***************************************************************************)
THEOREM InvCorrect == Spec => []Inv
<1>1. Inv /\ [Next]_vars => Inv'
  <2> SUFFICES ASSUME Inv, [Next]_vars PROVE Inv'
    OBVIOUS
  <2>1. CASE Tick
    BY <2>1, TickInv
  <2>2. ASSUME NEW k \in Nonces, CheckAndRemember(k) PROVE Inv'
    BY <2>2, CallInv
  <2>3. CASE UNCHANGED vars
    BY <2>3 DEF vars, Inv, TypeOK, Located, Dated, Holds
  <2> QED BY <2>1, <2>2, <2>3 DEF Next
<1> QED BY InitInv, <1>1, PTL DEF Spec

(***************************************************************************)
(* RememberedCorrect: no interleaving of calls and moves lets a nonce back *)
(* in before half the TTL has passed (the lifetime replay.go:29 promises). *)
(***************************************************************************)
THEOREM RememberedCorrect == Spec => []RememberedForHalf
<1>1. Inv => RememberedForHalf
  <2> SUFFICES ASSUME Inv, NEW k \in Nonces, accepted[k] # Never, now - accepted[k] < Half
               PROVE  IsReplay(k)
    BY DEF RememberedForHalf
  <2> USE HalfBound, ReplayGuardAssumption
  <2>1. now \in Nat /\ rotated \in Nat /\ rotated <= now /\ accepted[k] \in Nat
    BY DEF Inv, TypeOK, Located, Never
  <2>2. now - accepted[k] < TTL
    BY <2>1
  <2>3. CASE Holds(current, k, accepted[k])
    BY <2>2, <2>3 DEF Holds, IsReplay, Seen, CurrentNow, PreviousNow
  <2>4. CASE Holds(previous, k, accepted[k]) /\ accepted[k] <= rotated
    <3>1. ~RotationDue
      BY <2>1, <2>4 DEF RotationDue
    <3> QED BY <2>2, <2>4, <3>1 DEF Holds, IsReplay, Seen, PreviousNow
  <2>5. ~(accepted[k] + Half <= rotated)
    BY <2>1
  <2> QED BY <2>3, <2>4, <2>5 DEF Inv, Located
<1> QED BY InvCorrect, <1>1, PTL

(***************************************************************************)
(* RefusedCorrect: nothing older than the TTL is ever taken for a repeat,  *)
(* however long its record is held (the age checks of CheckAndRemember).   *)
(***************************************************************************)
THEOREM RefusedCorrect == Spec => []RefusedOnlyRecent
<1>1. Inv => RefusedOnlyRecent
  <2> SUFFICES ASSUME Inv, NEW k \in Nonces, IsReplay(k)
               PROVE  accepted[k] # Never /\ now - accepted[k] < TTL
    BY DEF RefusedOnlyRecent
  <2>1. PICK m \in {CurrentNow, PreviousNow} : Seen(m, k)
    BY DEF IsReplay
  <2>2. accepted[k] # Never /\ m[k] <= accepted[k] /\ m[k] \in Nat
    BY <2>1, Moved DEF Seen
  <2>3. accepted[k] \in Nat /\ now \in Nat /\ TTL \in Nat
    BY <2>2, ReplayGuardAssumption DEF Inv, TypeOK, Never
  <2> QED BY <2>1, <2>2, <2>3 DEF Seen
<1> QED BY InvCorrect, <1>1, PTL
-----------------------------------------------------------------------------
(* The window of a session, and the two memories together.                 *)

\* The queue of the code is the end of what was accepted, without repetitions,
\* and the set is its elements.
Kept ==
    /\ WindowTypeOK /\ seen = Elements(order)
    /\ order = Last(opened, MaxSeen)
    /\ \A i, j \in DOMAIN order : order[i] = order[j] => i = j

\* How many elements of a sequence are before its last n.
Gone(q, n) == IF Len(q) > n THEN Len(q) - n ELSE 0

\* The end of a sequence: its length and what it holds.
LEMMA LastProperties ==
    ASSUME NEW S, NEW q \in Seq(S), NEW n \in Nat
    PROVE  /\ Last(q, n) \in Seq(S) /\ Len(Last(q, n)) = Len(q) - Gone(q, n)
           /\ \A i \in 1..(Len(q) - Gone(q, n)) : Last(q, n)[i] = q[i + Gone(q, n)]
<1> DEFINE gone == Gone(q, n)
<1>1. Len(q) \in Nat
  BY LenProperties
<1>2. gone \in Nat /\ gone <= Len(q)
  BY <1>1 DEF Gone
<1>3. Last(q, n) = SubSeq(q, gone + 1, Len(q))
  BY <1>1 DEF Last, Gone
<1> HIDE DEF gone
<1>4. \A i \in (gone + 1)..Len(q) : q[i] \in S
  BY <1>1, <1>2, ElementOfSeq
<1>5. /\ SubSeq(q, gone + 1, Len(q)) \in Seq(S)
      /\ Len(SubSeq(q, gone + 1, Len(q))) =
            IF gone + 1 <= Len(q) THEN Len(q) - (gone + 1) + 1 ELSE 0
      /\ \A i \in 1..(Len(q) - (gone + 1) + 1) :
            SubSeq(q, gone + 1, Len(q))[i] = q[gone + 1 + i - 1]
  BY <1>1, <1>2, <1>4, SubSeqProperties
<1>6. /\ Last(q, n) \in Seq(S) /\ Len(Last(q, n)) = Len(q) - gone
      /\ \A i \in 1..(Len(q) - gone) : Last(q, n)[i] = q[i + gone]
  BY <1>1, <1>2, <1>3, <1>5
<1> QED BY <1>6 DEF gone

\* A new window is empty.
LEMMA EmptyKept ==
    ASSUME WindowTypeOK', seen' = {}, order' = <<>>, opened' = <<>>
    PROVE  Kept'
<1>1. Last(<<>>, MaxSeen) = <<>>
  BY DataWindowAssumption DEF Last
<1> QED BY <1>1 DEF Kept, Elements

\* How the queue grows: by the nonce, at the cost of the oldest when it is full.
Grows(n) ==
    /\ Drop \in {0, 1} /\ Drop <= Len(order) /\ Len(order) \in Nat
    /\ order' \in Seq(DataNonces) /\ Len(order') = Len(order) - Drop + 1
    /\ \A i \in 1..(Len(order) - Drop) : order'[i] = order[i + Drop]
    /\ order'[Len(order) - Drop + 1] = n

LEMMA OrderGrows ==
    ASSUME Kept, NEW n \in DataNonces, CheckDataNonce(n)
    PROVE  Grows(n)
<1> DEFINE rest == SubSeq(order, Drop + 1, Len(order))
<1>1. order \in Seq(DataNonces) /\ opened \in Seq(DataNonces) /\ Len(order) \in Nat
  BY LenProperties DEF Kept, WindowTypeOK
<1>2. Len(order) <= MaxSeen
  BY <1>1, LastProperties, DataWindowAssumption DEF Kept, Gone
<1>3. Drop \in {0, 1} /\ Drop <= Len(order)
  BY <1>1, <1>2, DataWindowAssumption DEF Drop
<1>4. \A i \in (Drop + 1)..Len(order) : order[i] \in DataNonces
  BY <1>1, <1>3, ElementOfSeq
<1>5. /\ rest \in Seq(DataNonces) /\ Len(rest) = Len(order) - Drop
      /\ \A i \in 1..(Len(order) - Drop) : rest[i] = order[i + Drop]
  <2>1. /\ SubSeq(order, Drop + 1, Len(order)) \in Seq(DataNonces)
        /\ Len(SubSeq(order, Drop + 1, Len(order))) =
              IF Drop + 1 <= Len(order) THEN Len(order) - (Drop + 1) + 1 ELSE 0
        /\ \A i \in 1..(Len(order) - (Drop + 1) + 1) :
              SubSeq(order, Drop + 1, Len(order))[i] = order[Drop + 1 + i - 1]
    BY <1>1, <1>3, <1>4, SubSeqProperties
  <2> QED BY <1>1, <1>3, <2>1
<1>6. order' = Append(rest, n)
  BY DEF CheckDataNonce
<1> HIDE DEF rest
<1>7. /\ Append(rest, n) \in Seq(DataNonces) /\ Len(Append(rest, n)) = Len(rest) + 1
      /\ \A i \in 1..Len(rest) : Append(rest, n)[i] = rest[i]
      /\ Append(rest, n)[Len(rest) + 1] = n
  BY <1>5, AppendProperties
<1> QED BY <1>1, <1>3, <1>5, <1>6, <1>7 DEF Grows

\* The set follows it.
LEMMA SeenFollows ==
    ASSUME Kept, NEW n \in DataNonces, CheckDataNonce(n)
    PROVE  seen' = Elements(order')
<1> DEFINE old == Len(order)
<1>0. Grows(n)
  BY OrderGrows
<1> USE <1>0 DEF Grows
<1>1. order \in Seq(DataNonces) /\ DOMAIN order = 1..old /\ DOMAIN order' = 1..Len(order')
  BY LenProperties DEF Kept, WindowTypeOK
<1>2. \A x : x \in Elements(SubSeq(order, 1, Drop)) <=> Drop = 1 /\ x = order[1]
  <2>1. \A i \in 1..Drop : order[i] \in DataNonces
    BY <1>1, ElementOfSeq
  <2>2. /\ SubSeq(order, 1, Drop) \in Seq(DataNonces)
        /\ Len(SubSeq(order, 1, Drop)) = IF 1 <= Drop THEN Drop - 1 + 1 ELSE 0
        /\ \A i \in 1..(Drop - 1 + 1) : SubSeq(order, 1, Drop)[i] = order[1 + i - 1]
    BY <2>1, SubSeqProperties
  <2>3. DOMAIN SubSeq(order, 1, Drop) = 1..Drop
    BY <2>2, LenProperties
  <2>4. CASE Drop = 0
    BY <2>3, <2>4 DEF Elements
  <2>5. CASE Drop = 1
    <3>1. DOMAIN SubSeq(order, 1, Drop) = {1} /\ SubSeq(order, 1, Drop)[1] = order[1]
      BY <2>2, <2>3, <2>5
    <3> QED BY <2>5, <3>1 DEF Elements
  <2> QED BY <2>4, <2>5
<1>3. \A x : x \in Elements(order') <=> x = n \/ \E i \in (Drop + 1)..old : x = order[i]
  <2>1. ASSUME NEW x, x \in Elements(order')
        PROVE  x = n \/ \E i \in (Drop + 1)..old : x = order[i]
    <3>1. PICK i \in 1..Len(order') : x = order'[i]
      BY <1>1, <2>1 DEF Elements
    <3>2. CASE i = old - Drop + 1
      BY <3>1, <3>2
    <3>3. CASE i \in 1..(old - Drop)
      <4>1. x = order[i + Drop] /\ i + Drop \in (Drop + 1)..old
        BY <3>1, <3>3
      <4> QED BY <4>1
    <3> QED BY <3>1, <3>2, <3>3
  <2>2. n \in Elements(order')
    BY <1>1 DEF Elements
  <2>3. ASSUME NEW i \in (Drop + 1)..old PROVE order[i] \in Elements(order')
    <3>1. i - Drop \in 1..(old - Drop) /\ order[i] = order'[i - Drop]
      OBVIOUS
    <3> QED BY <1>1, <3>1 DEF Elements
  <2> QED BY <2>1, <2>2, <2>3
<1>4. \A x : x \in seen <=> \E i \in 1..old : x = order[i]
  BY <1>1 DEF Kept, Elements
<1>5. \A i, j \in 1..old : order[i] = order[j] => i = j
  BY <1>1 DEF Kept
<1>6. seen' = (seen \ Elements(SubSeq(order, 1, Drop))) \cup {n}
  BY DEF CheckDataNonce, SeenAfter
<1>7. ASSUME NEW x PROVE x \in seen' <=> x \in Elements(order')
  BY <1>2, <1>3, <1>4, <1>5, <1>6
<1> QED BY <1>7

\* And it stays the end of what was accepted, without repetitions.
LEMMA CheckKept ==
    ASSUME Kept, NEW n \in DataNonces, CheckDataNonce(n)
    PROVE  Kept'
<1>0. Grows(n)
  BY OrderGrows
<1> USE <1>0 DEF Grows
<1>1. /\ order \in Seq(DataNonces) /\ DOMAIN order = 1..Len(order)
      /\ opened \in Seq(DataNonces) /\ Len(opened) \in Nat
      /\ DOMAIN order' = 1..Len(order')
  BY LenProperties DEF Kept, WindowTypeOK
<1>2. /\ opened' \in Seq(DataNonces) /\ Len(opened') = Len(opened) + 1
      /\ \A i \in 1..Len(opened) : opened'[i] = opened[i]
      /\ opened'[Len(opened) + 1] = n
  BY <1>1, AppendProperties DEF CheckDataNonce
<1>3. WindowTypeOK'
  <2>1. seen' \subseteq DataNonces /\ closed' \in BOOLEAN
    BY DEF Kept, WindowTypeOK, CheckDataNonce, SeenAfter
  <2> QED BY <1>2, <2>1 DEF WindowTypeOK
<1>4. order' = Last(opened', MaxSeen)
  <2> DEFINE gone == Gone(opened, MaxSeen)
             goneNext == Gone(opened', MaxSeen)
  <2>1. /\ Len(order) = Len(opened) - gone
        /\ \A i \in 1..(Len(opened) - gone) : order[i] = opened[i + gone]
    <3>1. MaxSeen \in Nat /\ order = Last(opened, MaxSeen)
      BY DataWindowAssumption DEF Kept
    <3>2. /\ Len(Last(opened, MaxSeen)) = Len(opened) - gone
          /\ \A i \in 1..(Len(opened) - gone) :
                Last(opened, MaxSeen)[i] = opened[i + gone]
      BY <1>1, <3>1, LastProperties
    <3> QED BY <3>1, <3>2
  <2>2. /\ Last(opened', MaxSeen) \in Seq(DataNonces)
        /\ Len(Last(opened', MaxSeen)) = Len(opened') - goneNext
        /\ \A i \in 1..(Len(opened') - goneNext) :
              Last(opened', MaxSeen)[i] = opened'[i + goneNext]
    BY <1>2, LastProperties, DataWindowAssumption
  <2>3. gone \in Nat /\ gone <= Len(opened) /\ goneNext = gone + Drop
    <3>1. Len(opened') = Len(opened) + 1 /\ Len(opened) \in Nat /\ MaxSeen \in Nat \ {0}
      BY <1>1, <1>2, DataWindowAssumption
    <3>2. Len(order) = IF Len(opened) > MaxSeen THEN MaxSeen ELSE Len(opened)
      BY <2>1, <3>1 DEF Gone
    <3>3. gone = IF Len(opened) > MaxSeen THEN Len(opened) - MaxSeen ELSE 0
      BY DEF Gone
    <3>4. goneNext = IF Len(opened') > MaxSeen THEN Len(opened') - MaxSeen ELSE 0
      BY DEF Gone
    <3>5. Drop = IF Len(opened) >= MaxSeen THEN 1 ELSE 0
      BY <3>1, <3>2 DEF Drop
    <3> HIDE <1>0 DEF gone, goneNext
    <3>6. CASE Len(opened) < MaxSeen
      <4>1. gone = 0 /\ Drop = 0
        BY <3>1, <3>3, <3>5, <3>6
      <4>2. ~(Len(opened') > MaxSeen)
        BY <3>1, <3>6
      <4> QED BY <3>1, <3>4, <4>1, <4>2
    <3>7. CASE Len(opened) = MaxSeen
      BY <3>1, <3>3, <3>4, <3>5, <3>7
    <3>8. CASE Len(opened) > MaxSeen
      BY <3>1, <3>3, <3>4, <3>5, <3>8
    <3> QED BY <3>1, <3>6, <3>7, <3>8
  <2> HIDE DEF gone, goneNext
  <2>4. Len(order') = Len(Last(opened', MaxSeen))
    BY <1>1, <1>2, <2>1, <2>2, <2>3
  <2>5. ASSUME NEW i \in 1..Len(order') PROVE order'[i] = Last(opened', MaxSeen)[i]
    <3>1. Last(opened', MaxSeen)[i] = opened'[i + gone + Drop]
      BY <1>1, <1>2, <2>1, <2>2, <2>3
    <3>2. CASE i = Len(order) - Drop + 1
      BY <1>1, <1>2, <2>1, <2>3, <3>1, <3>2
    <3>3. CASE i \in 1..(Len(order) - Drop)
      <4>1. order'[i] = order[i + Drop] /\ i + Drop \in 1..Len(order)
        BY <3>3
      <4>2. order[i + Drop] = opened[(i + Drop) + gone]
        BY <2>1, <4>1
      <4>3. (i + Drop) + gone \in 1..Len(opened) /\ (i + Drop) + gone = i + gone + Drop
        BY <1>1, <2>1, <2>3, <3>3, <4>1
      <4> QED BY <1>1, <1>2, <2>3, <3>1, <4>1, <4>2, <4>3
    <3> QED BY <3>2, <3>3
  <2> QED BY <2>2, <2>4, <2>5, SeqEqual
<1>5. ASSUME NEW i \in DOMAIN order', NEW j \in DOMAIN order', order'[i] = order'[j]
      PROVE  i = j
  <2>1. \A k \in 1..Len(order) : order[k] # n
    BY <1>1 DEF Kept, Elements, CheckDataNonce
  <2>2. \A k, l \in 1..Len(order) : order[k] = order[l] => k = l
    BY <1>1 DEF Kept
  <2>3. \A k \in 1..(Len(order) - Drop) :
            order'[k] = order[k + Drop] /\ k + Drop \in 1..Len(order)
    OBVIOUS
  <2> QED BY <1>1, <1>5, <2>1, <2>2, <2>3
<1> QED BY <1>3, <1>4, <1>5, SeenFollows DEF Kept

\* The promises to the devices, of a set and a queue that agree.
LEMMA KeptPromises == Kept => WindowInv
<1> SUFFICES ASSUME Kept PROVE WindowInv
  OBVIOUS
<1>1. order \in Seq(DataNonces) /\ DOMAIN order = 1..Len(order) /\ Len(order) \in Nat
  BY LenProperties DEF Kept, WindowTypeOK
<1>2. order \in [1..Len(order) -> seen]
  BY <1>1, LenProperties DEF Kept, Elements
<1>3. order \in Bijection(1..Len(order), seen)
  BY <1>1, <1>2, Zenon DEF Kept, Elements, Bijection, Injection, Surjection, IsInjective
<1>4. Cardinality(seen) = Len(order)
  BY <1>1, <1>3, FS_CountingElements DEF ExistsBijection
<1> QED BY <1>4 DEF Kept, WindowInv, RecentRefused, NothingElseRefused

\* A session that starts, changes its key or closes begins a new window.
LEMMA WindowStep == ASSUME Kept, [ReplayNext]_replayVars PROVE Kept'
<1>1. ASSUME NEW n \in DataNonces, CheckDataNonce(n) PROVE Kept'
  BY <1>1, CheckKept
<1>2. CASE CommitRotate \/ Close \/ Msg3
  <2>1. seen' = {} /\ order' = <<>> /\ opened' = <<>> /\ closed' \in BOOLEAN
    BY <1>2 DEF CommitRotate, Close, Msg3, resetSeenNoncesLocked, Kept, WindowTypeOK
  <2> QED BY <2>1, EmptyKept DEF WindowTypeOK
<1>3. CASE UNCHANGED windowVars
  BY <1>3 DEF windowVars, Kept, WindowTypeOK, Elements, Last
<1> QED
  BY <1>1, <1>2, <1>3
  DEF ReplayNext, OnSession, WindowNext, Msg1, Clock, replayVars, windowVars

(***************************************************************************)
(* WindowCorrect: in every session the set and the queue of accepted       *)
(* nonces agree and are the last MaxSeen of them, whatever handshakes, key *)
(* changes and repeated packets come (CheckDataNonce, handleMsg3).         *)
(***************************************************************************)
THEOREM WindowCorrect == ReplaySpec => []WindowInv
<1>1. ReplayInit => Kept
  <2> SUFFICES ASSUME ReplayInit PROVE Kept
    OBVIOUS
  <2>1. Last(<<>>, MaxSeen) = <<>>
    BY DataWindowAssumption DEF Last
  <2>2. seen = {} /\ order = <<>> /\ opened = <<>> /\ closed = FALSE
    BY DEF ReplayInit, WindowInit
  <2>3. WindowTypeOK
    BY <2>2, EmptySeq DEF WindowTypeOK
  <2>4. order = Last(opened, MaxSeen)
    BY <2>1, <2>2
  <2> QED BY <2>2, <2>3, <2>4 DEF Kept, Elements
<1>2. Kept /\ [ReplayNext]_replayVars => Kept'
  BY WindowStep
<1> QED BY <1>1, <1>2, KeptPromises, PTL DEF ReplaySpec

(***************************************************************************)
(* RecentCorrect: none of the last MaxSeen packets of a session is taken a *)
(* second time (the eviction of CheckDataNonce).                           *)
(***************************************************************************)
THEOREM RecentCorrect == ReplaySpec => []RecentRefused
BY WindowCorrect, PTL DEF WindowInv

(***************************************************************************)
(* NothingElseCorrect: no other packet is refused, and neither container   *)
(* grows past the limit (the eviction of CheckDataNonce).                  *)
(***************************************************************************)
THEOREM NothingElseCorrect == ReplaySpec => []NothingElseRefused
BY WindowCorrect, PTL DEF WindowInv

(***************************************************************************)
(* GuardUndisturbed: joined with the sessions, the guard takes only steps  *)
(* of its own, so what is proved of it holds here (HandleMsg1Tracked).     *)
(***************************************************************************)
THEOREM GuardUndisturbed == ReplaySpec => Spec
<1>1. ReplayInit => Init
  BY DEF ReplayInit
<1>2. [ReplayNext]_replayVars => [Next]_vars
  BY DEF ReplayNext, Msg1, Clock, Msg3, OnSession, Next, replayVars
<1> QED BY <1>1, <1>2, PTL DEF ReplaySpec, Spec

(***************************************************************************)
(* AntiReplayCorrect: the guard's invariant and the window's hold in the   *)
(* gateway that has both (HandleMsg1Tracked, handleMsg3, HandleData).      *)
(***************************************************************************)
THEOREM AntiReplayCorrect == ReplaySpec => []AntiReplayInv
<1>1. Inv /\ WindowInv => AntiReplayInv
  BY DEF AntiReplayInv
<1> QED BY <1>1, GuardUndisturbed, InvCorrect, WindowCorrect, PTL
=============================================================================
