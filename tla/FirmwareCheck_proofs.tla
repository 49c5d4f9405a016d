------------------------ MODULE FirmwareCheck_proofs ------------------------
(***************************************************************************)
(* FirmwareCheck.tla: which answers can cost a device its trust, for every *)
(* setting of the three intervals with Validity < Timeout.                 *)
(***************************************************************************)
EXTENDS FirmwareCheck, TLAPS

-----------------------------------------------------------------------------
(* Queues of challenge numbers.                                            *)

\* A queue over a set is a queue over every larger set.
LEMMA SeqGrows == ASSUME NEW S, NEW T, S \subseteq T, NEW q \in Seq(S) PROVE q \in Seq(T)
OBVIOUS

\* Appending a number above all the others keeps a queue rising.
LEMMA Appended ==
    ASSUME NEW S \in SUBSET Nat, NEW q \in Seq(S), NEW x \in S
    PROVE  /\ Append(q, x) \in Seq(S)
           /\ Elements(Append(q, x)) = Elements(q) \cup {x}
           /\ Rising(q) /\ (\A k \in Elements(q) : k < x) => Rising(Append(q, x))
<1>1. /\ Append(q, x) \in Seq(S) /\ DOMAIN q = 1..Len(q) /\ Len(q) \in Nat
      /\ DOMAIN Append(q, x) = 1..(Len(q) + 1)
      /\ \A i \in 1..Len(q) : Append(q, x)[i] = q[i]
      /\ Append(q, x)[Len(q) + 1] = x
  OBVIOUS
<1>2. Elements(Append(q, x)) = Elements(q) \cup {x}
  BY <1>1 DEF Elements
<1>3. ASSUME Rising(q), \A k \in Elements(q) : k < x PROVE Rising(Append(q, x))
  BY <1>1, <1>3 DEF Rising, Elements
<1> QED BY <1>1, <1>2, <1>3

\* Taking the head leaves a rising queue of numbers above it.
LEMMA Taken ==
    ASSUME NEW S \in SUBSET Nat, NEW q \in Seq(S), q # <<>>
    PROVE  /\ Head(q) \in S /\ Tail(q) \in Seq(S)
           /\ Elements(q) = {Head(q)} \cup Elements(Tail(q))
           /\ Rising(q) => Rising(Tail(q)) /\ \A k \in Elements(Tail(q)) : Head(q) < k
<1>1. /\ Tail(q) \in Seq(S) /\ Len(q) \in Nat \ {0} /\ DOMAIN q = 1..Len(q)
      /\ DOMAIN Tail(q) = 1..(Len(q) - 1)
      /\ \A i \in 1..(Len(q) - 1) : Tail(q)[i] = q[i + 1]
      /\ Head(q) = q[1] /\ Head(q) \in S
  OBVIOUS
<1>2. Elements(q) = {Head(q)} \cup Elements(Tail(q))
  <2>1. ASSUME NEW i \in DOMAIN q PROVE q[i] \in {Head(q)} \cup Elements(Tail(q))
    <3>1. CASE i = 1
      BY <1>1, <3>1
    <3>2. CASE i # 1
      <4>1. i - 1 \in DOMAIN Tail(q) /\ Tail(q)[i - 1] = q[i]
        BY <1>1, <3>2
      <4> QED BY <4>1 DEF Elements
    <3> QED BY <3>1, <3>2
  <2>2. ASSUME NEW i \in DOMAIN Tail(q) PROVE Tail(q)[i] \in Elements(q)
    BY <1>1 DEF Elements
  <2>3. Head(q) \in Elements(q)
    BY <1>1 DEF Elements
  <2> QED BY <2>1, <2>2, <2>3 DEF Elements
<1>3. ASSUME Rising(q) PROVE Rising(Tail(q)) /\ \A k \in Elements(Tail(q)) : Head(q) < k
  BY <1>1, <1>3 DEF Rising, Elements
<1> QED BY <1>1, <1>2, <1>3

\* Losing a suffix leaves a rising queue of some of the numbers.
LEMMA Cut ==
    ASSUME NEW S \in SUBSET Nat, NEW q \in Seq(S), NEW p \in Prefixes(q)
    PROVE  /\ p \in Seq(S) /\ Elements(p) \subseteq Elements(q)
           /\ Rising(q) => Rising(p)
<1>1. PICK n \in 0..Len(q) : p = SubSeq(q, 1, n)
  BY DEF Prefixes
<1>2. /\ p \in Seq(S) /\ DOMAIN p = 1..n /\ DOMAIN q = 1..Len(q) /\ Len(q) \in Nat
      /\ \A i \in 1..n : p[i] = q[i]
  BY <1>1
<1> QED BY <1>2 DEF Elements, Rising

\* The empty queue.
LEMMA EmptyQueue == Elements(<<>>) = {} /\ Rising(<<>>) /\ \A S : <<>> \in Seq(S)
BY DEF Elements, Rising
-----------------------------------------------------------------------------
(* The inductive invariant.                                                *)

\* What the type invariant says of the numbers, in the form the steps use.
LEMMA Numbers ==
    ASSUME FirmwareInv
    PROVE  /\ Len(issued) \in Nat /\ Challenges = 1..Len(issued)
           /\ Challenges \in SUBSET Nat /\ 0 \notin Challenges
           /\ toDev \in Seq(Challenges) /\ toGw \in Seq(Challenges)
           /\ Elements(toDev) \subseteq Challenges /\ Elements(toGw) \subseteq Challenges
           /\ \A k \in Challenges : issued[k] \in Nat /\ issued[k] <= now /\ Age(k) \in Nat
           /\ now \in Nat /\ Timeout \in Nat /\ Validity \in Nat /\ Validity < Timeout
<1>1. /\ issued \in Seq(Nat) /\ now \in Nat
      /\ toDev \in Seq(Challenges) /\ toGw \in Seq(Challenges)
      /\ \A k \in Challenges : issued[k] <= now
  BY DEF FirmwareInv, TypeOK
<1>2. Len(issued) \in Nat /\ \A k \in 1..Len(issued) : issued[k] \in Nat
  BY <1>1
<1>3. /\ Challenges = 1..Len(issued) /\ Challenges \in SUBSET Nat /\ 0 \notin Challenges
      /\ \A k \in Challenges : issued[k] \in Nat
  BY <1>2 DEF Challenges
<1>4. \A q \in Seq(Challenges) : Elements(q) \subseteq Challenges
  BY DEF Elements
<1>5. \A k \in Challenges : Age(k) \in Nat
  BY <1>1, <1>3 DEF Age
<1> QED BY <1>1, <1>2, <1>3, <1>4, <1>5, FirmwareCheckAssumption

\* No challenge has been issued yet.
LEMMA InitInv == Init => FirmwareInv
<1> SUFFICES ASSUME Init PROVE FirmwareInv
  OBVIOUS
<1>1. TypeOK
  <2>1. Challenges = {} /\ issued \in Seq(Nat)
    BY EmptyQueue DEF Init, Challenges
  <2> QED BY <2>1, EmptyQueue DEF Init, TypeOK, Never
<1>2. Ordered /\ InFlight = {}
  BY EmptyQueue DEF Init, Ordered, InFlight
<1>3. Tracked /\ JudgedOnce
  BY <1>2 DEF Init, Tracked, Outstanding, JudgedOnce
<1> QED BY <1>1, <1>2, <1>3 DEF FirmwareInv

\* Beginning changes no challenge: what is pending then is past the timeout.
LEMMA BeginStep == ASSUME FirmwareInv, SchedBegin PROVE FirmwareInv'
<1> USE Numbers DEF SchedBegin, handler, histories, netVars
<1>1. TypeOK'
  BY DEF FirmwareInv, TypeOK, Challenges
<1>2. Ordered'
  BY DEF FirmwareInv, Ordered, InFlight
<1>3. pending # 0 => Age(pending) >= Timeout
  BY DEF HeldOff, FirmwareInv, TypeOK
<1>4. Tracked' /\ JudgedOnce'
  BY <1>3 DEF FirmwareInv, Tracked, Outstanding, InFlight, Timely, TooLate, Age, JudgedOnce
<1> QED BY <1>1, <1>2, <1>4 DEF FirmwareInv

\* The new challenge replaces one that is answered or past the timeout.
LEMMA StoreStep == ASSUME FirmwareInv, SchedStore PROVE FirmwareInv'
<1> USE Numbers
<1> DEFINE new == Len(issued) + 1
<1>1. /\ issued' = Append(issued, now) /\ pending' = new /\ sched = "store"
      /\ sched' = "write"
      /\ UNCHANGED <<now, tampered, revoked, netVars, handler, entryLive, lastCheck>>
  BY DEF SchedStore
<1>2. /\ issued \in Seq(Nat) /\ issued' \in Seq(Nat) /\ Len(issued') = new
      /\ issued'[new] = now /\ \A k \in Challenges : issued'[k] = issued[k]
      /\ Challenges' = Challenges \cup {new} /\ new \notin Challenges
  BY <1>1 DEF FirmwareInv, TypeOK, Challenges
<1>3. TypeOK'
  <2>1. toDev \in Seq(Challenges') /\ toGw \in Seq(Challenges')
    <3>1. Challenges \subseteq Challenges'
      BY <1>2
    <3> QED BY <3>1, Numbers, SeqGrows, Zenon
  <2> QED BY <1>1, <1>2, <2>1 DEF FirmwareInv, TypeOK, netVars, handler, histories
<1>4. \A k \in Challenges : Age(k)' = Age(k)
  BY <1>1, <1>2 DEF Age
<1>5. Ordered'
  <2>1. new \notin InFlight \cup {answer}
    BY <1>2 DEF InFlight, FirmwareInv, TypeOK
  <2> QED BY <1>1, <1>2, <2>1 DEF FirmwareInv, Ordered, InFlight, netVars, handler, histories
<1>6. ASSUME NEW k \in Challenges, Timely(k) PROVE Timely(k)'
  <2>1. CASE pending = k
    <3>1. Age(k) >= Timeout
      BY <1>1, <2>1 DEF FirmwareInv, Tracked
    <3> QED BY <3>1, <1>4, <1>1 DEF Timely, TooLate, handler, histories
  <2>2. CASE pending # k
    BY <1>1, <1>4, <1>6, <2>2 DEF Timely, TooLate, handler, histories
  <2> QED BY <2>1, <2>2
<1>7. Tracked'
  <2>1. ASSUME NEW k \in Outstanding'
        PROVE  Timely(k)' \/ (pc' = "verify" /\ challenge' = k)
    <3>1. CASE k = new
      BY <1>1, <3>1 DEF Timely, TooLate
    <3>2. CASE k # new
      <4>1. k \in InFlight /\ k \in Outstanding /\ k \in Challenges
        BY <1>1, <1>2, <3>2, <2>1 DEF Outstanding, InFlight, netVars
      <4> QED BY <4>1, <1>1, <1>6 DEF FirmwareInv, Tracked, handler, histories
    <3> QED BY <3>1, <3>2
  <2>2. pc' = "take" => answer' # 0 /\ Timely(answer)'
    BY <1>1, <1>6 DEF FirmwareInv, Tracked, handler, histories, TypeOK, Timely, TooLate
  <2>3. pc' = "verify" =>
            /\ answer' # 0 /\ challenge' # 0
            /\ revoked' \/ answer' = challenge' \/ TooLate(answer)'
    <3>1. answer \in Challenges /\ TooLate(answer) => TooLate(answer)'
      BY <1>1, <1>4 DEF TooLate, handler, histories
    <3> QED BY <1>1, <3>1 DEF FirmwareInv, Tracked, handler, TypeOK
  <2>4. issued' # <<>> /\ pending' \notin judged'
    <3>1. judged \subseteq Challenges /\ judged' = judged
      BY <1>1 DEF FirmwareInv, TypeOK, handler, histories
    <3>2. Len(issued') # 0
      BY <1>2
    <3>3. issued' # <<>>
      BY <3>2
    <3> QED BY <1>1, <1>2, <3>1, <3>3
  <2> QED BY <1>1, <2>1, <2>2, <2>3, <2>4 DEF Tracked
<1>8. JudgedOnce'
  BY <1>1, <1>2 DEF FirmwareInv, JudgedOnce, TypeOK, handler, histories
<1> QED BY <1>3, <1>5, <1>7, <1>8 DEF FirmwareInv

\* A challenge written joins the queue as its newest and last.
LEMMA WriteStep == ASSUME FirmwareInv, SchedWrite PROVE FirmwareInv'
<1> USE Numbers
<1>1. /\ sched = "write" /\ sched' = "idle" /\ entryLive' = FALSE
      /\ lastCheck' \in Nat \cup {Never}
      /\ UNCHANGED <<now, tampered, revoked, issued, pending, connected, toGw, handler>>
  BY DEF SchedWrite, FirmwareInv, TypeOK
<1>2. Len(issued) \in Challenges /\ Challenges' = Challenges
  BY <1>1 DEF FirmwareInv, Tracked, TypeOK, Challenges
<1>3. toDev' = toDev \/ toDev' = Append(toDev, Len(issued))
  BY DEF SchedWrite
<1>35. /\ Append(toDev, Len(issued)) \in Seq(Challenges)
       /\ Elements(Append(toDev, Len(issued))) = Elements(toDev) \cup {Len(issued)}
       /\ Rising(toDev) /\ (\A k \in Elements(toDev) : k < Len(issued))
             => Rising(Append(toDev, Len(issued)))
  <2>1. Challenges \in SUBSET Nat /\ toDev \in Seq(Challenges)
    BY Numbers
  <2> QED BY ONLY <1>2, <2>1, Appended, Zenon
<1>4. /\ toDev' \in Seq(Challenges)
      /\ Elements(toDev') \subseteq Elements(toDev) \cup {Len(issued)}
  <2>1. CASE toDev' = toDev
    BY <2>1
  <2>2. CASE toDev' = Append(toDev, Len(issued))
    BY ONLY <2>2, <1>35, Zenon
  <2> QED BY <1>3, <2>1, <2>2
<1>5. TypeOK'
  BY <1>1, <1>2, <1>4 DEF FirmwareInv, TypeOK, handler, histories
<1>6. \A k \in InFlight : k < Len(issued)
  BY <1>1, <1>2 DEF FirmwareInv, Ordered, InFlight
<1>7. pc \in {"take", "verify"} => answer < Len(issued)
  <2>1. answer \in Challenges \cup {0}
    BY DEF FirmwareInv, TypeOK
  <2>2. Len(issued) # answer
    BY <1>1 DEF FirmwareInv, Ordered
  <2>3. Len(issued) \in Nat \ {0} /\ \A k \in Challenges : k \in Nat /\ k <= Len(issued)
    BY ONLY <1>2 DEF Challenges
  <2> QED BY ONLY <2>1, <2>2, <2>3
<1>8. Ordered'
  <2>1. Rising(toDev')
    <3>1. CASE toDev' = toDev
      BY <3>1 DEF FirmwareInv, Ordered
    <3>2. CASE toDev' = Append(toDev, Len(issued))
      <4>1. Rising(toDev) /\ \A k \in Elements(toDev) : k < Len(issued)
        BY <1>6 DEF FirmwareInv, Ordered, InFlight
      <4> QED BY ONLY <1>35, <3>2, <4>1, Zenon
    <3> QED BY <1>3, <3>1, <3>2
  <2> QED BY <1>1, <1>4, <1>6, <1>7, <2>1 DEF FirmwareInv, Ordered, InFlight, handler, histories
<1>9. Tracked' /\ JudgedOnce'
  <2>1. Outstanding' \subseteq Outstanding
    BY <1>1, <1>4 DEF Outstanding, InFlight
  <2> QED BY <1>1, <2>1
      DEF FirmwareInv, Tracked, JudgedOnce, Timely, TooLate, Age, handler, histories
<1> QED BY <1>5, <1>8, <1>9 DEF FirmwareInv

\* The head of one queue becomes the last of the other, above all the rest.
LEMMA AnswerStep == ASSUME FirmwareInv, DevAnswer PROVE FirmwareInv'
<1> USE Numbers
<1>1. /\ toDev # <<>> /\ toGw' = Append(toGw, Head(toDev)) /\ toDev' = Tail(toDev)
      /\ UNCHANGED <<now, tampered, revoked, issued, pending, connected, handler, scheduler>>
  BY DEF DevAnswer
<1>2. /\ Head(toDev) \in Challenges /\ toDev' \in Seq(Challenges)
      /\ Elements(toDev) = {Head(toDev)} \cup Elements(toDev')
      /\ Rising(toDev') /\ \A k \in Elements(toDev') : Head(toDev) < k
  BY <1>1, Taken DEF FirmwareInv, Ordered
<1>3. /\ toGw' \in Seq(Challenges)
      /\ Elements(toGw') = Elements(toGw) \cup {Head(toDev)}
      /\ Rising(toGw')
  <2>1. Rising(toGw) /\ \A k \in Elements(toGw) : k < Head(toDev)
    BY <1>2 DEF FirmwareInv, Ordered
  <2>2. Challenges \in SUBSET Nat /\ toGw \in Seq(Challenges) /\ Head(toDev) \in Challenges
    BY <1>2, Numbers
  <2> QED BY ONLY <1>1, <2>1, <2>2, Appended, Zenon
<1>4. Challenges' = Challenges /\ InFlight' = InFlight
  BY <1>1, <1>2, <1>3 DEF Challenges, InFlight
<1>5. TypeOK'
  BY <1>1, <1>2, <1>3, <1>4 DEF FirmwareInv, TypeOK, handler, histories, scheduler
<1>6. Ordered'
  BY <1>1, <1>2, <1>3, <1>4 DEF FirmwareInv, Ordered, handler, histories, scheduler
<1>7. Tracked' /\ JudgedOnce'
  BY <1>1, <1>4
  DEF FirmwareInv, Tracked, Outstanding, JudgedOnce, Timely, TooLate, Age, handler,
      histories, scheduler
<1> QED BY <1>5, <1>6, <1>7 DEF FirmwareInv

\* Losing what is in flight, coming back, and forgetting the last check.
LEMMA ConnectionStep ==
    ASSUME FirmwareInv, Drop \/ Reconnect \/ ReadError \/ SchedPrune PROVE FirmwareInv'
<1> USE Numbers
<1>1. CASE Drop
  <2>1. /\ toDev' = <<>> /\ toGw' \in Prefixes(toGw)
        /\ connected' = FALSE /\ entryLive' = FALSE
        /\ UNCHANGED <<now, tampered, revoked, issued, pending, handler, sched, lastCheck>>
    BY <1>1 DEF Drop
  <2>2. /\ toGw' \in Seq(Challenges) /\ Elements(toGw') \subseteq Elements(toGw)
        /\ Rising(toGw')
    BY <2>1, Cut DEF FirmwareInv, Ordered
  <2>3. toDev' \in Seq(Challenges) /\ Elements(toDev') = {} /\ Rising(toDev')
    BY <2>1, EmptyQueue
  <2>4. Challenges' = Challenges /\ InFlight' \subseteq InFlight
    BY <2>1, <2>2, <2>3 DEF Challenges, InFlight
  <2>5. TypeOK'
    BY <2>1, <2>2, <2>3, <2>4 DEF FirmwareInv, TypeOK, handler, histories
  <2>6. Ordered'
    BY <2>1, <2>2, <2>3, <2>4 DEF FirmwareInv, Ordered, handler, histories
  <2>7. Tracked' /\ JudgedOnce'
    BY <2>1, <2>4
     DEF FirmwareInv, Tracked, Outstanding, JudgedOnce, Timely, TooLate, Age, handler,
         histories
  <2> QED BY <2>5, <2>6, <2>7 DEF FirmwareInv
<1>2. CASE Reconnect
  BY <1>2 DEF Reconnect, histories, scheduler, FirmwareInv, TypeOK, Ordered, Tracked, Outstanding,
     InFlight, JudgedOnce, Timely, TooLate, Age, Challenges
<1>3. CASE ReadError
  BY <1>3 DEF ReadError, netVars, histories, scheduler, FirmwareInv, TypeOK, Ordered, Tracked,
     Outstanding, InFlight, JudgedOnce, Timely, TooLate, Age, Challenges
<1>4. CASE SchedPrune
  BY <1>4 DEF SchedPrune, netVars, handler, histories, FirmwareInv, TypeOK, Ordered, Tracked,
     Outstanding, InFlight, JudgedOnce, Timely, TooLate, Age, Challenges
<1> QED BY <1>1, <1>2, <1>3, <1>4

\* Time only makes challenges older.
LEMMA TickStep == ASSUME FirmwareInv, Tick PROVE FirmwareInv'
<1> USE Numbers
<1>1. /\ now' = now + 1
      /\ UNCHANGED <<tampered, revoked, issued, pending, netVars, handler, scheduler>>
  BY DEF Tick
<1>2. Challenges' = Challenges /\ \A k \in Challenges : Age(k)' = Age(k) + 1
  BY <1>1 DEF Challenges, Age
<1>3. TypeOK' /\ Ordered' /\ JudgedOnce'
  <2>1. TypeOK'
    <3>1. now' \in Nat /\ \A k \in Challenges' : issued'[k] <= now'
      BY <1>1, <1>2
    <3> QED BY <1>1, <1>2, <3>1 DEF FirmwareInv, TypeOK, netVars, handler, histories, scheduler
  <2>2. Ordered' /\ JudgedOnce'
    BY <1>1 DEF FirmwareInv, Ordered, InFlight, JudgedOnce, netVars, handler, histories, scheduler
  <2> QED BY <2>1, <2>2
<1>4. \A k \in Challenges : Timely(k) => Timely(k)'
  BY <1>1, <1>2 DEF Timely, TooLate, handler, histories
<1>5. Outstanding' = Outstanding /\ Outstanding \subseteq Challenges
  BY <1>1 DEF Outstanding, InFlight, netVars, scheduler, FirmwareInv, Tracked, TypeOK,
     Challenges
<1>6. Tracked'
  <2>1. /\ answer \in Challenges \cup {0} /\ pending \in Challenges \cup {0} /\ Tracked
    BY DEF FirmwareInv, TypeOK
  <2>2. \A k \in Outstanding' : Timely(k)' \/ (pc' = "verify" /\ challenge' = k)
    BY <1>1, <1>4, <1>5, <2>1 DEF Tracked, handler, histories
  <2>3. pc' = "take" => answer' # 0 /\ Timely(answer)'
    BY <1>1, <1>4, <2>1 DEF Tracked, handler, histories
  <2>4. pc' = "verify" =>
          /\ answer' # 0 /\ challenge' # 0
          /\ revoked' \/ answer' = challenge' \/ TooLate(answer)'
    <3>1. \A k \in Challenges : TooLate(k) => TooLate(k)'
      BY <1>1, <1>2 DEF TooLate, handler, histories
    <3> QED BY <1>1, <2>1, <3>1 DEF Tracked, handler, histories
  <2>5. sched' = "store" /\ pending' # 0 => Age(pending)' >= Timeout
    <3>1. \A k \in Challenges : Age(k) >= Timeout => Age(k)' >= Timeout
      BY <1>2
    <3> QED BY <1>1, <2>1, <3>1 DEF Tracked, scheduler
  <2>6. (sched' = "write" => issued' # <<>>) /\ pending' \notin judged'
    BY <1>1, <2>1 DEF Tracked, handler, histories, scheduler
  <2> QED BY <2>2, <2>3, <2>4, <2>5, <2>6 DEF Tracked
<1> QED BY <1>3, <1>6 DEF FirmwareInv

\* The answer read is the lowest of those in flight.
LEMMA ReadStep == ASSUME FirmwareInv, Read PROVE FirmwareInv'
<1> USE Numbers
<1>1. /\ pc = "read" /\ toGw # <<>>
      /\ answer' = Head(toGw) /\ toGw' = Tail(toGw) /\ pc' = "take"
      /\ UNCHANGED <<now, tampered, revoked, issued, pending, connected, toDev,
                     challenge, histories, scheduler>>
  BY DEF Read
<1>2. /\ Head(toGw) \in Challenges /\ toGw' \in Seq(Challenges)
      /\ Elements(toGw) = {Head(toGw)} \cup Elements(toGw')
      /\ Rising(toGw') /\ \A k \in Elements(toGw') : Head(toGw) < k
  BY <1>1, Taken DEF FirmwareInv, Ordered
<1>3. Challenges' = Challenges /\ InFlight = InFlight' \cup {answer'}
  BY <1>1, <1>2 DEF Challenges, InFlight
<1>4. TypeOK'
  BY <1>1, <1>2, <1>3 DEF FirmwareInv, TypeOK, histories, scheduler
<1>5. Ordered'
  BY <1>1, <1>2, <1>3 DEF FirmwareInv, Ordered, InFlight, scheduler
<1>6. Tracked' /\ JudgedOnce'
  <2>1. Outstanding' \subseteq Outstanding /\ answer' \in Outstanding
    BY <1>1, <1>3 DEF Outstanding, scheduler
  <2>2. \A k \in Outstanding : Timely(k)'
    BY <1>1 DEF FirmwareInv, Tracked, Timely, TooLate, Age, histories
  <2> QED BY <1>1, <1>2, <2>1, <2>2
          DEF FirmwareInv, Tracked, JudgedOnce, Age, Timely, TooLate, histories, scheduler
<1> QED BY <1>4, <1>5, <1>6 DEF FirmwareInv

\* The pending challenge is the answer's own, or the answer is past accepting.
LEMMA TakeStep == ASSUME FirmwareInv, Take PROVE FirmwareInv'
<1> USE Numbers
<1>1. /\ pc = "take" /\ challenge' = pending /\ pending' = 0
      /\ pc' = IF pending = 0 THEN "read" ELSE "verify"
      /\ UNCHANGED <<now, tampered, revoked, issued, netVars, answer, histories, scheduler>>
  BY DEF Take, PendingTaken
<1>2. Challenges' = Challenges /\ InFlight' = InFlight /\ Outstanding' = Outstanding
  BY <1>1 DEF Challenges, InFlight, Outstanding, netVars, scheduler
<1>3. TypeOK' /\ Ordered' /\ JudgedOnce'
  BY <1>1, <1>2
  DEF FirmwareInv, TypeOK, Ordered, Tracked, JudgedOnce, netVars, histories, scheduler
<1>4. Outstanding \subseteq Challenges
  BY DEF Outstanding, InFlight, FirmwareInv, Tracked, TypeOK, Challenges
<1>5. \A k \in Outstanding : Timely(k)' \/ (pc' = "verify" /\ challenge' = k)
  BY <1>1, <1>4 DEF FirmwareInv, Tracked, Timely, TooLate, Age, histories
<1>6. Tracked'
  BY <1>1, <1>2, <1>5
  DEF FirmwareInv, Tracked, TypeOK, Timely, TooLate, Age, histories, scheduler
<1> QED BY <1>3, <1>6 DEF FirmwareInv

\* A challenge consumed by an error, whoever's answer it was to judge.
LEMMA DroppedStep ==
    ASSUME FirmwareInv, pc = "verify",
           dropped' = dropped \cup ({challenge} \ {answer}),
           revoked => revoked', revoked' \in BOOLEAN,
           judged' \in {judged, judged \cup {challenge}},
           pc' = "read", answer' = 0, challenge' = 0,
           UNCHANGED <<now, tampered, issued, pending, netVars, scheduler>>
    PROVE  FirmwareInv'
<1> USE Numbers
<1>1. Challenges' = Challenges /\ InFlight' = InFlight /\ Outstanding' = Outstanding
  BY DEF Challenges, InFlight, Outstanding, netVars, scheduler
<1>2. challenge \in Challenges /\ pending # challenge
  BY DEF FirmwareInv, TypeOK, Tracked, JudgedOnce
<1>3. TypeOK' /\ Ordered' /\ JudgedOnce'
  BY <1>1, <1>2
  DEF FirmwareInv, TypeOK, Ordered, Tracked, JudgedOnce, netVars, histories, scheduler
<1>4. challenge = answer => challenge \notin Outstanding
  <2>1. ASSUME challenge = answer PROVE challenge \notin InFlight
    BY <2>1, <1>2 DEF FirmwareInv, Ordered, InFlight
  <2>2. sched = "write" => Len(issued) # answer
    BY DEF FirmwareInv, Ordered
  <2> QED BY <2>1, <2>2 DEF Outstanding
<1>5. \A k \in {challenge} \ {answer} : TooLate(k)'
  BY DEF TooLate
<1>6. \A k \in Challenges : Timely(k) => Timely(k)'
  BY DEF Timely, TooLate, Age
<1>7. Outstanding \subseteq Challenges
  <2>1. InFlight \subseteq Challenges
    BY Numbers DEF InFlight
  <2>2. sched = "write" => Len(issued) \in Challenges
    BY DEF FirmwareInv, Tracked, TypeOK, Challenges
  <2> QED BY <2>1, <2>2 DEF Outstanding
<1>8. Tracked'
  <2>1. ASSUME NEW k \in Outstanding PROVE Timely(k)'
    <3>1. CASE Timely(k)
      BY <3>1, <1>6, <1>7
    <3>2. CASE ~Timely(k)
      <4>1. k = challenge /\ k # answer
        BY <3>2, <1>4 DEF FirmwareInv, Tracked
      <4> QED BY <4>1, <1>5 DEF Timely
    <3> QED BY <3>1, <3>2
  <2> QED BY <1>1, <1>2, <2>1 DEF FirmwareInv, Tracked, Age, scheduler
<1> QED BY <1>3, <1>8 DEF FirmwareInv

\* Whatever the verdict, no answer to the challenge used up is to come in time.
LEMMA VerdictStep ==
    ASSUME FirmwareInv, Reject \/ NoVerdict \/ Pass \/ Fail \/ FailUnrevoked
    PROVE  FirmwareInv'
<1> USE Numbers
<1>1. CASE Reject
  <2>1. /\ pc = "verify" /\ Expired
        /\ pc' = "read" /\ answer' = 0 /\ challenge' = 0
        /\ UNCHANGED <<now, tampered, revoked, issued, pending, netVars, histories, scheduler>>
    BY <1>1 DEF Reject
  <2>2. Challenges' = Challenges /\ InFlight' = InFlight /\ Outstanding' = Outstanding
    BY <2>1 DEF Challenges, InFlight, Outstanding, netVars, scheduler
  <2>3. TypeOK' /\ Ordered' /\ JudgedOnce'
    BY <2>1, <2>2
    DEF FirmwareInv, TypeOK, Ordered, Tracked, JudgedOnce, netVars, histories, scheduler
  <2>4. Timely(challenge)
    BY <2>1 DEF Timely, TooLate, Expired
  <2>5. Tracked'
    BY <2>1, <2>2, <2>4
    DEF FirmwareInv, Tracked, Timely, TooLate, Age, histories, scheduler
  <2> QED BY <2>3, <2>5 DEF FirmwareInv
<1>2. CASE Pass
  <2>1. /\ pc = "verify" /\ answer = challenge
        /\ judged' = judged \cup {challenge}
        /\ pc' = "read" /\ answer' = 0 /\ challenge' = 0
        /\ UNCHANGED <<now, tampered, revoked, issued, pending, netVars, dropped, scheduler>>
    BY <1>2 DEF Pass, Passes
  <2>2. Challenges' = Challenges /\ InFlight' = InFlight /\ Outstanding' = Outstanding
    BY <2>1 DEF Challenges, InFlight, Outstanding, netVars, scheduler
  <2>3. challenge \in Challenges /\ pending # challenge
    BY <2>1 DEF FirmwareInv, TypeOK, Tracked, JudgedOnce
  <2>4. TypeOK' /\ Ordered' /\ JudgedOnce'
    BY <2>1, <2>2, <2>3
    DEF FirmwareInv, TypeOK, Ordered, Tracked, JudgedOnce, netVars, scheduler
  <2>5. challenge \notin Outstanding
    <3>1. challenge \notin InFlight
      BY <2>1, <2>3 DEF FirmwareInv, Ordered, InFlight
    <3>2. sched = "write" => Len(issued) # answer
      BY DEF FirmwareInv, Ordered
    <3> QED BY <2>1, <3>1, <3>2 DEF Outstanding
  <2>6. Tracked'
    BY <2>1, <2>2, <2>3, <2>5 DEF FirmwareInv, Tracked, Timely, TooLate, Age, scheduler
  <2> QED BY <2>4, <2>6 DEF FirmwareInv
<1>3. CASE Fail
  <2>1. /\ pc = "verify" /\ revoked' = TRUE /\ pc' = "done"
        /\ connected' = FALSE /\ entryLive' = FALSE
        /\ judged' = judged \cup {challenge} /\ toDev' = <<>> /\ toGw' = <<>>
        /\ UNCHANGED <<now, tampered, issued, pending, answer, challenge, dropped, sched,
                       lastCheck>>
    BY <1>3 DEF Fail
  <2>2. Challenges' = Challenges /\ InFlight' = {}
    BY <2>1, EmptyQueue DEF Challenges, InFlight
  <2>3. challenge \in Challenges /\ pending # challenge
    BY <2>1 DEF FirmwareInv, TypeOK, Tracked, JudgedOnce
  <2>4. toDev' \in Seq(Challenges) /\ toGw' \in Seq(Challenges)
    BY <2>1, EmptyQueue
  <2>5. TypeOK'
    BY <2>1, <2>2, <2>3, <2>4 DEF FirmwareInv, TypeOK
  <2>6. Ordered' /\ JudgedOnce'
    BY <2>1, <2>2, EmptyQueue DEF FirmwareInv, Ordered, InFlight, JudgedOnce
  <2>7. Tracked'
    BY <2>1, <2>3 DEF FirmwareInv, Tracked, Timely, TooLate, Age
  <2> QED BY <2>5, <2>6, <2>7 DEF FirmwareInv
<1>4. CASE NoVerdict
  <2>1. revoked \in BOOLEAN
    BY DEF FirmwareInv, TypeOK
  <2> QED BY ONLY <1>4, <2>1, FirmwareInv, DroppedStep DEF NoVerdict
<1>5. CASE FailUnrevoked
  BY ONLY <1>5, FirmwareInv, DroppedStep DEF FailUnrevoked
<1> QED BY <1>1, <1>2, <1>3, <1>4, <1>5

(***************************************************************************)
(* FirmwareInvCorrect: the challenges in flight, the pending one and the   *)
(* one being judged by stay in step, in every interleaving of the          *)
(* scheduler with the handler (IssueFirmwareChallenge releases the lock    *)
(* between its two sections).                                              *)
(***************************************************************************)
THEOREM FirmwareInvCorrect == Spec => []FirmwareInv
<1>1. FirmwareInv /\ [Next]_vars => FirmwareInv'
  <2> SUFFICES ASSUME FirmwareInv, [Next]_vars PROVE FirmwareInv'
    OBVIOUS
  <2>1. CASE Next
    BY <2>1, BeginStep, StoreStep, WriteStep, AnswerStep, ConnectionStep, TickStep,
       ReadStep, TakeStep, VerdictStep DEF Next
  <2>2. CASE UNCHANGED vars
    BY <2>2 DEF vars, netVars, handler, histories, scheduler, FirmwareInv, TypeOK, Ordered, Tracked,
       Outstanding, InFlight, JudgedOnce, Timely, TooLate, Age, Challenges
  <2> QED BY <2>1, <2>2
<1> QED BY InitInv, <1>1, PTL DEF Spec

(***************************************************************************)
(* JudgedOnceCorrect: no challenge judges two answers (VerifyFirmwareCheck *)
(* deletes the entry under the lock it reads it under).                    *)
(***************************************************************************)
THEOREM JudgedOnceCorrect == Spec => []JudgedOnce
BY FirmwareInvCorrect, PTL DEF FirmwareInv

(***************************************************************************)
(* RevokedCorrect: a failed check revokes an honest device only over an    *)
(* answer older than firmwareResponseValidity, or one whose challenge an   *)
(* error had consumed over an earlier answer.                              *)
(***************************************************************************)
THEOREM RevokedCorrect == Spec => RevokedOnlyIfLate
<1>1. FirmwareInv /\ [Next]_vars
          => [~revoked /\ revoked' /\ ~tampered => TooLate(answer)]_vars
  <2> SUFFICES ASSUME FirmwareInv, Next, ~revoked, revoked', ~tampered
               PROVE  TooLate(answer)
    OBVIOUS
  <2>1. Fail \/ FailUnrevoked
    BY DEF Next, SchedBegin, SchedStore, SchedWrite, SchedPrune, DevAnswer, Drop,
       Reconnect, Tick, Read, ReadError, Take, Reject, NoVerdict, Pass
  <2> QED BY <2>1 DEF Fail, FailUnrevoked, Passes, FirmwareInv, Tracked
<1> QED BY FirmwareInvCorrect, <1>1, PTL DEF Spec, RevokedOnlyIfLate
=============================================================================
