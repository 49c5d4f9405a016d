-------------------------- MODULE Registry_proofs --------------------------
(***************************************************************************)
(* Proofs about Registry, for any set of devices and of calls: it          *)
(* implements DeviceStore, its journal loses only what it may, and both    *)
(* stores answer the queries of that journal alike.  CallsInv is taken in  *)
(* parts: CallsOK and RowsOK, on which the mapping rests, HandlersOK, and  *)
(* LocksHeld.                                                              *)
(***************************************************************************)
EXTENDS MCRegistry, Functions, FiniteSetTheorems, WellFoundedInduction, TLAPS

answers == [c \in Calls |-> calls[c].answer]
asked == [c \in Calls |-> Asked(c)]

\* The calls and the choice of the store, as CallsInv says.
CallsOK ==
    /\ durable \in BOOLEAN
    /\ calls \in [Calls -> CallType]
    /\ \A c \in Calls : Unanswered(c)

\* A row names the enrolment that made it.
RowsOK == Registered \subseteq Devices /\ rows \in [Registered -> Row]

HandlersOK ==
    /\ DOMAIN handlers \subseteq Devices
    /\ \A d \in DOMAIN handlers : handlers[d] \in Handler
    /\ {nextID, taken, crashes} \subseteq Nat
    /\ DOMAIN purged \subseteq Calls /\ \A c \in DOMAIN purged : purged[c] \in Nat

\* A call that is somewhere is not idle, and names a device.
LEMMA Begun ==
    ASSUME CallsOK, NEW c \in Calls, calls[c].at # "idle"
    PROVE  /\ calls[c] \in [operation : Operations, device : Devices, of : Calls,
                            answer : Answers, at : Places]
           /\ Unanswered(c) /\ device(c) \in Devices
BY DEF CallsOK, CallType, Idle, device

\* Where no transaction is past its journal statement, none is noted.
LEMMA Steady ==
    ASSUME CallsOK, NEW c \in Calls, calls[c].at # "commit", UNCHANGED purged
    PROVE  DOMAIN purged' = DOMAIN purged \ {c}
BY DEF CallsOK, Unanswered

\* What each way of moving a call does to it and to the answers.
LEMMA Moves ==
    ASSUME CallsOK, NEW c \in Calls, NEW answer \in Answers, NEW at \in Places,
           NEW of \in Calls, calls[c].at # "idle"
    PROVE  /\ Go(c, at) => answers' = answers
           /\ End(c, answer) => answers' = [answers EXCEPT ![c] = answer]
           /\ Done(c, answer, at) => answers' = [answers EXCEPT ![c] = answer]
           /\ Acted(c, of, at) => answers' = [answers EXCEPT ![c] = "ok"]
<1>1. /\ calls \in [Calls -> CallType]
      /\ calls[c] \in [operation : Operations, device : Devices, of : Calls,
                       answer : Answers, at : Places]
  BY Begun DEF CallsOK
<1>2. Go(c, at) => answers' = answers
  BY <1>1 DEF Go, answers
<1>3. End(c, answer) => answers' = [answers EXCEPT ![c] = answer]
  BY <1>1 DEF End, answers
<1>4. Done(c, answer, at) => answers' = [answers EXCEPT ![c] = answer]
  BY <1>1 DEF Done, answers
<1>5. Acted(c, of, at) => answers' = [answers EXCEPT ![c] = "ok"]
  BY <1>1 DEF Acted, answers
<1> QED BY <1>2, <1>3, <1>4, <1>5

\* No move changes what was asked.
LEMMA SameRequest ==
    ASSUME CallsOK, NEW c \in Calls, calls[c].at # "idle", NEW answer, NEW at, at # "idle", NEW of,
           \/ Go(c, at) \/ End(c, answer) \/ Done(c, answer, at) \/ Acted(c, of, at)
           \/ calls' = [calls EXCEPT ![c].at = at, ![c].of = of]
    PROVE  asked' = asked
<1>1. /\ calls \in [Calls -> CallType]
      /\ calls[c] \in [operation : Operations, device : Devices, of : Calls,
                       answer : Answers, at : Places]
  BY Begun DEF CallsOK
<1> DEFINE r == calls'[c]
<1>2. r.operation = calls[c].operation /\ r.device = calls[c].device /\ r.at # "idle"
  <2>1. CASE Go(c, at)
    BY <1>1, <2>1 DEF Go
  <2>2. CASE End(c, answer)
    BY <1>1, <2>2 DEF End
  <2>3. CASE Done(c, answer, at)
    BY <1>1, <2>3 DEF Done
  <2>4. CASE Acted(c, of, at)
    BY <1>1, <2>4 DEF Acted
  <2>5. CASE calls' = [calls EXCEPT ![c].at = at, ![c].of = of]
    BY <1>1, <2>5
  <2> QED BY <2>1, <2>2, <2>3, <2>4, <2>5
<1>3. \A e \in Calls : e # c => calls'[e] = calls[e]
  <2>1. calls' = [calls EXCEPT ![c] = r]
    BY <1>1 DEF Go, End, Done, Acted
  <2> HIDE DEF r
  <2> QED BY <1>1, <2>1
<1>4. r # Idle /\ calls[c] # Idle
  BY <1>2 DEF Idle
<1>5. \A e \in Calls : Asked(e)' = Asked(e)
  BY <1>2, <1>3, <1>4 DEF Asked
<1> QED BY <1>5 DEF asked

-----------------------------------------------------------------------------
(* The invariant.                                                          *)

\* A step that moves one call, and leaves it as Unanswered wants it.
LEMMA OneCall ==
    ASSUME CallsOK, NEW c \in Calls, NEW r \in CallType, UNCHANGED durable,
           calls' = [calls EXCEPT ![c] = r], Unanswered(c)',
           DOMAIN purged' \ {c} = DOMAIN purged \ {c}
    PROVE  CallsOK'
<1>1. calls' \in [Calls -> CallType] /\ calls'[c] = r
  BY DEF CallsOK
<1>2. ASSUME NEW e \in Calls, e # c
      PROVE  Unanswered(e)'
  <2>1. e \in DOMAIN purged' <=> e \in DOMAIN purged
    BY <1>2
  <2> QED BY <1>2, <2>1 DEF CallsOK, Unanswered
<1> QED BY <1>1, <1>2 DEF CallsOK

\* The record a call becomes, for each way of moving it.
LEMMA Becomes ==
    ASSUME CallsOK, NEW c \in Calls, NEW answer \in Answers, NEW at \in Places,
           NEW of \in Calls, calls[c].at # "idle"
    PROVE  /\ [calls[c] EXCEPT !.at = at] \in CallType
           /\ [calls[c] EXCEPT !.at = at, !.of = of] \in CallType
           /\ [calls[c] EXCEPT !.at = at, !.answer = answer] \in CallType
           /\ [calls[c] EXCEPT !.at = at, !.answer = answer, !.of = of] \in CallType
BY Begun DEF CallType

\* Ending a call keeps the invariant, however it ends.
LEMMA Ends ==
    ASSUME CallsOK, NEW c \in Calls, NEW answer \in Answers, calls[c].at # "idle",
           End(c, answer), UNCHANGED durable, DOMAIN purged' = DOMAIN purged \ {c}
    PROVE  CallsOK'
<1> DEFINE r == [calls[c] EXCEPT !.at = "done", !.answer = answer]
<1>1. r \in CallType /\ r.at = "done"
  BY Becomes, Begun, Zenon DEF Places
<1>2. calls' = [calls EXCEPT ![c] = r]
  BY DEF End, CallsOK
<1>3. calls'[c].at = "done"
  BY <1>1, <1>2 DEF CallsOK
<1>4. Unanswered(c)'
  BY <1>3 DEF Unanswered
<1>5. DOMAIN purged' \ {c} = DOMAIN purged \ {c}
  OBVIOUS
<1> HIDE DEF r
<1> QED BY <1>1, <1>2, <1>4, <1>5, OneCall, Zenon

\* A call that goes on, answered or not, to a place where that is right.
LEMMA GoesOn ==
    ASSUME CallsOK, NEW c \in Calls, NEW answer \in Answers, NEW at \in Places,
           NEW of \in Calls, calls[c].at # "idle", UNCHANGED durable,
           \/ calls' = [calls EXCEPT ![c].at = at] /\ answer = calls[c].answer
           \/ calls' = [calls EXCEPT ![c].at = at, ![c].of = of] /\ answer = calls[c].answer
           \/ calls' = [calls EXCEPT ![c].at = at, ![c].answer = answer]
           \/ calls' = [calls EXCEPT ![c].at = at, ![c].answer = answer, ![c].of = of],
           at \in {"find", "write"} => answer = "none",
           at = "close" /\ calls[c].operation = "delete" => answer = "none",
           at = "find" => durable /\ calls[c].operation \in {"register", "reregister"},
           at \in {"purge", "commit"} =>
               /\ durable /\ calls[c].operation = "delete"
               /\ answer \in {"none", "ok", "error"},
           DOMAIN purged' = IF at = "commit" THEN DOMAIN purged \cup {c}
                            ELSE DOMAIN purged \ {c},
           at # "get"
    PROVE  CallsOK'
<1> DEFINE r == calls'[c]
<1>1. calls \in [Calls -> CallType] /\ calls' = [calls EXCEPT ![c] = r]
  BY DEF CallsOK
<1>2. \/ r = [calls[c] EXCEPT !.at = at] /\ answer = calls[c].answer
      \/ r = [calls[c] EXCEPT !.at = at, !.of = of] /\ answer = calls[c].answer
      \/ r = [calls[c] EXCEPT !.at = at, !.answer = answer]
      \/ r = [calls[c] EXCEPT !.at = at, !.answer = answer, !.of = of]
  BY <1>1
<1> HIDE DEF r
<1>3. r \in CallType
  BY <1>2, Begun, ZenonT(60) DEF CallType
<1>4. r.at = at /\ r.operation = calls[c].operation /\ r.answer = answer
  BY <1>2, Begun
<1>5. Unanswered(c)'
  BY <1>4 DEF Unanswered, r
<1>6. DOMAIN purged' \ {c} = DOMAIN purged \ {c}
  OBVIOUS
<1> QED BY <1>1, <1>3, <1>5, <1>6, OneCall, Zenon

LEMMA RequestKeeps ==
    ASSUME CallsOK, NEW c \in Calls, NEW operation \in Operations, NEW d \in Devices,
           Request(c, operation, d)
    PROVE  CallsOK'
<1>1. PICK answer \in {"none", "refused"} :
        calls' = [calls EXCEPT ![c] =
             [operation |-> operation, device |-> d, of |-> c, answer |-> answer,
              at |-> IF answer = "none" THEN Entry(operation) ELSE "done"]]
  BY DEF Request
<1> DEFINE r == [operation |-> operation, device |-> d, of |-> c, answer |-> answer,
                 at |-> IF answer = "none" THEN Entry(operation) ELSE "done"]
<1>2. /\ Entry(operation) \in {"get", "find", "write"}
      /\ Entry(operation) = "find" => durable /\ operation = "register"
      /\ Entry(operation) = "get" => operation \in {"reregister", "delete"}
  BY DEF Entry, Operations
<1>3. r \in CallType
  BY <1>2 DEF CallType, Places, Answers
<1>4. calls'[c] = r /\ UNCHANGED <<durable, purged>>
  BY <1>1 DEF CallsOK, Request, journals
<1>5. c \notin DOMAIN purged
  BY DEF Request, Idle, CallsOK, Unanswered
<1>6. Unanswered(c)'
  BY <1>2, <1>4, <1>5 DEF Unanswered
<1> HIDE DEF r
<1>7. calls' = [calls EXCEPT ![c] = r]
  BY <1>1 DEF r
<1> QED BY <1>3, <1>4, <1>6, <1>7, OneCall

LEMMA CallKeeps ==
    ASSUME CallsOK, RowsOK, NEW c \in Calls, Call(c)
    PROVE  CallsOK'
<1> USE DEF Places, Answers
<1>0. ASSUME NEW answer \in Answers, calls[c].at \notin {"idle", "commit"}, End(c, answer),
             UNCHANGED <<durable, purged>>
      PROVE  CallsOK'
  BY <1>0, Steady, Ends, Zenon
<1>1. CASE \E operation \in Operations, d \in Devices : Request(c, operation, d)
  BY <1>1, RequestKeeps
<1>2. CASE Get(c)
  <2>1. calls[c].at = "get" /\ UNCHANGED <<durable, purged>>
    BY <1>2 DEF Get, journals
  <2>2. CASE \E answer \in {"not found", "revoked", "error"} : End(c, answer)
    BY <1>0, <2>1, <2>2
  <2> DEFINE there == DOMAIN purged' = DOMAIN purged \ {c}
  <2>5. there
    BY <2>1, Steady, Zenon
  <2>3. CASE Go(c, "close")
    BY <2>1, <2>3, <2>5, Begun, GoesOn, ZenonT(60) DEF Go, Unanswered
  <2>4. CASE /\ calls[c].operation = "reregister" /\ device(c) \in Registered
             /\ calls' = [calls EXCEPT ![c].at = IF durable THEN "find" ELSE "write",
                                       ![c].of = rows[device(c)].enrolment]
    <3>1. rows[device(c)].enrolment \in Calls
      BY <2>4 DEF RowsOK, Row
    <3>2. calls[c].answer = "none"
      BY <2>1, Begun DEF Unanswered
    <3> QED BY <2>1, <2>4, <2>5, <3>1, <3>2, GoesOn, ZenonT(60)
  <2> QED BY <1>2, <2>2, <2>3, <2>4 DEF Get
<1>3. CASE Find(c)
  <2>1. calls[c].at = "find" /\ UNCHANGED <<durable, purged>> /\ calls[c].answer = "none"
    BY <1>3, Begun DEF Find, Unanswered, journals
  <2>2. CASE \E answer \in {"not found", "exists"} : End(c, answer)
    BY <1>0, <2>1, <2>2
  <2>3. CASE Go(c, "write")
    <3>1. DOMAIN purged' = DOMAIN purged \ {c}
      BY <2>1, Steady, Zenon
    <3> QED BY <2>1, <2>3, <3>1, Begun, GoesOn, Zenon DEF Go
  <2> QED BY <1>3, <2>2, <2>3 DEF Find
<1>4. ASSUME WriteNew(c) \/ WriteKeys(c) \/ WriteRevoked(c)
      PROVE  CallsOK'
  <2>1. /\ calls[c].at = "write" /\ UNCHANGED <<durable, purged>>
        /\ calls[c].operation # "delete"
    BY <1>4 DEF WriteNew, WriteKeys, WriteRevoked, At, journals
  <2>2. DOMAIN purged' = DOMAIN purged \ {c}
    BY <2>1, Steady, Zenon
  <2>3. CASE \E answer \in {"error", "exists", "not found"} : End(c, answer)
    BY <1>0, <2>1, <2>3
  <2>4. ASSUME NEW of \in Calls, NEW at \in {"close", "log"}, Acted(c, of, at)
        PROVE  CallsOK'
    BY <2>1, <2>2, <2>4, GoesOn, ZenonT(60) DEF Acted
  <2>5. CASE Done(c, "ok", "close")
    BY <2>1, <2>2, <2>5, GoesOn, ZenonT(60) DEF Done
  <2>6. device(c) \in Registered => rows[device(c)].enrolment \in Calls
    BY DEF RowsOK, Row
  <2> QED BY <1>4, <2>3, <2>4, <2>5, <2>6 DEF WriteNew, WriteKeys, WriteRevoked
<1>5. CASE WriteGone(c) \/ WriteFails(c) \/ AnswerLost(c)
  <2>1. /\ calls[c].at = "write" /\ UNCHANGED <<durable, purged>>
        /\ \E answer \in {"ok", "error"} : End(c, answer)
    BY <1>5 DEF WriteGone, WriteFails, AnswerLost, At, journals
  <2> QED BY <1>0, <2>1
<1>6. CASE DeleteRow(c)
  <2>1. /\ calls[c].at = "write" /\ calls[c].operation = "delete" /\ durable
        /\ UNCHANGED <<durable, purged>> /\ calls[c].answer = "none"
    BY <1>6, Begun DEF DeleteRow, At, journals, Unanswered
  <2>2. DOMAIN purged' = DOMAIN purged \ {c}
    BY <2>1, Steady, Zenon
  <2>3. CASE Go(c, "purge")
    BY <2>1, <2>2, <2>3, Begun, GoesOn, ZenonT(60) DEF Go
  <2>4. ASSUME NEW answer \in {"ok", "error"}, Done(c, answer, "purge")
        PROVE  CallsOK'
    BY <2>1, <2>2, <2>4, GoesOn, ZenonT(60) DEF Done
  <2> QED BY <1>6, <2>3, <2>4 DEF DeleteRow
<1>7. CASE DeleteJournal(c)
  <2>1. /\ calls[c].at = "purge" /\ Go(c, "commit") /\ UNCHANGED durable
        /\ DOMAIN purged' = DOMAIN purged \cup {c}
    BY <1>7 DEF DeleteJournal
  <2>2. /\ durable /\ calls[c].operation = "delete" /\ calls[c].answer \in Answers
        /\ calls[c].answer \in {"none", "ok", "error"}
    BY <2>1, Begun DEF Unanswered
  <2> QED BY <2>1, <2>2, Begun, GoesOn, ZenonT(60) DEF Go
<1>8. CASE Commit(c) \/ Rollback(c)
  <2>1. /\ calls[c].at \in {"purge", "commit"} /\ UNCHANGED durable
        /\ DOMAIN purged' = DOMAIN purged \ {c}
    BY <1>8 DEF Commit, Rollback, Unpurged
  <2>2. CASE \E answer \in {"ok", "error"} : End(c, answer)
    BY <2>1, <2>2, Ends
  <2>3. CASE Go(c, "done")
    BY <2>1, <2>3, Begun, GoesOn, ZenonT(60) DEF Go
  <2> QED BY <1>8, <2>2, <2>3 DEF Commit, Rollback
<1>9. CASE CloseSession(c) \/ LogEvent(c)
  <2>1. calls[c].at \in {"close", "log"} /\ UNCHANGED <<durable, purged>>
    BY <1>9 DEF CloseSession, LogEvent, WriteOrLose, Write, journals
  <2>2. DOMAIN purged' = DOMAIN purged \ {c}
    BY <2>1, Steady, Zenon
  <2>3. CASE calls[c].at = "close" /\ calls[c].operation = "delete" /\ Go(c, "write")
    BY <2>1, <2>2, <2>3, Begun, GoesOn, ZenonT(60) DEF Go, Unanswered
  <2>4. CASE Go(c, "log") \/ Go(c, "done")
    BY <2>1, <2>2, <2>4, Begun, GoesOn, ZenonT(60) DEF Go
  <2> QED BY <1>9, <2>3, <2>4 DEF CloseSession, LogEvent
<1> QED BY <1>1, <1>2, <1>3, <1>4, <1>5, <1>6, <1>7, <1>8, <1>9 DEF Call

\* A row is written whole, and only the row of the call's own device.
LEMMA RowsKeep ==
    ASSUME CallsOK, RowsOK, NEW c \in Calls, Call(c)
    PROVE  RowsOK'
<1> USE DEF RowsOK, Row, Registered
<1>1. CASE UNCHANGED rows
  BY <1>1
<1>2. CASE \E d \in Devices : rows' = Without(d)
  BY <1>2 DEF Without
<1>3. ASSUME NEW d \in Devices, NEW r \in Row, rows' = With(d, r)
      PROVE  RowsOK'
  BY <1>3 DEF With
<1>4. [enrolment |-> c, keys |-> c, revoked |-> FALSE] \in Row
  OBVIOUS
<1>5. ASSUME NEW d \in Registered
      PROVE  Rekeyed(c, d) \in Row /\ [rows[d] EXCEPT !.revoked = TRUE] \in Row
  BY DEF Rekeyed
<1>6. CASE WriteNew(c)
  <2>1. device(c) \in Devices
    BY <1>6, Begun DEF WriteNew, At
  <2> QED BY <1>1, <1>3, <1>4, <1>6, <2>1 DEF WriteNew
<1>7. CASE WriteKeys(c)
  <2>1. device(c) \in Devices
    BY <1>7, Begun DEF WriteKeys, At
  <2> QED BY <1>1, <1>3, <1>5, <1>7, <2>1 DEF WriteKeys
<1>8. CASE WriteRevoked(c)
  <2>1. device(c) \in Devices
    BY <1>8, Begun DEF WriteRevoked, At
  <2> QED BY <1>1, <1>3, <1>5, <1>8, <2>1 DEF WriteRevoked
<1>9. CASE WriteGone(c) \/ Commit(c)
  <2>1. device(c) \in Devices
    BY <1>9, Begun DEF WriteGone, Commit, At
  <2> QED BY <1>1, <1>2, <1>9, <2>1 DEF WriteGone, Commit
<1>10. CASE AnswerLost(c)
  <2>1. device(c) \in Devices
    BY <1>10, Begun DEF AnswerLost
  <2> QED BY <1>3, <1>4, <1>5, <1>10, <2>1 DEF AnswerLost
<1>11. CASE \/ \E operation \in Operations, d \in Devices : Request(c, operation, d)
            \/ Get(c) \/ Find(c) \/ DeleteRow(c) \/ DeleteJournal(c) \/ Rollback(c)
            \/ WriteFails(c) \/ CloseSession(c) \/ LogEvent(c)
  BY <1>1, <1>11 DEF Request, Get, Find, DeleteRow, DeleteJournal, Rollback, WriteFails,
     CloseSession, LogEvent
<1> QED BY <1>6, <1>7, <1>8, <1>9, <1>10, <1>11 DEF Call

\* A restart ends every call where it is, and the devices touch no call.
LEMMA OthersKeep ==
    ASSUME CallsOK, RowsOK, Crash \/ (\E d \in Devices : Device(d)) \/ UNCHANGED vars
    PROVE  CallsOK' /\ RowsOK'
<1>1. CASE (\E d \in Devices : Device(d)) \/ UNCHANGED vars
  <2>1. UNCHANGED <<durable, rows, calls, purged>>
    BY <1>1 DEF Device, Admit, Take, Record, Leave, WriteOrLose, Write, vars, journals
  <2> QED BY <2>1 DEF CallsOK, RowsOK, Unanswered, Registered
<1>2. CASE Crash
  <2>1. RowsOK'
    BY <1>2 DEF Crash, RowsOK, Registered
  <2>2. ASSUME NEW c \in Calls
        PROVE  calls'[c] \in CallType /\ Unanswered(c)'
    <3>0. c \notin DOMAIN purged'
      BY <1>2 DEF Crash
    <3>1. CASE calls[c] = Idle
      <4>1. calls'[c] = Idle
        BY <1>2, <3>1 DEF Crash
      <4> QED BY <3>0, <4>1 DEF CallType, Unanswered, Idle
    <3>2. CASE calls[c] # Idle
      <4>1. calls[c].at # "idle"
        BY <3>2 DEF CallsOK, CallType, Places
      <4>2. calls'[c] = [calls[c] EXCEPT !.at = "done"]
        BY <1>2, <3>2 DEF Crash
      <4>3. calls'[c] \in CallType /\ calls'[c].at = "done"
        BY <4>1, <4>2, Begun DEF CallType, Places
      <4> QED BY <3>0, <4>3 DEF Unanswered
    <3> QED BY <3>1, <3>2
  <2>3. calls' \in [Calls -> CallType] /\ durable' \in BOOLEAN
    BY <1>2, <2>2 DEF Crash, CallsOK
  <2> QED BY <2>1, <2>2, <2>3 DEF CallsOK
<1> QED BY <1>1, <1>2

\* A handler is of an enrolment the registry had when it was admitted.
LEMMA HandlersKeep ==
    ASSUME RowsOK, HandlersOK, [Next]_vars
    PROVE  HandlersOK'
<1> USE DEF HandlersOK, Handler
<1>1. CASE UNCHANGED <<handlers, nextID, purged, taken, crashes>>
  BY <1>1
<1>2. ASSUME NEW d, NEW of, NEW kind, WriteOrLose(d, of, kind)
      PROVE  nextID' \in Nat /\ purged' = purged
  BY <1>2 DEF WriteOrLose, Write, journals
<1>3. ASSUME NEW c \in Calls, Call(c)
      PROVE  HandlersOK'
  <2>1. CASE CloseSession(c)
    BY <2>1 DEF CloseSession, Closed, journals
  <2>2. CASE LogEvent(c)
    BY <1>2, <2>2 DEF LogEvent
  <2>3. CASE WriteGone(c) \/ DeleteJournal(c) \/ Commit(c) \/ Rollback(c)
    BY <2>3 DEF WriteGone, DeleteJournal, Commit, Rollback, Unpurged, Forget
  <2>4. CASE \/ \E operation \in Operations, d \in Devices : Request(c, operation, d)
             \/ Get(c) \/ Find(c) \/ WriteNew(c) \/ WriteKeys(c) \/ WriteRevoked(c)
             \/ DeleteRow(c) \/ WriteFails(c) \/ AnswerLost(c)
    BY <1>1, <2>4 DEF Request, Get, Find, WriteNew, WriteKeys, WriteRevoked, DeleteRow,
       WriteFails, AnswerLost, journals
  <2> QED BY <1>3, <2>1, <2>2, <2>3, <2>4 DEF Call
<1>4. ASSUME NEW d \in Devices, Device(d)
      PROVE  HandlersOK'
  <2>1. CASE Admit(d)
    <3>1. rows[d].enrolment \in Calls
      BY <2>1 DEF Admit, RowsOK, Row
    <3> QED BY <2>1, <3>1 DEF Admit, journals
  <2>2. CASE Take(d) \/ Leave(d)
    BY <2>2 DEF Take, Leave, journals
  <2>3. CASE Record(d)
    <3>1. nextID' \in Nat /\ purged' = purged
      BY <1>2, <2>3 DEF Record
    <3> QED BY <2>3, <3>1 DEF Record
  <2> QED BY <1>4, <2>1, <2>2, <2>3 DEF Device
<1>5. CASE Crash
  BY <1>5 DEF Crash, journals
<1>6. CASE UNCHANGED vars
  BY <1>1, <1>6 DEF vars, journals
<1> QED BY <1>3, <1>4, <1>5, <1>6 DEF Next

\* A step of c leaves all other locks as they are; so it is enough that it locks
\* a row that is there and free, and takes away none that another has locked.
LEMMA LocksMove ==
    ASSUME CallsOK, LocksHeld, NEW c \in Calls, NEW r, calls' = [calls EXCEPT ![c] = r],
           \A d \in Devices : c \in Deleting(d)' => d \in Registered' /\ Deleting(d) \subseteq {c},
           \A d \in Devices : Deleting(d) \ {c} # {} => d \in Registered'
    PROVE  LocksHeld'
<1>1. calls'[c] = r /\ \A e \in Calls : e # c => calls'[e] = calls[e]
  BY DEF CallsOK
<1>2. \A d \in Devices : Deleting(d)' \ {c} = Deleting(d) \ {c}
  BY <1>1 DEF Deleting, device
<1>3. ASSUME NEW d \in Devices, NEW e \in Deleting(d)'
      PROVE  d \in Registered' /\ Deleting(d)' = {e}
  <2>1. CASE c \in Deleting(d)'
    <3>1. Deleting(d)' = {c}
      BY <1>2, <2>1
    <3> QED BY <1>3, <2>1, <3>1
  <2>2. CASE c \notin Deleting(d)'
    <3>1. e \in Deleting(d) /\ e # c
      BY <1>2, <1>3, <2>2
    <3>2. Deleting(d) = {e}
      BY <3>1 DEF LocksHeld
    <3> QED BY <1>2, <2>2, <3>1, <3>2
  <2> QED BY <2>1, <2>2
<1> QED BY <1>3 DEF LocksHeld

\* The locks of the rows, which no other call's change gets past.
LEMMA LocksKeep ==
    ASSUME CallsOK, RowsOK, LocksHeld, NEW c \in Calls, Call(c)
    PROVE  LocksHeld'
<1> DEFINE r == calls'[c]
<1>1. calls' = [calls EXCEPT ![c] = r]
  BY DEF Call, Request, Get, Find, WriteNew, WriteKeys, WriteRevoked, WriteGone, DeleteRow,
     DeleteJournal, Commit, Rollback, WriteFails, AnswerLost, CloseSession, LogEvent,
     Go, End, Done, Acted, CallsOK
<1> HIDE DEF r
<1>2. \A d \in Devices : Deleting(d) # {} => d \in Registered
  BY DEF LocksHeld
<1>3. \A d \in Devices : c \in Deleting(d)' =>
           r.at \in {"purge", "commit"} /\ r.device = d /\ r.answer = "none"
  BY DEF Deleting, device, r
<1>4. ASSUME r.at \notin {"purge", "commit"} \/ r.answer # "none",
             Registered \subseteq Registered'
      PROVE  LocksHeld'
  BY <1>1, <1>2, <1>3, <1>4, LocksMove
<1>5. CASE calls[c].at = "idle"
  <2>1. PICK operation \in Operations, d \in Devices : Request(c, operation, d)
    BY <1>5 DEF Call, Get, Find, WriteNew, WriteKeys, WriteRevoked, WriteGone, DeleteRow,
       DeleteJournal, Commit, Rollback, WriteFails, AnswerLost, CloseSession, LogEvent, At
  <2>2. r.at \in {"get", "find", "write", "done"}
    BY <2>1 DEF Request, Entry, CallsOK, r
  <2>3. Registered' = Registered
    BY <2>1 DEF Request, Registered
  <2> QED BY <1>4, <2>2, <2>3
<1>6. CASE calls[c].at # "idle"
  <2>1. /\ calls[c] \in [operation : Operations, device : Devices, of : Calls,
                         answer : Answers, at : Places]
        /\ calls \in [Calls -> CallType] /\ Unanswered(c)
    BY <1>6, Begun DEF CallsOK
  <2>2. /\ \A at : Go(c, at) => r = [calls[c] EXCEPT !.at = at]
        /\ \A answer : End(c, answer) => r.at = "done"
        /\ \A answer, at : Done(c, answer, at) =>
               r.at = at /\ r.answer = answer
    BY <2>1 DEF Go, End, Done, r
  <2>20. ASSUME NEW of, NEW at, Acted(c, of, at)
         PROVE  r.at = at
    <3>1. r = [calls[c] EXCEPT !.at = at, !.answer = "ok", !.of = of]
      BY <2>1, <2>20 DEF Acted, r
    <3> QED BY <2>1, <3>1
  <2>3. CASE \/ \E operation \in Operations, d \in Devices : Request(c, operation, d)
             \/ Get(c) \/ Find(c) \/ WriteFails(c) \/ CloseSession(c) \/ LogEvent(c)
             \/ Rollback(c)
    <3>1. Registered' = Registered
      BY <2>3 DEF Request, Get, Find, WriteFails, CloseSession, LogEvent, Rollback, Registered
    <3>2. ASSUME Get(c)
          PROVE  r.at \in {"done", "close", "find", "write"}
      <4>1. CASE \E answer \in Answers : End(c, answer)
        BY <2>2, <4>1
      <4>2. CASE Go(c, "close")
        BY <2>1, <2>2, <4>2
      <4>3. CASE calls' = [calls EXCEPT ![c].at = IF durable THEN "find" ELSE "write",
                                        ![c].of = rows[device(c)].enrolment]
        <5>1. r = [calls[c] EXCEPT !.at = IF durable THEN "find" ELSE "write",
                                   !.of = rows[device(c)].enrolment]
          BY <2>1, <4>3 DEF r
        <5> QED BY <2>1, <5>1
      <4> QED BY <3>2, <4>1, <4>2, <4>3 DEF Get, Answers
    <3>3. ASSUME \/ Find(c) \/ WriteFails(c) \/ CloseSession(c) \/ LogEvent(c)
                 \/ Rollback(c)
          PROVE  r.at \in {"done", "write", "log"}
      <4>1. CASE \E answer \in Answers : End(c, answer)
        BY <2>2, <4>1
      <4>2. CASE \E at \in {"done", "write", "log"} : Go(c, at)
        BY <2>1, <2>2, <4>2
      <4> QED BY <3>3, <4>1, <4>2
              DEF Find, WriteFails, CloseSession, LogEvent, Rollback, Answers
    <3>4. ~ \E operation \in Operations, d \in Devices : Request(c, operation, d)
      BY <1>6 DEF Request, Idle
    <3>5. r.at \notin {"purge", "commit"}
      BY <2>3, <3>2, <3>3, <3>4
    <3> QED BY <1>4, <3>1, <3>5
  <2>4. CASE WriteNew(c) \/ WriteKeys(c) \/ WriteRevoked(c) \/ AnswerLost(c)
    <3>1. Registered \subseteq Registered'
      BY <2>4 DEF WriteNew, WriteKeys, WriteRevoked, AnswerLost, With, Registered
    <3>2. r.at \in {"close", "log", "done"}
      <4>1. CASE \E answer \in Answers : End(c, answer)
        BY <2>2, <4>1
      <4>2. CASE \E of, at : at \in {"close", "log"} /\ Acted(c, of, at)
        BY <2>20, <4>2
      <4>3. CASE Done(c, "ok", "close")
        BY <2>2, <4>3
      <4> QED BY <2>4, <4>1, <4>2, <4>3
              DEF WriteNew, WriteKeys, WriteRevoked, AnswerLost, Answers
    <3> QED BY <1>4, <3>1, <3>2
  <2>5. CASE WriteGone(c)
    <3>1. \A d \in Devices : Deleting(d) = {}
      BY <2>5 DEF WriteGone, Deleting, CallsOK, Unanswered
    <3>2. r.at = "done"
      BY <2>2, <2>5 DEF WriteGone
    <3> QED BY <1>1, <1>3, <3>1, <3>2, LocksMove
  <2>6. CASE DeleteRow(c)
    <3>1. Registered' = Registered /\ ~Locked(device(c))
      BY <2>6 DEF DeleteRow, Registered
    <3>2. CASE device(c) \in Registered
      <4>1. r.device = device(c)
        BY <2>1, <2>2, <2>6, <3>2 DEF DeleteRow, device
      <4> QED BY <1>1, <1>2, <1>3, <3>1, <3>2, <4>1, LocksMove DEF Locked
    <3>3. CASE device(c) \notin Registered
      <4>1. r.answer # "none"
        BY <2>2, <2>6, <3>3 DEF DeleteRow
      <4> QED BY <1>4, <3>1, <4>1
    <3> QED BY <3>2, <3>3
  <2>7. CASE DeleteJournal(c)
    <3>1. Registered' = Registered /\ calls[c].at = "purge"
          /\ r.device = calls[c].device /\ r.answer = calls[c].answer
      BY <2>1, <2>2, <2>7 DEF DeleteJournal, Registered
    <3>2. \A d \in Devices : c \in Deleting(d)' => c \in Deleting(d)
      BY <1>3, <3>1 DEF Deleting, device
    <3>3. \A d \in Devices : c \in Deleting(d) => Deleting(d) = {c}
      BY DEF LocksHeld
    <3> QED BY <1>1, <1>2, <3>1, <3>2, <3>3, LocksMove
  <2>8. CASE Commit(c)
    <3>1. r.at = "done" /\ calls[c].at = "commit"
      BY <2>1, <2>2, <2>8 DEF Commit
    <3>2. CASE calls[c].answer # "none"
      <4>1. Registered' = Registered
        BY <2>8, <3>2 DEF Commit, Registered
      <4> QED BY <1>4, <3>1, <4>1
    <3>3. CASE calls[c].answer = "none"
      <4>1. Registered' = Registered \ {device(c)}
        BY <2>8, <3>3 DEF Commit, Without, Registered
      <4>2. device(c) \in Devices /\ c \in Deleting(device(c))
        BY <2>1, <3>1, <3>3 DEF Deleting, device
      <4>3. Deleting(device(c)) = {c}
        BY <4>2 DEF LocksHeld
      <4> QED BY <1>1, <1>2, <1>3, <3>1, <4>1, <4>3, LocksMove
    <3> QED BY <3>2, <3>3
  <2> QED BY <2>3, <2>4, <2>5, <2>6, <2>7, <2>8 DEF Call
<1> QED BY <1>5, <1>6

\* A restart lets go of them all, and the devices touch none.
LEMMA OthersKeepLocks ==
    ASSUME CallsOK, LocksHeld, Crash \/ (\E d \in Devices : Device(d)) \/ UNCHANGED vars
    PROVE  LocksHeld'
<1>1. CASE (\E d \in Devices : Device(d)) \/ UNCHANGED vars
  <2>1. UNCHANGED <<rows, calls>>
    BY <1>1 DEF Device, Admit, Take, Record, Leave, vars
  <2> QED BY <2>1 DEF LocksHeld, Deleting, device, Registered
<1>2. CASE Crash
  <2>1. ASSUME NEW c \in Calls
        PROVE  calls'[c].at \in {"idle", "done"}
    <3>1. CASE calls[c] = Idle
      BY <1>2, <3>1 DEF Crash, Idle
    <3>2. CASE calls[c] # Idle
      <4>1. calls[c].at # "idle"
        BY <3>2 DEF CallsOK, CallType, Places
      <4>2. calls'[c] = [calls[c] EXCEPT !.at = "done"]
        BY <1>2, <3>2 DEF Crash
      <4> QED BY <4>1, <4>2, Begun
    <3> QED BY <3>1, <3>2
  <2> QED BY <2>1 DEF LocksHeld, Deleting
<1> QED BY <1>1, <1>2

\* Whatever the calls, at every step: one answer each, and rows that are rows.
THEOREM CallsCorrect == Spec => []CallsInv
<1>1. Init => CallsOK /\ RowsOK /\ HandlersOK /\ LocksHeld
  BY DEF Init, CallsOK, RowsOK, HandlersOK, CallType, Registered, Unanswered, Idle,
     LocksHeld, Deleting
<1>2. CallsOK /\ RowsOK /\ HandlersOK /\ LocksHeld /\ [Next]_vars
        => (CallsOK /\ RowsOK /\ HandlersOK /\ LocksHeld)'
  BY CallKeeps, RowsKeep, OthersKeep, HandlersKeep, LocksKeep,
     OthersKeepLocks DEF Next
<1>3. CallsOK /\ RowsOK /\ HandlersOK /\ LocksHeld => CallsInv
  BY DEF CallsOK, RowsOK, HandlersOK, CallsInv, TypeOK
<1> QED BY <1>1, <1>2, <1>3, PTL DEF Spec
-----------------------------------------------------------------------------
(* The refinement.                                                         *)

\* A call's step is a step of DeviceStore or leaves what that is about alone.
LEMMA CallRefines ==
    ASSUME CallsOK, RowsOK, NEW c \in Calls, Call(c)
    PROVE  Store!RegistryNext \/ UNCHANGED <<durable, rows, asked, answers>>
<1> USE DEF Answers, Places
<1>0. /\ answers = [e \in Calls |-> calls[e].answer]
      /\ asked = [e \in Calls |-> Asked(e)]
  BY DEF answers, asked
<1>1. CASE \E operation \in Operations, d \in Devices : Request(c, operation, d)
  <2>1. PICK operation \in Operations, d \in Devices, answer \in {"none", "refused"}, at \in Places :
            /\ calls' = [calls EXCEPT ![c] =
                 [operation |-> operation, device |-> d, of |-> c, answer |-> answer,
                  at |-> at]]
            /\ UNCHANGED <<durable, rows>> /\ calls[c] = Idle
    <3>1. PICK operation \in Operations, d \in Devices : Request(c, operation, d)
      BY <1>1
    <3>2. PICK answer \in {"none", "refused"} :
            calls' = [calls EXCEPT ![c] =
                 [operation |-> operation, device |-> d, of |-> c, answer |-> answer,
                  at |-> IF answer = "none" THEN Entry(operation) ELSE "done"]]
      BY <3>1 DEF Request
    <3>3. (IF answer = "none" THEN Entry(operation) ELSE "done") \in Places
      BY DEF Entry
    <3> QED BY <3>1, <3>2, <3>3 DEF Request
  <2> DEFINE r == [operation |-> operation, device |-> d, of |-> c, answer |-> answer,
                   at |-> at]
             q == [operation |-> operation, device |-> d]
  <2>2. calls'[c] = r /\ \A e \in Calls : e # c => calls'[e] = calls[e]
    BY <2>1 DEF CallsOK
  <2>3. r # Idle /\ r.operation = operation /\ r.device = d /\ r.answer = answer
    BY <2>1 DEF Idle
  <2> HIDE DEF r
  <2>4. answers' = [answers EXCEPT ![c] = answer]
    BY <2>2, <2>3 DEF answers
  <2>5. Asked(c)' = q /\ \A e \in Calls : e # c => Asked(e)' = Asked(e)
    BY <2>2, <2>3 DEF Asked
  <2>6. q \in Store!Requests /\ asked[c] = Store!Unasked
    BY <2>1, <1>0 DEF Store!Requests, Store!Operations, Operations, Asked, Store!Unasked
  <2> HIDE DEF q
  <2>7. asked' = [asked EXCEPT ![c] = q]
    BY <2>5 DEF asked
  <2>8. Store!Ask(c)
    BY <2>1, <2>4, <2>6, <2>7 DEF Store!Ask, answers, asked
  <2> QED BY <2>8 DEF Store!RegistryNext
<1>2. ASSUME calls[c].at # "idle"
      PROVE  /\ answers[c] = calls[c].answer /\ device(c) \in Devices /\ Unanswered(c)
             /\ asked[c] # Store!Unasked
             /\ asked[c].operation = calls[c].operation /\ asked[c].device = device(c)
             /\ \A at \in Places : Go(c, at) => UNCHANGED <<asked, answers>>
             /\ \A answer \in Answers :
                  End(c, answer) =>
                      answers' = [answers EXCEPT ![c] = answer] /\ asked' = asked
  <2>1. answers[c] = calls[c].answer /\ device(c) \in Devices /\ Unanswered(c)
        /\ calls[c].operation \in Operations
    BY <1>2, Begun DEF answers
  <2>2. ASSUME NEW at \in Places, Go(c, at)
        PROVE  UNCHANGED <<asked, answers>>
    BY <1>2, <2>2, Moves, SameRequest
  <2>3. ASSUME NEW answer \in Answers, End(c, answer)
        PROVE  answers' = [answers EXCEPT ![c] = answer] /\ asked' = asked
    BY <1>2, <2>3, Moves, SameRequest
  <2>4. asked[c] = [operation |-> calls[c].operation, device |-> calls[c].device]
    BY <1>2 DEF asked, Asked, Idle
  <2>5. asked[c].operation = calls[c].operation /\ asked[c].device = device(c)
    BY <2>4 DEF device
  <2>6. asked[c] # Store!Unasked
    BY <2>1, <2>5 DEF Store!Unasked, Operations
  <2> QED BY <2>1, <2>2, <2>3, <2>5, <2>6
<1>3. ASSUME NEW answer \in {"exists", "not found", "revoked"}, End(c, answer),
             calls[c].at \in {"get", "find", "write"}, UNCHANGED <<durable, rows>>,
             answer = "exists" => calls[c].operation = "register" /\ device(c) \in Registered,
             answer = "not found" =>
                 calls[c].operation # "register" /\ device(c) \notin Registered,
             answer = "revoked" => /\ calls[c].operation = "reregister"
                                   /\ device(c) \in Registered /\ rows[device(c)].revoked
      PROVE  Store!RegistryNext
  <2>1. Store!Answer(c, answer)
    BY <1>2, <1>3 DEF Unanswered, Store!Answer, answers, asked
  <2>2. Store!Refused(c)
    BY <1>2, <1>3, <2>1 DEF Store!Refused, Store!Registered, Registered, asked
  <2> QED BY <2>2 DEF Store!RegistryNext
<1>4. ASSUME End(c, "error"), durable, calls[c].answer = "none",
             calls[c].at \in {"get", "find", "write", "commit"}, UNCHANGED durable,
             UNCHANGED rows \/ Store!Change(c)
      PROVE  Store!RegistryNext
  <2>1. Store!Answer(c, "error")
    BY <1>2, <1>4 DEF Store!Answer, answers, asked
  <2>2. Store!Failed(c)
    BY <1>4, <2>1 DEF Store!Failed
  <2> QED BY <2>2 DEF Store!RegistryNext
<1>5. ASSUME answers' = [answers EXCEPT ![c] = "ok"], asked' = asked, Store!Change(c),
             calls[c].answer = "none", calls[c].at \in {"write", "commit"}, UNCHANGED durable
      PROVE  Store!RegistryNext
  <2>1. Store!Answer(c, "ok")
    BY <1>2, <1>5 DEF Store!Answer, answers, asked
  <2>2. Store!Granted(c)
    BY <1>5, <2>1 DEF Store!Granted
  <2> QED BY <2>2 DEF Store!RegistryNext
<1>50. ASSUME calls[c].at \in {"write", "commit"}
       PROVE  /\ calls[c].operation = "register" /\ Store!Enrol(c, device(c)) => Store!Change(c)
              /\ calls[c].operation = "reregister" /\ Store!Rekey(c, device(c)) => Store!Change(c)
              /\ calls[c].operation = "revoke" /\ Store!Revoke(device(c)) => Store!Change(c)
              /\ calls[c].operation = "delete" /\ Store!Remove(device(c)) => Store!Change(c)
  <2>1. asked[c].operation = calls[c].operation /\ asked[c].device = device(c)
    BY <1>2, <1>50
  <2> QED BY <2>1 DEF Store!Change, asked
<1>6. CASE Get(c)
  <2>1. calls[c].at = "get" /\ UNCHANGED <<durable, rows>>
    BY <1>6 DEF Get
  <2>2. CASE Go(c, "close")
    BY <1>2, <2>1, <2>2
  <2>3. CASE calls' = [calls EXCEPT ![c].at = IF durable THEN "find" ELSE "write",
                                    ![c].of = rows[device(c)].enrolment]
    <3>1. calls[c] \in [operation : Operations, device : Devices, of : Calls,
                        answer : Answers, at : Places] /\ calls \in [Calls -> CallType]
      BY <2>1, Begun DEF CallsOK
    <3>2. answers' = answers
      BY <2>3, <3>1 DEF answers
    <3>3. asked' = asked
      BY <2>1, <2>3, SameRequest
    <3> QED BY <2>1, <3>2, <3>3
  <2>4. CASE durable /\ End(c, "error")
    BY <1>2, <1>4, <2>1, <2>4 DEF Unanswered
  <2>5. calls[c].operation \in {"reregister", "delete"}
    BY <1>2, <2>1 DEF Unanswered
  <2>6. CASE device(c) \notin Registered /\ End(c, "not found")
    BY <1>3, <2>1, <2>5, <2>6
  <2>7. CASE /\ device(c) \in Registered /\ calls[c].operation = "reregister"
             /\ rows[device(c)].revoked /\ End(c, "revoked")
    BY <1>3, <2>1, <2>7
  <2> QED BY <1>6, <2>2, <2>3, <2>4, <2>6, <2>7 DEF Get
<1>7. CASE Find(c)
  <2>1. calls[c].at = "find" /\ durable /\ UNCHANGED <<durable, rows>>
        /\ calls[c].answer = "none" /\ answers[c] = "none"
    BY <1>2, <1>7 DEF Find, Unanswered
  <2>2. CASE Go(c, "write")
    BY <1>2, <2>1, <2>2
  <2>3. CASE /\ calls[c].operation = "register" /\ device(c) \in Registered
             /\ End(c, "exists")
    BY <1>3, <2>1, <2>3
  <2>4. CASE calls[c].operation = "reregister" /\ End(c, "not found")
    <3>1. CASE device(c) \in Registered
      <4>1. Store!Answer(c, "not found")
        BY <1>2, <2>1, <2>4 DEF Store!Answer, answers, asked
      <4>2. Store!Misreported(c)
        BY <1>2, <2>1, <2>4, <3>1, <4>1
           DEF Store!Misreported, Store!Registered, Registered, asked
      <4> QED BY <4>2 DEF Store!RegistryNext
    <3>2. CASE device(c) \notin Registered
      BY <1>3, <2>1, <2>4, <3>2
    <3> QED BY <3>1, <3>2
  <2> QED BY <1>7, <2>2, <2>3, <2>4 DEF Find
<1>8. CASE WriteNew(c)
  <2>1. /\ calls[c].at = "write" /\ calls[c].operation = "register" /\ UNCHANGED durable
        /\ calls[c].answer = "none"
    BY <1>2, <1>8 DEF WriteNew, At, Unanswered
  <2>2. CASE Free(device(c))
    <3>1. answers' = [answers EXCEPT ![c] = "ok"] /\ asked' = asked
      BY <1>8, <2>1, <2>2, Moves, SameRequest DEF WriteNew
    <3>2. Store!Enrol(c, device(c))
      BY <1>8, <2>2 DEF WriteNew, Free, With, Registered,
         Store!Enrol, Store!With, Store!Registered
    <3> QED BY <1>5, <1>50, <2>1, <3>1, <3>2
  <2>3. CASE ~Free(device(c))
    <3>1. UNCHANGED rows /\ End(c, IF durable THEN "error" ELSE "exists")
      BY <1>8, <2>3 DEF WriteNew
    <3> QED BY <1>3, <1>4, <2>1, <2>3, <3>1 DEF Free
  <2> QED BY <2>2, <2>3
<1>9. CASE WriteKeys(c)
  <2>1. /\ calls[c].at = "write" /\ calls[c].operation = "reregister" /\ UNCHANGED durable
        /\ calls[c].answer = "none" /\ answers[c] = "none"
    BY <1>2, <1>9 DEF WriteKeys, At, Unanswered
  <2>2. CASE device(c) \in Registered
    <3>1. rows[device(c)].enrolment \in Calls
      BY <2>2 DEF RowsOK, Row
    <3>2. answers' = [answers EXCEPT ![c] = "ok"] /\ asked' = asked
      BY <1>9, <2>1, <2>2, <3>1, Moves, SameRequest DEF WriteKeys
    <3>3. Store!Rekey(c, device(c))
      BY <1>9, <2>2 DEF WriteKeys, With, Rekeyed, Registered,
         Store!Rekey, Store!With, Store!Registered
    <3> QED BY <1>5, <1>50, <2>1, <3>2, <3>3
  <2>3. CASE device(c) \notin Registered /\ ~durable
    BY <1>3, <1>9, <2>1, <2>3 DEF WriteKeys
  <2>4. CASE device(c) \notin Registered /\ durable
    <3>1. UNCHANGED rows /\ Done(c, "ok", "close")
      BY <1>9, <2>4 DEF WriteKeys
    <3>2. answers' = [answers EXCEPT ![c] = "ok"] /\ asked' = asked
      BY <2>1, <3>1, Moves, SameRequest
    <3>3. Store!Answer(c, "ok")
      BY <1>2, <2>1, <3>2 DEF Store!Answer, answers, asked
    <3>4. Store!Overtaken(c)
      BY <1>2, <2>1, <2>4, <3>1, <3>3
         DEF Store!Overtaken, Store!Registered, Registered, asked
    <3> QED BY <3>4 DEF Store!RegistryNext
  <2> QED BY <2>2, <2>3, <2>4 DEF CallsOK
<1>10. CASE WriteRevoked(c)
  <2>1. /\ calls[c].at = "write" /\ calls[c].operation = "revoke" /\ UNCHANGED durable
        /\ calls[c].answer = "none"
    BY <1>2, <1>10 DEF WriteRevoked, At, Unanswered
  <2>2. CASE device(c) \in Registered
    <3>1. rows[device(c)].enrolment \in Calls
      BY <2>2 DEF RowsOK, Row
    <3>2. answers' = [answers EXCEPT ![c] = "ok"] /\ asked' = asked
      BY <1>10, <2>1, <2>2, <3>1, Moves, SameRequest DEF WriteRevoked
    <3>3. Store!Revoke(device(c))
      BY <1>10, <2>2 DEF WriteRevoked, With, Registered,
         Store!Revoke, Store!With, Store!Registered
    <3> QED BY <1>5, <1>50, <2>1, <3>2, <3>3
  <2>3. CASE device(c) \notin Registered
    BY <1>3, <1>10, <2>1, <2>3 DEF WriteRevoked
  <2> QED BY <2>2, <2>3
<1>11. CASE WriteGone(c)
  <2>1. /\ calls[c].at = "write" /\ calls[c].operation = "delete" /\ UNCHANGED durable
        /\ End(c, "ok") /\ calls[c].answer = "none"
    BY <1>2, <1>11 DEF WriteGone, At, Unanswered
  <2>2. Store!Remove(device(c))
    BY <1>11 DEF WriteGone, Without, Registered, Store!Remove, Store!Without, Store!Registered
  <2> QED BY <1>2, <1>5, <1>50, <2>1, <2>2
<1>12. CASE DeleteRow(c)
  <2>1. /\ calls[c].at = "write" /\ calls[c].operation = "delete" /\ durable
        /\ UNCHANGED <<durable, rows>> /\ calls[c].answer = "none"
    BY <1>2, <1>12 DEF DeleteRow, At, Unanswered
  <2>2. CASE device(c) \in Registered
    BY <1>2, <1>12, <2>1, <2>2 DEF DeleteRow
  <2>3. CASE device(c) \notin Registered
    <3>1. PICK answer \in {"ok", "error"} : Done(c, answer, "purge")
      BY <1>12, <2>3 DEF DeleteRow
    <3>2. answers' = [answers EXCEPT ![c] = answer] /\ asked' = asked
      BY <2>1, <3>1, Moves, SameRequest
    <3>3. CASE answer = "error"
      <4>1. Store!Answer(c, "error")
        BY <1>2, <2>1, <3>2, <3>3 DEF Store!Answer, answers, asked
      <4>2. Store!Failed(c)
        BY <2>1, <4>1 DEF Store!Failed
      <4> QED BY <4>2 DEF Store!RegistryNext
    <3>4. CASE answer = "ok"
      <4>1. Store!Remove(device(c))
        <5>1. rows = Without(device(c))
          BY <2>3 DEF RowsOK, Registered, Without
        <5> QED BY <2>1, <5>1 DEF Without, Registered, Store!Remove, Store!Without,
                   Store!Registered
      <4> QED BY <1>5, <1>50, <2>1, <3>2, <3>4, <4>1
    <3> QED BY <3>3, <3>4
  <2> QED BY <2>2, <2>3
<1>13. CASE DeleteJournal(c) \/ CloseSession(c) \/ LogEvent(c)
  BY <1>2, <1>13 DEF DeleteJournal, CloseSession, LogEvent
<1>14. CASE Commit(c)
  <2>1. /\ calls[c].at = "commit" /\ calls[c].operation = "delete" /\ durable
        /\ UNCHANGED durable
    BY <1>2, <1>14 DEF Commit, Unanswered
  <2>2. CASE calls[c].answer # "none"
    BY <1>2, <1>14, <2>1, <2>2 DEF Commit
  <2>3. CASE calls[c].answer = "none"
    <3>1. Store!Remove(device(c))
      BY <1>14, <2>3 DEF Commit, Without, Registered, Store!Remove, Store!Without,
         Store!Registered
    <3>2. Store!Change(c)
      BY <1>50, <2>1, <3>1
    <3>3. CASE End(c, "ok")
      BY <1>2, <1>5, <2>1, <2>3, <3>2, <3>3
    <3>4. CASE End(c, "error")
      BY <1>4, <2>1, <2>3, <3>2, <3>4
    <3> QED BY <1>14, <2>3, <3>3, <3>4 DEF Commit
  <2> QED BY <2>2, <2>3
<1>15. CASE Rollback(c)
  <2>1. /\ calls[c].at \in {"purge", "commit"} /\ durable /\ UNCHANGED <<durable, rows>>
        /\ End(c, "error") /\ calls[c].answer \in {"none", "error"}
        /\ answers[c] = calls[c].answer
    BY <1>2, <1>15 DEF Rollback, Unanswered
  <2>2. answers' = [answers EXCEPT ![c] = "error"] /\ asked' = asked
    BY <1>2, <2>1
  <2>3. CASE calls[c].answer = "error"
    <3>1. answers' = answers
      BY <2>1, <2>2, <2>3 DEF answers
    <3> QED BY <2>1, <2>2, <3>1
  <2>4. CASE calls[c].answer = "none"
    <3>1. Store!Answer(c, "error")
      BY <1>2, <2>1, <2>2, <2>4 DEF Store!Answer, answers, asked
    <3>2. Store!Failed(c)
      BY <2>1, <3>1 DEF Store!Failed
    <3> QED BY <3>2 DEF Store!RegistryNext
  <2> QED BY <2>1, <2>3, <2>4
<1>16. CASE WriteFails(c)
  BY <1>2, <1>4, <1>16 DEF WriteFails, Unanswered
<1>17. CASE AnswerLost(c)
  <2>1. /\ calls[c].at = "write" /\ durable /\ UNCHANGED durable /\ End(c, "error")
        /\ calls[c].answer = "none"
    BY <1>2, <1>17 DEF AnswerLost, Unanswered
  <2>2. Store!Change(c)
    <3>1. CASE /\ calls[c].operation = "register" /\ Free(device(c))
               /\ rows' = With(device(c), [enrolment |-> c, keys |-> c, revoked |-> FALSE])
      <4>1. Store!Enrol(c, device(c))
        BY <3>1 DEF Free, With, Registered, Store!Enrol, Store!With, Store!Registered
      <4> QED BY <1>50, <2>1, <3>1, <4>1
    <3>2. CASE /\ calls[c].operation = "revoke" /\ device(c) \in Registered
               /\ rows' = With(device(c), [rows[device(c)] EXCEPT !.revoked = TRUE])
      <4>1. Store!Revoke(device(c))
        BY <3>2 DEF With, Registered, Store!Revoke, Store!With, Store!Registered
      <4> QED BY <1>50, <2>1, <3>2, <4>1
    <3>3. CASE /\ calls[c].operation = "reregister" /\ device(c) \in Registered
               /\ rows' = With(device(c), Rekeyed(c, device(c)))
      <4>1. Store!Rekey(c, device(c))
        BY <3>3 DEF Rekeyed, With, Registered, Store!Rekey, Store!With, Store!Registered
      <4> QED BY <1>50, <2>1, <3>3, <4>1
    <3> QED BY <1>17, <3>1, <3>2, <3>3 DEF AnswerLost
  <2> QED BY <1>4, <2>1, <2>2
<1> QED BY <1>1, <1>6, <1>7, <1>8, <1>9, <1>10, <1>11, <1>12, <1>13, <1>14, <1>15,
           <1>16, <1>17 DEF Call

\* Of the other steps only a restart changes a row: all of them, in memory.
LEMMA OthersRefine ==
    ASSUME CallsOK, Crash \/ (\E d \in Devices : Device(d)) \/ UNCHANGED vars
    PROVE  Store!RegistryNext \/ UNCHANGED <<durable, rows, asked, answers>>
<1>1. CASE (\E d \in Devices : Device(d)) \/ UNCHANGED vars
  BY <1>1 DEF Device, Admit, Take, Record, Leave, vars, answers, asked, Asked
<1>2. CASE Crash
  <2>1. ASSUME NEW c \in Calls
        PROVE  calls'[c].answer = calls[c].answer /\ Asked(c)' = Asked(c)
    <3>1. CASE calls[c] = Idle
      BY <1>2, <3>1 DEF Crash, Asked
    <3>2. CASE calls[c] # Idle
      <4>1. calls[c].at # "idle"
        BY <3>2 DEF CallsOK, CallType, Places
      <4>2. calls'[c] = [calls[c] EXCEPT !.at = "done"]
        BY <1>2, <3>2 DEF Crash
      <4>3. /\ calls'[c].answer = calls[c].answer /\ calls'[c].at = "done"
            /\ calls'[c].operation = calls[c].operation
            /\ calls'[c].device = calls[c].device
        BY <4>1, <4>2, Begun
      <4> QED BY <3>2, <4>3 DEF Asked, Idle
    <3> QED BY <3>1, <3>2
  <2>2. answers' = answers /\ asked' = asked
    BY <2>1 DEF answers, asked
  <2>3. CASE durable
    BY <1>2, <2>2, <2>3 DEF Crash
  <2>4. CASE ~durable
    <3>1. Store!Lost
      BY <1>2, <2>2, <2>4 DEF Crash, Store!Lost, answers, asked
    <3> QED BY <3>1 DEF Store!RegistryNext
  <2> QED BY <2>3, <2>4
<1> QED BY <1>1, <1>2

\* Through both stores, whatever calls race, fail or are cut off by a restart,
\* the registry is one whose every call takes effect at one instant, as it was
\* asked, and is answered truly but for the two answers DeviceStore names.
THEOREM RegistryRefined == Spec => ImplementsDeviceStore
<1>1. Init => Store!RegistryInit
  BY DEF Init, Idle, Asked, Store!RegistryInit, Store!Unasked
<1>2. CallsInv => CallsOK /\ RowsOK
  BY DEF CallsInv, TypeOK, CallsOK, RowsOK
<1>3. CallsOK /\ RowsOK /\ [Next]_vars => [Store!RegistryNext]_Store!registryVars
  BY CallRefines, OthersRefine DEF Next, Store!registryVars, answers, asked
<1> QED BY <1>1, <1>2, <1>3, CallsCorrect, PTL DEF Spec, ImplementsDeviceStore, Store!RegistrySpec
-----------------------------------------------------------------------------
(* The journal: a set of entries, ordered by their identifiers.            *)

Journal(J) ==
    /\ IsFiniteSet(J)
    /\ \A e \in J : e.id \in Nat
    /\ \A e, f \in J : e.id = f.id => e = f

\* As many entries as there are identifiers for.
LEMMA Room ==
    ASSUME NEW J, Journal(J), NEW low \in Nat, NEW high \in Nat, low <= high,
           \A e \in J : low < e.id /\ e.id <= high
    PROVE  Cardinality(J) <= high - low
<1> DEFINE f == [e \in J |-> e.id]
<1>1. IsFiniteSet((low + 1)..high) /\ Cardinality((low + 1)..high) = high - low
  <2>1. low + 1 \in Int /\ high \in Int
    OBVIOUS
  <2>2. /\ IsFiniteSet((low + 1)..high)
        /\ Cardinality((low + 1)..high) = IF low + 1 > high THEN 0 ELSE high - (low + 1) + 1
    BY ONLY <2>1, FS_Interval, Zenon
  <2> QED BY <2>2
<1>2. f \in Injection(J, (low + 1)..high)
  BY DEF Journal, Injection, IsInjective
<1> HIDE DEF f
<1>3. Cardinality(J) <= Cardinality((low + 1)..high)
  BY <1>1, <1>2, FS_Injection
<1> QED BY <1>1, <1>3

\* Of a journal that is not empty one entry is the oldest.
LEMMA Oldest ==
    ASSUME NEW J, Journal(J), NEW R \in SUBSET J, R # {}
    PROVE  \E e \in R : \A g \in R : e.id <= g.id
<1> DEFINE Upto(e) == {g \in J : g.id <= e.id}
           T == {Upto(e) : e \in R}
<1>1. IsWellFoundedOn(StrictSubsetOrdering(J), FiniteSubsetsOf(J))
  BY FS_StrictSubsetOrderingWellFounded
<1>2. T \subseteq FiniteSubsetsOf(J) /\ T # {}
  <2>1. ASSUME NEW e \in R
        PROVE  Upto(e) \in SUBSET J /\ IsFiniteSet(Upto(e))
    BY FS_Subset DEF Journal
  <2> QED BY <2>1 DEF FiniteSubsetsOf
<1>3. \E x \in T : \A y \in T : ~ (<<y, x>> \in StrictSubsetOrdering(J))
  <2> HIDE DEF T
  <2> QED BY <1>1, <1>2, WFMin, Zenon
<1>4. PICK e \in R : \A y \in T : ~ (<<y, Upto(e)>> \in StrictSubsetOrdering(J))
  BY <1>3
<1>5. ASSUME NEW g \in R, ~(e.id <= g.id)
      PROVE  FALSE
  <2>1. e.id \in Nat /\ g.id \in Nat /\ g.id < e.id
    BY <1>5 DEF Journal
  <2>2. Upto(g) \subseteq Upto(e)
    BY <2>1 DEF Journal
  <2>3. e \in Upto(e) /\ e \notin Upto(g)
    BY <2>1
  <2>4. Upto(g) \in T /\ Upto(g) \in SUBSET J /\ Upto(e) \in SUBSET J
    OBVIOUS
  <2>5. <<Upto(g), Upto(e)>> \in StrictSubsetOrdering(J)
    BY <2>2, <2>3, <2>4 DEF StrictSubsetOrdering
  <2> QED BY <1>4, <2>4, <2>5
<1> QED BY <1>5

\* What trimOldest returns: nothing that was not there, not too much of it, and
\* all that is newer than anything it keeps; and it drops what is old enough.
LEMMA TrimOldest ==
    ASSUME NEW J, Journal(J), NEW last \in Nat, \A e \in J : e.id <= last
    PROVE  LET R == trimOldest(J)
           IN  /\ R \subseteq J /\ Cardinality(R) <= Limit + Slack
               /\ \A e \in J \ R : e.id + Limit <= last /\ Newer(R, e) = R
<1>1. CASE Cardinality(J) <= Limit + Slack
  BY <1>1 DEF trimOldest
<1>2. CASE ~(Cardinality(J) <= Limit + Slack)
  <2> DEFINE R == {e \in J : Cardinality(Newer(J, e)) < Limit}
  <2>0. Limit \in Nat /\ Slack \in Nat
    BY RegistryAssumption
  <2>1. trimOldest(J) = R
    BY <1>2 DEF trimOldest
  <2>2. ASSUME NEW e \in J
        PROVE  /\ Newer(J, e) \in SUBSET J /\ Journal(Newer(J, e))
               /\ Cardinality(Newer(J, e)) \in Nat
    <3>1. Newer(J, e) \in SUBSET J
      BY DEF Newer
    <3>2. IsFiniteSet(Newer(J, e))
      BY <3>1, FS_Subset DEF Journal
    <3>3. Journal(Newer(J, e))
      BY <3>1, <3>2 DEF Journal
    <3> QED BY <3>1, <3>2, <3>3, FS_CardinalityType
  <2>3. ASSUME NEW e \in J \ R
        PROVE  e.id + Limit <= last
    <3>1. e.id \in Nat /\ e.id <= last
      BY DEF Journal
    <3>2. \A g \in Newer(J, e) : e.id < g.id /\ g.id <= last
      BY <3>1 DEF Newer, Journal
    <3>3. Cardinality(Newer(J, e)) <= last - e.id
      BY <2>2, <3>1, <3>2, Room
    <3>4. ~(Cardinality(Newer(J, e)) < Limit)
      OBVIOUS
    <3> QED BY <2>0, <2>2, <3>1, <3>3, <3>4
  <2>4. ASSUME NEW e \in J \ R, NEW g \in R
        PROVE  g.id > e.id
    <3>1. SUFFICES ASSUME ~(g.id > e.id)
                   PROVE  FALSE
      OBVIOUS
    <3>2. Newer(J, e) \subseteq Newer(J, g)
      BY <3>1 DEF Newer, Journal
    <3>3. Cardinality(Newer(J, e)) <= Cardinality(Newer(J, g))
      BY <2>2, <3>2, FS_Subset DEF Journal
    <3> QED BY <2>0, <2>2, <3>3
  <2>5. Cardinality(R) <= Limit
    <3>1. CASE R = {}
      BY <2>0, <3>1, FS_EmptySet
    <3>2. CASE R # {}
      <4>1. PICK e \in R : \A g \in R : e.id <= g.id
        BY <3>2, Oldest
      <4>2. R \subseteq Newer(J, e) \cup {e}
        BY <4>1 DEF Newer, Journal
      <4>3. /\ IsFiniteSet(Newer(J, e) \cup {e})
            /\ Cardinality(Newer(J, e) \cup {e}) <= Cardinality(Newer(J, e)) + 1
        <5>1. IsFiniteSet(Newer(J, e))
          BY <2>2 DEF Journal
        <5>2. /\ IsFiniteSet(Newer(J, e) \cup {e})
              /\ Cardinality(Newer(J, e) \cup {e})
                   = IF e \in Newer(J, e) THEN Cardinality(Newer(J, e))
                     ELSE Cardinality(Newer(J, e)) + 1
          BY <5>1, FS_AddElement, Zenon
        <5>3. Cardinality(Newer(J, e)) \in Nat
          BY <2>2, <4>1
        <5> QED BY <5>2, <5>3
      <4>4. Cardinality(Newer(J, e) \cup {e}) <= Limit
        <5>1. Cardinality(Newer(J, e)) < Limit
          BY <4>1
        <5>2. Cardinality(Newer(J, e) \cup {e}) \in Nat
          BY <4>3, FS_CardinalityType
        <5> QED BY <2>0, <2>2, <4>3, <5>1, <5>2
      <4> HIDE DEF R
      <4>5. /\ Cardinality(R) <= Cardinality(Newer(J, e) \cup {e})
            /\ Cardinality(R) \in Nat
        BY <4>2, <4>3, FS_Subset, FS_CardinalityType
      <4> QED BY <2>0, <4>3, <4>4, <4>5, FS_CardinalityType
    <3> QED BY <3>1, <3>2
  <2>6. Cardinality(R) <= Limit + Slack
    <3>1. IsFiniteSet(R)
      BY FS_Subset DEF Journal
    <3> HIDE DEF R
    <3> QED BY <2>0, <2>5, <3>1, FS_CardinalityType
  <2> QED BY <2>1, <2>3, <2>4, <2>6 DEF Newer
<1> QED BY <1>1, <1>2

\* A part of a journal is one.
LEMMA Part ==
    ASSUME NEW J, Journal(J), NEW R \in SUBSET J
    PROVE  Journal(R) /\ Cardinality(R) \in Nat /\ Cardinality(R) <= Cardinality(J)
<1>1. IsFiniteSet(J)
  BY DEF Journal
<1>2. IsFiniteSet(R) /\ Cardinality(R) <= Cardinality(J)
  BY <1>1, FS_Subset
<1> QED BY <1>2, FS_CardinalityType DEF Journal

\* What is inductive: the identifiers tell the entries apart and none is newer
\* than the last given out.
JournalOK ==
    /\ durable \in BOOLEAN /\ nextID \in Nat
    /\ Journal(kept) /\ \A e \in kept : e.id <= nextID
    /\ JournalKeepsNewest

LEMMA WriteKeepsJournal ==
    ASSUME JournalOK, NEW d, NEW of, NEW kind, WriteOrLose(d, of, kind), UNCHANGED durable
    PROVE  JournalOK'
<1>1. CASE UNCHANGED journals
  BY <1>1 DEF JournalOK, JournalKeepsNewest, journals
<1>2. CASE Write(d, of, kind)
  <2> DEFINE n == [id |-> nextID + 1, device |-> d, of |-> of, kind |-> kind,
                   late |-> ~Current(d, of) \/ TooLateFor(d) # {}]
             J == journal \cup {n}
  <2>0. n.id = nextID + 1
    OBVIOUS
  <2>1. /\ nextID' = nextID + 1 /\ kept' = kept \cup {n}
        /\ journal' = IF durable THEN journal \cup {n}
                      ELSE trimOldest(journal \cup {n})
    BY <1>2, Zenon DEF Write
  <2> HIDE DEF n
  <2>2. /\ nextID \in Nat /\ nextID' \in Nat /\ n.id = nextID' /\ durable' = durable
        /\ Limit \in Nat
    BY <2>0, <2>1, RegistryAssumption DEF JournalOK
  <2>3. Journal(kept') /\ \A e \in kept' : e.id <= nextID'
    <3>1. IsFiniteSet(kept')
      BY <2>1, FS_AddElement DEF JournalOK, Journal
    <3> QED BY <2>1, <2>2, <3>1 DEF JournalOK, Journal
  <2>4. Journal(J) /\ J \subseteq kept' /\ \A e \in J : e.id <= nextID'
    <3>1. J \subseteq kept'
      BY <2>1 DEF JournalOK, JournalKeepsNewest
    <3> HIDE DEF J
    <3> QED BY <2>3, <3>1, Part
  <2>5. CASE durable
    <3>1. journal' = kept'
      BY <2>1, <2>5 DEF JournalOK, JournalKeepsNewest
    <3> QED BY <2>2, <2>3, <2>5, <3>1 DEF JournalOK, JournalKeepsNewest
  <2>6. CASE ~durable
    <3>1. journal' = trimOldest(J)
      BY <2>1, <2>6
    <3> HIDE DEF J
    <3>2. /\ journal' \subseteq J /\ Cardinality(journal') <= Limit + Slack
          /\ \A e \in J \ journal' : e.id + Limit <= nextID' /\ Newer(journal', e) = journal'
      BY <2>2, <2>4, <3>1, TrimOldest
    <3>3. ASSUME NEW e \in kept' \ journal'
          PROVE  e.id + Limit <= nextID' /\ Newer(journal', e) = journal'
      <4>1. CASE e \in J
        BY <3>2, <4>1
      <4>2. CASE e \notin J
        <5>1. e \in kept \ journal
          BY <2>1, <4>2 DEF J
        <5>2. e.id \in Nat /\ e.id + Limit <= nextID /\ Newer(journal, e) = journal
          BY <5>1 DEF JournalOK, JournalKeepsNewest, Journal
        <5>3. \A g \in journal : g.id > e.id
          BY <5>2 DEF Newer
        <5>4. \A g \in J : g.id > e.id
          BY <2>2, <5>2, <5>3, <2>1 DEF J
        <5>5. Newer(journal', e) = journal'
          BY <3>2, <5>4 DEF Newer
        <5>6. e.id + Limit <= nextID'
          BY <2>1, <2>2, <5>2
        <5> QED BY <5>5, <5>6
      <4> QED BY <4>1, <4>2
    <3> QED BY <2>2, <2>3, <2>4, <2>6, <3>2, <3>3 DEF JournalOK, JournalKeepsNewest
  <2> QED BY <2>5, <2>6 DEF JournalOK
<1> QED BY <1>1, <1>2 DEF WriteOrLose

LEMMA ForgetKeepsJournal ==
    ASSUME JournalOK, NEW d, NEW last, Forget(d, last), UNCHANGED durable
    PROVE  JournalOK'
<1>1. /\ journal' = {e \in journal : e.device # d \/ e.id > last}
      /\ kept' = {e \in kept : e.device # d \/ e.id > last}
      /\ nextID' = nextID /\ journal \subseteq kept /\ Journal(kept)
  BY DEF Forget, JournalOK, JournalKeepsNewest
<1>2. Journal(kept') /\ \A e \in kept' : e.id <= nextID'
  <2>1. kept' \in SUBSET kept
    BY <1>1
  <2> QED BY <1>1, <2>1, Part DEF JournalOK
<1>3. \A e \in kept' \ journal' : e.id + Limit <= nextID' /\ Newer(journal', e) = journal'
  BY <1>1 DEF JournalOK, JournalKeepsNewest, Newer
<1>4. IF durable' THEN journal' = kept' ELSE Cardinality(journal') <= Limit + Slack
  <2>1. CASE durable
    BY <1>1, <2>1 DEF JournalOK, JournalKeepsNewest
  <2>2. CASE ~durable
    <3>1. /\ Cardinality(journal') <= Cardinality(journal)
          /\ {Cardinality(journal'), Cardinality(journal)} \subseteq Nat
      <4>1. Journal(journal) /\ Cardinality(journal) \in Nat
        BY <1>1, Part
      <4> QED BY <1>1, <4>1, Part
    <3>2. Cardinality(journal) <= Limit + Slack
      BY <2>2 DEF JournalOK, JournalKeepsNewest
    <3> QED BY <2>2, <3>1, <3>2, RegistryAssumption
  <2> QED BY <2>1, <2>2
<1> QED BY <1>1, <1>2, <1>3, <1>4 DEF JournalOK, JournalKeepsNewest

LEMMA JournalKeeps ==
    ASSUME JournalOK, [Next]_vars
    PROVE  JournalOK'
<1>1. CASE UNCHANGED <<durable, journal, kept, nextID>>
  BY <1>1 DEF JournalOK, JournalKeepsNewest
<1>2. ASSUME NEW c \in Calls, Call(c)
      PROVE  JournalOK'
  <2>1. CASE LogEvent(c)
    BY <2>1, WriteKeepsJournal DEF LogEvent
  <2>2. CASE WriteGone(c) \/ Commit(c)
    <3>1. UNCHANGED durable /\ \E last : Forget(device(c), last)
      BY <2>2 DEF WriteGone, Commit
    <3> QED BY <3>1, ForgetKeepsJournal
  <2>3. CASE \/ \E operation \in Operations, d \in Devices : Request(c, operation, d)
             \/ Get(c) \/ Find(c) \/ WriteNew(c) \/ WriteKeys(c) \/ WriteRevoked(c)
             \/ DeleteRow(c) \/ DeleteJournal(c) \/ Rollback(c)
             \/ WriteFails(c) \/ AnswerLost(c) \/ CloseSession(c)
    BY <1>1, <2>3 DEF Request, Get, Find, WriteNew, WriteKeys, WriteRevoked, DeleteRow,
       DeleteJournal, Rollback, WriteFails, AnswerLost, CloseSession, journals
  <2> QED BY <1>2, <2>1, <2>2, <2>3 DEF Call
<1>3. ASSUME NEW d \in Devices, Device(d)
      PROVE  JournalOK'
  BY <1>1, <1>3, WriteKeepsJournal DEF Device, Admit, Take, Record, Leave, journals
<1>4. CASE Crash
  <2>1. CASE durable
    BY <1>1, <1>4, <2>1 DEF Crash
  <2>2. CASE ~durable
    <3>1. journal' = {} /\ kept' = {} /\ nextID' = 0 /\ durable' = durable
      BY <1>4, <2>2 DEF Crash
    <3>2. Journal({}) /\ Cardinality({}) = 0
      BY FS_EmptySet DEF Journal
    <3> QED BY <2>2, <3>1, <3>2, RegistryAssumption DEF JournalOK, JournalKeepsNewest
  <2> QED BY <2>1, <2>2
<1>5. CASE UNCHANGED vars
  BY <1>1, <1>5 DEF vars, journals
<1> QED BY <1>2, <1>3, <1>4, <1>5 DEF Next

LEMMA JournalAlways == Spec => []JournalOK
<1>1. Init => JournalOK
  <2>1. Journal({}) /\ Cardinality({}) = 0
    BY FS_EmptySet DEF Journal
  <2> QED BY <2>1, RegistryAssumption DEF Init, JournalOK, JournalKeepsNewest
<1>2. JournalOK /\ [Next]_vars => JournalOK'
  BY JournalKeeps
<1> QED BY <1>1, <1>2, PTL DEF Spec

\* Whatever Limit and Slack are, and however often the journal is trimmed: it
\* loses its oldest entries only, never one of the last Limit written, and in
\* memory never outgrows the slack (trimOldest).
THEOREM JournalCorrect == Spec => []JournalKeepsNewest
<1>1. JournalOK => JournalKeepsNewest
  BY DEF JournalOK
<1> QED BY <1>1, JournalAlways, PTL
-----------------------------------------------------------------------------
(* What the journal says of enrolments that are over.                      *)

\* What a deletion past its journal statement will leave of its device is late.
CutOK(c) ==
    calls[c].at = "commit" /\ calls[c].answer = "none" =>
        \A e \in journal : e.device = device(c) /\ e.id > purged[c] => e.late

OrphansOK == OrphansAreLate /\ \A c \in Calls : CutOK(c)

\* An entry written says whether its enrolment was over, or being deleted.
LEMMA WriteKeepsOrphans ==
    ASSUME OrphansOK, NEW d, NEW of, NEW kind, WriteOrLose(d, of, kind), UNCHANGED rows,
           \A c \in Calls : calls'[c].at = "commit" => calls'[c] = calls[c]
    PROVE  OrphansOK'
<1>1. UNCHANGED Registered /\ \A e, o : Current(e, o)' <=> Current(e, o)
  BY DEF Registered, Current
<1>2. CASE UNCHANGED journals
  <2>1. OrphansAreLate'
    BY <1>1, <1>2 DEF OrphansOK, OrphansAreLate, journals
  <2>2. \A c \in Calls : CutOK(c)'
    BY <1>2 DEF OrphansOK, CutOK, journals, device
  <2> QED BY <2>1, <2>2 DEF OrphansOK
<1>3. CASE Write(d, of, kind)
  <2> DEFINE n == [id |-> nextID + 1, device |-> d, of |-> of, kind |-> kind,
                   late |-> ~Current(d, of) \/ TooLateFor(d) # {}]
  <2>1. journal' = journal \cup {n} \/ journal' = trimOldest(journal \cup {n})
    BY <1>3, Zenon DEF Write
  <2>2. journal' \subseteq journal \cup {n} /\ purged' = purged
    BY <1>3, <2>1 DEF trimOldest, Write
  <2>3. /\ n.late \/ Current(n.device, n.of)
        /\ n.device = d /\ (TooLateFor(d) # {} => n.late)
    OBVIOUS
  <2> HIDE DEF n
  <2>4. OrphansAreLate'
    BY <1>1, <2>2, <2>3 DEF OrphansOK, OrphansAreLate
  <2>5. ASSUME NEW c \in Calls
        PROVE  CutOK(c)'
    <3>1. SUFFICES ASSUME calls'[c].at = "commit", calls'[c].answer = "none",
                          NEW e \in journal', e.device = device(c)', e.id > purged'[c]
                   PROVE  e.late
      BY DEF CutOK
    <3>2. calls[c].at = "commit" /\ calls[c].answer = "none" /\ device(c)' = device(c)
      BY <3>1 DEF device
    <3>3. CASE e \in journal
      BY <2>2, <3>1, <3>2, <3>3 DEF OrphansOK, CutOK
    <3>4. CASE e = n
      <4>1. c \in TooLateFor(d)
        BY <2>3, <3>1, <3>2, <3>4 DEF TooLateFor, Deleting
      <4> QED BY <2>3, <3>4, <4>1
    <3> QED BY <2>2, <3>3, <3>4
  <2> QED BY <2>4, <2>5 DEF OrphansOK
<1> QED BY <1>2, <1>3 DEF WriteOrLose

\* A row written anew continues the enrolment it had; if it had none, every
\* entry of its device is late already.
LEMMA RowKeepsOrphans ==
    ASSUME OrphansAreLate, NEW d, NEW r, rows' = With(d, r), UNCHANGED journals,
           d \in Registered => r.enrolment = rows[d].enrolment
    PROVE  OrphansAreLate'
<1>1. ASSUME NEW e, NEW of, Current(e, of)
      PROVE  Current(e, of)'
  BY <1>1 DEF With, Current, Registered
<1> QED BY <1>1 DEF OrphansAreLate, journals

\* Delete takes a row with every entry of its device, but for late ones.
LEMMA DeleteKeepsOrphans ==
    ASSUME OrphansAreLate, NEW d, NEW last, rows' = Without(d), Forget(d, last),
           \A e \in journal : e.device = d /\ e.id > last => e.late
    PROVE  OrphansAreLate'
<1>1. ASSUME NEW e, NEW of, e # d, Current(e, of)
      PROVE  Current(e, of)'
  BY <1>1 DEF Current, Registered, Without
<1> QED BY <1>1 DEF OrphansAreLate, Forget

\* A step of c, which is not past its journal statement after it, leaves what
\* the others will leave.
LEMMA CutsKeep ==
    ASSUME CallsOK, CallsOK', OrphansOK, NEW c \in Calls, NEW r,
           calls' = [calls EXCEPT ![c] = r], journal' \subseteq journal,
           \/ UNCHANGED purged /\ calls[c].at # "commit"
           \/ Unpurged(c)
    PROVE  \A e \in Calls : CutOK(e)'
<1>1. \A e \in Calls : e # c => calls'[e] = calls[e]
  BY DEF CallsOK
<1>2. /\ c \notin DOMAIN purged'
      /\ \A e \in DOMAIN purged : e # c => purged'[e] = purged[e]
  BY DEF Unpurged, CallsOK, Unanswered
<1>3. calls'[c].at # "commit"
  BY <1>2 DEF CallsOK, Unanswered
<1>4. ASSUME NEW e \in Calls, e # c
      PROVE  CutOK(e)'
  <2>1. calls[e].at = "commit" => e \in DOMAIN purged
    BY DEF CallsOK, Unanswered
  <2> QED BY <1>1, <1>2, <1>4, <2>1 DEF OrphansOK, CutOK, device
<1>5. CutOK(c)'
  BY <1>3 DEF CutOK
<1> QED BY <1>4, <1>5

LEMMA OrphansKeep ==
    ASSUME CallsOK, CallsOK', RowsOK, JournalOK, OrphansOK, [Next]_vars
    PROVE  OrphansOK'
<1>1. ASSUME UNCHANGED <<rows, journal>>
      PROVE  OrphansAreLate'
  BY <1>1 DEF OrphansOK, OrphansAreLate, Current, Registered
<1>2. ASSUME NEW c \in Calls, NEW d \in Registered
      PROVE  /\ Rekeyed(c, d).enrolment = rows[d].enrolment
             /\ [rows[d] EXCEPT !.revoked = TRUE].enrolment = rows[d].enrolment
  BY DEF RowsOK, Row, Rekeyed
<1>3. \A e \in journal : e.id \in Nat /\ ~(e.id > nextID)
  BY DEF JournalOK, JournalKeepsNewest, Journal
<1>4. ASSUME NEW c \in Calls, Call(c)
      PROVE  OrphansOK'
  <2> DEFINE r == calls'[c]
  <2>0. calls' = [calls EXCEPT ![c] = r]
    BY <1>4 DEF Call, Request, Get, Find, WriteNew, WriteKeys, WriteRevoked, WriteGone,
       DeleteRow, DeleteJournal, Commit, Rollback, WriteFails, AnswerLost, CloseSession,
       LogEvent, Go, End, Done, Acted, CallsOK
  <2> HIDE DEF r
  <2>1. ASSUME OrphansAreLate', journal' \subseteq journal,
               \/ UNCHANGED purged /\ calls[c].at # "commit"
               \/ Unpurged(c)
        PROVE  OrphansOK'
    BY <2>0, <2>1, CutsKeep DEF OrphansOK
  <2>2. CASE WriteNew(c) \/ WriteKeys(c) \/ WriteRevoked(c) \/ AnswerLost(c)
    <3>1. UNCHANGED journals /\ calls[c].at = "write"
      BY <2>2 DEF WriteNew, WriteKeys, WriteRevoked, AnswerLost, At
    <3>3. CASE /\ Free(device(c))
               /\ rows' = With(device(c), [enrolment |-> c, keys |-> c, revoked |-> FALSE])
      <4>1. OrphansAreLate'
        BY <3>1, <3>3, RowKeepsOrphans DEF Free, OrphansOK
      <4> QED BY <2>1, <3>1, <4>1 DEF journals
    <3>4. CASE /\ device(c) \in Registered
               /\ \/ rows' = With(device(c), [rows[device(c)] EXCEPT !.revoked = TRUE])
                  \/ rows' = With(device(c), Rekeyed(c, device(c)))
      <4>1. OrphansAreLate'
        BY <1>2, <3>1, <3>4, RowKeepsOrphans DEF OrphansOK
      <4> QED BY <2>1, <3>1, <4>1 DEF journals
    <3>2. CASE UNCHANGED rows
      <4>1. OrphansAreLate'
        BY <3>1, <3>2 DEF OrphansOK, OrphansAreLate, Current, Registered, journals
      <4> QED BY <2>1, <3>1, <4>1 DEF journals
    <3> QED BY <2>2, <3>2, <3>3, <3>4 DEF WriteNew, WriteKeys, WriteRevoked, AnswerLost
  <2>3. CASE WriteGone(c)
    <3>1. OrphansAreLate'
      BY <1>3, <2>3, DeleteKeepsOrphans DEF WriteGone, OrphansOK
    <3>2. journal' \subseteq journal /\ UNCHANGED purged /\ calls[c].at = "write"
      BY <2>3 DEF WriteGone, Forget, At
    <3> QED BY <2>1, <3>1, <3>2
  <2>4. CASE DeleteJournal(c)
    <3>1. /\ UNCHANGED <<rows, journal>>
          /\ purged' = [e \in DOMAIN purged \cup {c} |-> IF e = c THEN nextID ELSE purged[e]]
      BY <2>4 DEF DeleteJournal
    <3>2. \A e \in Calls : e # c => calls'[e] = calls[e]
      BY <2>0 DEF CallsOK
    <3>3. ASSUME NEW e \in Calls, e # c
          PROVE  CutOK(e)'
      <4>1. calls[e].at = "commit" => e \in DOMAIN purged
        BY DEF CallsOK, Unanswered
      <4> QED BY <3>1, <3>2, <3>3, <4>1 DEF OrphansOK, CutOK, device
    <3>4. CutOK(c)'
      BY <1>3, <3>1 DEF CutOK
    <3> QED BY <1>1, <3>1, <3>3, <3>4 DEF OrphansOK
  <2>5. CASE Commit(c)
    <3>1. /\ Forget(device(c), purged[c]) /\ Unpurged(c) /\ calls[c].at = "commit"
          /\ journal' \subseteq journal
      BY <2>5 DEF Commit, Forget
    <3>2. CASE calls[c].answer = "none"
      <4>1. rows' = Without(device(c))
        BY <2>5, <3>2 DEF Commit
      <4>2. OrphansAreLate'
        BY <3>1, <3>2, <4>1, DeleteKeepsOrphans DEF OrphansOK, CutOK
      <4> QED BY <2>1, <3>1, <4>2
    <3>3. CASE calls[c].answer # "none"
      <4>1. UNCHANGED rows
        BY <2>5, <3>3 DEF Commit
      <4>2. OrphansAreLate'
        BY <3>1, <4>1 DEF OrphansOK, OrphansAreLate, Current, Registered
      <4> QED BY <2>1, <3>1, <4>2
    <3> QED BY <3>2, <3>3
  <2>6. CASE Rollback(c)
    <3>1. UNCHANGED <<rows, journal>> /\ Unpurged(c)
      BY <2>6 DEF Rollback
    <3>2. OrphansAreLate'
      BY <3>1 DEF OrphansOK, OrphansAreLate, Current, Registered
    <3> QED BY <2>1, <3>1, <3>2
  <2>7. CASE LogEvent(c)
    <3>1. calls'[c].at = "done" /\ \A e \in Calls : e # c => calls'[e] = calls[e]
      BY <2>7, Begun DEF LogEvent, Go, CallsOK
    <3> QED BY <2>7, <3>1, WriteKeepsOrphans DEF LogEvent
  <2>8. CASE \/ \E operation \in Operations, d \in Devices : Request(c, operation, d)
             \/ Get(c) \/ Find(c) \/ DeleteRow(c) \/ WriteFails(c) \/ CloseSession(c)
    <3>1. UNCHANGED <<rows, journals>>
      BY <2>8 DEF Request, Get, Find, DeleteRow, WriteFails, CloseSession
    <3>2. calls[c] = Idle \/ calls[c].at \in {"get", "find", "write", "close"}
      BY <2>8 DEF Request, Get, Find, DeleteRow, WriteFails, CloseSession, At
    <3>3. calls[c].at # "commit"
      BY <3>2 DEF Idle
    <3>4. OrphansAreLate'
      BY <1>1, <3>1 DEF journals
    <3> QED BY <2>1, <3>1, <3>3, <3>4 DEF journals
  <2> QED BY <1>4, <2>2, <2>3, <2>4, <2>5, <2>6, <2>7, <2>8 DEF Call
<1>5. ASSUME NEW d \in Devices, Device(d)
      PROVE  OrphansOK'
  <2>1. CASE Record(d)
    BY <2>1, WriteKeepsOrphans DEF Record
  <2>2. CASE Admit(d) \/ Take(d) \/ Leave(d)
    <3>1. UNCHANGED <<rows, calls, journals>>
      BY <2>2 DEF Admit, Take, Leave
    <3> QED BY <3>1 DEF OrphansOK, OrphansAreLate, CutOK, device, Current, Registered, journals
  <2> QED BY <1>5, <2>1, <2>2 DEF Device
<1>6. CASE Crash
  <2>1. OrphansAreLate'
    BY <1>6 DEF Crash, OrphansOK, OrphansAreLate, Current, Registered
  <2>2. \A c \in Calls : calls'[c].at # "commit"
    BY <1>6 DEF Crash, CallsOK, Unanswered
  <2> QED BY <2>1, <2>2 DEF OrphansOK, CutOK
<1>7. CASE UNCHANGED vars
  BY <1>7 DEF vars, OrphansOK, OrphansAreLate, CutOK, device, Current, Registered, journals
<1> QED BY <1>4, <1>5, <1>6, <1>7 DEF Next

\* Whatever calls, packets, failures and restarts interleave: a deletion leaves
\* of its device only what was written after it, or in the database after its
\* statement on the journal (Delete, DeleteDevice).
THEOREM OrphansCorrect == Spec => []OrphansAreLate
<1>1. Init => OrphansOK
  BY DEF Init, OrphansOK, OrphansAreLate, CutOK, Idle
<1>2. CallsInv => CallsOK /\ RowsOK
  BY DEF CallsInv, TypeOK, CallsOK, RowsOK
<1>3. /\ CallsOK /\ CallsOK' /\ RowsOK /\ JournalOK /\ OrphansOK /\ [Next]_vars
      => OrphansOK'
  BY OrphansKeep
<1>4. OrphansOK => OrphansAreLate
  BY DEF OrphansOK
<1> QED BY <1>1, <1>2, <1>3, <1>4, CallsCorrect, JournalAlways, PTL DEF Spec
-----------------------------------------------------------------------------
(* The queries.                                                            *)

\* Induction up to n, on the set of those for which a claim holds.
LEMMA Upward ==
    ASSUME NEW n \in Nat, NEW P, 0 \in P, \A i \in 1..n : i - 1 \in P => i \in P
    PROVE  0..n \subseteq P
<1> SUFFICES ASSUME NEW m \in 0..n, m \notin P
             PROVE  FALSE
  OBVIOUS
<1> DEFINE T == {i \in 0..n : i \notin P}
<1>1. T \subseteq Nat /\ T # {}
  OBVIOUS
<1> HIDE DEF T
<1>2. \E x \in T : \A y \in T : ~ (<<y, x>> \in OpToRel(<, Nat))
  BY <1>1, NatLessThanWellFounded, WFMin, Zenon
<1>3. PICK x \in T : \A y \in T : ~ (<<y, x>> \in OpToRel(<, Nat))
  BY <1>2
<1>4. x \in 0..n /\ x \notin P
  BY DEF T
<1>5. x \in 1..n /\ x - 1 \in 0..n /\ x - 1 \notin P
  BY <1>4
<1>6. x - 1 \in T
  BY <1>5 DEF T
<1>7. x - 1 \in Nat /\ x \in Nat /\ x - 1 < x
  BY <1>4, <1>5
<1>8. <<x - 1, x>> \in OpToRel(<, Nat)
  BY <1>7, Zenon DEF OpToRel
<1> QED BY <1>3, <1>6, <1>8

\* An entry older than all others goes to the end of an answer, unless there
\* are enough before it.
LEMMA OlderIsNext ==
    ASSUME NEW R, IsFiniteSet(R), NEW e, \A f \in R \cup {e} : f.id \in Nat,
           \A f \in R : e.id < f.id, NEW limit \in Int
    PROVE  LET S == R \cup {e}
           IN  Newest(S, limit) = IF Full(Newest(R, limit), limit) THEN Newest(R, limit)
                                  ELSE Append(Newest(R, limit), e)
<1> DEFINE S == R \cup {e}
           n == Cardinality(R)
<1>1. n \in Nat /\ IsFiniteSet(S) /\ Cardinality(S) = n + 1
  <2>1. n \in Nat
    BY FS_CardinalityType
  <2>2. e \notin R
    OBVIOUS
  <2> QED BY <2>1, <2>2, FS_AddElement
<1>2. Above(S, e) = R
  BY DEF Above
<1>3. ASSUME NEW f \in R
      PROVE  Above(S, f) = Above(R, f) /\ Cardinality(Above(R, f)) \in 0..(n - 1)
  <2>1. Above(S, f) = Above(R, f)
    BY DEF Above
  <2>2. Above(R, f) \in SUBSET R /\ f \notin Above(R, f)
    BY DEF Above
  <2>3. IsFiniteSet(Above(R, f)) /\ Cardinality(Above(R, f)) <= n /\ Cardinality(Above(R, f)) # n
    BY <2>2, FS_Subset
  <2> QED BY <1>1, <2>1, <2>3, FS_CardinalityType
<1> HIDE DEF n
<1>4. ASSUME NEW k \in 0..(n - 1)
      PROVE  Ranked(S, k) = Ranked(R, k)
  <2>1. Cardinality(Above(S, e)) # k
    BY <1>1, <1>2 DEF n
  <2> QED BY <1>3, <2>1 DEF Ranked
<1>5. Ranked(S, n) = {e}
  <2>1. ASSUME NEW f \in R
        PROVE  Cardinality(Above(S, f)) # n
    <3>1. Cardinality(Above(S, f)) \in 0..(n - 1)
      BY <1>3
    <3> QED BY <1>1, <3>1
  <2>2. Cardinality(Above(S, e)) = n
    BY <1>2 DEF n
  <2> QED BY <2>1, <2>2 DEF Ranked
<1> DEFINE row(T, k) == CHOOSE f \in Ranked(T, k) : TRUE
<1>6. ASSUME NEW k \in 1..n
      PROVE  row(S, k - 1) = row(R, k - 1)
  <2>0. k - 1 \in 0..(n - 1)
    BY <1>1
  <2>1. Ranked(S, k - 1) = Ranked(R, k - 1)
    BY <1>4, <2>0
  <2> QED BY <2>1, Zenon
<1>7. row(S, n) = e
  BY <1>5
<1>8. /\ Newest(S, limit) = [k \in 1..LimitTo(limit, n + 1) |-> row(S, k - 1)]
      /\ Newest(R, limit) = [k \in 1..LimitTo(limit, n) |-> row(R, k - 1)]
  BY <1>1 DEF Newest, n
<1> HIDE DEF row, S
<1>9. LimitTo(limit, n) \in 0..n /\ Len(Newest(R, limit)) = LimitTo(limit, n)
  BY <1>1, <1>8 DEF LimitTo
<1>10. CASE Full(Newest(R, limit), limit)
  <2>1. LimitTo(limit, n) = limit /\ LimitTo(limit, n + 1) = limit /\ limit <= n
    BY <1>1, <1>9, <1>10 DEF LimitTo, Full
  <2>2. Newest(S, limit) = Newest(R, limit)
    BY <1>1, <1>6, <1>8, <2>1
  <2> QED BY <1>10, <2>2 DEF S
<1>11. CASE ~Full(Newest(R, limit), limit)
  <2>1. LimitTo(limit, n) = n /\ LimitTo(limit, n + 1) = n + 1
    BY <1>1, <1>9, <1>11 DEF LimitTo, Full
  <2>2. Newest(S, limit) = Append(Newest(R, limit), e)
    BY <1>1, <1>6, <1>7, <1>8, <2>1
  <2> QED BY <1>11, <2>2 DEF S
<1> QED BY <1>10, <1>11

\* A slice that holds a journal, oldest entry first.
Holds(items, J) ==
    /\ items \in Seq(J) /\ J = ToSet(items)
    /\ \A i, j \in 1..Len(items) : i < j => items[i].id < items[j].id

LEMMA NoneIsNewest ==
    ASSUME NEW limit \in Int
    PROVE  Newest({}, limit) = <<>>
<1>1. LimitTo(limit, Cardinality({})) = 0
  BY FS_EmptySet DEF LimitTo
<1> QED BY <1>1 DEF Newest

\* The loop from the newest entry on finds what ORDER BY ... DESC LIMIT does:
\* after i entries it has the newest of those wanted among them.
LEMMA LoopIsQuery ==
    ASSUME NEW J, Journal(J), NEW items, Holds(items, J),
           NEW W \in SUBSET J, NEW limit \in Int
    PROVE  NewestFirst(items, W, limit) = Newest(W, limit)
<1> DEFINE n == Len(items)
           next(i, before) ==
               LET e == items[n - i + 1]
               IN  IF e \in W /\ ~Full(before, limit) THEN Append(before, e) ELSE before
           out[i \in 0..n] == IF i = 0 THEN <<>> ELSE next(i, out[i - 1])
           last(i) == {e \in W : \E k \in 1..n : k > n - i /\ e = items[k]}
           found == [i \in 0..n |-> Newest(last(i), limit)]
<1>1. n \in Nat /\ \A k \in 1..n : items[k] \in J
  BY DEF Holds
<1>2. found[0] = <<>>
  <2>1. last(0) = {}
    BY <1>1
  <2> QED BY <1>1, <2>1, NoneIsNewest
<1>3. ASSUME NEW i \in 1..n
      PROVE  found[i] = next(i, found[i - 1])
  <2> DEFINE e == items[n - i + 1]
  <2>0. i - 1 \in 0..n /\ i \in 0..n /\ n - i + 1 \in 1..n
    BY <1>1
  <2>1. IsFiniteSet(last(i - 1)) /\ \A f \in last(i - 1) \cup {e} : f.id \in Nat
    <3>1. last(i - 1) \in SUBSET J /\ e \in J
      BY <1>1, <2>0
    <3> QED BY <3>1, Part DEF Journal
  <2>2. \A f \in last(i - 1) : e.id < f.id
    BY <1>1, <2>0 DEF Holds
  <2>3. last(i) = IF e \in W THEN last(i - 1) \cup {e} ELSE last(i - 1)
    <3>1. \A k \in 1..n : k > n - i <=> k > n - (i - 1) \/ k = n - i + 1
      BY <1>1, <2>0
    <3> QED BY <2>0, <3>1
  <2>4. found[i] = Newest(last(i), limit) /\ found[i - 1] = Newest(last(i - 1), limit)
    BY <2>0
  <2> HIDE DEF last, found, e
  <2>5. Newest(last(i - 1) \cup {e}, limit)
          = IF Full(Newest(last(i - 1), limit), limit) THEN Newest(last(i - 1), limit)
            ELSE Append(Newest(last(i - 1), limit), e)
    BY <2>1, <2>2, OlderIsNext
  <2> QED BY <2>3, <2>4, <2>5 DEF e
<1>4. found[n] = Newest(W, limit)
  <2>1. last(n) = W
    BY <1>1 DEF Holds, ToSet
  <2> HIDE DEF last
  <2>2. found[n] = Newest(last(n), limit)
    BY <1>1
  <2> QED BY <2>1, <2>2
<1> HIDE DEF next
<1>5. found = [i \in 0..n |-> IF i = 0 THEN <<>> ELSE next(i, found[i - 1])]
  <2> HIDE DEF last
  <2> DEFINE g == [i \in 0..n |-> IF i = 0 THEN <<>> ELSE next(i, found[i - 1])]
  <2>1. ASSUME NEW i \in 0..n PROVE found[i] = g[i]
    <3>1. CASE i = 0
      BY <1>2, <3>1
    <3>2. CASE i # 0
      <4>1. i \in 1..n
        BY <1>1, <3>2
      <4> QED BY <1>3, <3>2, <4>1
    <3> QED BY <3>1, <3>2
  <2> QED BY <2>1
<1>6. \E f : f = [i \in 0..n |-> IF i = 0 THEN <<>> ELSE next(i, f[i - 1])]
  <2> HIDE DEF found
  <2> QED BY <1>5
<1>7. out = [i \in 0..n |-> IF i = 0 THEN <<>> ELSE next(i, out[i - 1])]
  BY <1>6, Zenon
<1>8. NewestFirst(items, W, limit) = out[n]
  BY DEF NewestFirst, next
<1> HIDE DEF out, found
<1> DEFINE P == {i \in 0..n : out[i] = found[i]}
<1>9. 0 \in P
  BY <1>1, <1>2, <1>7
<1>10. ASSUME NEW i \in 1..n, i - 1 \in P
       PROVE  i \in P
  <2>1. out[i] = next(i, out[i - 1])
    BY <1>1, <1>7
  <2> QED BY <1>3, <1>10, <2>1
<1>11. 0..n \subseteq P
  <2> HIDE DEF P, n
  <2> QED BY <1>1, <1>9, <1>10, Upward
<1>12. out[n] = found[n]
  BY <1>1, <1>11
<1> QED BY <1>4, <1>8, <1>12

\* LIMIT 1 on rows of which one is the newest.
LEMMA NewestIsFirst ==
    ASSUME NEW R, IsFiniteSet(R), NEW e, \A f \in R \cup {e} : f.id \in Nat,
           \A f \in R : f.id < e.id
    PROVE  Newest(R \cup {e}, 1)[1] = e
<1> DEFINE S == R \cup {e}
<1>1. IsFiniteSet(S) /\ Cardinality(S) \in Nat /\ Cardinality(S) # 0
  <2>1. IsFiniteSet(S)
    BY FS_AddElement
  <2> QED BY <2>1, FS_CardinalityType, FS_EmptySet
<1>2. Cardinality(Above(S, e)) = 0
  <2>1. Above(S, e) = {}
    BY DEF Above
  <2> QED BY <2>1, FS_EmptySet
<1>3. ASSUME NEW f \in R
      PROVE  Cardinality(Above(S, f)) # 0
  <2>1. Above(S, f) \in SUBSET S /\ e \in Above(S, f)
    BY DEF Above
  <2>2. IsFiniteSet(Above(S, f))
    BY <1>1, <2>1, FS_Subset
  <2> QED BY <2>1, <2>2, FS_EmptySet
<1>4. Ranked(S, 0) = {e}
  BY <1>2, <1>3 DEF Ranked
<1>5. LimitTo(1, Cardinality(S)) = 1
  BY <1>1 DEF LimitTo
<1> DEFINE row(k) == CHOOSE f \in Ranked(S, k) : TRUE
<1>6. Newest(S, 1) = [k \in 1..1 |-> row(k - 1)]
  BY <1>5 DEF Newest
<1>7. row(0) = e
  BY <1>4
<1> HIDE DEF row, S
<1>8. Newest(S, 1)[1] = e
  BY <1>6, <1>7
<1> QED BY <1>8 DEF S

\* A reading newer than all others is the latest of its device.
LEMMA NewerIsLatest ==
    ASSUME NEW R, IsFiniteSet(R), NEW e, \A f \in R \cup {e} : f.id \in Nat,
           \A f \in R : f.id < e.id
    PROVE  PgLatestTelemetryAll(R \cup {e}) = Put(PgLatestTelemetryAll(R), e)
<1> DEFINE S == R \cup {e}
           of(T, d) == {f \in T : f.device = d}
           latest(T) == [d \in {f.device : f \in T} |-> Newest(of(T, d), 1)[1]]
<1>1. \A T : PgLatestTelemetryAll(T) = latest(T)
  BY DEF PgLatestTelemetryAll, PgRecentEvents
<1>2. {f.device : f \in S} = DOMAIN latest(R) \cup {e.device}
  OBVIOUS
<1>3. Newest(of(S, e.device), 1)[1] = e
  <2>1. of(S, e.device) = of(R, e.device) \cup {e}
    OBVIOUS
  <2>2. of(R, e.device) \in SUBSET R
    OBVIOUS
  <2>3. IsFiniteSet(of(R, e.device))
    BY <2>2, FS_Subset
  <2> HIDE DEF of
  <2> QED BY <2>1, <2>2, <2>3, NewestIsFirst
<1>4. ASSUME NEW d \in DOMAIN latest(R), d # e.device
      PROVE  Newest(of(S, d), 1)[1] = latest(R)[d]
  <2>1. of(S, d) = of(R, d)
    BY <1>4
  <2> QED BY <2>1
<1>5. latest(S) = Put(latest(R), e)
  <2>1. ASSUME NEW d \in DOMAIN latest(R) \cup {e.device}
        PROVE  Newest(of(S, d), 1)[1] = IF d = e.device THEN e ELSE latest(R)[d]
    BY <1>3, <1>4
  <2> HIDE DEF of
  <2> QED BY <1>2, <2>1 DEF Put
<1> QED BY <1>1, <1>5, Zenon

\* Later readings write over earlier ones, so that what is left in the end is
\* what DISTINCT ON finds.
LEMMA LoopIsDistinct ==
    ASSUME NEW J, Journal(J), NEW items, Holds(items, J)
    PROVE  MemLatestTelemetryAll(items) = PgLatestTelemetryAll(J)
<1> DEFINE n == Len(items)
           none == [d \in {} |-> NoEntry]
           out[i \in 0..n] == IF i = 0 THEN none ELSE Put(out[i - 1], items[i])
           first(i) == {e \in J : \E k \in 1..n : k <= i /\ e = items[k]}
           found == [i \in 0..n |-> PgLatestTelemetryAll(first(i))]
<1>1. n \in Nat /\ \A k \in 1..n : items[k] \in J
  BY DEF Holds
<1>2. found[0] = none
  <2>1. first(0) = {}
    BY <1>1
  <2>2. PgLatestTelemetryAll({}) = none
    BY DEF PgLatestTelemetryAll
  <2> HIDE DEF first, none
  <2>3. found[0] = PgLatestTelemetryAll(first(0))
    BY <1>1
  <2> QED BY <2>1, <2>2, <2>3
<1>3. ASSUME NEW i \in 1..n
      PROVE  found[i] = Put(found[i - 1], items[i])
  <2> DEFINE e == items[i]
  <2>0. i - 1 \in 0..n /\ i \in 0..n
    BY <1>1
  <2>1. IsFiniteSet(first(i - 1)) /\ \A f \in first(i - 1) \cup {e} : f.id \in Nat
    <3>1. first(i - 1) \in SUBSET J /\ e \in J
      BY <1>1, <2>0
    <3> QED BY <3>1, Part DEF Journal
  <2>2. \A f \in first(i - 1) : f.id < e.id
    BY <1>1, <2>0 DEF Holds
  <2>3. first(i) = first(i - 1) \cup {e}
    <3>1. \A k \in 1..n : k <= i <=> k <= i - 1 \/ k = i
      BY <1>1, <2>0
    <3> QED BY <1>1, <2>0, <3>1
  <2>4. found[i] = PgLatestTelemetryAll(first(i))
        /\ found[i - 1] = PgLatestTelemetryAll(first(i - 1))
    BY <2>0
  <2> HIDE DEF first, found, e
  <2>5. PgLatestTelemetryAll(first(i - 1) \cup {e}) = Put(PgLatestTelemetryAll(first(i - 1)), e)
    BY <2>1, <2>2, NewerIsLatest
  <2> QED BY <2>3, <2>4, <2>5 DEF e
<1>4. found[n] = PgLatestTelemetryAll(J)
  <2>1. first(n) = J
    BY <1>1 DEF Holds, ToSet
  <2> HIDE DEF first
  <2>2. found[n] = PgLatestTelemetryAll(first(n))
    BY <1>1
  <2> QED BY <2>1, <2>2
<1> HIDE DEF none
<1>5. found = [i \in 0..n |-> IF i = 0 THEN none ELSE Put(found[i - 1], items[i])]
  <2> HIDE DEF first
  <2> DEFINE g == [i \in 0..n |-> IF i = 0 THEN none ELSE Put(found[i - 1], items[i])]
  <2>1. ASSUME NEW i \in 0..n PROVE found[i] = g[i]
    <3>1. CASE i = 0
      BY <1>2, <3>1
    <3>2. CASE i # 0
      <4>1. i \in 1..n
        BY <1>1, <3>2
      <4> QED BY <1>3, <3>2, <4>1
    <3> QED BY <3>1, <3>2
  <2> QED BY <2>1
<1>6. \E f : f = [i \in 0..n |-> IF i = 0 THEN none ELSE Put(f[i - 1], items[i])]
  <2> HIDE DEF found
  <2> QED BY <1>5
<1>7. out = [i \in 0..n |-> IF i = 0 THEN none ELSE Put(out[i - 1], items[i])]
  BY <1>6, Zenon
<1>8. MemLatestTelemetryAll(items) = out[n]
  BY DEF MemLatestTelemetryAll, none
<1> HIDE DEF out, found
<1> DEFINE P == {i \in 0..n : out[i] = found[i]}
<1>9. 0 \in P
  BY <1>1, <1>2, <1>7
<1>10. ASSUME NEW i \in 1..n, i - 1 \in P
       PROVE  i \in P
  <2>1. out[i] = Put(out[i - 1], items[i])
    BY <1>1, <1>7
  <2> QED BY <1>3, <1>10, <2>1
<1>11. 0..n \subseteq P
  <2> HIDE DEF P, n
  <2> QED BY <1>1, <1>9, <1>10, Upward
<1>12. out[n] = found[n]
  BY <1>1, <1>11
<1> QED BY <1>4, <1>8, <1>12

\* So the two stores answer alike, whatever is asked of them.
LEMMA StoresAlike ==
    ASSUME NEW J, Journal(J), NEW items, Holds(items, J),
           NEW devices, NEW kinds, NEW limits \in SUBSET Int, NEW times
    PROVE  Alike(items, J, devices, kinds, limits, times)
<1>1. \A W \in SUBSET J, limit \in Int : NewestFirst(items, W, limit) = Newest(W, limit)
  BY LoopIsQuery
<1>2. ToSet(items) = J
  BY DEF Holds
<1>3. MemLatestTelemetryAll(items) = PgLatestTelemetryAll(J)
  BY LoopIsDistinct
<1>4. ASSUME NEW d, NEW limit \in Int
      PROVE  MemRecentEvents(items, d, limit) = PgRecentEvents(J, d, limit)
  BY <1>1, <1>2 DEF MemRecentEvents, PgRecentEvents
<1>5. ASSUME NEW d
      PROVE  MemLatestTelemetry(items, d) = PgLatestTelemetry(J, d)
  <2>1. NewestFirst(items, {e \in ToSet(items) : e.device = d}, 1) = PgRecentEvents(J, d, 1)
    BY <1>1, <1>2 DEF PgRecentEvents
  <2> QED BY <2>1 DEF MemLatestTelemetry, PgLatestTelemetry
<1>6. ASSUME NEW d, NEW limit \in Int
      PROVE  MemRotationHistory(items, d, limit) = PgRotationHistory(J, d, limit)
  BY <1>1, <1>2 DEF MemRotationHistory, PgRotationHistory
<1>7. ASSUME NEW d, NEW limit \in Int, NEW some
      PROVE  MemEventsByType(items, some, d, limit) = PgEventsByType(J, some, d, limit)
  <2>1. {e \in J : Of(e, d) /\ (some = {} \/ e.kind \in some)}
          = {e \in J : Of(e, d) /\ (some # {} => e.kind \in some)}
    OBVIOUS
  <2> QED BY <1>1, <1>2, <2>1 DEF MemEventsByType, PgEventsByType
<1>8. ASSUME NEW d, NEW limit \in Int, NEW since, NEW until
      PROVE  MemQueryTelemetry(items, d, since, until, limit)
               = PgQueryTelemetry(J, d, since, until, limit)
  <2>1. OrDefault(limit) \in Int
    BY QueriesAssumption DEF OrDefault
  <2> QED BY <1>1, <1>2, <2>1 DEF MemQueryTelemetry, PgQueryTelemetry
<1> QED BY <1>3, <1>4, <1>5, <1>6, <1>7, <1>8 DEF Alike

\* And what the endpoints pass on is no longer than they allow.
LEMMA AnswersBounded ==
    ASSUME NEW J, Journal(J), NEW items, Holds(items, J), NEW kinds, NEW limits \in SUBSET Int
    PROVE  Bounded(items, kinds, limits)
<1>1. ASSUME NEW W \in SUBSET J, NEW limit \in Int, limit > 0
      PROVE  /\ Len(NewestFirst(items, W, limit)) \in 0..limit
             /\ Len(Reverse(NewestFirst(items, W, limit))) \in 0..limit
  <2> DEFINE m == LimitTo(limit, Cardinality(W))
             row(k) == CHOOSE f \in Ranked(W, k - 1) : TRUE
  <2>1. m \in 0..limit
    BY <1>1, Part DEF LimitTo
  <2>2. NewestFirst(items, W, limit) = [k \in 1..m |-> row(k)]
    <3>1. NewestFirst(items, W, limit) = Newest(W, limit)
      BY LoopIsQuery
    <3> QED BY <3>1 DEF Newest
  <2> HIDE DEF m, row
  <2>3. Len(NewestFirst(items, W, limit)) = m
    BY <2>1, <2>2
  <2>4. Len(Reverse(NewestFirst(items, W, limit))) = m
    BY <2>1, <2>3 DEF Reverse
  <2> QED BY <2>1, <2>3, <2>4
<1>2. ToSet(items) = J
  BY DEF Holds
<1>3. ASSUME NEW limit \in Int
      PROVE  /\ OrDefault(TelemetryLimit(limit)) \in 1..MaxAnswer
             /\ ChecksLimit(limit) \in 1..MaxChecks
             /\ limit > 0 => RotationsLimit(limit) \in 1..(IF limit < MaxAnswer THEN limit
                                                          ELSE MaxAnswer)
  BY QueriesAssumption DEF OrDefault, TelemetryLimit, ChecksLimit, RotationsLimit, NoLimit
<1>4. ASSUME NEW limit \in Int
      PROVE  Len(MemQueryTelemetry(items, AnyDevice, NoTime, NoTime, TelemetryLimit(limit)))
               <= MaxAnswer
  <2> DEFINE W == {e \in ToSet(items) : Of(e, AnyDevice) /\ Within(e, NoTime, NoTime)}
             most == OrDefault(TelemetryLimit(limit))
  <2>1. most \in 1..MaxAnswer /\ W \in SUBSET J
    BY <1>2, <1>3
  <2> HIDE DEF W, most
  <2>2. Len(Reverse(NewestFirst(items, W, most))) \in 0..most
    BY <1>1, <2>1, QueriesAssumption
  <2>3. Len(Reverse(NewestFirst(items, W, most))) <= MaxAnswer
    BY <2>1, <2>2, QueriesAssumption
  <2> QED BY <2>3 DEF MemQueryTelemetry, W, most
<1>5. ASSUME NEW limit \in Int
      PROVE  Len(MemEventsByType(items, kinds, AnyDevice, ChecksLimit(limit))) <= MaxChecks
  <2> DEFINE W == {e \in ToSet(items) : Of(e, AnyDevice) /\ (kinds = {} \/ e.kind \in kinds)}
             most == ChecksLimit(limit)
  <2>1. most \in 1..MaxChecks /\ W \in SUBSET J
    BY <1>2, <1>3
  <2> HIDE DEF W, most
  <2>2. Len(NewestFirst(items, W, most)) \in 0..most
    BY <1>1, <2>1, QueriesAssumption
  <2>3. Len(NewestFirst(items, W, most)) <= MaxChecks
    BY <2>1, <2>2, QueriesAssumption
  <2> QED BY <2>3 DEF MemEventsByType, W, most
<1>6. ASSUME NEW limit \in Int, limit > 0
      PROVE  Len(MemRotationHistory(items, AnyDevice, RotationsLimit(limit)))
               <= IF limit < MaxAnswer THEN limit ELSE MaxAnswer
  <2> DEFINE W == {e \in ToSet(items) : Of(e, AnyDevice)}
             most == RotationsLimit(limit)
             top == IF limit < MaxAnswer THEN limit ELSE MaxAnswer
  <2>1. most \in 1..top /\ top \in Nat /\ W \in SUBSET J
    BY <1>2, <1>3, <1>6, QueriesAssumption
  <2> HIDE DEF W, most, top
  <2>2. Len(NewestFirst(items, W, most)) \in 0..most
    BY <1>1, <2>1
  <2>3. Len(NewestFirst(items, W, most)) <= top
    BY <2>1, <2>2
  <2> QED BY <2>3 DEF MemRotationHistory, W, most, top
<1> QED BY <1>4, <1>5, <1>6 DEF Bounded

\* Numbered by how many are older than they, the entries of a journal are in
\* order and none is left out.
LEMMA JournalInOrder ==
    ASSUME Journal(journal)
    PROVE  Holds(InOrder, journal)
<1> DEFINE n == Cardinality(journal)
           age(e) == Cardinality(Older(journal, e))
           rank == [e \in journal |-> age(e)]
<1>1. n \in Nat /\ IsFiniteSet(journal)
  BY FS_CardinalityType DEF Journal
<1>2. ASSUME NEW e \in journal
      PROVE  IsFiniteSet(Older(journal, e)) /\ age(e) \in 0..(n - 1)
  <2>1. Older(journal, e) \in SUBSET journal /\ e \notin Older(journal, e)
    BY DEF Older, Journal
  <2>2. IsFiniteSet(Older(journal, e)) /\ age(e) <= n /\ age(e) # n
    BY <1>1, <2>1, FS_Subset
  <2>3. age(e) \in Nat
    BY <2>2, FS_CardinalityType
  <2> QED BY <1>1, <2>2, <2>3
<1>3. ASSUME NEW e \in journal, NEW f \in journal, e.id < f.id
      PROVE  age(e) < age(f)
  <2>1. /\ Older(journal, e) \in SUBSET Older(journal, f)
        /\ e \in Older(journal, f) /\ e \notin Older(journal, e)
    BY <1>3 DEF Older, Journal
  <2>2. age(e) <= age(f) /\ age(e) # age(f)
    BY <1>2, <2>1, FS_Subset
  <2> QED BY <1>1, <1>2, <2>2
<1>4. ASSUME NEW e \in journal, NEW f \in journal, e # f
      PROVE  age(e) # age(f)
  <2>1. e.id < f.id \/ f.id < e.id
    BY <1>4 DEF Journal
  <2> QED BY <1>1, <1>2, <1>3, <2>1
<1> HIDE DEF age
<1>5. \A i \in 0..(n - 1) : \E e \in journal : age(e) = i
  <2>1. IsFiniteSet(0..(n - 1)) /\ Cardinality(0..(n - 1)) = n
    <3>1. 0 \in Int /\ n - 1 \in Int
      BY <1>1
    <3>2. /\ IsFiniteSet(0..(n - 1))
          /\ Cardinality(0..(n - 1)) = IF 0 > n - 1 THEN 0 ELSE n - 1 - 0 + 1
      BY ONLY <3>1, FS_Interval, Zenon
    <3> QED BY <1>1, <3>2
  <2>2. rank \in Injection(journal, 0..(n - 1))
    BY <1>2, <1>4 DEF Injection, IsInjective
  <2> HIDE DEF rank
  <2>3. rank \in Surjection(journal, 0..(n - 1))
    BY <1>1, <2>1, <2>2, FS_Injection
  <2> QED BY <2>3 DEF Surjection, rank
<1>6. ASSUME NEW k \in 1..n
      PROVE  InOrder[k] \in journal /\ age(InOrder[k]) = k - 1
  <2>1. \E e \in journal : age(e) = k - 1
    BY <1>1, <1>5
  <2>2. InOrder[k] = CHOOSE e \in journal : age(e) = k - 1
    BY DEF InOrder, age
  <2> QED BY <2>1, <2>2
<1>7. InOrder \in Seq(journal) /\ Len(InOrder) = n
  <2>1. InOrder \in [1..n -> journal]
    BY <1>6 DEF InOrder
  <2> QED BY <1>1, <2>1
<1>8. ASSUME NEW i \in 1..n, NEW j \in 1..n, i < j
      PROVE  InOrder[i].id < InOrder[j].id
  <2>1. InOrder[i] # InOrder[j] /\ ~(age(InOrder[j]) < age(InOrder[i]))
    BY <1>1, <1>6, <1>8
  <2>2. ~(InOrder[j].id < InOrder[i].id)
    BY <1>3, <1>6, <2>1
  <2> QED BY <1>6, <2>1, <2>2 DEF Journal
<1>9. ASSUME NEW e \in journal
      PROVE  \E k \in 1..n : InOrder[k] = e
  <2>1. age(e) + 1 \in 1..n
    BY <1>1, <1>2
  <2>2. InOrder[age(e) + 1] = e
    BY <1>2, <1>4, <1>6, <2>1
  <2> QED BY <2>1, <2>2
<1>10. ToSet(InOrder) = journal
  <2>1. DOMAIN InOrder = 1..n
    BY DEF InOrder
  <2> QED BY <1>6, <1>9, <2>1 DEF ToSet
<1> QED BY <1>7, <1>8, <1>10 DEF Holds

\* Any journal the registry comes to is one that both stores can be asked about.
LEMMA QueriesAnyTime ==
    ASSUME JournalOK, NEW devices, NEW kinds, NEW limits \in SUBSET Int, NEW times
    PROVE  /\ Alike(InOrder, journal, devices, kinds, limits, times)
           /\ Bounded(InOrder, kinds, limits)
<1>1. Journal(journal)
  <2>1. Journal(kept) /\ journal \in SUBSET kept
    BY DEF JournalOK, JournalKeepsNewest
  <2> QED BY <2>1, Part
<1>2. Holds(InOrder, journal)
  BY <1>1, JournalInOrder
<1> QED BY <1>1, <1>2, StoresAlike, AnswersBounded

(***************************************************************************)
(* AnyQuery: at every moment, calls under way or not, the loops of         *)
(* memstore and the statements of pgstore answer every query alike, with   *)
(* any device, types, period and limit, and no endpoint's answer exceeds   *)
(* its bound (EventsByType, RecentEvents, RotationHistory, QueryTelemetry, *)
(* LatestTelemetry, LatestTelemetryAll; getFirmwareChecks, getRotations,   *)
(* parseTelemetryFilter).                                                  *)
(***************************************************************************)
THEOREM AnyQuery ==
    ASSUME NEW devices, NEW kinds, NEW limits \in SUBSET Int, NEW times
    PROVE  Spec => [](/\ Alike(InOrder, journal, devices, kinds, limits, times)
                      /\ Bounded(InOrder, kinds, limits))
<1>1. JournalOK => /\ Alike(InOrder, journal, devices, kinds, limits, times)
                   /\ Bounded(InOrder, kinds, limits)
  BY QueriesAnyTime
<1> QED BY <1>1, JournalAlways, PTL

\* With the queries that the run asks.
THEOREM QueriesCorrect == Spec => []QueriesAnswered
<1>1. Limits \in SUBSET Int /\ Limits \cup {NoLimit} \in SUBSET Int
  BY DEF Limits, NoLimit
<1>2. JournalOK => QueriesAnswered
  BY <1>1, QueriesAnyTime DEF QueriesAnswered
<1> QED BY <1>2, JournalAlways, PTL
=============================================================================
