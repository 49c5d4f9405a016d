------------------------------ MODULE Registry ------------------------------
(***************************************************************************)
(* The registry of devices and the journal kept with it, under the calls   *)
(* of several operators at once and the traffic of the devices: the REST   *)
(* handlers of internal/api, the calls of internal/gateway they make, and  *)
(* both stores of internal/store, the map in memory (memstore) and the     *)
(* PostgreSQL database (pgstore).                                          *)
(*                                                                         *)
(* In memory a method of the store is one step, under its lock.  In the    *)
(* database Register and Reregister are two statements, Delete is a        *)
(* transaction at PostgreSQL's default level, READ COMMITTED, and any      *)
(* statement may fail, with its work done or not.  Between the methods of  *)
(* one call, and between the statements of a method, other calls and the   *)
(* devices go on.                                                          *)
(*                                                                         *)
(* Events, telemetry and rotations are three journals written and trimmed  *)
(* alike; one stands for them.  Of a connection only what it does to the   *)
(* journal is here: the tables of the gateway are in Gateway.tla.          *)
(***************************************************************************)
EXTENDS Naturals, FiniteSets

CONSTANTS
    Devices,    \* the identifiers devices are known by
    Calls,      \* the operators' calls, each made once
    Limit,      \* maxEventsInMemory and the like
    Slack,      \* trimOldest's slack
    MaxTaken,   \* bound: packets and handshakes of all devices
    MaxCrashes  \* bound: restarts of the process

ASSUME RegistryAssumption ==
    {Limit, Slack, MaxTaken, MaxCrashes} \subseteq Nat

VARIABLES
    durable,    \* LACERT_PG_DSN is set: the store is PostgreSQL
    rows,       \* the rows of the devices registered
    calls,      \* where each call is, and what it will answer
    handlers,   \* the devices being served: for which enrolment, where
    journal,    \* the journal: its entries, in the order of their identifiers
    kept,       \* history: the journal had nothing been trimmed
    nextID,     \* the identifier of the last entry
    purged,     \* per transaction past its journal statement: the last entry then
    taken, crashes

journals == <<journal, kept, nextID, purged>>
vars == <<durable, rows, calls, handlers, journals, taken, crashes>>

Operations == {"register", "reregister", "revoke", "delete"}
Idle == [operation |-> "none", at |-> "idle", answer |-> "none"]
At(c, at, operations) == calls[c].at = at /\ calls[c].operation \in operations
device(c) == calls[c].device

Registered == DOMAIN rows
Current(d, of) == d \in Registered /\ rows[d].enrolment = of

Init ==
    /\ durable \in BOOLEAN /\ rows = [d \in {} |-> {}]
    /\ calls = [c \in Calls |-> Idle] /\ handlers = [d \in {} |-> {}]
    /\ journal = {} /\ kept = {} /\ nextID = 0 /\ purged = [c \in {} |-> 0]
    /\ taken = 0 /\ crashes = 0
-----------------------------------------------------------------------------
(* The journal.                                                            *)

Newer(items, e) == {f \in items : f.id > e.id}
Older(items, e) == {f \in items : f.id < e.id}

\* Mutant: the newest entries go, not the oldest.
trimOldestHead(items) ==
    IF Cardinality(items) <= Limit + Slack THEN items
    ELSE {e \in items : Cardinality(Older(items, e)) < Limit}

\* The last Limit entries of a journal that has outgrown the slack.
trimOldest(items) ==
    IF Cardinality(items) <= Limit + Slack THEN items
    ELSE {e \in items : Cardinality(Newer(items, e)) < Limit}

\* Deletions that hold the lock on the row of d, and those of them whose
\* statement on the journal is done: what is written now they will not delete.
Deleting(d) ==
    {c \in Calls : calls[c].at \in {"purge", "commit"} /\ device(c) = d
                      /\ calls[c].answer = "none"}
Locked(d) == Deleting(d) # {}
TooLateFor(d) == {c \in Deleting(d) : calls[c].at = "commit"}

\* LogEvent, RecordTelemetry, LogRotation: an entry about the enrolment `of`,
\* which may be over by now, or as good as over.
Write(d, of, kind) ==
    LET entry == [id |-> nextID + 1, device |-> d, of |-> of, kind |-> kind,
                  late |-> ~Current(d, of) \/ TooLateFor(d) # {}]
    IN  /\ nextID' = nextID + 1 /\ UNCHANGED purged
        /\ kept' = kept \cup {entry}
        /\ journal' = IF durable THEN journal \cup {entry}
                      ELSE trimOldest(journal \cup {entry})

\* A journal that cannot be written is passed over: its caller ignores it.
WriteOrLose(d, of, kind) == Write(d, of, kind) \/ (durable /\ UNCHANGED journals)

\* Mutant: the row goes and its history stays.
ForgetNothing(d, last) == UNCHANGED <<journal, kept, nextID>>

\* What Delete does to the journals: the entries of d up to the last one seen.
Forget(d, last) ==
    /\ journal' = {e \in journal : e.device # d \/ e.id > last}
    /\ kept' = {e \in kept : e.device # d \/ e.id > last}
    /\ UNCHANGED nextID
-----------------------------------------------------------------------------
(* A call: where it goes next, and what it will answer.                    *)

Go(c, at) == calls' = [calls EXCEPT ![c].at = at]
End(c, answer) == calls' = [calls EXCEPT ![c].at = "done", ![c].answer = answer]
Done(c, answer, at) == calls' = [calls EXCEPT ![c].at = at, ![c].answer = answer]
\* Done, and the call will write in the journal about the enrolment `of`.
Acted(c, of, at) ==
    calls' = [calls EXCEPT ![c].at = at, ![c].answer = "ok", ![c].of = of]

\* Where a call begins: ReregisterDevice and DeleteDevice look the device up.
Entry(operation) ==
    CASE operation \in {"reregister", "delete"} -> "get"
      [] operation = "register" /\ durable -> "find"
      [] OTHER -> "write"

\* registerDevice, reregisterDevice, revokeDevice, deleteDevice: a body that
\* does not parse, does not match its path or fails its checksum is refused.
Request(c, operation, d) ==
    /\ calls[c] = Idle
    /\ \E answer \in {"none", "refused"} :
         calls' = [calls EXCEPT ![c] =
             [operation |-> operation, device |-> d, of |-> c, answer |-> answer,
              at |-> IF answer = "none" THEN Entry(operation) ELSE "done"]]
    /\ UNCHANGED <<durable, rows, handlers, journals, taken, crashes>>

\* Store.Get, as ReregisterDevice and DeleteDevice read its answer.
Get(c) ==
    LET d == device(c) IN
    /\ calls[c].at = "get"
    /\ \/ d \notin Registered /\ End(c, "not found")
       \/ d \in Registered /\ calls[c].operation = "delete" /\ Go(c, "close")
       \/ /\ d \in Registered /\ calls[c].operation = "reregister"
          /\ IF rows[d].revoked THEN End(c, "revoked")
             ELSE calls' = [calls EXCEPT ![c].at = IF durable THEN "find" ELSE "write",
                                         ![c].of = rows[d].enrolment]
       \/ durable /\ End(c, "error")
    /\ UNCHANGED <<durable, rows, handlers, journals, taken, crashes>>

\* The first statement of pgstore's Register and Reregister: the one takes any
\* error for an absent row, the other reports any error as one.
Find(c) ==
    LET d == device(c) IN
    /\ calls[c].at = "find"
    /\ \/ calls[c].operation = "register" /\ d \in Registered /\ End(c, "exists")
       \/ calls[c].operation = "register" /\ Go(c, "write")
       \/ calls[c].operation = "reregister" /\ d \in Registered /\ Go(c, "write")
       \/ calls[c].operation = "reregister" /\ End(c, "not found")
    /\ UNCHANGED <<durable, rows, handlers, journals, taken, crashes>>
-----------------------------------------------------------------------------
(* The statement that changes the registry.                                *)

With(d, r) == [e \in Registered \cup {d} |-> IF e = d THEN r ELSE rows[e]]
Without(d) == [e \in Registered \ {d} |-> rows[e]]

\* Mutant: the keys are written with the rest of the record, revocation and all.
RekeyedWhole(c, d) == [enrolment |-> rows[d].enrolment, keys |-> c, revoked |-> FALSE]

\* Mutant: CreatedAt is not carried over.
RekeyedAfresh(c, d) == [enrolment |-> "zero", keys |-> c, revoked |-> rows[d].revoked]

\* Reregister keeps CreatedAt and the revocation of the row there is.
Rekeyed(c, d) == [rows[d] EXCEPT !.keys = c]

\* The check of the map, and the primary key of the table.
Free(d) == d \notin Registered

\* Register
WriteNew(c) ==
    LET d == device(c) IN
    /\ At(c, "write", {"register"}) /\ ~Locked(d)
    /\ IF Free(d)
       THEN rows' = With(d, [enrolment |-> c, keys |-> c, revoked |-> FALSE])
            /\ Acted(c, c, "log")
       ELSE UNCHANGED rows /\ End(c, IF durable THEN "error" ELSE "exists")
    /\ UNCHANGED <<durable, handlers, journals, taken, crashes>>

\* Reregister: an update of no row is no error.
WriteKeys(c) ==
    LET d == device(c) IN
    /\ At(c, "write", {"reregister"}) /\ ~Locked(d)
    /\ IF d \in Registered
       THEN rows' = With(d, Rekeyed(c, d)) /\ Acted(c, rows[d].enrolment, "close")
       ELSE UNCHANGED rows /\ IF durable THEN Done(c, "ok", "close") ELSE End(c, "not found")
    /\ UNCHANGED <<durable, handlers, journals, taken, crashes>>

\* Revoke
WriteRevoked(c) ==
    LET d == device(c) IN
    /\ At(c, "write", {"revoke"}) /\ ~Locked(d)
    /\ IF d \in Registered
       THEN rows' = With(d, [rows[d] EXCEPT !.revoked = TRUE])
            /\ Acted(c, rows[d].enrolment, "close")
       ELSE UNCHANGED rows /\ End(c, "not found")
    /\ UNCHANGED <<durable, handlers, journals, taken, crashes>>

\* Delete, in memory: the row and the journals, under the locks.
WriteGone(c) ==
    LET d == device(c) IN
    /\ At(c, "write", {"delete"}) /\ ~durable
    /\ rows' = Without(d) /\ Forget(d, nextID) /\ UNCHANGED purged /\ End(c, "ok")
    /\ UNCHANGED <<durable, handlers, taken, crashes>>

\* Delete, in the database: the first statement of the transaction.  The row it
\* finds is locked, and there for all others until COMMIT.  If it finds none, a
\* row made meanwhile stays: no later statement is about rows, and whether the
\* transaction will come through settles the answer here.
DeleteRow(c) ==
    LET d == device(c) IN
    /\ At(c, "write", {"delete"}) /\ durable /\ ~Locked(d)
    /\ IF d \in Registered THEN Go(c, "purge")
       ELSE \E answer \in {"ok", "error"} : Done(c, answer, "purge")
    /\ UNCHANGED <<durable, rows, handlers, journals, taken, crashes>>

\* The statement on the journal finds the entries committed by now.
DeleteJournal(c) ==
    /\ calls[c].at = "purge" /\ Go(c, "commit")
    /\ purged' = [e \in DOMAIN purged \cup {c} |-> IF e = c THEN nextID ELSE purged[e]]
    /\ UNCHANGED <<durable, rows, handlers, journal, kept, nextID, taken, crashes>>

Unpurged(c) == purged' = [e \in DOMAIN purged \ {c} |-> purged[e]]

\* The row and those entries are gone, even if the answer is lost.
Commit(c) ==
    LET d == device(c) IN
    /\ calls[c].at = "commit"
    /\ Forget(d, purged[c]) /\ Unpurged(c)
    /\ IF calls[c].answer = "none"
       THEN rows' = Without(d) /\ \E answer \in {"ok", "error"} : End(c, answer)
       ELSE UNCHANGED rows /\ Go(c, "done")
    /\ UNCHANGED <<durable, handlers, taken, crashes>>

\* A statement or the COMMIT fails, and all of the transaction with it.
Rollback(c) ==
    /\ calls[c].at \in {"purge", "commit"} /\ calls[c].answer # "ok"
    /\ Unpurged(c) /\ End(c, "error")
    /\ UNCHANGED <<durable, rows, handlers, journal, kept, nextID, taken, crashes>>

\* The database fails the one statement of a call...
WriteFails(c) ==
    /\ calls[c].at = "write" /\ durable /\ End(c, "error")
    /\ UNCHANGED <<durable, rows, handlers, journals, taken, crashes>>

\* ... or the answer is lost with the statement done, and the call ends there:
\* no session is closed, no event is written.
AnswerLost(c) ==
    LET d == device(c) IN
    /\ calls[c].at = "write" /\ durable /\ ~Locked(d) /\ End(c, "error")
    /\ \/ /\ calls[c].operation = "register" /\ Free(d)
          /\ rows' = With(d, [enrolment |-> c, keys |-> c, revoked |-> FALSE])
       \/ /\ calls[c].operation = "revoke" /\ d \in Registered
          /\ rows' = With(d, [rows[d] EXCEPT !.revoked = TRUE])
       \/ /\ calls[c].operation = "reregister" /\ d \in Registered
          /\ rows' = With(d, Rekeyed(c, d))
    /\ UNCHANGED <<durable, handlers, journals, taken, crashes>>
-----------------------------------------------------------------------------
(* What follows it, and the devices.                                       *)

\* CloseSession: a packet being handled is handled to its end.
Closed(d) ==
    IF d \in DOMAIN handlers /\ handlers[d].at = "open"
    THEN [e \in DOMAIN handlers \ {d} |-> handlers[e]]
    ELSE IF d \in DOMAIN handlers /\ handlers[d].at = "busy"
         THEN [handlers EXCEPT ![d].at = "last"] ELSE handlers

CloseSession(c) ==
    /\ calls[c].at = "close"
    /\ handlers' = Closed(device(c))
    /\ Go(c, IF calls[c].operation = "delete" THEN "write" ELSE "log")
    /\ UNCHANGED <<durable, rows, journals, taken, crashes>>

\* LogEvent, and the answer.
LogEvent(c) ==
    /\ calls[c].at = "log" /\ Go(c, "done")
    /\ WriteOrLose(device(c), calls[c].of, "operator")
    /\ UNCHANGED <<durable, rows, handlers, taken, crashes>>

\* A handshake passes Store.Get...
Admit(d) ==
    /\ d \in Registered \ DOMAIN handlers /\ ~rows[d].revoked /\ taken < MaxTaken
    /\ handlers' = [e \in DOMAIN handlers \cup {d} |->
                      IF e = d THEN [of |-> rows[d].enrolment, at |-> "admitted"]
                      ELSE handlers[e]]
    /\ taken' = taken + 1
    /\ UNCHANGED <<durable, rows, calls, journals, crashes>>

\* ... has its session, and an event to write; or a packet has been opened.
Take(d) ==
    /\ d \in DOMAIN handlers
    /\ \/ handlers[d].at = "admitted" /\ UNCHANGED taken
       \/ handlers[d].at = "open" /\ taken < MaxTaken /\ taken' = taken + 1
    /\ handlers' = [handlers EXCEPT ![d].at = "busy"]
    /\ UNCHANGED <<durable, rows, calls, journals, crashes>>

\* handleMsg3's event, HandleData's reading, a rotation's entry.
Record(d) ==
    /\ d \in DOMAIN handlers /\ handlers[d].at \in {"busy", "last"}
    /\ WriteOrLose(d, handlers[d].of, "traffic")
    /\ handlers' = IF handlers[d].at = "busy" THEN [handlers EXCEPT ![d].at = "open"]
                   ELSE [e \in DOMAIN handlers \ {d} |-> handlers[e]]
    /\ UNCHANGED <<durable, rows, calls, taken, crashes>>

\* The connection ends, before the handshake or after.
Leave(d) ==
    /\ d \in DOMAIN handlers /\ handlers[d].at \in {"admitted", "open"}
    /\ handlers' = [e \in DOMAIN handlers \ {d} |-> handlers[e]]
    /\ UNCHANGED <<durable, rows, calls, journals, taken, crashes>>

\* The process ends with all it held; what is in the database stays.
Crash ==
    /\ crashes < MaxCrashes /\ crashes' = crashes + 1
    /\ calls' = [c \in Calls |-> IF calls[c] = Idle THEN Idle
                                 ELSE [calls[c] EXCEPT !.at = "done"]]
    /\ handlers' = [d \in {} |-> {}] /\ purged' = [c \in {} |-> 0]
    /\ IF durable THEN UNCHANGED <<rows, journal, kept, nextID>>
       ELSE rows' = [d \in {} |-> {}] /\ journal' = {} /\ kept' = {} /\ nextID' = 0
    /\ UNCHANGED <<durable, taken>>

Call(c) ==
    \/ \E operation \in Operations, d \in Devices : Request(c, operation, d)
    \/ Get(c) \/ Find(c) \/ WriteNew(c) \/ WriteKeys(c) \/ WriteRevoked(c)
    \/ WriteGone(c) \/ DeleteRow(c) \/ DeleteJournal(c) \/ Commit(c) \/ Rollback(c)
    \/ WriteFails(c) \/ AnswerLost(c)
    \/ CloseSession(c) \/ LogEvent(c)

Device(d) == Admit(d) \/ Take(d) \/ Record(d) \/ Leave(d)

Next == (\E c \in Calls : Call(c)) \/ (\E d \in Devices : Device(d)) \/ Crash

Spec == Init /\ [][Next]_vars
-----------------------------------------------------------------------------
(* What holds.                                                             *)

Row == [enrolment : Calls, keys : Calls, revoked : BOOLEAN]
Answers == {"none", "ok", "exists", "not found", "revoked", "refused", "error"}
Places == {"get", "find", "write", "purge", "commit", "close", "log", "done"}
CallType ==
    {Idle} \cup [operation : Operations, device : Devices, of : Calls,
                 answer : Answers, at : Places]
Handler == [of : Calls, at : {"admitted", "busy", "open", "last"}]

TypeOK ==
    /\ durable \in BOOLEAN /\ calls \in [Calls -> CallType]
    /\ Registered \subseteq Devices /\ rows \in [Registered -> Row]
    /\ DOMAIN handlers \subseteq Devices
    /\ \A d \in DOMAIN handlers : handlers[d] \in Handler
    /\ {nextID, taken, crashes} \subseteq Nat
    /\ DOMAIN purged \subseteq Calls /\ \A c \in DOMAIN purged : purged[c] \in Nat

\* A call has no answer while it may still change the registry, and only the
\* database is asked in several statements.
Unanswered(c) ==
    /\ calls[c].at \in {"get", "find", "write"} => calls[c].answer = "none"
    /\ calls[c].at = "close" /\ calls[c].operation = "delete" => calls[c].answer = "none"
    /\ calls[c].at = "find" => durable /\ calls[c].operation \in {"register", "reregister"}
    /\ calls[c].at = "get" => calls[c].operation \in {"reregister", "delete"}
    /\ calls[c].at \in {"purge", "commit"} =>
          /\ durable /\ calls[c].operation = "delete"
          /\ calls[c].answer \in {"none", "ok", "error"}
    /\ calls[c].at = "commit" <=> c \in DOMAIN purged

\* What a deletion has locked is there, and is locked by no other.
LocksHeld ==
    \A d \in Devices : \A c \in Deleting(d) : d \in Registered /\ Deleting(d) = {c}

(***************************************************************************)
(* CallsInv: what every call relies on between its steps, and what the     *)
(* refinement below follows from: at most one answer, given with or after  *)
(* the one change a call may make (DeleteDevice, ReregisterDevice), and a  *)
(* row under deletion that no other call gets at (pgstore.go:269-283).     *)
(***************************************************************************)
CallsInv ==
    TypeOK /\ LocksHeld /\ \A c \in Calls : Unanswered(c)

(***************************************************************************)
(* ImplementsDeviceStore: through both stores, with their calls of several *)
(* statements, their failures and restarts, every call has the effect of   *)
(* one atomic change, the one it was asked for, and its answer is true of  *)
(* the row of its own device at that instant: a registration never writes  *)
(* over another, new keys never lift a revocation, a refusal changes       *)
(* nothing, a failure does what was asked or nothing (store.go:135-203).   *)
(* DeviceStore names the two answers of a database that are not true.      *)
(***************************************************************************)
Asked(c) == IF calls[c] = Idle THEN [operation |-> "none"]
            ELSE [operation |-> calls[c].operation, device |-> calls[c].device]
Store == INSTANCE DeviceStore
         WITH asked <- [c \in Calls |-> Asked(c)],
              answers <- [c \in Calls |-> calls[c].answer]
ImplementsDeviceStore == Store!RegistrySpec

(***************************************************************************)
(* OrphansAreLate: an entry about an enrolment that is over was written    *)
(* after it was over, or in the database when its deletion had been        *)
(* through the journal and not yet committed; by a call or a packet that   *)
(* was under way.  All that had been written before went with the row      *)
(* (Delete; gateway.go:396-397 says that a deleted device leaves no        *)
(* trace).                                                                 *)
(***************************************************************************)
OrphansAreLate ==
    \A e \in journal : e.late \/ Current(e.device, e.of)

(***************************************************************************)
(* JournalKeepsNewest: the journal in memory is the end of what was        *)
(* written and has not been deleted, never longer than limit and slack,    *)
(* and nothing among the last Limit entries written is missing from it;    *)
(* the database keeps all (trimOldest, Delete).                            *)
(***************************************************************************)
JournalKeepsNewest ==
    /\ journal \subseteq kept
    /\ \A e \in kept \ journal :
         e.id + Limit <= nextID /\ Newer(journal, e) = journal
    /\ IF durable THEN journal = kept ELSE Cardinality(journal) <= Limit + Slack
=============================================================================
