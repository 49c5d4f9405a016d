---------------------------- MODULE DeviceStore ----------------------------
(***************************************************************************)
(* What the registry of devices promises its callers (the DeviceStore      *)
(* interface of internal/store and the operator's calls above it): each    *)
(* call of the operator changes at most the row of the device it was asked *)
(* about, as it was asked, at one instant, and its answer says what was    *)
(* true of that row then.  Two answers of a database do not: Overtaken and *)
(* Misreported.                                                            *)
(*                                                                         *)
(* A row is the enrolment that made it (which stands for its CreatedAt and *)
(* for the history kept with it), the call that last set its keys, and the *)
(* revocation mark.  Enrolments are named by the calls that make them.     *)
(***************************************************************************)
CONSTANTS
    Devices,   \* the identifiers devices are known by
    Calls      \* the operator's calls, each made once

VARIABLES
    durable,   \* the registry is a database, not a map in memory
    rows,      \* the registered devices, each with its row
    asked,     \* what each call was asked to do, to which device
    answers    \* what each call has been answered

registryVars == <<durable, rows, asked, answers>>

Operations == {"register", "reregister", "revoke", "delete"}
Requests == [operation : Operations, device : Devices]
Unasked == [operation |-> "none"]

Row == [enrolment : Calls, keys : Calls, revoked : BOOLEAN]
Answers == {"none", "ok", "exists", "not found", "revoked", "refused", "error"}

Registered == DOMAIN rows

RegistryInit ==
    /\ durable \in BOOLEAN
    /\ rows = [d \in {} |-> {}]
    /\ asked = [c \in Calls |-> Unasked]
    /\ answers = [c \in Calls |-> "none"]

\* The rows with r for the device d, and without d.
With(d, r) == [e \in Registered \cup {d} |-> IF e = d THEN r ELSE rows[e]]
Without(d) == [e \in Registered \ {d} |-> rows[e]]

\* A new device; never over a row there is.
Enrol(c, d) ==
    /\ d \notin Registered
    /\ rows' = With(d, [enrolment |-> c, keys |-> c, revoked |-> FALSE])

\* The keys are replaced; the history and the revocation stay.
Rekey(c, d) ==
    /\ d \in Registered
    /\ rows' = With(d, [rows[d] EXCEPT !.keys = c])

Revoke(d) ==
    /\ d \in Registered
    /\ rows' = With(d, [rows[d] EXCEPT !.revoked = TRUE])

Remove(d) == rows' = Without(d)

\* What the call c was asked to do, done.
Change(c) ==
    LET d == asked[c].device
        To(operation) == asked[c].operation = operation
    IN  \/ To("register") /\ Enrol(c, d)
        \/ To("reregister") /\ Rekey(c, d)
        \/ To("revoke") /\ Revoke(d)
        \/ To("delete") /\ Remove(d)
-----------------------------------------------------------------------------
\* A call is made, and refused at once if its body is not what it should be.
Ask(c) ==
    /\ asked[c] = Unasked
    /\ \E request \in Requests : asked' = [asked EXCEPT ![c] = request]
    /\ \E answer \in {"none", "refused"} : answers' = [answers EXCEPT ![c] = answer]
    /\ UNCHANGED <<durable, rows>>

Answer(c, answer) ==
    /\ asked[c] # Unasked /\ answers[c] = "none"
    /\ answers' = [answers EXCEPT ![c] = answer]
    /\ UNCHANGED <<durable, asked>>

Granted(c) == Answer(c, "ok") /\ Change(c)

\* A refusal changes nothing, and its reason holds of the device asked about.
Refused(c) ==
    /\ UNCHANGED rows
    /\ LET d == asked[c].device
           operation == asked[c].operation
       IN  \/ /\ Answer(c, "exists")
              /\ operation = "register" /\ d \in Registered
           \/ /\ Answer(c, "not found")
              /\ operation # "register" /\ d \notin Registered
           \/ /\ Answer(c, "revoked")
              /\ operation = "reregister" /\ d \in Registered /\ rows[d].revoked

\* A failed statement may have done its work, the one asked of it.
Failed(c) ==
    /\ durable /\ Answer(c, "error")
    /\ UNCHANGED rows \/ Change(c)

\* New keys for a device that a database finds gone when it writes them are no
\* error: nothing is changed, and the answer is that it was.
Overtaken(c) ==
    /\ durable /\ asked[c].operation = "reregister"
    /\ asked[c].device \notin Registered
    /\ Answer(c, "ok") /\ UNCHANGED rows

\* A database that fails to look up the device to be given new keys has it
\* answered that there is none, though there is.
Misreported(c) ==
    /\ durable /\ asked[c].operation = "reregister"
    /\ asked[c].device \in Registered
    /\ Answer(c, "not found") /\ UNCHANGED rows

\* The process ends: a registry in memory is empty when it is back.
Lost == ~durable /\ rows' = [d \in {} |-> {}] /\ UNCHANGED <<durable, asked, answers>>

RegistryNext ==
    \/ \E c \in Calls :
         \/ Ask(c) \/ Granted(c) \/ Refused(c) \/ Failed(c)
         \/ Overtaken(c) \/ Misreported(c)
    \/ Lost

RegistrySpec == RegistryInit /\ [][RegistryNext]_registryVars
=============================================================================
