------------------------------ MODULE Queries ------------------------------
(***************************************************************************)
(* What the dashboard reads: the queries of both stores over one journal,  *)
(* the loops of memstore beside the SQL of pgstore, and the limits that    *)
(* the endpoints of internal/api put on them.                              *)
(*                                                                         *)
(* An entry's id stands for its time too: entries are taken to be appended *)
(* in the order of their stamps, which the gateway reads before it locks   *)
(* the store (gateway.go:842), so two devices at once may break it.        *)
(***************************************************************************)
EXTENDS Integers, FiniteSets, SequencesExt

CONSTANTS
    MaxAnswer,    \* maxTelemetryLimit, the default of QueryTelemetry too
    MaxChecks,    \* the endpoint of firmware checks: at most, and by default
    DefaultChecks

ASSUME QueriesAssumption ==
    {MaxAnswer, MaxChecks, DefaultChecks} \subseteq Nat \ {0} /\ DefaultChecks <= MaxChecks

AnyDevice == "any"  \* an empty device_id
NoTime == 0         \* a zero Since or Until
NoEntry == "none"   \* a nil reading

Of(e, d) == d = AnyDevice \/ e.device = d
Within(e, since, until) ==
    /\ since # NoTime => e.id >= since
    /\ until # NoTime => e.id <= until
-----------------------------------------------------------------------------
(* memstore: the slice of entries, oldest first, read from its end back    *)
(* until there are enough of those wanted.                                 *)

Full(out, limit) == limit > 0 /\ Len(out) >= limit

\* The loop: out[i] is what has been gathered from the newest i entries.
NewestFirst(items, wanted, limit) ==
    LET out[i \in 0..Len(items)] ==
            IF i = 0 THEN <<>>
            ELSE LET e == items[Len(items) - i + 1]  before == out[i - 1]
                 IN  IF e \in wanted /\ ~Full(before, limit) THEN Append(before, e)
                     ELSE before
    IN  out[Len(items)]

MemRecentEvents(items, d, limit) ==
    NewestFirst(items, {e \in ToSet(items) : e.device = d}, limit)

MemEventsByType(items, kinds, d, limit) ==
    NewestFirst(items,
                {e \in ToSet(items) : Of(e, d) /\ (kinds = {} \/ e.kind \in kinds)}, limit)

MemRotationHistory(items, d, limit) ==
    NewestFirst(items, {e \in ToSet(items) : Of(e, d)}, limit)

OrDefault(limit) == IF limit <= 0 THEN MaxAnswer ELSE limit

\* Oldest first, for the graphs.
MemQueryTelemetry(items, d, since, until, limit) ==
    Reverse(NewestFirst(items,
                        {e \in ToSet(items) : Of(e, d) /\ Within(e, since, until)},
                        OrDefault(limit)))

Put(out, e) == [d \in DOMAIN out \cup {e.device} |-> IF d = e.device THEN e ELSE out[d]]

\* From the oldest on; later readings write over earlier ones.
MemLatestTelemetryAll(items) ==
    LET out[i \in 0..Len(items)] ==
            IF i = 0 THEN [d \in {} |-> NoEntry] ELSE Put(out[i - 1], items[i])
    IN  out[Len(items)]

\* The first one found from the end.
MemLatestTelemetry(items, d) ==
    LET found == NewestFirst(items, {e \in ToSet(items) : e.device = d}, 1)
    IN  IF found = <<>> THEN NoEntry ELSE found[1]
-----------------------------------------------------------------------------
(* pgstore: what SQL answers from a table of entries.                      *)

Above(table, e) == {f \in table : f.id > e.id}

\* ORDER BY ... DESC: the entries with k above them, of which there is one.
Ranked(table, k) == {e \in table : Cardinality(Above(table, e)) = k}

LimitTo(limit, n) == IF limit > 0 /\ limit < n THEN limit ELSE n

\* ORDER BY ... DESC LIMIT
Newest(table, limit) ==
    [k \in 1..LimitTo(limit, Cardinality(table)) |-> CHOOSE e \in Ranked(table, k - 1) : TRUE]

PgRecentEvents(table, d, limit) == Newest({e \in table : e.device = d}, limit)

PgEventsByType(table, kinds, d, limit) ==
    Newest({e \in table : Of(e, d) /\ (kinds # {} => e.kind \in kinds)}, limit)

PgRotationHistory(table, d, limit) == Newest({e \in table : Of(e, d)}, limit)

PgQueryTelemetry(table, d, since, until, limit) ==
    Reverse(Newest({e \in table : Of(e, d) /\ Within(e, since, until)}, OrDefault(limit)))

\* SELECT DISTINCT ON (device_id) ... ORDER BY device_id, received_at DESC
PgLatestTelemetryAll(table) ==
    [d \in {e.device : e \in table} |-> PgRecentEvents(table, d, 1)[1]]

PgLatestTelemetry(table, d) ==
    LET found == PgRecentEvents(table, d, 1)
    IN  IF found = <<>> THEN NoEntry ELSE found[1]
-----------------------------------------------------------------------------
(* internal/api: the limit a request asks for, or none.                    *)

NoLimit == -100

\* Mutant: a negative limit goes to the store, to which it means all.
ChecksLimitUnclamped(limit) == IF limit = NoLimit THEN DefaultChecks
                               ELSE IF limit > MaxChecks THEN MaxChecks ELSE limit

\* getFirmwareChecks
ChecksLimit(limit) ==
    CASE limit = NoLimit -> DefaultChecks
      [] limit # NoLimit /\ limit < 1 -> 1
      [] OTHER -> IF limit > MaxChecks THEN MaxChecks ELSE limit

\* getRotations: no limit, and none below it.
RotationsLimit(limit) ==
    CASE limit < 0 -> 0
      [] OTHER -> IF limit > MaxAnswer THEN MaxAnswer ELSE limit

\* parseTelemetryFilter: a limit below 1 is left to the store.
TelemetryLimit(limit) ==
    CASE limit = NoLimit -> 0
      [] OTHER -> IF limit > MaxAnswer THEN MaxAnswer ELSE limit
-----------------------------------------------------------------------------
\* Both stores answer every query alike, whatever device, types, period and
\* limit it names.
Alike(items, table, devices, kinds, limits, times) ==
    /\ MemLatestTelemetryAll(items) = PgLatestTelemetryAll(table)
    /\ \A d \in devices \cup {AnyDevice} :
        /\ MemLatestTelemetry(items, d) = PgLatestTelemetry(table, d)
        /\ \A limit \in limits :
             /\ MemRecentEvents(items, d, limit) = PgRecentEvents(table, d, limit)
             /\ MemRotationHistory(items, d, limit) = PgRotationHistory(table, d, limit)
             /\ \A some \in SUBSET kinds :
                  MemEventsByType(items, some, d, limit) = PgEventsByType(table, some, d, limit)
             /\ \A since, until \in times :
                  MemQueryTelemetry(items, d, since, until, limit)
                      = PgQueryTelemetry(table, d, since, until, limit)

\* What an endpoint sends is bounded, whatever limit the request asks for.
Bounded(items, kinds, limits) ==
    \A limit \in limits :
        /\ Len(MemQueryTelemetry(items, AnyDevice, NoTime, NoTime, TelemetryLimit(limit)))
               <= MaxAnswer
        /\ Len(MemEventsByType(items, kinds, AnyDevice, ChecksLimit(limit))) <= MaxChecks
        /\ limit > 0 => Len(MemRotationHistory(items, AnyDevice, RotationsLimit(limit)))
                            <= IF limit < MaxAnswer THEN limit ELSE MaxAnswer
=============================================================================
