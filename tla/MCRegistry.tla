----------------------------- MODULE MCRegistry -----------------------------
(* Registry and the queries over its journal.                              *)
EXTENDS Registry, Queries

\* The journal as memstore holds it, oldest entry first.
InOrder ==
    [k \in 1..Cardinality(journal) |->
        CHOOSE e \in journal : Cardinality(Older(journal, e)) = k - 1]

Interchangeable == Permutations(Calls) \cup Permutations(Devices)

Kinds == {"operator", "traffic"}
Limits == {-1, 1, 3}
Times == {NoTime, 2}

\* Nothing is under way: each journal is read once it has come about.
Quiet == handlers = [d \in {} |-> {}] /\ \A c \in Calls : calls[c].at \in {"idle", "done"}

(***************************************************************************)
(* QueriesAnswered: over every journal the registry can come to, the map   *)
(* in memory and the database answer every query of the dashboard alike    *)
(* (DeviceStore is to be independent of its implementation, store.go:      *)
(* 132-134), and no request, without a limit or with a negative one, is    *)
(* sent more telemetry or firmware checks than the bound (api.go:735-739,  *)
(* 769-776).                                                               *)
(***************************************************************************)
QueriesAnswered ==
    Quiet => /\ Alike(InOrder, journal, Devices, Kinds, Limits, Times)
             /\ Bounded(InOrder, Kinds, Limits \cup {NoLimit})
=============================================================================
