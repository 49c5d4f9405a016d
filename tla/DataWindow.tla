----------------------------- MODULE DataWindow -----------------------------
(***************************************************************************)
(* The window of data nonces a session has accepted under its current key  *)
(* (internal/crypto/replay_data.go): a set for the lookup and a queue for  *)
(* the order of eviction, kept together by hand, emptied when the key      *)
(* changes.  Every operation is one section under Session.mu.  A nonce is  *)
(* a model value; a packet may be delivered any number of times.           *)
(***************************************************************************)
EXTENDS Naturals, Sequences, FiniteSets

CONSTANTS
    DataNonces,   \* the nonces under which packets are sealed
    MaxSeen,      \* maxSeenNonces
    MaxOpened     \* bound: packets accepted under one key

ASSUME DataWindowAssumption == MaxSeen \in Nat \ {0} /\ MaxOpened \in Nat

VARIABLES
    seen,      \* Session.seenNonces
    order,     \* Session.seenOrder
    closed,    \* Session.closed
    opened     \* history: the nonces accepted under this key, in order

windowVars == <<seen, order, closed, opened>>

Elements(q) == {q[i] : i \in DOMAIN q}
Last(q, n) == SubSeq(q, IF Len(q) > n THEN Len(q) - n + 1 ELSE 1, Len(q))

WindowTypeOK ==
    /\ seen \subseteq DataNonces /\ order \in Seq(DataNonces)
    /\ closed \in BOOLEAN /\ opened \in Seq(DataNonces)

\* NewSession
WindowInit == seen = {} /\ order = <<>> /\ closed = FALSE /\ opened = <<>>

\* Mutants: the eviction empties a full window; it begins one entry late.
DropAll == IF Len(order) >= MaxSeen THEN Len(order) ELSE 0
DropLate == IF Len(order) > MaxSeen THEN Len(order) - MaxSeen ELSE 0

\* How many of the oldest entries make room for one more.
Drop == IF Len(order) >= MaxSeen THEN Len(order) - MaxSeen + 1 ELSE 0

\* Mutant: the evicted entries leave the queue and stay in the set.
SeenAfterKept(n) == seen \cup {n}

SeenAfter(n) == (seen \ Elements(SubSeq(order, 1, Drop))) \cup {n}

\* CheckDataNonce returning nil; an error changes nothing.
CheckDataNonce(n) ==
    /\ ~closed /\ n \notin seen /\ Len(opened) < MaxOpened
    /\ seen' = SeenAfter(n)
    /\ order' = Append(SubSeq(order, Drop + 1, Len(order)), n)
    /\ opened' = Append(opened, n)
    /\ UNCHANGED closed

resetSeenNoncesLocked == seen' = {} /\ order' = <<>>

\* CommitRotate: under the new key the old packets do not decrypt.
CommitRotate ==
    /\ ~closed /\ resetSeenNoncesLocked
    /\ opened' = <<>> /\ UNCHANGED closed

Close == resetSeenNoncesLocked /\ closed' = TRUE /\ opened' = <<>>

WindowNext == (\E n \in DataNonces : CheckDataNonce(n)) \/ CommitRotate \/ Close

WindowSpec == WindowInit /\ [][WindowNext]_windowVars
-----------------------------------------------------------------------------
(***************************************************************************)
(* RecentRefused: the last MaxSeen packets accepted under the key are all  *)
(* refused when they come again, through any number of evictions and of    *)
(* old packets let in again after theirs.                                  *)
(***************************************************************************)
RecentRefused == Elements(Last(opened, MaxSeen)) \subseteq seen

(***************************************************************************)
(* NothingElseRefused: what is refused is one of these: the set never      *)
(* keeps a nonce the queue has let go, so neither grows past the limit and *)
(* no entry stays behind for good (maxSeenNonces; the two are separate     *)
(* containers of the code).                                                *)
(***************************************************************************)
NothingElseRefused ==
    /\ seen \subseteq Elements(Last(opened, MaxSeen))
    /\ order = Last(opened, MaxSeen) /\ Cardinality(seen) = Len(order)

\* WindowInv: the type invariant and the two promises, which carry each other.
WindowInv == WindowTypeOK /\ RecentRefused /\ NothingElseRefused
=============================================================================
