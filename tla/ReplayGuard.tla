---------------------------- MODULE ReplayGuard ----------------------------
(***************************************************************************)
(* The gateway's memory of handshake nonces (internal/crypto/replay.go).   *)
(*                                                                         *)
(* Two generations of records: new ones enter current, a lookup sees both, *)
(* and every TTL/2 or later the older generation is dropped whole.  The    *)
(* generations move only inside a call, so a quiet gateway keeps old       *)
(* records for as long as it stays quiet; that delay is what makes the     *)
(* promised lifetime worth checking.  A nonceKey (device and nonce) is a   *)
(* model value.  Each call runs under ReplayGuard.mu: one step.            *)
(***************************************************************************)
EXTENDS Integers

CONSTANTS
    Nonces,   \* the nonceKeys that arrive
    TTL,      \* g.ttl, in clock units
    MaxTime   \* bound: the clock stops here

ASSUME ReplayGuardAssumption == TTL \in Nat \ {0} /\ MaxTime \in Nat

VARIABLES
    current, previous,  \* the two generations: functions to the time of entry
    rotated,            \* when the generations last moved
    now,                \* the (monotonic) clock
    accepted            \* history: when each nonce was last accepted, or Never

vars == <<current, previous, rotated, now, accepted>>

Never == -1
Half == TTL \div 2
Empty == [k \in {} |-> 0]

Holds(m, k, t) == k \in DOMAIN m /\ m[k] = t
Remember(m, k, t) == [x \in DOMAIN m \cup {k} |-> IF x = k THEN t ELSE m[x]]

TypeOK ==
    /\ current \in [DOMAIN current -> Nat] /\ DOMAIN current \subseteq Nonces
    /\ previous \in [DOMAIN previous -> Nat] /\ DOMAIN previous \subseteq Nonces
    /\ rotated \in Nat /\ now \in Nat
    /\ accepted \in [Nonces -> Nat \cup {Never}]

\* NewReplayGuard
Init ==
    /\ current = Empty /\ previous = Empty
    /\ rotated = 0 /\ now = 0
    /\ accepted = [k \in Nonces |-> Never]

\* rotateIfDueLocked: the generations a call finds once it has moved them.
RotationDue == now - rotated >= Half
CurrentNow == IF RotationDue THEN Empty ELSE current

PreviousNow == IF RotationDue THEN current ELSE previous

\* Mutant: a record counts as a repeat for as long as it is held.
SeenHowever(m, k) == k \in DOMAIN m

Seen(m, k) == k \in DOMAIN m /\ now - m[k] < TTL

\* Mutant: the older generation is not consulted.
IsReplayCurrentOnly(k) == Seen(CurrentNow, k)

IsReplay(k) == Seen(CurrentNow, k) \/ Seen(PreviousNow, k)

\* CheckAndRemember, whichever way it answers.
CheckAndRemember(k) ==
    /\ previous' = PreviousNow
    /\ rotated' = IF RotationDue THEN now ELSE rotated
    /\ IF IsReplay(k)
       THEN current' = CurrentNow /\ UNCHANGED accepted
       ELSE /\ current' = Remember(CurrentNow, k, now)
            /\ accepted' = [accepted EXCEPT ![k] = now]
    /\ UNCHANGED now

Tick == now < MaxTime /\ now' = now + 1 /\ UNCHANGED <<current, previous, rotated, accepted>>

Next == Tick \/ \E k \in Nonces : CheckAndRemember(k)

Spec == Init /\ [][Next]_vars
-----------------------------------------------------------------------------
(***************************************************************************)
(* RememberedForHalf: a nonce accepted less than half the TTL ago would be *)
(* refused by the next call, however the calls and the moves of the        *)
(* generations have interleaved ("lives from TTL/2 to TTL", replay.go:29). *)
(***************************************************************************)
RememberedForHalf ==
    \A k \in Nonces : accepted[k] # Never /\ now - accepted[k] < Half => IsReplay(k)

(***************************************************************************)
(* RefusedOnlyRecent: a nonce the next call would refuse was accepted less *)
(* than TTL ago; a record still held after a quiet period, or left in the  *)
(* older generation when the nonce came again, refuses nothing.            *)
(***************************************************************************)
RefusedOnlyRecent ==
    \A k \in Nonces : IsReplay(k) => accepted[k] # Never /\ now - accepted[k] < TTL

(***************************************************************************)
(* What makes both hold.  Located: the last acceptance of a nonce is on    *)
(* record in current; or in previous, from before the generations last     *)
(* moved; or it was dropped by a move at least half a TTL later.  Dated:   *)
(* no record is later than the nonce's last acceptance.                    *)
(***************************************************************************)
Located ==
    /\ rotated <= now
    /\ \A k \in Nonces : accepted[k] # Never =>
          /\ accepted[k] <= now
          /\ \/ Holds(current, k, accepted[k])
             \/ Holds(previous, k, accepted[k]) /\ accepted[k] <= rotated
             \/ accepted[k] + Half <= rotated

Dated == \A k \in Nonces : \A m \in {current, previous} :
    k \in DOMAIN m => accepted[k] # Never /\ m[k] <= accepted[k]

\* Inv: the inductive invariant, of the three parts.
Inv == TypeOK /\ Located /\ Dated
=============================================================================
