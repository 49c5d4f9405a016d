------------------------------ MODULE Session ------------------------------
(***************************************************************************)
(* The session object both ends of a LACERT channel hold                   *)
(* (internal/crypto/session.go, rotation_atomic.go).  Every method of the  *)
(* Go type runs under Session.mu, so each is one operator from a session   *)
(* record to the next one, beside the condition under which it returns no  *)
(* error; a method that fails returns the session unchanged.               *)
(*                                                                         *)
(* BLAKE3 is modelled as a free constructor: the key derived from Ki, the  *)
(* secret mi and the step number is Ki extended by <<mi, iteration>>, so   *)
(* two keys are equal exactly when their whole derivations are.            *)
(*                                                                         *)
(* Left to other modules: the packet counter and the rotation clock        *)
(* (whether a rotation is due is a choice of the environment here) and the *)
(* window of seen data nonces (DataWindow.tla).                            *)
(***************************************************************************)
EXTENDS Naturals, Sequences

Key == Seq(Nat \X Nat)

\* What zeroize leaves in the key buffers.
NoKey == <<>>

\* K0 of the c-th handshake: a fresh secret bound to a fresh transcript.
DeriveK0(c) == << <<c, 0>> >>

deriveNextKey(key, mi, it) == Append(key, <<mi, it>>)

\* k2 is derived from k1 in one step, whatever the secret.
Derived(k2, k1) == k2 # NoKey /\ k2 = Append(k1, k2[Len(k2)])

SessionType == [key: Key, iteration: Nat,
                pendingActive: BOOLEAN, pendingKey: Key, pendingIteration: Nat,
                closed: BOOLEAN]

NewSession(k0) ==
    [key |-> k0, iteration |-> 0, pendingActive |-> FALSE, pendingKey |-> NoKey,
     pendingIteration |-> 0, closed |-> FALSE]

CanBegin(s, it) == ~s.closed /\ ~s.pendingActive /\ it = s.iteration + 1

BeginRotate(s, mi, it) ==
    [s EXCEPT !.pendingActive = TRUE, !.pendingIteration = it,
              !.pendingKey = deriveNextKey(s.key, mi, it)]

CanCommit(s) == ~s.closed /\ s.pendingActive

\* pendingIteration is not reset by the code; it is dead while pendingActive
\* is FALSE and the next BeginRotate overwrites it.
CommitRotate(s) ==
    [s EXCEPT !.key = s.pendingKey, !.iteration = s.pendingIteration,
              !.pendingKey = NoKey, !.pendingActive = FALSE]

AbortRotate(s) ==
    [s EXCEPT !.pendingKey = NoKey, !.pendingActive = FALSE, !.pendingIteration = 0]

Close(s) ==
    [s EXCEPT !.key = NoKey, !.pendingKey = NoKey, !.pendingActive = FALSE,
              !.closed = TRUE]

\* Mutant: a rotation is answered while one of this end's own is pending.
CanRespondWhilePending(s, it) == ~s.closed /\ it = s.iteration + 1

(***************************************************************************)
(* RespondToRotationAtomic: the receiver checks the step number, begins    *)
(* and commits.  On either side the only thread that changes the key is    *)
(* the one that reads frames, and while it is here no other thread can get *)
(* past CanBegin or CanCommit, so the three locked sections are one step.  *)
(***************************************************************************)
CanRespond(s, it) == CanBegin(s, it)

RespondToRotationAtomic(s, mi, it) == CommitRotate(BeginRotate(s, mi, it))

\* ApplyRotationAck: the check and the commit are under one lock.
CanApplyAck(s, it) == CanCommit(s) /\ it = s.pendingIteration

ApplyRotationAck(s) == CommitRotate(s)
=============================================================================
