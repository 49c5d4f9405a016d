--------------------------- MODULE FirmwareCheck ---------------------------
(***************************************************************************)
(* The firmware integrity check: the scheduler sends a random challenge,   *)
(* the device answers with a signature over it and its firmware hash, and  *)
(* the handler judges the answer against the challenge then pending        *)
(* (internal/gateway IssueFirmwareChallenge and VerifyFirmwareCheck,       *)
(* scheduler.maybeCheckFirmware, tcpserver, the device's answer).          *)
(*                                                                         *)
(* The k-th challenge is the number k and issued[k] the time it was put in *)
(* pendingFirmware.  An answer carries the number of the challenge it      *)
(* signs: its signature verifies against that challenge only.  What a      *)
(* revocation does to the session is in Gateway.tla, and so are handlers   *)
(* that overlap: here a device comes back after its handler has returned.  *)
(***************************************************************************)
EXTENDS Integers, Sequences

CONSTANTS
    Timeout,       \* firmwareChallengeTimeout, in clock units
    Validity,      \* firmwareResponseValidity
    Interval,      \* Scheduler.FirmwareInterval
    MaxChallenges, \* bound: challenges in a behaviour
    MaxTime        \* bound: the clock stops here

\* The defaults are 25 s and 15 s; the program does not check the settings.
ASSUME FirmwareCheckAssumption ==
    /\ Timeout \in Nat /\ Validity \in Nat /\ Validity < Timeout
    /\ Interval \in Nat /\ MaxChallenges \in Nat /\ MaxTime \in Nat

VARIABLES
    now,           \* the clock
    tampered,      \* the device runs firmware other than the one enrolled
    revoked,       \* DeviceRecord.Revoked
    issued,        \* when each challenge was issued
    pending,       \* Gateway.pendingFirmware[device]: a challenge, or 0
    connected,     \* the device's side of the connection
    toDev, toGw,   \* challenges and answers in flight
    pc,            \* the handler: "read", "take", "verify", "done"
    answer,        \* the answer it holds
    challenge,     \* the challenge it has taken to judge it by
    sched,         \* the scheduler: "idle", "store", "write"
    entryLive,     \* the connEntry it holds is the present connection's
    lastCheck,     \* Scheduler.lastFirmwareCheck[device], or Never
    judged,        \* history: challenges an answer has been judged by
    dropped        \* history: challenges an error has consumed before their answer

netVars   == <<connected, toDev, toGw>>
histories == <<judged, dropped>>
handler   == <<pc, answer, challenge, histories>>
scheduler == <<sched, entryLive, lastCheck>>
vars == <<now, tampered, revoked, issued, pending, netVars, handler, scheduler>>

Never == -1
Challenges == 1..Len(issued)
Age(k) == now - issued[k]
Prefixes(q) == {SubSeq(q, 1, n) : n \in 0..Len(q)}

TypeOK ==
    /\ now \in Nat /\ tampered \in BOOLEAN /\ revoked \in BOOLEAN
    /\ issued \in Seq(Nat) /\ \A k \in Challenges : issued[k] <= now
    /\ {pending, answer, challenge} \subseteq Challenges \cup {0}
    /\ connected \in BOOLEAN
    /\ toDev \in Seq(Challenges) /\ toGw \in Seq(Challenges)
    /\ pc \in {"read", "take", "verify", "done"}
    /\ judged \subseteq Challenges /\ dropped \subseteq Challenges
    /\ sched \in {"idle", "store", "write"} /\ entryLive \in BOOLEAN
    /\ lastCheck \in Nat \cup {Never}

Init ==
    /\ now = 0 /\ tampered \in BOOLEAN /\ revoked = FALSE
    /\ issued = <<>> /\ pending = 0
    /\ connected = TRUE /\ toDev = <<>> /\ toGw = <<>>
    /\ pc = "read" /\ answer = 0 /\ challenge = 0
    /\ judged = {} /\ dropped = {}
    /\ sched = "idle" /\ entryLive = FALSE /\ lastCheck = Never
-----------------------------------------------------------------------------
(* The scheduler, the one goroutine that issues challenges.                *)

Due == lastCheck = Never \/ now - lastCheck >= Interval

\* Mutant: a challenge still waiting for its answer is replaced.
HeldOffNever == FALSE

\* The first locked section: a challenge not yet answered holds off the next.
HeldOff == pending # 0 /\ Age(pending) < Timeout

\* maybeCheckFirmware; an error leaves lastFirmwareCheck as it was.
SchedBegin ==
    /\ sched = "idle" /\ pc # "done" /\ Due
    /\ ~revoked /\ ~HeldOff /\ Len(issued) < MaxChallenges
    /\ sched' = "store" /\ entryLive' = connected
    /\ UNCHANGED <<now, tampered, revoked, issued, pending, netVars, handler, lastCheck>>

\* The second: whatever is pending by now is replaced.
SchedStore ==
    /\ sched = "store"
    /\ issued' = Append(issued, now) /\ pending' = Len(issued) + 1
    /\ sched' = "write"
    /\ UNCHANGED <<now, tampered, revoked, netVars, handler, entryLive, lastCheck>>

\* A write on a dead socket may fail, or not yet.
SchedWrite ==
    /\ sched = "write" /\ sched' = "idle" /\ entryLive' = FALSE
    /\ IF entryLive
       THEN toDev' = Append(toDev, Len(issued)) /\ lastCheck' = now
       ELSE UNCHANGED toDev /\ lastCheck' \in {lastCheck, now}
    /\ UNCHANGED <<now, tampered, revoked, issued, pending, connected, toGw, handler>>

\* pruneFirmwareCheckState, at a tick that finds no connection.
SchedPrune ==
    /\ sched = "idle" /\ pc = "done" /\ lastCheck' = Never
    /\ UNCHANGED <<now, tampered, revoked, issued, pending, netVars, handler, sched, entryLive>>
-----------------------------------------------------------------------------
(* The device, the network and the clock.                                  *)

DevAnswer ==
    /\ connected /\ toDev # <<>>
    /\ toGw' = Append(toGw, Head(toDev)) /\ toDev' = Tail(toDev)
    /\ UNCHANGED <<now, tampered, revoked, issued, pending, connected, handler, scheduler>>

\* The connection ends; what had reached the gateway can still be read.
Drop ==
    /\ connected /\ connected' = FALSE /\ entryLive' = FALSE
    /\ toDev' = <<>> /\ toGw' \in Prefixes(toGw)
    /\ UNCHANGED <<now, tampered, revoked, issued, pending, handler, sched, lastCheck>>

\* A new handshake, which a revoked device does not get.
Reconnect ==
    /\ pc = "done" /\ ~revoked
    /\ connected' = TRUE /\ pc' = "read"
    /\ UNCHANGED <<now, tampered, revoked, issued, pending, toDev, toGw,
                   answer, challenge, histories, scheduler>>

Tick ==
    /\ now < MaxTime /\ now' = now + 1
    /\ UNCHANGED <<tampered, revoked, issued, pending, netVars, handler, scheduler>>
-----------------------------------------------------------------------------
(* The handler: the TypeFirmwareResponse case and VerifyFirmwareCheck.     *)

Read ==
    /\ pc = "read" /\ toGw # <<>>
    /\ answer' = Head(toGw) /\ toGw' = Tail(toGw) /\ pc' = "take"
    /\ UNCHANGED <<now, tampered, revoked, issued, pending, connected, toDev,
                   challenge, histories, scheduler>>

ReadError ==
    /\ pc = "read" /\ toGw = <<>> /\ ~connected /\ pc' = "done"
    /\ UNCHANGED <<now, tampered, revoked, issued, pending, netVars,
                   answer, challenge, histories, scheduler>>

\* Mutant: the entry is deleted only when the answer has been found good.
PendingTakenLater == pending

\* The locked section of VerifyFirmwareCheck: the entry is taken out at once.
PendingTaken == 0

Take ==
    /\ pc = "take"
    /\ challenge' = pending /\ pending' = PendingTaken
    /\ pc' = IF pending = 0 THEN "read" ELSE "verify"
    /\ UNCHANGED <<now, tampered, revoked, issued, netVars, answer, histories, scheduler>>

Expired == Age(challenge) > Validity
Passes == answer = challenge /\ ~tampered

\* The answer has come too late: an error, and the handler reads on.
Reject ==
    /\ pc = "verify" /\ Expired
    /\ pc' = "read" /\ answer' = 0 /\ challenge' = 0
    /\ UNCHANGED <<now, tampered, revoked, issued, pending, netVars, histories, scheduler>>

\* Any other error: Store.Get fails or finds the device revoked, the enrolled
\* hash or the answer cannot be read.  The challenge is consumed all the same.
NoVerdict ==
    /\ pc = "verify" /\ ~Expired
    /\ dropped' = dropped \cup ({challenge} \ {answer})
    /\ pc' = "read" /\ answer' = 0 /\ challenge' = 0
    /\ UNCHANGED <<now, tampered, revoked, issued, pending, netVars, judged, scheduler>>

Pass ==
    /\ pc = "verify" /\ ~Expired /\ ~revoked /\ Passes
    /\ judged' = judged \cup {challenge}
    /\ pc' = "read" /\ answer' = 0 /\ challenge' = 0
    /\ UNCHANGED <<now, tampered, revoked, issued, pending, netVars, dropped, scheduler>>

\* The device is revoked and serveSession returns, which ends the connection.
Fail ==
    /\ pc = "verify" /\ ~Expired /\ ~revoked /\ ~Passes
    /\ judged' = judged \cup {challenge} /\ revoked' = TRUE
    /\ pc' = "done" /\ connected' = FALSE /\ entryLive' = FALSE
    /\ toDev' = <<>> /\ toGw' = <<>>
    /\ UNCHANGED <<now, tampered, issued, pending, answer, challenge, dropped, sched,
                   lastCheck>>

\* Store.Revoke fails, with the record marked or not: an error, and read on.
FailUnrevoked ==
    /\ pc = "verify" /\ ~Expired /\ ~revoked /\ ~Passes
    /\ judged' = judged \cup {challenge} /\ revoked' \in BOOLEAN
    /\ dropped' = dropped \cup ({challenge} \ {answer})
    /\ pc' = "read" /\ answer' = 0 /\ challenge' = 0
    /\ UNCHANGED <<now, tampered, issued, pending, netVars, scheduler>>

Next ==
    \/ SchedBegin \/ SchedStore \/ SchedWrite \/ SchedPrune
    \/ DevAnswer \/ Drop \/ Reconnect \/ Tick
    \/ Read \/ ReadError \/ Take \/ Reject \/ NoVerdict \/ Pass \/ Fail \/ FailUnrevoked

Spec == Init /\ [][Next]_vars
-----------------------------------------------------------------------------
(***************************************************************************)
(* RevokedOnlyIfLate: an honest device is revoked only over an answer that *)
(* came too late to be accepted, or whose challenge an error had consumed  *)
(* for the sake of an earlier answer; in spite of challenges replaced,     *)
(* answers rejected, failures of the registry and reconnections in         *)
(* between, no other answer meets a challenge than its own (HISTORY.md,    *)
(* "Silent replacement of an unanswered challenge").                       *)
(***************************************************************************)
TooLate(k) == Age(k) > Validity \/ k \in dropped

RevokedOnlyIfLate == [][~revoked /\ revoked' /\ ~tampered => TooLate(answer)]_vars

(***************************************************************************)
(* JudgedOnce: no answer is judged by a challenge that another has been    *)
(* judged by, or that another still could be (VerifyFirmwareCheck takes    *)
(* the entry out before it looks at the answer).                           *)
(***************************************************************************)
JudgedOnce == pc = "verify" => challenge \notin judged /\ pending # challenge

(***************************************************************************)
(* FirmwareInv: the inductive invariant behind both.                       *)
(***************************************************************************)
Elements(q) == {q[i] : i \in DOMAIN q}
InFlight == Elements(toGw) \cup Elements(toDev)
Rising(q) == \A i, j \in DOMAIN q : i < j => q[i] < q[j]

\* Challenges are answered in the order they were issued, each at most once.
Ordered ==
    /\ Rising(toGw) /\ Rising(toDev)
    /\ \A g \in Elements(toGw), d \in Elements(toDev) : g < d
    /\ pc \in {"take", "verify"} => \A k \in InFlight : answer < k
    /\ sched = "write" => Len(issued) \notin InFlight \cup {answer}

\* The challenge of an answer that is not too late is pending still, or is being
\* held against an earlier answer, which will end the connection, find it expired
\* too or drop it.
Timely(k) == revoked \/ pending = k \/ TooLate(k)

Outstanding == InFlight \cup IF sched = "write" THEN {Len(issued)} ELSE {}

Tracked ==
    /\ \A k \in Outstanding : Timely(k) \/ (pc = "verify" /\ challenge = k)
    /\ pc = "take" => answer # 0 /\ Timely(answer)
    /\ pc = "verify" =>
          /\ answer # 0 /\ challenge # 0
          /\ revoked \/ answer = challenge \/ TooLate(answer)
    /\ sched = "store" /\ pending # 0 => Age(pending) >= Timeout
    /\ sched = "write" => issued # <<>>
    /\ pending \notin judged

FirmwareInv == TypeOK /\ Ordered /\ Tracked /\ JudgedOnce

(***************************************************************************)
(* HonestNotRevoked: "a response to a stale challenge is rejected (the     *)
(* device is not revoked in this case, since the response itself is        *)
(* correct - only its timing is wrong)" (ROBUSTNESS.md:66-68).             *)
(***************************************************************************)
HonestNotRevoked == revoked => tampered
=============================================================================
