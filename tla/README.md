# A TLA+ model of LACERT

LACERT is an IoT gateway in Go with devices in Go (an emulator) and in C (ESP32 firmware). A device
makes a post-quantum handshake over TCP, after which both ends share a session key that is rotated
every 300 s or 300 packets; the gateway also checks the device's firmware hash once an hour, and
revokes devices that fail the check or never acknowledge a rotation.

This directory holds TLA+ modules of the parts of the program whose correctness depends on the order
of things, TLC configurations that check them on small instances, and TLAPS proofs of the theorems
that hold for every instance. `PROJECT.json` maps each definition to the lines it models.

    tlc -config RotationFirmware.cfg Rotation
    tlapm Rotation_proofs.tla

## 1. Inventory

| Component | State it keeps | Operations | Talks to |
|---|---|---|---|
| Session and atomic rotation (`internal/crypto/session.go`, `rotation_atomic.go`) | key, iteration, pending key and iteration, closed; packet count and clock | BeginRotate, CommitRotate, AbortRotate, RespondToRotationAtomic, ApplyRotationAck, Close | called by handler, scheduler and device threads, under `Session.mu` |
| Data replay window (`replay_data.go`) | a set and a queue of accepted nonces | CheckAndRemember, reset at each key change | Gateway.HandleData |
| Handshake replay guard (`replay.go`) | two generations of nonces, time of the last move | Check | Gateway.HandleMsg1 |
| Gateway (`internal/gateway`) | pendingHandshake, sessions, pendingFirmware | HandleMsg1/3, sessions, revoke, delete, (re-)register, rotation, firmware check | TCP server, scheduler, REST API; registry below it |
| TCP server (`transport/tcpserver`) | conns, accepted, active, closing, serveExited | Serve, handleConn, serveSession, Disconnect, Shutdown | one goroutine per connection, calls Gateway |
| Scheduler (`internal/scheduler`) | rotationFailures, failureSeen, lastIteration, lastFirmwareCheck | tick: maybeRotate, maybeCheckFirmware, pruning | Gateway and TCP server, from one goroutine |
| Go device and client (`internal/device`, `transport/tcpclient`) | its session, the socket | Handshake, Listen, SendData, ForceAtomicRotation | the gateway, over TCP |
| ESP32 firmware (`firmware/main`) | session key, iteration, socket | one loop: read a frame or send telemetry | the gateway, over TCP |
| Registry and journals (`internal/store`, `store/pgstore`) | devices, events, telemetry, rotations; in memory with bounded journals, or in PostgreSQL | Register, Reregister, Revoke, Delete, Get, log, list | Gateway, REST API |
| REST API (`internal/api`) | limiter of failed logins | register, re-register, revoke, delete, lists, login | Gateway, TCP server |
| gatewayd (`cmd/gatewayd`) | - | choice of the store, order of starting and stopping, one deadline for both servers | everything above |
| Emulator (`internal/emulator`) | its keys, attempts and last error | ResetDevices; Run: fetch the key, register, dial, each with retries | REST API, TCP server, registry |
| MQTT bridge, telemetry parser, dashboard, tools | loops and data | - | around the above |

What is hard in this code, and where (the list with lines is `hazards` in `PROJECT.json`):

* **Four threads on two sessions.** The handler and the scheduler share the gateway's session, the
  reader and the sender the device's. A rollback races the acknowledgement; rotations from both ends
  cross; a packet is sealed before the write lock is taken.
* **Overlapping connections of one device.** The handler of a dead connection may still be anywhere
  between two locked sections when the next connection makes its handshake, registers and serves.
* **The operator** revokes, deletes or re-registers a device in several steps among these, and several
  operators do so at once.
* **A store that fails.** A statement of the database may fail, with its work done or not; a method
  may be two statements, or a transaction that others see before and after but write around; a
  caller may give up half-way through a revocation; a retry may meet what its own first attempt left.
* **Answers that come late.** A challenge is replaced after 25 s, an answer refused after 15 s; an
  error over one answer consumes the challenge that another is on its way to.
* **State that outlives what it describes**: the scheduler's counters across reconnections, the
  guard's generations across quiet periods, a database across restarts, entries of a journal written
  for a device that has been deleted.
* **Stopping** while connections are being accepted and handshakes finish, against one deadline.

What makes the components correct: the ends of a rotation can always meet again and no step of it is
silently lost; failures are neither forgotten nor invented; one live connection and one open session
per device, and none when it is gone; a shut-out device stays out, but for the ways in that are
named; an honest device is not revoked over an answer that comes in time and whose challenge stands;
a replayed nonce is refused and a fresh one is not; slots are counted exactly and a shutdown ends
and leaves no key behind; every call of the registry is one atomic change, the one asked for, whose
answer is true in either store but for two that are named; a journal loses only its oldest entries;
an emulated device gets its session.

## 2. Modules

| Module | Models |
|---|---|
| `Session` | the session record and its methods as operators; a key is the list of the secrets it was derived from, so keys are equal exactly when their derivations are |
| `KeyAgreement` | abstract specification, of `Rotation` and `Reconnection`: two ends of a link, one may be one key ahead and the other can only follow to that key |
| `Rotation` | one device and the gateway: handler, scheduler, device reader and sender, two FIFO channels; implements `KeyAgreement` |
| `ReplayGuard` | the guard of handshake nonces over a discrete clock |
| `DataWindow` | the window of accepted data nonces |
| `AntiReplay` | the guard and the window in one gateway, joined by the handshake |
| `Gateway` | any number of overlapping connections of one device, from boards that may or may not hold the keys registered, the handshake and session tables, failed firmware checks, the operator and the scheduler's revocation, whose calls of the registry may fail |
| `Reconnection` | control frames and the scheduler on overlapping connections: every call fetches session and connection from the tables anew |
| `FirmwareCheck` | challenges and answers over a discrete clock |
| `TcpServer` | Serve, the connection limit, the handlers' life and Shutdown |
| `Gatewayd` | the process: the server, the key material of its handlers' handshakes, the emulated devices, and the stop, of which the TCP server's Shutdown is one part |
| `DeviceStore` | abstract specification: a registry whose calls each make at most one atomic change, the one they were asked for, with an answer that is true of their device's row at that instant; two answers of a database that are not true are actions of their own |
| `Registry` | both stores under the calls of several operators and the traffic of the devices, with the journal, the transaction of `Delete`, failures of the database and restarts; implements `DeviceStore` |
| `Queries` | the stores' queries as operators, memstore's loops over a slice beside pgstore's SQL over a table, and the limits the REST endpoints put on them |
| `MCRegistry` | `Registry` and `Queries` together: the journal as the slice and as the table |
| `*_proofs` | theorems about the module they are named after |

**Correspondence.** Every section of the Go code that runs under one lock, and every read or write
of a socket, is one action; what may happen between two of them is any other action. `pc`-like
variables (`gwPc`, `schedPc`, `devPc`, `pc`, `serve`, `handler`, `operator`) say where a goroutine
is; the other variables are the fields their comments name. Names starting with a lower-case letter
(`checkRotationProgress`, `registerConn`, `trimOldest`), `CloseSessionInstance`, `ResetDevices` and
so on are the functions of the source. A second goroutine's view of a value read before an unlock is
a variable too: `own` is handleConn's `ownSession`, `target` the session a handler has fetched to
rotate, `lastErr` is the emulator's, `schedConn` the entry the scheduler took, `operatorConn` the
one `Disconnect` took, `challenge` what VerifyFirmwareCheck took out of the map.

**Composition.** `Rotation` uses `Session`'s operators for both ends and maps its live connection to
`KeyAgreement`. In `Rotation` and `FirmwareCheck` a device comes back only after its handler has
returned; what handlers that overlap do to each other is `Gateway`, which in turn has no frames.
`Reconnection` joins the two on `Session`'s operators: the frames and the scheduler of `Rotation`
and the two tables of `Gateway`, with handshake and device reduced to what a rotation can notice;
as long as no frame strays it maps the device's connection and the session that faces it to
`KeyAgreement` too.
`AntiReplay` extends both replay windows: a Msg1 that the guard lets through is what lets a session
with an empty window begin. `Gatewayd` extends `TcpServer` and takes its actions, joined with what
main, the handshake tables and the emulators do in the same step (`HandlerLeaves` is `Leave` and the
closing of the session; `RestStopped` is the call of `Shutdown`); `TcpServer`'s properties are
checked there. `Registry` has of the gateway only the calls it makes of the store and the packets
and handshakes under way while it makes them.

**What a failure does.** `RevokeDevice`, `ReregisterDevice` and `DeleteDevice` stop at the first
error of the store, and with a database the statement may have been done. In `Rotation` the
scheduler logs a revocation that failed (`SchedRevoke`, its second branch), goes on to `Disconnect`
and deletes the count of failures all the same (`EndDisconnect`). In `Gateway` the REST handler
returns and the scheduler disconnects (`StoreRevokeFails`), a change of keys ends there
(`StoreReregisterFails`), and the session stays in the table; `spared` remembers it. A failed
firmware check (`FirmwareRevokes`, `FirmwareCloses`) closes the session in the table and ends the
connection of its own handler; nobody calls `Disconnect`, and if the store fails the handler reads
on (`FirmwareRevokeFails`). Firmware checks are made by the handlers, any number of times; the
operator's calls and the scheduler's are taken one at a time. In `FirmwareCheck` every error of
VerifyFirmwareCheck consumes the challenge and the handler reads on: `Reject` when it has expired,
`NoVerdict` when the registry or the answer cannot be read, `FailUnrevoked` when the revocation
fails. `dropped` remembers the challenges so consumed for an answer to another. `Reconnection` has
no revocations: of the scheduler's branches it takes the rollback below the limit, which is the one
that lets the device come back.

**Delete in the database** is a transaction at READ COMMITTED (`pgstore.go:269-285`). `DeleteRow`
locks the row, which stays visible, so other calls read it, handshakes pass and entries are
written; calls that would write the row wait (`Locked`). `DeleteJournal` takes the
entries there are by then (`purged`), `Commit` removes row and entries at once, `Rollback` neither.
If the first statement finds no row the transaction has nothing to do with rows any more: it is
answered for there, since a device registered meanwhile is left alone. The four statements are
three here, as the three journals are one.

**Mutants.** An operator with a comment that begins with "Mutant" is a plausible bug in the operator
after it. It is used by nothing: it shows, when put in that operator's place, that the property
named with it in `PROJECT.json` notices.

## 3. Runs

| Run | Instance | What it shows |
|---|---|---|
| `rotation_firmware` | 3 handshakes, 3 secrets, queues of 2, revocation after 2 | with the firmware as the device, keys stay `Recoverable`, `TagsVerify`, `NoDataLost`, `FailuresCounted` |
| `rotation_client` | 2 handshakes, 2 secrets, both ends initiate | with the two-threaded client: the inductive invariant (which implies `Recoverable`), the refinement of `KeyAgreement`, `CommitMeetsPeer`, and the liveness `RotationSettles`, `DivergenceHeals`, `RevokedIsCutOff` |
| `anti_replay` | 2 handshake nonces, TTL 5, time 11; a window of 2, 4 data nonces, 5 packets | a handshake nonce is refused for at least half a TTL and for no longer than one; the last packets of a session are refused and nothing else, however sessions and key changes follow one another |
| `gateway` | 2 connections, 2 boards, 1 call of the operator of any kind, enrolments and firmware checks besides, each of which may fail | `OneServed`, `TableOpen`, `ShutOutUnlessAdmitted`, `SupersededGivesWay`; both tables empty themselves; a served device that is revoked by the operator, or that the scheduler tries to revoke, loses its socket |
| `reconnection` | 2 connections, 3 secrets, both ends initiate | of each handler at most one frame strays to the session of another connection (`OneStray`, a part of `ReconnectionInv`); nothing else commits a key the device does not hold (`ConfirmedUnlessStray`); until one strays the device's connection is the link of `KeyAgreement` (`AgreementUnlessStray`); ends with different keys part or meet (`ApartHeals`) |
| `firmware_check` | timeout 4, validity 2, 3 challenges, time 9, errors at any answer | an honest device is revoked only over an answer past its validity or one whose challenge an error had consumed; no challenge judges two answers |
| `registry` | 2 devices, 3 operators' calls, journals of 1 with a slack of 1, 2 packets or handshakes, 1 restart, both stores | both stores implement `DeviceStore`; entries about a deleted device were written after it was deleted, or between the transaction's statement on the journal and its COMMIT (`OrphansAreLate`); the journal keeps the newest (`JournalKeepsNewest`); both stores answer every query alike, within the endpoints' limits (`QueriesAnswered`) |
| `gatewayd` | 2 connections, reused, limit 1, 1 emulated device; Accept and the registry may fail | no connection escapes a Shutdown, slots are exact, Shutdown ends by itself, no key is left when main has come to its end in time, and an emulated device gets its session |

Four more runs state what a comment or document says and the code does not do. Each ends in a
counterexample:

* `rotation_data_loss`: the receiver of a rotation "has no unfinished sends under the old key"
  (`rotation_atomic.go`). `tcpclient.SendData` seals before it takes the lock, so a packet sealed
  under the old key is written after the ACK and the gateway cannot open it. (The firmware has one
  loop; there `NoDataLost` holds.)
* `rotation_not_in_a_row`: the failure counter is "reset by the first successful rotation"
  (`CONFIG.md`). The scheduler infers a success from the iteration having grown since the last tick;
  a success followed by a reconnection between two ticks is not seen, and failures that are not
  consecutive add up.
* `gateway_own_session`: when a connection ends "we close strictly our own session" (`server.go`).
  A reconnection overwrites the table entry of a session that is still open, its handler no longer
  finds it, and the key is never wiped (TLC's counterexample). And since a handler reads from the
  table which session is its own after the lock was released, it may get a newer handshake's, and
  closes that.
* `firmware_check_late`: "a response to a stale challenge is rejected (the device is not revoked)".
  The late answer to a challenge already replaced is judged by the new one and fails.

Statements close to these that the models also refute, with the property that says what does hold:
after a rollback both ends are on one key (`Recoverable`, `DivergenceHeals`); the two generations of
the guard are disjoint, which only its `Size` relies on; a newer connection always replaces an older
one (`OneServed`) and supersedes its handshake (`SupersededGivesWay`), while the order is that of
the locks; a revoked, deleted or re-keyed device has no session (`ShutOutUnlessAdmitted`: not when a
handshake was past the registry, nor when the call failed with its work done); the scheduler's count
lasts until a success (`FailuresCounted`: or until it has tried to revoke, even in vain); a revoked
device has no open connection (`RevokedIsDisconnected`: one that registers after `Disconnect` has
looked keeps it, and so may the newer connection of a device whose older one fails its firmware
check); Shutdown joins all goroutines (`JoinedUnlessFailed`: not when Accept had failed before), and
main, whose `Shutdown` of the gateway comes last, leaves no key (`KeysErased`: not when the REST
server had used up the five seconds they share); a deletion leaves no trace (`gateway.go:396-397`;
`OrphansAreLate`: in the database not even of entries written while the device was registered); an
honest device's timely answer never harms it (`RevokedOnlyIfLate`: not when an error over an earlier
answer has consumed its challenge); the initiator commits only what the device has confirmed
(`gateway.go:671-672`; `ConfirmedUnlessStray`: not when a handler fetched the session for the tag
before a reconnection and for the rotation after it, with a rotation of the same number pending in
both sessions); an error of the registry means that nothing was changed (`DeviceStore`'s `Failed`:
the database may have done it); `Reregister` answers ErrDeviceNotFound when, and only when, there is
no such device (`store.go:149`; `DeviceStore`'s `Overtaken`: pgstore updates no row and reports
success; `Misreported`: any error of its first statement is reported as an absent device). Without
any one of `Overtaken`, `Misreported` and the window of `late`, the run `registry` fails. With the
device initiating rotations (`DeviceInitiates = TRUE`) `TagsVerify` and `FailuresCounted` do not
hold either; `docs/PROTOCOL_SPEC.md` has only the gateway initiate, so they are checked so.

**Bounds.** All are constants with "bound" in their comment or cfg values of settings. Two
connections are what a race between an old and a new one takes, and three handshakes let the
scheduler's counter pass through a failure, a success and another failure. Two secrets make a
rollback and a retry, or a crossing. In `Reconnection` a third secret is the retry after a rotation
was begun in either session. Queues of two let a request, an ACK and a packet overtake each other's
effects. One call of the operator in `Gateway` is a revocation, a deletion with an enrolment after
it (enrolments are not counted), or a change of keys, under way among two overlapping handshakes and
any firmware checks; the theorems hold for every number of each. A TTL of 5 is odd, so that its half
is rounded down, and a time of 11 is two whole TTLs: room for two moves of the generations and a
quiet period. A window of 2 with 4 data nonces and 5 packets evicts twice and still has a nonce that
never came. `Validity < Timeout < 2 * Validity + 1` and three challenges let a challenge be answered
late, replaced and replaced again. Three calls are an operation, one that overtakes it between two
of its statements and one that undoes either; two devices show that nothing of one touches the
other. A limit and a slack of 1 trim at the third entry, and restarts empty one store and not the
other. A limit of 1 with two connections has a refusal before and after a slot is freed; a
connection that is over comes back as the next one, so their number is not bounded. Calls and
devices are symmetric sets in `registry`, which has no liveness property. The properties marked as
theorems below do not depend on these bounds.

**Deadlock** is checked except where the system may stop: in `Gateway` the device may leave for
good, in `FirmwareCheck` the clock ends and a revoked device does not come back, in `Registry` every
call has been made and answered, and in `Gatewayd` the process has come to its end.

**Fairness.** `Rotation`: a goroutine or task that can run does run (weak fairness of the handler,
of the device's reader, of a pending write, and of each of the scheduler's continuations); the
scheduler's ticker never stops (`SchedTick`), and since a rotation older than `RotationAckTimeout`
is rolled back by whichever tick comes next, among infinitely many ticks of one pending rotation one
rolls back (strong fairness of `SchedAbort`: ticks before the timeout are the steps in between). A
call of the store comes back, with its work done or not. A packet, a rotation request, a hang-up and
a cut are nobody's duty. `Gateway`: handlers and the operator's begun calls go on; a read of an open
socket may wait for ever. `Gatewayd`: the goroutines of main, Serve and the emulators go on; a
handler must leave only once its socket is closed, except that an emulated device sends its Msg1 and
Msg3 and the handler finishes a handshake it has all of. The backlog is a queue, so a connection in
it is not passed over for ever while others are accepted (strong fairness of `Accept(c)`), and an
emulator whose attempts fail again and again comes to its `ConnectTimeout` (strong fairness of
`GiveUp`). Nobody is obliged to send the signal, and nothing is assumed of the five seconds but that
they may end at any moment. `Reconnection`: handlers, scheduler and the device's reader go on; a
session that lasts comes due for rotation at some tick (strong fairness of `SchedDecide`, since the
interval of a rotation is finite) and, as in `Rotation`, a pending one is stale at some tick. Go
schedules every runnable goroutine, and no lock is held across a blocking call other than a socket
write, which has a deadline.

## 4. Proofs

For all values of the constants (the assumptions are those named next to the constants: bounds are
naturals, `Validity < Timeout`, the set of connections is finite and `Limit` positive):

* `Rotation_proofs`: `TypeCorrect`, `InvCorrect`, `RecoverableCorrect`, `CommitCorrect` and
  `AgreementRefined` (every step of the threads is a step of `KeyAgreement` or a stutter).
  `Recoverable` is not inductive: an ACK in flight must be known to acknowledge a step its sender
  has taken, and a request either such a step or the very rotation its sender holds pending.
  `RotationInv` says so of both channels and of each frame a thread holds (`FramesInv`), besides
  what each thread's place implies (`ThreadsInv`). The proof goes action by action; the lemmas on
  `Agree` and `SentBy` say what sending, receiving, committing and rolling back do to them. Only on
  a connection nobody is ending (`Live`) do the ends have to agree: after a rollback the scheduler
  is past the point of no return and `Dooming` holds. `FailuresCorrect` proves `FailuresCounted`
  when only the scheduler initiates rotations. It needs no assumption that the revocation works:
  what it promises ends with the attempt. `CountInv` relates the scheduler's place to the outcomes:
  a rotation begins in an iteration the scheduler has seen, so an iteration it has not is a success
  that no rollback has followed. `TagsCorrect` and `DataCorrect` are about the firmware (`Firmware`,
  the constant that says its loop answers a rotation before it seals the next packet). That tags
  verify, and data is opened with the right key, depends on what is queued: `StreamInv` says of all
  frames on their way up, whoever holds them, that they are sealed under the one common key, or that
  the ACK in the queue stands between the last frame of the old key and the first of the new one
  (`Turning`).
* `Reconnection_proofs`: `ReconnectionCorrect`, `Confirmed` and `LinkAgreement`, from two
  invariants. `SoundInv`: all keys of a session are of the chain that its own handshake began, and
  so are the keys of the frames on its connection (`KeysInv`); two chains have no key in common
  (`TagTells`). So a handler that has strayed once is of a connection that is over and gets nothing
  more past a tag (`StraysInv`), which gives `OneStray`. `LinkInv` is the agreement of `Rotation`
  again, but between the device and the one session that faces it, and only until a frame strays:
  which table may still name the last connection, and when (`ConnInv`), the phase of the two ends,
  and that a frame in flight or in a handler's or the scheduler's hands tells the truth about its
  sender, or the scheduler is about to end the connection (`Doomed`). `LinkAgreement` draws the
  refinement of `KeyAgreement` from both: while `Linked`, a step leaves both keys alone, or moves an
  end that is level with the other one key ahead, or lets the end behind take the other's key
  (`LinkedMoves`, with `GwMoves`, `GwCommits` and `DevCommits` below it); a step that makes the
  device face another session, or none, or that strays, breaks the link, and a new one begins with
  equal keys (`Relinks`).
* `Gateway_proofs`: `OneServedCorrect`, `TableOpenCorrect`, `ShutOutCorrect`, `SupersededCorrect`.
  `GatewayInv` adds that a registered connection is one whose handler serves or is leaving, and that
  a handshake about to create its session is welcome or was admitted before the registry changed
  (`AdmittedInv`). `ShutOutCorrect` covers the calls that fail: the session they leave is in
  `spared` from the step that changes the registry.
* `FirmwareCheck_proofs`: `JudgedOnceCorrect`, `RevokedCorrect`. `FirmwareInv` adds that challenges
  are in flight in the order of issue, each once (`Ordered`), and that the challenge of an answer
  that is not too late is pending, or held against an earlier answer (`Tracked`); an error over that
  earlier answer drops it, and the answer is `TooLate` from then on (`DroppedStep`).
* `TcpServer_proofs`: `NoneMissedCorrect`, `SlotsCorrect`, `JoinedCorrect`. `ServeInv` ties `active`
  and `accepted` to where the handlers are.
* `Gatewayd_proofs`: `RunsTcpServer` (every step of the process is a step of its TCP server or a
  stutter of it), `DaemonCorrect` and `KeysErasedCorrect`. `KeysErased` is not inductive: it needs
  `JoinedUnlessFailed` of the server, where main is (`MainPlaced`) and that the key material which
  Gateway.Shutdown cannot see belongs to handlers that still run (`HandshakesPlaced`).
* `Registry_proofs`: `CallsCorrect` and `RegistryRefined`, the refinement of `DeviceStore` by both
  stores. `CallsInv` says that a call which may still change the registry has no answer yet; so the
  step that changes it, or the failure instead of it, is the abstract call, and every other step of
  the call is a stutter. A deletion in the database is the abstract call at `Commit` if it has
  locked a row, which is still there then (`LocksHeld`), and at its first statement if it found
  none. A restart is `Lost` in memory and a stutter with a database. `JournalCorrect` proves
  `JournalKeepsNewest` and `OrphansCorrect` proves `OrphansAreLate`, from `OrphansOK`: what is
  written after a transaction's statement on the journal is above the identifier it remembers, and
  late (`CutOK`). A journal is a set of entries ordered by their identifiers. `JournalOK` adds that
  identifiers tell entries apart and none is above the last given out, so the entries newer than a
  given one are no more than the identifiers left (`Room`): an entry with `Limit` newer ones is that
  far behind. What `trimOldest` keeps is the oldest entry kept (`Oldest`, from the well-foundedness
  of strict inclusion of finite sets) and those newer than it, fewer than `Limit`. `QueriesCorrect`,
  and `AnyQuery` for any device, types, period and limits, prove that memstore's loops find what
  pgstore's SQL asks for. A loop is a function of how many entries it has passed; after each it has
  the newest of those wanted so far (`LoopIsQuery`), or the latest of each device so far
  (`LoopIsDistinct`), because one more, older or newer than all before, changes the SQL's answer as
  it changes the loop's (`OlderIsNext`, `NewerIsLatest`). That the slice lists the whole journal in
  order is `JournalInOrder`: entries numbered by how many are older, a numbering onto `0..n-1`. It
  rests on `JournalOK`, that identifiers tell entries apart, after any trimming, deletion and
  restart.
* `AntiReplay_proofs`: `RememberedCorrect` and `RefusedCorrect` of the guard, whose `Inv` says where
  the last acceptance of a nonce is recorded (`Located`) and that no record is newer than it
  (`Dated`); of the window and of both together `WindowCorrect`, `RecentCorrect`,
  `NothingElseCorrect`, `GuardUndisturbed` (the guard's theorems hold with the sessions beside it)
  and `AntiReplayCorrect`. `Kept` says that the queue is the end of what was accepted, without
  repetitions, and the set its elements: so an eviction takes exactly the oldest (`OrderGrows`,
  `SeenFollows`), and the set has as many elements as the queue.

Every safety property that a passing run checks is stated by a theorem. The library's induction
theorems take an operator and are out of the prover's reach; the induction that the queries need is
`Upward`, on a set of numbers, from the well-foundedness of `<`. Model-checked only are the liveness
properties (`RotationSettles`, `DivergenceHeals`, `RevokedIsCutOff`, `NothingLeft`,
`RevokedIsDisconnected`, `ShutdownEnds`, `EmulatedJoin`, `ApartHeals`), which need fairness and
`ENABLED` and are beyond it too.

## 5. What is not modelled

* Time in `Rotation` is abstract: a rotation may be due, or stale, at any tick. The idle timeout, a
  failed write and a lost network are the one event that the connection ends, at any moment, with
  any suffix of what was in flight lost.
* One device at a time: nothing but the mutex, the scheduler's goroutine and the connection limit is
  shared between devices, and the limit is in `TcpServer`.
* Cryptography: signatures and tags verify exactly for what they were made of, keys are free terms.
  A handshake in `Gateway` is by a board that bears the device's identifier, with the keys
  registered or others.
* The REST API's login and its limiter of failures: a blocked address appears as
  `Gatewayd`'s `RegisterRefused` and nowhere else. `/rotations` without a limit is not bounded by
  the endpoint, so `QueriesAnswered` bounds it only when there is one.
* Of the stores: opening the database, converting rows to records, and the profiles of telemetry.
  The journals of events, telemetry and rotations are written and trimmed alike and are one journal.
  The time stamp of an entry is read before the store is locked (`gateway.go:842`), so two devices
  may be recorded in the other order; `Queries` takes the order of the entries for that of the stamps.
* Of the process: flags and environment variables (`LACERT_NONCE_TTL` is read after the guard has
  been built), MQTT, metrics, and an accept loop that dies without closing the listener's port beyond
  what `AcceptError` says: Serve has returned and clients wait in the backlog.
* The dashboard, provisioning, the registration tool, the firmware's Wi-Fi and its outer loop of
  reconnections, load generators and benchmarks.
* Panics: one in serveSession skips `CloseSessionInstance`, which is not deferred (`server.go:375`).
* Secrets that no table holds: when the registry refuses a device in handleMsg3, the shared secret
  of the handshake is not zeroized (`gateway.go:579`). And delays: the scheduler visits one device
  after another, and each write may take its deadline (`scheduler.go:142`).

## 6. Plan

Order of the rest of the work:

1. `Handshake`: the three messages between device and gateway with their transcript and signatures
   (`crypto/handshake.go`, `device.go`, `lacert_client.c`, the frames of `wire.go`), lost and
   repeated messages and stale connections; both ends that finish agree on K0 and on the peer.
2. `AuthLimiter` (`api.go`): a window of failures per address, shared by the operator's wrong tokens
   and the emulators of the same host.
3. The firmware's outer loop (`main.c`): Wi-Fi, back-off and the handshake, over `Gateway`.
4. Proofs: the safety of the modules above once they are written.
