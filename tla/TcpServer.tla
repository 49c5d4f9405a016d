----------------------------- MODULE TcpServer -----------------------------
(***************************************************************************)
(* Starting, limiting and stopping the gateway's TCP server: Serve, the    *)
(* goroutines it starts and Shutdown of internal/transport/tcpserver.      *)
(*                                                                         *)
(* Serve, each handler and Shutdown run at once and share the fields under *)
(* Server.mu; each locked section is a step.  What a handler does with its *)
(* connection is Gateway.tla; here it works until its socket fails, or for *)
(* as long as it wants.  Server.wg is not a variable: its count is the     *)
(* number of handlers that have started and not called Done.               *)
(***************************************************************************)
EXTENDS Naturals, FiniteSets

CONSTANTS
    Conns,      \* the connections that clients dial
    None,       \* no connection
    Limit,      \* MaxConnections
    AcceptFails \* whether Accept may fail while the listener is open (EMFILE)

ASSUME TcpServerAssumption ==
    IsFiniteSet(Conns) /\ None \notin Conns /\ Limit \in Nat \ {0} /\ AcceptFails \in BOOLEAN

VARIABLES
    listening,  \* the listener is open
    serve,      \* where Serve is
    taken,      \* the connection Accept returned, until it has a handler
    started,    \* Server.serveStarted, set together with Server.ln
    closing,    \* Server.closing
    active,     \* Server.active
    accepted,   \* Server.accepted
    socket,     \* each socket: "unopened", "queued", "open" or "closed"
    handler,    \* each handler: "none", "running", "left", "forgotten", "done"
    shutdown,   \* where the call of Shutdown is
    waits       \* what it read of serveStarted

sockets == <<socket, listening>>
calls   == <<shutdown, waits>>
shared  == <<closing, active, accepted>>
vars    == <<sockets, serve, taken, started, shared, handler, calls>>

TypeOK ==
    /\ listening \in BOOLEAN /\ started \in BOOLEAN /\ closing \in BOOLEAN
    /\ serve \in {"before", "accept", "check", "spawn", "join", "returned", "failed"}
    /\ taken \in Conns \cup {None} /\ active \in Nat /\ accepted \subseteq Conns
    /\ socket \in [Conns -> {"unopened", "queued", "open", "closed"}]
    /\ handler \in [Conns -> {"none", "running", "left", "forgotten", "done"}]
    /\ shutdown \in {"idle", "waiting", "returned", "expired"} /\ waits \in BOOLEAN

\* gatewayd opens the listener, starts Serve and later calls Shutdown.
Init ==
    /\ listening = TRUE /\ serve = "before" /\ taken = None
    /\ started = FALSE /\ closing = FALSE /\ active = 0 /\ accepted = {}
    /\ socket = [c \in Conns |-> "unopened"] /\ handler = [c \in Conns |-> "none"]
    /\ shutdown = "idle" /\ waits = FALSE
-----------------------------------------------------------------------------
(* The clients.                                                            *)

\* A connection that is over: its name serves for the next one.
Over(c) == socket[c] = "closed" /\ handler[c] \in {"none", "done"} /\ taken # c

Dial(c) ==
    /\ listening /\ (socket[c] = "unopened" \/ Over(c))
    /\ socket' = [socket EXCEPT ![c] = "queued"] /\ handler' = [handler EXCEPT ![c] = "none"]
    /\ UNCHANGED <<listening, serve, taken, started, shared, calls>>

HangUp(c) ==
    /\ socket[c] = "open" /\ socket' = [socket EXCEPT ![c] = "closed"]
    /\ UNCHANGED <<listening, serve, taken, started, shared, handler, calls>>
-----------------------------------------------------------------------------
(* Serve.                                                                  *)

ServeStarts ==
    /\ serve = "before" /\ serve' = "accept" /\ started' = TRUE
    /\ UNCHANGED <<sockets, taken, shared, handler, calls>>

\* Accept returns a connection of the backlog...
Accept(c) ==
    /\ serve = "accept" /\ listening /\ socket[c] = "queued"
    /\ socket' = [socket EXCEPT ![c] = "open"]
    /\ taken' = c /\ serve' = "check"
    /\ UNCHANGED <<listening, started, shared, handler, calls>>

\* ... or net.ErrClosed, and Serve waits for the handlers...
AcceptClosed ==
    /\ serve = "accept" /\ ~listening /\ serve' = "join"
    /\ UNCHANGED <<sockets, taken, started, shared, handler, calls>>

\* ... or any other error, and Serve returns at once.
AcceptError ==
    /\ AcceptFails /\ serve = "accept" /\ listening /\ serve' = "failed"
    /\ UNCHANGED <<sockets, taken, started, shared, handler, calls>>

\* Mutants: a connection taken during a Shutdown is served; one too many is.
RefusesLimitOnly == active >= Limit
RefusesAboveLimit == closing \/ active > Limit

Refuses == closing \/ active >= Limit

\* The locked section: refuse the connection, or count it.
Check ==
    /\ serve = "check"
    /\ IF Refuses
       THEN /\ socket' = [socket EXCEPT ![taken] = "closed"]
            /\ taken' = None /\ serve' = "accept" /\ UNCHANGED shared
       ELSE /\ active' = active + 1 /\ accepted' = accepted \cup {taken}
            /\ serve' = "spawn" /\ UNCHANGED <<socket, taken, closing>>
    /\ UNCHANGED <<listening, started, handler, calls>>

\* wg.Add and the go statement, outside the lock.
Spawn ==
    /\ serve = "spawn"
    /\ handler' = [handler EXCEPT ![taken] = "running"]
    /\ taken' = None /\ serve' = "accept"
    /\ UNCHANGED <<sockets, started, shared, calls>>

Working == {c \in Conns : handler[c] \in {"running", "left", "forgotten"}}

\* Mutant: Serve returns when the listener is closed.
JoinedNever == TRUE

Joined == Working = {}

\* wg.Wait returns, and so does Serve.
Join ==
    /\ serve = "join" /\ Joined /\ serve' = "returned"
    /\ UNCHANGED <<sockets, taken, started, shared, handler, calls>>
-----------------------------------------------------------------------------
(* A handler.                                                              *)

\* handleConn returns, and its deferred Close with it.
Leave(c) ==
    /\ handler[c] = "running" /\ handler' = [handler EXCEPT ![c] = "left"]
    /\ socket' = [socket EXCEPT ![c] = "closed"]
    /\ UNCHANGED <<listening, serve, taken, started, shared, calls>>

SlotsAfter == active - 1

Forget(c) ==
    /\ handler[c] = "left" /\ handler' = [handler EXCEPT ![c] = "forgotten"]
    /\ active' = SlotsAfter /\ accepted' = accepted \ {c}
    /\ UNCHANGED <<sockets, serve, taken, started, closing, calls>>

\* wg.Done
Done(c) ==
    /\ handler[c] = "forgotten" /\ handler' = [handler EXCEPT ![c] = "done"]
    /\ UNCHANGED <<sockets, serve, taken, started, shared, calls>>
-----------------------------------------------------------------------------
(* Shutdown.                                                               *)

\* The locked section: without Server.ln there is no listener to close.
Shutdown ==
    /\ shutdown = "idle" /\ shutdown' = "waiting"
    /\ closing' = TRUE /\ waits' = started
    /\ listening' = (listening /\ ~started)
    /\ socket' = [c \in Conns |->
          IF c \in accepted \/ (started /\ socket[c] = "queued") THEN "closed" ELSE socket[c]]
    /\ UNCHANGED <<serve, taken, started, active, accepted, handler>>

ShutdownReturns ==
    /\ shutdown = "waiting" /\ (waits => serve \in {"returned", "failed"})
    /\ shutdown' = "returned"
    /\ UNCHANGED <<sockets, serve, taken, started, shared, handler, waits>>

\* The context of the call expires.
ShutdownExpires ==
    /\ shutdown = "waiting" /\ shutdown' = "expired"
    /\ UNCHANGED <<sockets, serve, taken, started, shared, handler, waits>>

Next ==
    \/ \E c \in Conns : Dial(c) \/ HangUp(c) \/ Accept(c) \/ Leave(c) \/ Forget(c) \/ Done(c)
    \/ ServeStarts \/ AcceptClosed \/ AcceptError \/ Check \/ Spawn \/ Join
    \/ Shutdown \/ ShutdownReturns \/ ShutdownExpires

Spec == Init /\ [][Next]_vars
-----------------------------------------------------------------------------
(***************************************************************************)
(* NoneMissed: once Shutdown has begun no handler, started or about to be, *)
(* holds an open socket: a connection that Accept returned just before the *)
(* listener closed is refused, since the sweep did not see it (Serve's     *)
(* check of closing, under the lock of the sweep).                         *)
(***************************************************************************)
NoneMissed ==
    closing => \A c \in Conns :
        handler[c] = "running" \/ (serve = "spawn" /\ taken = c) => socket[c] # "open"

(***************************************************************************)
(* SlotsCounted: active is the number of connections that have or are      *)
(* about to get a handler that has not given its slot back, and never      *)
(* exceeds the limit; so a slot is neither lost nor counted twice however  *)
(* handlers end while others start (Serve and its deferred function).      *)
(***************************************************************************)
SlotsCounted ==
    /\ accepted = {c \in Conns : handler[c] \in {"running", "left"}
                                    \/ (serve = "spawn" /\ taken = c)}
    /\ active = Cardinality(accepted) /\ active <= Limit

(***************************************************************************)
(* JoinedUnlessFailed: when Shutdown has returned without an error, having *)
(* found Serve started, and Accept has not failed, the accept loop and     *)
(* every handler are over (Serve's wg.Wait before it closes serveExited).  *)
(***************************************************************************)
JoinedUnlessFailed ==
    shutdown = "returned" /\ waits /\ serve # "failed" => serve = "returned" /\ Working = {}

(***************************************************************************)
(* ShutdownEnds: Shutdown returns by itself, before its context expires,   *)
(* though clients keep their connections open and silent.                  *)
(***************************************************************************)
ShutdownEnds == shutdown = "waiting" ~> shutdown # "waiting"

(***************************************************************************)
(* What makes them hold.  Placed: where Serve is says what it has in hand  *)
(* and what has happened to Server's flags.  HandlersPlaced: only accepted *)
(* connections have handlers, and none is left when Serve has returned.    *)
(***************************************************************************)
Placed ==
    /\ taken # None <=> serve \in {"check", "spawn"}
    /\ started <=> serve # "before"
    /\ closing <=> shutdown # "idle"
    /\ ~listening \/ serve \in {"join", "returned"} => closing

HandlersPlaced ==
    /\ taken # None => handler[taken] = "none" /\ socket[taken] \in {"open", "closed"}
    /\ \A c \in Conns : socket[c] \in {"unopened", "queued"} => handler[c] = "none"
    /\ serve = "returned" => Working = {}

ServeInv ==
    /\ TypeOK /\ Placed /\ HandlersPlaced
    /\ NoneMissed /\ SlotsCounted /\ JoinedUnlessFailed
=============================================================================
