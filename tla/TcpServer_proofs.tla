-------------------------- MODULE TcpServer_proofs --------------------------
(***************************************************************************)
(* Proofs about TcpServer, for any set of connections and any limit.       *)
(***************************************************************************)
EXTENDS TcpServer, FiniteSetTheorems, TLAPS

(***************************************************************************)
(* ServeInit: a server that has not started satisfies the invariant.       *)
(***************************************************************************)
LEMMA ServeInit == Init => ServeInv
<1> SUFFICES ASSUME Init PROVE ServeInv  OBVIOUS
<1>1. TypeOK /\ Placed /\ HandlersPlaced /\ NoneMissed /\ JoinedUnlessFailed
      BY TcpServerAssumption
      DEF Init, TypeOK, Placed, HandlersPlaced, Working, NoneMissed, JoinedUnlessFailed
<1>2. SlotsCounted
      BY TcpServerAssumption, FS_EmptySet DEF Init, SlotsCounted
<1> QED  BY <1>1, <1>2 DEF ServeInv

(***************************************************************************)
(* SlotTaken, SlotGiven: counting one more connection, or one fewer, moves *)
(* the cardinality of accepted by one (Serve's locked section and its      *)
(* deferred function).                                                     *)
(***************************************************************************)
LEMMA SlotTaken ==
    ASSUME NEW S, S \subseteq Conns, NEW c, c \notin S
    PROVE  Cardinality(S \cup {c}) = Cardinality(S) + 1 /\ Cardinality(S) \in Nat
BY TcpServerAssumption, FS_Subset, FS_AddElement, FS_CardinalityType

\* The converse: a connection forgotten takes one slot with it.
LEMMA SlotGiven ==
    ASSUME NEW S, S \subseteq Conns, NEW c \in S
    PROVE  Cardinality(S \ {c}) = Cardinality(S) - 1 /\ Cardinality(S) \in Nat
BY TcpServerAssumption, FS_Subset, FS_RemoveElement, FS_CardinalityType

(***************************************************************************)
(* ServeStep: every step of Serve, of a handler, of Shutdown and of the    *)
(* clients preserves the invariant.                                        *)
(***************************************************************************)
LEMMA ServeStep == ServeInv /\ [Next]_vars => ServeInv'
<1> SUFFICES ASSUME ServeInv, [Next]_vars PROVE ServeInv'  OBVIOUS
<1> USE TcpServerAssumption
<1> USE DEF ServeInv, TypeOK, Placed, HandlersPlaced, NoneMissed, SlotsCounted,
            JoinedUnlessFailed, Working, sockets, calls, shared
<1>1. ASSUME NEW c \in Conns, Dial(c) PROVE ServeInv'
      BY <1>1 DEF Dial, Over
<1>2. ASSUME NEW c \in Conns, HangUp(c) PROVE ServeInv'
      BY <1>2 DEF HangUp
<1>3. ASSUME NEW c \in Conns, Accept(c) PROVE ServeInv'
      BY <1>3 DEF Accept
<1>4. ASSUME NEW c \in Conns, Leave(c) PROVE ServeInv'
      BY <1>4 DEF Leave
<1>5. ASSUME NEW c \in Conns, Forget(c) PROVE ServeInv'
  <2>1. c \in accepted  BY <1>5 DEF Forget
  <2>2. accepted' = {d \in Conns : handler'[d] \in {"running", "left"}
                                    \/ (serve' = "spawn" /\ taken' = d)}
        BY <1>5 DEF Forget
  <2>3. Cardinality(accepted') = Cardinality(accepted) - 1 /\ active' = active - 1
        BY <1>5, <2>1, SlotGiven DEF Forget, SlotsAfter
  <2>4. active' \in Nat
        <3>1. Cardinality(accepted') \in Nat
              BY <1>5, FS_Subset, FS_CardinalityType DEF Forget
        <3> QED  BY <2>3, <3>1
  <2>5. SlotsCounted'  BY <2>2, <2>3, <2>4
  <2>6. TypeOK'  BY <1>5, <2>4 DEF Forget
  <2>7. Placed' /\ HandlersPlaced' /\ NoneMissed' /\ JoinedUnlessFailed'
        BY <1>5 DEF Forget
  <2> QED  BY <2>5, <2>6, <2>7
<1>6. ASSUME NEW c \in Conns, Done(c) PROVE ServeInv'
      BY <1>6 DEF Done
<1>7. CASE ServeStarts  BY <1>7 DEF ServeStarts
<1>8. CASE AcceptClosed  BY <1>8 DEF AcceptClosed
<1>9. CASE AcceptError  BY <1>9 DEF AcceptError
<1>10. CASE Check /\ Refuses  BY <1>10 DEF Check
<1>11. CASE Check /\ ~Refuses
  <2>1. taken \in Conns /\ taken \notin accepted  BY <1>11 DEF Check
  <2>2. Cardinality(accepted') = Cardinality(accepted) + 1 /\ active' = active + 1
        BY <1>11, <2>1, SlotTaken DEF Check
  <2>3. SlotsCounted'  BY <1>11, <2>1, <2>2 DEF Check, Refuses
  <2>4. TypeOK' /\ Placed' /\ HandlersPlaced' /\ JoinedUnlessFailed'
        BY <1>11, <2>1 DEF Check
  <2>5. NoneMissed'  BY <1>11, <2>1 DEF Check, Refuses
  <2> QED  BY <2>3, <2>4, <2>5
<1>12. CASE Spawn  BY <1>12 DEF Spawn
<1>13. CASE Join  BY <1>13 DEF Join, Joined
<1>14. CASE Shutdown
  <2>1. NoneMissed'  BY <1>14 DEF Shutdown
  <2>2. TypeOK' /\ Placed' /\ HandlersPlaced' /\ SlotsCounted' /\ JoinedUnlessFailed'
        BY <1>14 DEF Shutdown
  <2> QED  BY <2>1, <2>2
<1>15. CASE ShutdownReturns  BY <1>15 DEF ShutdownReturns
<1>16. CASE ShutdownExpires  BY <1>16 DEF ShutdownExpires
<1>17. CASE UNCHANGED vars  BY <1>17 DEF vars
<1> QED  BY <1>1, <1>2, <1>3, <1>4, <1>5, <1>6, <1>7, <1>8, <1>9, <1>10, <1>11,
            <1>12, <1>13, <1>14, <1>15, <1>16, <1>17 DEF Next

(***************************************************************************)
(* ServeInvCorrect: the invariant holds in every behaviour.                *)
(***************************************************************************)
THEOREM ServeInvCorrect == Spec => []ServeInv
BY ServeInit, ServeStep, PTL DEF Spec

(***************************************************************************)
(* NoneMissedCorrect: for any number of connections, a Shutdown racing the *)
(* accept loop leaves no handler with an open socket.                      *)
(***************************************************************************)
THEOREM NoneMissedCorrect == Spec => []NoneMissed
<1>1. ServeInv => NoneMissed  BY DEF ServeInv
<1> QED  BY <1>1, ServeInvCorrect, PTL

(***************************************************************************)
(* SlotsCorrect: Server.active is exactly the number of connections being  *)
(* served, and the limit is never exceeded.                                *)
(***************************************************************************)
THEOREM SlotsCorrect == Spec => []SlotsCounted
<1>1. ServeInv => SlotsCounted  BY DEF ServeInv
<1> QED  BY <1>1, ServeInvCorrect, PTL

(***************************************************************************)
(* JoinedCorrect: unless Accept failed, a Shutdown that returns nil has    *)
(* waited for the accept loop and for every handler.                       *)
(***************************************************************************)
THEOREM JoinedCorrect == Spec => []JoinedUnlessFailed
<1>1. ServeInv => JoinedUnlessFailed  BY DEF ServeInv
<1> QED  BY <1>1, ServeInvCorrect, PTL
=============================================================================
