---------------------------- MODULE RouterProofs ----------------------------
(***************************************************************************)
(* Proofs about Router, for every number of clients, listeners and slots:  *)
(* its inductive invariant, what follows from it, and that Router          *)
(* implements GracefulShutdown.                                            *)
(***************************************************************************)
EXTENDS Router, FiniteSetTheorems, TLAPS

-----------------------------------------------------------------------------
(* Counting the connections in a set of stages across one task's step.     *)

\* A task that moves into the stages S adds one to those that are in them.
LEMMA MoveIn ==
    ASSUME NEW f \in [Conns -> Stages], NEW c \in Conns, NEW t \in Stages, NEW S,
           NEW g, g = [f EXCEPT ![c] = t],
           f[c] \notin S, t \in S,
           IsFiniteSet({d \in Conns : f[d] \in S})
    PROVE  /\ IsFiniteSet({d \in Conns : g[d] \in S})
           /\ Cardinality({d \in Conns : g[d] \in S})
                = Cardinality({d \in Conns : f[d] \in S}) + 1
<1> DEFINE A == {d \in Conns : f[d] \in S}
           B == {d \in Conns : g[d] \in S}
<1>1. B = A \cup {c}
  OBVIOUS
<1>2. c \notin A
  OBVIOUS
<1>3. IsFiniteSet(A)
  OBVIOUS
<1> HIDE DEF A, B
<1>4. IsFiniteSet(B) /\ Cardinality(B) = Cardinality(A) + 1
  BY <1>1, <1>2, <1>3, FS_AddElement
<1> QED
  BY <1>4 DEF A, B

\* A task that moves out of the stages S takes one from those that are in them.
LEMMA MoveOut ==
    ASSUME NEW f \in [Conns -> Stages], NEW c \in Conns, NEW t \in Stages, NEW S,
           NEW g, g = [f EXCEPT ![c] = t],
           f[c] \in S, t \notin S,
           IsFiniteSet({d \in Conns : f[d] \in S})
    PROVE  /\ IsFiniteSet({d \in Conns : g[d] \in S})
           /\ Cardinality({d \in Conns : g[d] \in S})
                = Cardinality({d \in Conns : f[d] \in S}) - 1
<1> DEFINE A == {d \in Conns : f[d] \in S}
           B == {d \in Conns : g[d] \in S}
<1>1. B = A \ {c}
  OBVIOUS
<1>2. c \in A
  OBVIOUS
<1>3. IsFiniteSet(A)
  OBVIOUS
<1> HIDE DEF A, B
<1>4. IsFiniteSet(B) /\ Cardinality(B) = Cardinality(A) - 1
  BY <1>1, <1>2, <1>3, FS_RemoveElement
<1> QED
  BY <1>4 DEF A, B

\* A task that stays inside S, or outside, changes nothing.
LEMMA MoveWithin ==
    ASSUME NEW f \in [Conns -> Stages], NEW c \in Conns, NEW t \in Stages, NEW S,
           NEW g, g = [f EXCEPT ![c] = t],
           f[c] \in S <=> t \in S
    PROVE  {d \in Conns : g[d] \in S} = {d \in Conns : f[d] \in S}
  OBVIOUS

\* What one task's move to stage t does to the number of tasks in stages S.
LEMMA Moved ==
    ASSUME TypeOK, NEW c \in Conns, NEW t \in Stages,
           stage' = [stage EXCEPT ![c] = t],
           NEW CONSTANT S, IsFiniteSet(In(S))
    PROVE  /\ IsFiniteSet(In(S)')
           /\ Cardinality(In(S)) \in Nat /\ Cardinality(In(S)') \in Nat
           /\ stage[c] \notin S /\ t \in S =>
                 Cardinality(In(S)') = Cardinality(In(S)) + 1
           /\ stage[c] \in S /\ t \notin S =>
                 Cardinality(In(S)') = Cardinality(In(S)) - 1
           /\ (stage[c] \in S <=> t \in S) => In(S)' = In(S)
<1> DEFINE g == [stage EXCEPT ![c] = t]
<1>1. stage \in [Conns -> Stages]
  BY DEF TypeOK
<1>2. /\ In(S) = {d \in Conns : stage[d] \in S}
      /\ In(S)' = {d \in Conns : g[d] \in S}
  BY DEF In
<1> HIDE DEF g
<1>3. g = [stage EXCEPT ![c] = t]
  BY DEF g
<1>4. CASE stage[c] \notin S /\ t \in S
  BY <1>1, <1>2, <1>3, <1>4, MoveIn, FS_CardinalityType
<1>5. CASE stage[c] \in S /\ t \notin S
  BY <1>1, <1>2, <1>3, <1>5, MoveOut, FS_CardinalityType
<1>6. CASE stage[c] \in S <=> t \in S
  BY <1>1, <1>2, <1>3, <1>6, MoveWithin, FS_CardinalityType
<1> QED
  BY <1>4, <1>5, <1>6

-----------------------------------------------------------------------------
(* Type correctness.                                                       *)

\* The router starts with every variable in its type.
LEMMA TypingInit == Init => TypeOK
<1> SUFFICES ASSUME Init PROVE TypeOK
  OBVIOUS
<1>1. 0 \in Listeners
  BY RouterAssumption DEF Listeners
<1>2. "away" \in Stages
  BY DEF Stages, Outside
<1> QED
  BY <1>1, <1>2, RouterAssumption DEF Init, TypeOK

-----------------------------------------------------------------------------
(* The counters agree with where the tasks are.                            *)

\* 1 if stage s is one of S.
Ind(s, S) == IF s \in S THEN 1 ELSE 0

\* The part of the invariant about counters.
Counted ==
    /\ \A S \in {HoldingSlot, CountedOpen, HoldingPass} : IsFiniteSet(In(S))
    /\ SlotsConserved
    /\ gauge = Cardinality(In(CountedOpen))
    /\ GateCountsPasses

\* Task c moves to stage t, and each counter changes as much as the move
\* changes what it counts.
Balanced(c, t) ==
    /\ stage' = [stage EXCEPT ![c] = t]
    /\ slots' \in Nat /\ LoopSlot' \in Int
    /\ slots' + LoopSlot' + Ind(t, HoldingSlot)
         = slots + LoopSlot + Ind(stage[c], HoldingSlot)
    /\ gauge' = gauge + Ind(t, CountedOpen) - Ind(stage[c], CountedOpen)
    /\ proxying' = proxying + Ind(t, HoldingPass) - Ind(stage[c], HoldingPass)

\* A balanced move keeps the counters right, and none of them underflows.
LEMMA CountingMove ==
    ASSUME TypeOK, Counted, NEW c \in Conns, NEW t \in Stages, Balanced(c, t)
    PROVE  Counted' /\ slots' \in Nat /\ gauge' \in Nat /\ proxying' \in Nat
<1> USE DEF Balanced
<1> DEFINE K(S) == Cardinality(In(S))
<1>0. \A s, S : Ind(s, S) \in Int
  BY DEF Ind
<1>1. slots \in Int /\ LoopSlot \in Int /\ MaxConnections \in Int
  BY RouterAssumption DEF TypeOK, LoopSlot
<1>2. ASSUME NEW CONSTANT S \in {HoldingSlot, CountedOpen, HoldingPass}
      PROVE  /\ IsFiniteSet(In(S)')
             /\ K(S) \in Nat /\ K(S)' \in Nat
             /\ K(S)' = K(S) + Ind(t, S) - Ind(stage[c], S)
  <2>1. IsFiniteSet(In(S))
    BY DEF Counted
  <2>2. /\ IsFiniteSet(In(S)')
        /\ K(S) \in Nat /\ K(S)' \in Nat
        /\ stage[c] \notin S /\ t \in S => K(S)' = K(S) + 1
        /\ stage[c] \in S /\ t \notin S => K(S)' = K(S) - 1
        /\ (stage[c] \in S <=> t \in S) => K(S)' = K(S)
    BY <2>1, Moved
  <2> HIDE DEF K
  <2> QED
    BY <2>2 DEF Ind
<1>3. SlotsConserved'
  <2>1. /\ K(HoldingSlot) \in Nat /\ K(HoldingSlot)' \in Nat
        /\ K(HoldingSlot)' = K(HoldingSlot) + Ind(t, HoldingSlot) - Ind(stage[c], HoldingSlot)
    BY <1>2
  <2>2. slots + LoopSlot + K(HoldingSlot) = MaxConnections
    BY DEF Counted, SlotsConserved
  <2>3. slots' + LoopSlot' + K(HoldingSlot)' = MaxConnections
    <3>1. /\ slots' \in Int /\ LoopSlot' \in Int
          /\ slots' + LoopSlot' + Ind(t, HoldingSlot)
               = slots + LoopSlot + Ind(stage[c], HoldingSlot)
      OBVIOUS
    <3>2. Ind(t, HoldingSlot) \in Int /\ Ind(stage[c], HoldingSlot) \in Int
      BY <1>0
    <3> HIDE DEF K, Balanced
    <3> QED BY <1>1, <2>1, <2>2, <3>1, <3>2
  <2> QED
    BY <2>3 DEF SlotsConserved
<1>4. gauge' = K(CountedOpen)'
  <2>1. /\ K(CountedOpen) \in Nat /\ K(CountedOpen)' \in Nat
        /\ K(CountedOpen)' = K(CountedOpen) + Ind(t, CountedOpen) - Ind(stage[c], CountedOpen)
    BY <1>2
  <2>2. gauge = K(CountedOpen)
    BY DEF Counted
  <2> HIDE DEF K
  <2> QED
    BY <1>0, <2>1, <2>2
<1>5. proxying' = K(HoldingPass)'
  <2>1. /\ K(HoldingPass) \in Nat /\ K(HoldingPass)' \in Nat
        /\ K(HoldingPass)' = K(HoldingPass) + Ind(t, HoldingPass) - Ind(stage[c], HoldingPass)
    BY <1>2
  <2>2. proxying = K(HoldingPass)
    BY DEF Counted, GateCountsPasses
  <2> HIDE DEF K
  <2> QED
    BY <1>0, <2>1, <2>2
<1> QED
  BY <1>2, <1>3, <1>4, <1>5 DEF Counted, GateCountsPasses

\* A step that moves no task and keeps slots + LoopSlot keeps the counters.
LEMMA CountingStutter ==
    ASSUME Counted, stage' = stage, gauge' = gauge, proxying' = proxying,
           slots' + LoopSlot' = slots + LoopSlot
    PROVE  Counted'
<1>1. \A S \in {HoldingSlot, CountedOpen, HoldingPass} : In(S)' = In(S)
  BY DEF In
<1>2. /\ In(HoldingSlot)' = In(HoldingSlot)
      /\ In(CountedOpen)' = In(CountedOpen)
      /\ In(HoldingPass)' = In(HoldingPass)
  BY DEF In
<1> QED
  BY <1>1, <1>2 DEF Counted, SlotsConserved, GateCountsPasses

\* Every action keeps the counters right, and none of them underflows.
LEMMA CountingStep ==
    ASSUME TypeOK, Counted, Next
    PROVE  Counted' /\ slots' \in Nat /\ gauge' \in Nat /\ proxying' \in Nat
<1> DEFINE Goal == Counted' /\ slots' \in Nat /\ gauge' \in Nat /\ proxying' \in Nat
<1> USE DEF acceptVars, gateVars, connVars, serveVars, LoopSlot
<1>0. slots \in Nat /\ gauge \in Nat /\ proxying \in Nat /\ stage \in [Conns -> Stages]
  BY DEF TypeOK
<1>1. CASE Shutdown
  BY <1>0, <1>1, CountingStutter DEF Shutdown
<1>2. CASE AcquireSlot
  <2>1. slots' + LoopSlot' = slots + LoopSlot /\ slots' \in Nat
    BY <1>0, <1>2 DEF AcquireSlot
  <2> QED
    BY <1>0, <1>2, <2>1, CountingStutter DEF AcquireSlot
<1>3. CASE BackoffEnds
  BY <1>0, <1>3, CountingStutter DEF BackoffEnds
<1>4. CASE AcceptLoopReturns
  <2>1. slots' + LoopSlot' = slots + LoopSlot /\ slots' \in Nat
    BY <1>0, <1>4 DEF AcceptLoopReturns
  <2> QED
    BY <1>0, <1>4, <2>1, CountingStutter DEF AcceptLoopReturns
<1>5. CASE Serve
  BY <1>0, <1>5, CountingStutter DEF Serve, CloseGate, GraceElapses, ServeReturns
<1>6. ASSUME NEW c \in Conns, NEW t \in Stages, Balanced(c, t) PROVE Goal
  BY <1>6, CountingMove
<1> USE DEF Stages, InTracker, HoldingSlot, HoldingPass, CountedOpen, Handshaking, Outside
<1>7. ASSUME NEW c \in Conns, Arrive(c) PROVE Goal
  <2>1. Balanced(c, "queued")
    BY <1>0, <1>7 DEF Arrive, Balanced, Ind
  <2> QED
    BY <2>1, <1>6
<1>8. ASSUME NEW c \in Conns, Accept(c) PROVE Goal
  <2>1. Balanced(c, "spawned")
    BY <1>0, <1>8 DEF Accept, Balanced, Ind
  <2> QED
    BY <2>1, <1>6
<1>9. ASSUME NEW c \in Conns, Opened(c) PROVE Goal
  <2>1. Balanced(c, "hello")
    BY <1>0, <1>9 DEF Opened, Balanced, Ind
  <2> QED
    BY <2>1, <1>6
<1>10. ASSUME NEW c \in Conns, CancelHandshake(c) PROVE Goal
  <2>1. Balanced(c, "closing")
    BY <1>0, <1>10 DEF CancelHandshake, Goto, ConnFrame, Balanced, Ind
  <2> QED
    BY <2>1, <1>6
<1>11. ASSUME NEW c \in Conns, HelloEnds(c) PROVE Goal
  <2>1. \E t \in {"lookup", "reject", "closing"} : Balanced(c, t)
    BY <1>0, <1>11 DEF HelloEnds, Goto, ConnFrame, Balanced, Ind
  <2> QED
    BY <2>1, <1>6
<1>12. ASSUME NEW c \in Conns, LookupEnds(c) PROVE Goal
  <2>1. \E t \in {"connect", "reject", "closing"} : Balanced(c, t)
    BY <1>0, <1>12 DEF LookupEnds, Goto, ConnFrame, Balanced, Ind
  <2> QED
    BY <2>1, <1>6
<1>13. ASSUME NEW c \in Conns, RejectEnds(c) PROVE Goal
  <2>1. Balanced(c, "closing")
    BY <1>0, <1>13 DEF RejectEnds, Goto, ConnFrame, Balanced, Ind
  <2> QED
    BY <2>1, <1>6
<1>14. ASSUME NEW c \in Conns, ConnectEnds(c) PROVE Goal
  <2>1. \E t \in {"enter", "closing"} : Balanced(c, t)
    BY <1>0, <1>14 DEF ConnectEnds, Goto, ConnFrame, Balanced, Ind
  <2> QED
    BY <2>1, <1>6
<1>15. ASSUME NEW c \in Conns, EnterGate(c) PROVE Goal
  <2>1. Balanced(c, "proxy")
    BY <1>0, <1>15 DEF EnterGate, Goto, Balanced, Ind
  <2> QED
    BY <2>1, <1>6
<1>16. ASSUME NEW c \in Conns, RefusedByGate(c) PROVE Goal
  <2>1. Balanced(c, "closing")
    BY <1>0, <1>16 DEF RefusedByGate, Goto, ConnFrame, Balanced, Ind
  <2> QED
    BY <2>1, <1>6
<1>17. ASSUME NEW c \in Conns, ProxyEnds(c) PROVE Goal
  <2>1. Balanced(c, "leaving")
    BY <1>0, <1>17 DEF ProxyEnds, Goto, ConnFrame, Balanced, Ind
  <2> QED
    BY <2>1, <1>6
<1>18. ASSUME NEW c \in Conns, Panics(c) PROVE Goal
  <2>1. CASE stage[c] = "proxy"
    <3>1. Balanced(c, "leaving")
      BY <1>0, <1>18, <2>1 DEF Panics, Goto, ConnFrame, Balanced, Ind
    <3> QED
      BY <3>1, <1>6
  <2>2. CASE stage[c] # "proxy"
    <3>1. stage[c] \in {"hello", "reject", "lookup", "connect", "enter"}
      BY <1>18, <2>2 DEF Panics
    <3>2. Balanced(c, "closing")
      BY <1>0, <1>18, <2>2, <3>1 DEF Panics, Goto, ConnFrame, Balanced, Ind
    <3> QED
      BY <3>2, <1>6
  <2> QED
    BY <2>1, <2>2
<1>19. ASSUME NEW c \in Conns, DropPass(c) PROVE Goal
  <2>1. Balanced(c, "closing")
    BY <1>0, <1>19 DEF DropPass, Balanced, Ind
  <2> QED
    BY <2>1, <1>6
<1>20. ASSUME NEW c \in Conns, DropRecord(c) PROVE Goal
  <2>1. Balanced(c, "release")
    BY <1>0, <1>20 DEF DropRecord, Goto, Balanced, Ind
  <2> QED
    BY <2>1, <1>6
<1>21. ASSUME NEW c \in Conns, DropSlot(c) PROVE Goal
  <2>1. Balanced(c, "untrack")
    BY <1>0, <1>21 DEF DropSlot, Goto, Balanced, Ind
  <2> QED
    BY <2>1, <1>6
<1>22. ASSUME NEW c \in Conns, TaskEnds(c) PROVE Goal
  <2>1. Balanced(c, "done")
    BY <1>0, <1>22 DEF TaskEnds, Goto, ConnFrame, Balanced, Ind
  <2> QED
    BY <2>1, <1>6
<1>23. ASSUME NEW c \in Conns, AcceptError(c) PROVE Goal
  <2>1. \E t \in {"queued", "reset"} : Balanced(c, t)
    BY <1>0, <1>23 DEF AcceptError, Balanced, Ind
  <2> QED
    BY <2>1, <1>6
<1> QED
  BY <1>1, <1>2, <1>3, <1>4, <1>5, <1>7, <1>8, <1>9, <1>10, <1>11, <1>12, <1>13, <1>14, <1>15,
     <1>16, <1>17, <1>18, <1>19, <1>20, <1>21, <1>22, <1>23
     DEF Next, AcceptLoop, HandshakeStep, CleanupStep

-----------------------------------------------------------------------------
(* Type correctness of a step, given that the counters do not underflow.   *)

\* accept_any leaves a listener index in `next` and counts in `skipped`.
LEMMA TurnTyping ==
    ASSUME TypeOK, NEW l \in Listeners, Turn(l)
    PROVE  next' \in Listeners /\ skipped' \in [Listeners -> Nat]
<1>1. next' \in Listeners
  BY RouterAssumption DEF Turn, After, Listeners
<1>2. skipped' \in [Listeners -> Nat]
  BY DEF TypeOK, Turn
<1> QED
  BY <1>1, <1>2

\* Every action keeps every variable in its type.
LEMMA TypingStep ==
    ASSUME TypeOK, Counted, Next
    PROVE  TypeOK'
<1> USE DEF acceptVars, gateVars, connVars, serveVars
<1>0. slots' \in Nat /\ gauge' \in Nat /\ proxying' \in Nat
  BY CountingStep
<1>1. CASE Shutdown
  BY <1>0, <1>1 DEF TypeOK, Shutdown
<1>2. CASE AcquireSlot
  BY <1>0, <1>2 DEF TypeOK, AcquireSlot
<1>3. CASE BackoffEnds
  BY <1>0, <1>3 DEF TypeOK, BackoffEnds
<1>4. CASE AcceptLoopReturns
  BY <1>0, <1>4 DEF TypeOK, AcceptLoopReturns
<1>5. CASE Serve
  BY <1>0, <1>5 DEF TypeOK, Serve, CloseGate, GraceElapses, ServeReturns
<1> USE DEF Stages, InTracker, HoldingSlot, HoldingPass, CountedOpen, Handshaking, Outside,
            Outcomes, HandshakeOutcomes, ProxyOutcomes
<1>6. ASSUME NEW c \in Conns, Arrive(c) PROVE TypeOK'
  BY <1>0, <1>6 DEF TypeOK, Arrive
<1>7. ASSUME NEW c \in Conns, Accept(c) PROVE TypeOK'
  <2>1. next' \in Listeners /\ skipped' \in [Listeners -> Nat]
    BY <1>7, TurnTyping DEF TypeOK, Accept
  <2> QED
    BY <1>0, <1>7, <2>1 DEF TypeOK, Accept
<1>8. ASSUME NEW c \in Conns, AcceptError(c) PROVE TypeOK'
  <2>1. next' \in Listeners /\ skipped' \in [Listeners -> Nat]
    BY <1>8, TurnTyping DEF TypeOK, AcceptError
  <2> QED
    BY <1>0, <1>8, <2>1 DEF TypeOK, AcceptError
<1>9. ASSUME NEW c \in Conns, Opened(c) PROVE TypeOK'
  BY <1>0, <1>9 DEF TypeOK, Opened
<1>10. ASSUME NEW c \in Conns, CancelHandshake(c) PROVE TypeOK'
  BY <1>0, <1>10 DEF TypeOK, CancelHandshake, Goto, ConnFrame
<1>11. ASSUME NEW c \in Conns, HelloEnds(c) PROVE TypeOK'
  BY <1>0, <1>11 DEF TypeOK, HelloEnds, Goto, ConnFrame
<1>12. ASSUME NEW c \in Conns, LookupEnds(c) PROVE TypeOK'
  BY <1>0, <1>12 DEF TypeOK, LookupEnds, Goto, ConnFrame
<1>13. ASSUME NEW c \in Conns, RejectEnds(c) PROVE TypeOK'
  BY <1>0, <1>13 DEF TypeOK, RejectEnds, Goto, ConnFrame
<1>14. ASSUME NEW c \in Conns, ConnectEnds(c) PROVE TypeOK'
  BY <1>0, <1>14 DEF TypeOK, ConnectEnds, Goto, ConnFrame
<1>15. ASSUME NEW c \in Conns, EnterGate(c) PROVE TypeOK'
  BY <1>0, <1>15 DEF TypeOK, EnterGate, Goto
<1>16. ASSUME NEW c \in Conns, RefusedByGate(c) PROVE TypeOK'
  BY <1>0, <1>16 DEF TypeOK, RefusedByGate, Goto, ConnFrame
<1>17. ASSUME NEW c \in Conns, ProxyEnds(c) PROVE TypeOK'
  BY <1>0, <1>17 DEF TypeOK, ProxyEnds, Goto, ConnFrame
<1>18. ASSUME NEW c \in Conns, Panics(c) PROVE TypeOK'
  BY <1>0, <1>18 DEF TypeOK, Panics, Goto, ConnFrame
<1>19. ASSUME NEW c \in Conns, DropPass(c) PROVE TypeOK'
  BY <1>0, <1>19 DEF TypeOK, DropPass
<1>20. ASSUME NEW c \in Conns, DropRecord(c) PROVE TypeOK'
  BY <1>0, <1>20 DEF TypeOK, DropRecord, Goto
<1>21. ASSUME NEW c \in Conns, DropSlot(c) PROVE TypeOK'
  BY <1>0, <1>21 DEF TypeOK, DropSlot, Goto
<1>22. ASSUME NEW c \in Conns, TaskEnds(c) PROVE TypeOK'
  BY <1>0, <1>22 DEF TypeOK, TaskEnds, Goto, ConnFrame
<1> QED
  BY <1>1, <1>2, <1>3, <1>4, <1>5, <1>6, <1>7, <1>8, <1>9, <1>10, <1>11, <1>12, <1>13, <1>14,
     <1>15, <1>16, <1>17, <1>18, <1>19, <1>20, <1>21, <1>22
     DEF Next, AcceptLoop, HandshakeStep, CleanupStep

-----------------------------------------------------------------------------
(* Shutdown happens in order.                                              *)

\* The part of the invariant about the phases of serve and what the tasks
\* were told.
Ordered ==
    /\ ShutdownInOrder
    /\ \A c \in Conns : stage[c] = "reject" => outcome[c] \in HandshakeOutcomes
    /\ serve = "returned" => In(InTracker) = {}

\* Every action keeps the order of shutdown.
LEMMA OrderStep ==
    ASSUME TypeOK, Ordered, Next
    PROVE  Ordered'
<1> USE DEF acceptVars, gateVars, connVars, serveVars, Ordered, ShutdownInOrder, TypeOK, In
<1>1. CASE Shutdown
  BY <1>1 DEF Shutdown
<1>2. CASE AcquireSlot
  BY <1>2 DEF AcquireSlot
<1>3. CASE BackoffEnds
  BY <1>3 DEF BackoffEnds
<1>4. CASE AcceptLoopReturns
  BY <1>4 DEF AcceptLoopReturns
<1>5. CASE CloseGate
  BY <1>5 DEF CloseGate
<1>6. CASE GraceElapses
  BY <1>6 DEF GraceElapses
<1>7. CASE ServeReturns
  BY <1>7 DEF ServeReturns
<1> USE DEF InTracker, HoldingSlot, HoldingPass, CountedOpen, Handshaking, Outside,
            HandshakeOutcomes, ProxyOutcomes
<1>8. ASSUME NEW c \in Conns, Arrive(c) PROVE Ordered'
  BY <1>8 DEF Arrive
<1>9. ASSUME NEW c \in Conns, Accept(c) PROVE Ordered'
  BY <1>9 DEF Accept
<1>10. ASSUME NEW c \in Conns, AcceptError(c) PROVE Ordered'
  BY <1>10 DEF AcceptError
<1>11. ASSUME NEW c \in Conns, Opened(c) PROVE Ordered'
  BY <1>11 DEF Opened
<1>12. ASSUME NEW c \in Conns, CancelHandshake(c) PROVE Ordered'
  BY <1>12 DEF CancelHandshake, Goto, ConnFrame
<1>13. ASSUME NEW c \in Conns, HelloEnds(c) PROVE Ordered'
  BY <1>13 DEF HelloEnds, Goto, ConnFrame
<1>14. ASSUME NEW c \in Conns, LookupEnds(c) PROVE Ordered'
  BY <1>14 DEF LookupEnds, Goto, ConnFrame
<1>15. ASSUME NEW c \in Conns, RejectEnds(c) PROVE Ordered'
  BY <1>15 DEF RejectEnds, Goto, ConnFrame
<1>16. ASSUME NEW c \in Conns, ConnectEnds(c) PROVE Ordered'
  BY <1>16 DEF ConnectEnds, Goto, ConnFrame
<1>17. ASSUME NEW c \in Conns, EnterGate(c) PROVE Ordered'
  BY <1>17 DEF EnterGate, Goto
<1>18. ASSUME NEW c \in Conns, RefusedByGate(c) PROVE Ordered'
  BY <1>18 DEF RefusedByGate, Goto, ConnFrame
<1>19. ASSUME NEW c \in Conns, ProxyEnds(c) PROVE Ordered'
  BY <1>19 DEF ProxyEnds, Goto, ConnFrame
<1>20. ASSUME NEW c \in Conns, Panics(c) PROVE Ordered'
  BY <1>20 DEF Panics, Goto, ConnFrame
<1>21. ASSUME NEW c \in Conns, DropPass(c) PROVE Ordered'
  BY <1>21 DEF DropPass
<1>22. ASSUME NEW c \in Conns, DropRecord(c) PROVE Ordered'
  BY <1>22 DEF DropRecord, Goto
<1>23. ASSUME NEW c \in Conns, DropSlot(c) PROVE Ordered'
  BY <1>23 DEF DropSlot, Goto
<1>24. ASSUME NEW c \in Conns, TaskEnds(c) PROVE Ordered'
  BY <1>24 DEF TaskEnds, Goto, ConnFrame
<1> QED
  BY <1>1, <1>2, <1>3, <1>4, <1>5, <1>6, <1>7, <1>8, <1>9, <1>10, <1>11, <1>12, <1>13, <1>14,
     <1>15, <1>16, <1>17, <1>18, <1>19, <1>20, <1>21, <1>22, <1>23, <1>24
     DEF Next, Serve, AcceptLoop, HandshakeStep, CleanupStep

-----------------------------------------------------------------------------
(* The accept scan makes progress.                                         *)

\* A turn brings the scan closer to every other listener that waits.
LEMMA TurnProgress ==
    ASSUME TypeOK, RotationProgress, NEW l \in Listeners, Polled(l), Turn(l)
    PROVE  RotationProgress'
<1> SUFFICES ASSUME NEW m \in Listeners
             PROVE  skipped'[m] + Offset(m)' < NumListeners
  BY DEF RotationProgress, Listeners
<1> USE DEF Listeners, Offset
<1>1. /\ next \in Listeners /\ skipped[m] \in Nat /\ NumListeners \in Nat \ {0}
      /\ skipped[m] + Offset(m) < NumListeners
  BY RouterAssumption DEF TypeOK, RotationProgress
<1>2. next' = After(l)
  BY DEF Turn
<1>3. CASE m # l /\ Ready(m)
  <2>1. skipped'[m] = skipped[m] + 1
    BY <1>3 DEF Turn
  <2>2. Offset(l) <= Offset(m)
    BY <1>3 DEF Polled
  <2> QED
    BY <1>1, <1>2, <1>3, <2>1, <2>2 DEF After
<1>4. CASE ~(m # l /\ Ready(m))
  <2>1. skipped'[m] = 0
    BY <1>4 DEF Turn
  <2> QED
    BY <1>1, <1>2, <2>1 DEF After
<1> QED
  BY <1>3, <1>4

\* Only a turn moves the scan.
LEMMA RotationStep ==
    ASSUME TypeOK, RotationProgress, Next
    PROVE  RotationProgress'
<1> USE DEF acceptVars
<1>1. ASSUME next' = next, skipped' = skipped PROVE RotationProgress'
  BY <1>1 DEF RotationProgress, Offset
<1>2. ASSUME NEW c \in Conns, Accept(c) \/ AcceptError(c) PROVE RotationProgress'
  <2>1. via[c] \in Listeners /\ Polled(via[c]) /\ Turn(via[c])
    BY <1>2 DEF Accept, AcceptError, TypeOK
  <2> QED
    BY <2>1, TurnProgress
<1>3. CASE Shutdown \/ AcquireSlot \/ BackoffEnds \/ AcceptLoopReturns \/ Serve
  <2>1. next' = next /\ skipped' = skipped
    BY <1>3 DEF Shutdown, AcquireSlot, BackoffEnds, AcceptLoopReturns, Serve,
                CloseGate, GraceElapses, ServeReturns
  <2> QED
    BY <2>1, <1>1
<1>4. ASSUME NEW c \in Conns,
             Arrive(c) \/ HandshakeStep(c) \/ ProxyEnds(c) \/ Panics(c) \/ CleanupStep(c)
      PROVE  RotationProgress'
  <2>1. next' = next /\ skipped' = skipped
    BY <1>4 DEF Arrive, HandshakeStep, ProxyEnds, Panics, CleanupStep, ConnFrame, Opened,
                CancelHandshake, HelloEnds, LookupEnds, RejectEnds, ConnectEnds, EnterGate,
                RefusedByGate, DropPass, DropRecord, DropSlot, TaskEnds
  <2> QED
    BY <2>1, <1>1
<1> QED
  BY <1>2, <1>3, <1>4 DEF Next, AcceptLoop

-----------------------------------------------------------------------------
(* The inductive invariant.                                                *)

\* What the parts say together: the gauge stays within max_connections and a
\* returned serve leaves nothing behind.
LEMMA Combined ==
    ASSUME TypeOK, Counted, Ordered, RotationProgress
    PROVE  IndInv
<1>1. /\ IsFiniteSet(In(HoldingSlot)) /\ IsFiniteSet(In(CountedOpen))
      /\ IsFiniteSet(In(HoldingPass))
  BY DEF Counted
<1>2. /\ Cardinality(In(HoldingSlot)) \in Nat /\ Cardinality(In(CountedOpen)) \in Nat
      /\ Cardinality(In(HoldingPass)) \in Nat
  BY <1>1, FS_CardinalityType
<1>3. GaugeWithinLimit
  <2>1. In(CountedOpen) \subseteq In(HoldingSlot)
    BY DEF In, CountedOpen, HoldingSlot, Handshaking, HoldingPass
  <2>2. Cardinality(In(CountedOpen)) <= Cardinality(In(HoldingSlot))
    BY <1>1, <2>1, FS_Subset
  <2>3. Cardinality(In(HoldingSlot)) <= MaxConnections
    BY <1>2, RouterAssumption DEF Counted, SlotsConserved, LoopSlot, TypeOK
  <2> QED
    BY <1>2, <2>2, <2>3, RouterAssumption DEF GaugeWithinLimit, Counted
<1>4. QuietWhenReturned
  <2> SUFFICES ASSUME serve = "returned"
               PROVE  /\ In(InTracker) = {}
                      /\ accept = "done"
                      /\ slots = MaxConnections
                      /\ gauge = 0
                      /\ proxying = 0
    BY DEF QuietWhenReturned
  <2>1. In(InTracker) = {} /\ accept = "done"
    BY DEF Ordered, ShutdownInOrder
  <2>2. In(HoldingSlot) = {} /\ In(CountedOpen) = {} /\ In(HoldingPass) = {}
    BY <2>1 DEF In, InTracker, HoldingSlot, CountedOpen, HoldingPass, Handshaking
  <2>3. /\ Cardinality(In(HoldingSlot)) = 0 /\ Cardinality(In(CountedOpen)) = 0
        /\ Cardinality(In(HoldingPass)) = 0
    BY <2>2, FS_EmptySet
  <2> QED
    BY <2>1, <2>3, RouterAssumption
    DEF Counted, SlotsConserved, GateCountsPasses, LoopSlot, TypeOK
<1> QED
  BY <1>3, <1>4 DEF IndInv, Bookkeeping, Counted, Ordered

\* The invariant holds initially: nothing is open, nothing was asked.
LEMMA InvInit == Init => IndInv
<1> SUFFICES ASSUME Init PROVE IndInv
  OBVIOUS
<1>1. TypeOK
  BY TypingInit
<1>2. In(HoldingSlot) = {} /\ In(CountedOpen) = {} /\ In(HoldingPass) = {}
  BY DEF Init, In, HoldingSlot, CountedOpen, HoldingPass, Handshaking
<1>3. Counted
  <2>1. /\ IsFiniteSet(In(HoldingSlot)) /\ Cardinality(In(HoldingSlot)) = 0
        /\ IsFiniteSet(In(CountedOpen)) /\ Cardinality(In(CountedOpen)) = 0
        /\ IsFiniteSet(In(HoldingPass)) /\ Cardinality(In(HoldingPass)) = 0
    BY <1>2, FS_EmptySet
  <2> QED
    BY <2>1, RouterAssumption
    DEF Init, Counted, SlotsConserved, GateCountsPasses, LoopSlot
<1>4. Ordered
  BY DEF Init, Ordered, ShutdownInOrder
<1>5. RotationProgress
  BY RouterAssumption DEF Init, RotationProgress, Offset, Listeners
<1> QED
  BY <1>1, <1>3, <1>4, <1>5, Combined

\* The invariant is inductive.
LEMMA InvStep == IndInv /\ [Next]_vars => IndInv'
<1> SUFFICES ASSUME IndInv, [Next]_vars PROVE IndInv'
  OBVIOUS
<1>1. TypeOK /\ Counted /\ Ordered /\ RotationProgress
  BY DEF IndInv, Bookkeeping, Counted, Ordered, GaugeWithinLimit, QuietWhenReturned
<1>2. CASE Next
  <2>1. TypeOK' /\ Counted' /\ Ordered' /\ RotationProgress'
    BY <1>1, <1>2, TypingStep, CountingStep, OrderStep, RotationStep
  <2> QED
    BY <2>1, Combined, PTL
<1>3. CASE UNCHANGED vars
  BY <1>1, <1>3
  DEF vars, acceptVars, gateVars, connVars, serveVars, IndInv, TypeOK, Bookkeeping,
      SlotsConserved, GaugeWithinLimit, GateCountsPasses, ShutdownInOrder, QuietWhenReturned,
      RotationProgress, LoopSlot, In, Offset
<1> QED
  BY <1>2, <1>3

\* The invariant behind every safety property of the router holds for any
\* number of clients, listeners and slots.
THEOREM RouterInvariant == SafeSpec => []IndInv
<1> QED
  BY InvInit, InvStep, PTL DEF SafeSpec

-----------------------------------------------------------------------------
(* What follows from the inductive invariant for the properties the runs   *)
(* check.                                                                  *)

\* Slots, gauge and gate count are right, serve returns to a quiet router and
\* no listener starves: the state properties of accept_loop, serve, ProxyGate
\* and ConnectionRecord, for all constants.
THEOREM RouterSafety ==
    SafeSpec => [](/\ SlotsConserved /\ GaugeWithinLimit /\ GateCountsPasses
                   /\ ShutdownInOrder /\ QuietWhenReturned /\ NoListenerStarved)
<1>1. IndInv => NoListenerStarved
  <2> SUFFICES ASSUME IndInv, NEW l \in Listeners PROVE skipped[l] < NumListeners
    BY DEF NoListenerStarved
  <2>1. /\ skipped[l] \in Nat /\ next \in Listeners /\ NumListeners \in Nat \ {0}
        /\ skipped[l] + Offset(l) < NumListeners
    BY RouterAssumption DEF IndInv, TypeOK, RotationProgress
  <2> QED
    BY <2>1 DEF Offset, Listeners
<1>2. IndInv => /\ SlotsConserved /\ GaugeWithinLimit /\ GateCountsPasses
                /\ ShutdownInOrder /\ QuietWhenReturned
  BY DEF IndInv
<1> QED
  BY <1>1, <1>2, RouterInvariant, PTL

(* serve returns only to a router with nothing left in it: the accept loop is
   done, no task is tracked, all slots are back and both counts are zero, for any
   number of connections, slots and listeners. *)
THEOREM RouterIsQuietWhenReturned == SafeSpec => []QuietWhenReturned
  BY RouterSafety, PTL

(* accept_any's rotation: for any number of listeners, none with a connection
   waiting is passed over more often than there are other listeners. *)
THEOREM ListenersTakeTurns == SafeSpec => []NoListenerStarved
  BY RouterSafety, PTL

-----------------------------------------------------------------------------
(* The refinement.                                                         *)

\* The abstract connections inside are those whose task holds a slot.
LEMMA InsideIsHoldingSlot == TypeOK => GS!Inside = In(HoldingSlot)
  BY DEF TypeOK, GS!Inside, In, PlaceOf, HoldingSlot, HoldingPass, Handshaking, Outside,
         Stages, InTracker

\* The abstract variables.
Phase   == IF serve = "returned" THEN "stopped" ELSE serve
Place   == [c \in Conns |-> PlaceOf(stage[c])]
Verdict == [c \in Conns |-> VerdictOf(stage[c], outcome[c])]

\* Task c moves to stage t with outcome o, and serve does nothing.
Moves(c, t, o) ==
    /\ stage' = [stage EXCEPT ![c] = t]
    /\ outcome' = [outcome EXCEPT ![c] = o]
    /\ serve' = serve

\* A move of one task is a move of one abstract connection.
LEMMA AbstractMove ==
    ASSUME TypeOK, NEW c \in Conns, NEW t \in Stages, NEW o \in Outcomes \cup {"None"},
           Moves(c, t, o)
    PROVE  /\ Place' = [Place EXCEPT ![c] = PlaceOf(t)]
           /\ Verdict' = [Verdict EXCEPT ![c] = VerdictOf(t, o)]
           /\ Phase' = Phase
  BY DEF TypeOK, Place, Verdict, Phase, Moves

\* A move the abstract connection does not see.
LEMMA StutterMove ==
    ASSUME TypeOK, NEW c \in Conns, NEW t \in Stages, NEW o \in Outcomes \cup {"None"},
           Moves(c, t, o),
           PlaceOf(t) = PlaceOf(stage[c]), VerdictOf(t, o) = VerdictOf(stage[c], outcome[c])
    PROVE  UNCHANGED GS!vars
<1>1. /\ Place' = [Place EXCEPT ![c] = PlaceOf(t)]
      /\ Verdict' = [Verdict EXCEPT ![c] = VerdictOf(t, o)]
      /\ Phase' = Phase
  BY AbstractMove
<1>2. Place[c] = PlaceOf(t) /\ Verdict[c] = VerdictOf(t, o)
  BY DEF Place, Verdict
<1>3. Place' = Place /\ Verdict' = Verdict
  BY <1>1, <1>2 DEF Place, Verdict
<1> QED
  BY <1>1, <1>3 DEF GS!vars, Place, Verdict, Phase

\* A task that leaves its handshake or its proxying for good has a verdict the
\* abstract connection may end with.
LEMMA EndMove ==
    ASSUME TypeOK, NEW c \in Conns, NEW t \in {"leaving", "closing"},
           NEW o \in Outcomes \cup {"None"}, Moves(c, t, o),
           \/ o = "None" /\ stage[c] \in Handshaking \cup {"proxy"}
           \/ stage[c] \in Handshaking /\ o \in HandshakeOutcomes
           \/ stage[c] \in Handshaking /\ o = "ShutdownCancelled" /\ serve # "serving"
           \/ stage[c] = "proxy" /\ o \in ProxyOutcomes /\ serve # "forcing"
           \/ stage[c] = "proxy" /\ o = "ShutdownForced" /\ serve = "forcing"
    PROVE  GS!End(c)
<1> DEFINE v == IF o = "None" THEN "Aborted" ELSE o
<1>1. t \in Stages /\ PlaceOf(t) = "ending" /\ VerdictOf(t, o) = v
  BY DEF Stages, InTracker, HoldingSlot, HoldingPass, PlaceOf, VerdictOf, Outside, Handshaking
<1>2. /\ Place' = [Place EXCEPT ![c] = "ending"]
      /\ Verdict' = [Verdict EXCEPT ![c] = v]
      /\ Phase' = Phase
  BY <1>1, AbstractMove
<1>3. PlaceOf(stage[c]) \in {"handshake", "proxying"}
  BY DEF PlaceOf, Outside, Handshaking
<1>4. GS!MayEnd(c, v)
  BY DEF GS!MayEnd, PlaceOf, Outside, Handshaking, HandshakeOutcomes, ProxyOutcomes
<1>5. v \in HandshakeOutcomes \cup ProxyOutcomes
               \cup {"ShutdownCancelled", "ShutdownForced", "Aborted"}
  BY DEF Outcomes
<1> HIDE DEF v
<1> QED
  BY <1>2, <1>3, <1>4, <1>5 DEF GS!End, Place, Verdict, Phase

\* Every step of the router is a step of the abstract specification or leaves
\* its variables alone.
LEMMA RefinesStep ==
    ASSUME IndInv, Next
    PROVE  GS!Next \/ UNCHANGED GS!vars
<1> DEFINE Goal == GS!Next \/ UNCHANGED GS!vars
<1> USE DEF acceptVars, gateVars, connVars, serveVars
<1>0. /\ TypeOK /\ ShutdownInOrder
      /\ stage \in [Conns -> Stages] /\ outcome \in [Conns -> Outcomes \cup {"None"}]
  BY DEF IndInv, TypeOK
<1>1. CASE Shutdown \/ AcquireSlot \/ BackoffEnds \/ AcceptLoopReturns
  BY <1>1 DEF Shutdown, AcquireSlot, BackoffEnds, AcceptLoopReturns, GS!vars
<1>2. CASE CloseGate
  BY <1>2 DEF CloseGate, GS!Next, GS!Drain
<1>3. CASE GraceElapses
  BY <1>3 DEF GraceElapses, GS!Next, GS!Force
<1>4. CASE ServeReturns
  <2>1. In(HoldingSlot) = {}
    BY <1>4 DEF ServeReturns, In, InTracker
  <2>2. GS!Inside = {}
    BY <1>0, <2>1, InsideIsHoldingSlot
  <2> QED
    BY <1>4, <2>2 DEF ServeReturns, GS!Next, GS!Stop
<1>5. ASSUME NEW c \in Conns, NEW t \in Stages, NEW o \in Outcomes \cup {"None"}, Moves(c, t, o),
             PlaceOf(t) = PlaceOf(stage[c]), VerdictOf(t, o) = VerdictOf(stage[c], outcome[c])
      PROVE  Goal
  BY <1>0, <1>5, StutterMove
<1>6. ASSUME NEW c \in Conns, GS!End(c) PROVE Goal
  BY <1>6 DEF GS!Next
<1> USE DEF Stages, InTracker, HoldingSlot, HoldingPass, CountedOpen, Handshaking, Outside,
            Outcomes, HandshakeOutcomes, ProxyOutcomes, Goto, ConnFrame
<1>7. ASSUME NEW c \in Conns, Arrive(c) PROVE Goal
  <2>1. Moves(c, "queued", outcome[c])
    BY <1>0, <1>7 DEF Arrive, Moves
  <2> QED
    BY <1>0, <1>5, <1>7, <2>1 DEF Arrive, PlaceOf, VerdictOf
<1>8. ASSUME NEW c \in Conns, AcceptError(c) PROVE Goal
  <2>1. CASE stage' = stage
    BY <1>8, <2>1 DEF AcceptError, GS!vars
  <2>2. CASE stage' = [stage EXCEPT ![c] = "reset"]
    <3>1. Moves(c, "reset", outcome[c])
      BY <1>0, <1>8, <2>2 DEF AcceptError, Moves
    <3> QED
      BY <1>0, <1>5, <1>8, <3>1 DEF AcceptError, PlaceOf, VerdictOf
  <2> QED
    BY <1>8, <2>1, <2>2 DEF AcceptError
<1>9. ASSUME NEW c \in Conns, Accept(c) PROVE Goal
  <2>1. Moves(c, "spawned", outcome[c]) /\ stage[c] = "queued" /\ serve = "serving"
    BY <1>0, <1>9 DEF Accept, Moves, ShutdownInOrder
  <2>2. /\ Place' = [Place EXCEPT ![c] = PlaceOf("spawned")]
        /\ Verdict' = [Verdict EXCEPT ![c] = VerdictOf("spawned", outcome[c])]
        /\ Phase' = Phase
    BY <1>0, <2>1, AbstractMove
  <2>3. PlaceOf("spawned") = "handshake" /\ Place[c] = "outside"
    BY <2>1 DEF Place, PlaceOf
  <2>4. VerdictOf("spawned", outcome[c]) = "None" /\ Verdict[c] = "None"
    BY <2>1 DEF Verdict, VerdictOf, PlaceOf
  <2>5. Verdict' = Verdict
    BY <2>2, <2>4 DEF Verdict
  <2>6. GS!Cardinality(GS!Inside) < MaxConnections
    <3>1. slots + 1 + Cardinality(In(HoldingSlot)) = MaxConnections
      BY <1>9 DEF IndInv, SlotsConserved, LoopSlot, Accept
    <3>2. slots \in Nat /\ Cardinality(In(HoldingSlot)) \in Nat /\ MaxConnections \in Nat
      BY RouterAssumption, FS_CardinalityType DEF IndInv, TypeOK, Bookkeeping
    <3>3. GS!Inside = In(HoldingSlot)
      BY <1>0, InsideIsHoldingSlot
    <3>4. GS!Cardinality(GS!Inside) = Cardinality(GS!Inside)
      BY DEF GS!Cardinality, Cardinality, GS!IsFiniteSet, IsFiniteSet
    <3> HIDE DEF HoldingSlot
    <3> QED
      BY <3>1, <3>2, <3>3, <3>4
  <2>7. GS!Admit(c)
    <3> HIDE DEF Stages, InTracker, HoldingSlot, HoldingPass, CountedOpen, Handshaking, Outside,
                 Outcomes, HandshakeOutcomes, ProxyOutcomes, Goto, ConnFrame
    <3>1. /\ Phase = "serving" /\ Phase' = Phase
          /\ Place[c] = "outside" /\ Place' = [Place EXCEPT ![c] = "handshake"]
          /\ Verdict' = Verdict
      BY <2>1, <2>2, <2>3, <2>5 DEF Phase
    <3> QED
      BY <2>6, <3>1 DEF GS!Admit, Place, Verdict, Phase
  <2> QED
    BY <2>7 DEF GS!Next
<1>10. ASSUME NEW c \in Conns, Opened(c) PROVE Goal
  <2>1. Moves(c, "hello", outcome[c])
    BY <1>0, <1>10 DEF Opened, Moves
  <2> QED
    BY <1>0, <1>5, <1>10, <2>1 DEF Opened, PlaceOf, VerdictOf
<1>11. ASSUME NEW c \in Conns, DropPass(c) PROVE Goal
  <2>1. Moves(c, "closing", outcome[c])
    BY <1>0, <1>11 DEF DropPass, Moves
  <2> QED
    BY <1>0, <1>5, <1>11, <2>1 DEF DropPass, PlaceOf, VerdictOf
<1>12. ASSUME NEW c \in Conns, CancelHandshake(c) PROVE Goal
  <2>1. Moves(c, "closing", "ShutdownCancelled") /\ serve # "serving"
    BY <1>0, <1>12 DEF CancelHandshake, Moves, ShutdownInOrder
  <2> QED
    BY <1>0, <1>6, <1>12, <2>1, EndMove DEF CancelHandshake
<1>13. ASSUME NEW c \in Conns, RefusedByGate(c) PROVE Goal
  <2>1. Moves(c, "closing", "ShutdownCancelled") /\ serve # "serving"
    BY <1>0, <1>13 DEF RefusedByGate, Moves, ShutdownInOrder
  <2> QED
    BY <1>0, <1>6, <1>13, <2>1, EndMove DEF RefusedByGate
<1>14. ASSUME NEW c \in Conns, RejectEnds(c) PROVE Goal
  <2>1. Moves(c, "closing", outcome[c]) /\ outcome[c] \in HandshakeOutcomes
    BY <1>0, <1>14 DEF RejectEnds, Moves, IndInv, Bookkeeping
  <2> QED
    BY <1>0, <1>6, <1>14, <2>1, EndMove DEF RejectEnds
<1>15. ASSUME NEW c \in Conns, HelloEnds(c) PROVE Goal
  <2>1. CASE Goto(c, "lookup", "None")
    <3>1. Moves(c, "lookup", "None")
      BY <1>15, <2>1 DEF HelloEnds, Moves
    <3> QED
      BY <1>0, <1>5, <1>15, <3>1 DEF HelloEnds, PlaceOf, VerdictOf
  <2>2. CASE Goto(c, "reject", "MissingSni")
    <3>1. Moves(c, "reject", "MissingSni")
      BY <1>15, <2>2 DEF HelloEnds, Moves
    <3> QED
      BY <1>0, <1>5, <1>15, <3>1 DEF HelloEnds, PlaceOf, VerdictOf
  <2>3. ASSUME NEW o \in {"HelloTimeout", "InvalidHello", "ClientClosed"}, Goto(c, "closing", o) PROVE Goal
    <3>1. Moves(c, "closing", o)
      BY <1>15, <2>3 DEF HelloEnds, Moves
    <3> QED
      BY <1>0, <1>6, <1>15, <3>1, EndMove DEF HelloEnds
  <2> QED
    BY <1>15, <2>1, <2>2, <2>3 DEF HelloEnds
<1>16. ASSUME NEW c \in Conns, LookupEnds(c) PROVE Goal
  <2>1. CASE Goto(c, "connect", "None")
    <3>1. Moves(c, "connect", "None")
      BY <1>16, <2>1 DEF LookupEnds, Moves
    <3> QED
      BY <1>0, <1>5, <1>16, <3>1 DEF LookupEnds, PlaceOf, VerdictOf
  <2>2. CASE Goto(c, "reject", "UnknownHost")
    <3>1. Moves(c, "reject", "UnknownHost")
      BY <1>16, <2>2 DEF LookupEnds, Moves
    <3> QED
      BY <1>0, <1>5, <1>16, <3>1 DEF LookupEnds, PlaceOf, VerdictOf
  <2>3. ASSUME NEW o \in {"LookupFailed", "LookupTimeout"}, Goto(c, "closing", o) PROVE Goal
    <3>1. Moves(c, "closing", o)
      BY <1>16, <2>3 DEF LookupEnds, Moves
    <3> QED
      BY <1>0, <1>6, <1>16, <3>1, EndMove DEF LookupEnds
  <2> QED
    BY <1>16, <2>1, <2>2, <2>3 DEF LookupEnds
<1>17. ASSUME NEW c \in Conns, ConnectEnds(c) PROVE Goal
  <2>1. CASE Goto(c, "enter", "None")
    <3>1. Moves(c, "enter", "None")
      BY <1>17, <2>1 DEF ConnectEnds, Moves
    <3> QED
      BY <1>0, <1>5, <1>17, <3>1 DEF ConnectEnds, PlaceOf, VerdictOf
  <2>2. ASSUME NEW o \in {"UpstreamConnectFailed", "UpstreamTimeout"}, Goto(c, "closing", o) PROVE Goal
    <3>1. Moves(c, "closing", o)
      BY <1>17, <2>2 DEF ConnectEnds, Moves
    <3> QED
      BY <1>0, <1>6, <1>17, <3>1, EndMove DEF ConnectEnds
  <2> QED
    BY <1>17, <2>1, <2>2 DEF ConnectEnds
<1>18. ASSUME NEW c \in Conns, EnterGate(c) PROVE Goal
  <2>1. Moves(c, "proxy", "None") /\ stage[c] = "enter" /\ serve = "serving"
    BY <1>0, <1>18 DEF EnterGate, Moves, ShutdownInOrder
  <2>2. /\ Place' = [Place EXCEPT ![c] = PlaceOf("proxy")]
        /\ Verdict' = [Verdict EXCEPT ![c] = VerdictOf("proxy", "None")]
        /\ Phase' = Phase
    BY <1>0, <2>1, AbstractMove
  <2>3. PlaceOf("proxy") = "proxying" /\ Place[c] = "handshake"
    BY <2>1 DEF Place, PlaceOf
  <2>4. VerdictOf("proxy", "None") = "None" /\ Verdict[c] = "None"
    BY <2>1 DEF Verdict, VerdictOf, PlaceOf
  <2>5. Verdict' = Verdict
    BY <2>2, <2>4 DEF Verdict
  <2>6. GS!Commit(c)
    BY <2>1, <2>2, <2>3, <2>5 DEF GS!Commit, Place, Verdict, Phase
  <2> QED
    BY <2>6 DEF GS!Next
<1>19. ASSUME NEW c \in Conns, ProxyEnds(c) PROVE Goal
  <2>0. serve # "returned"
    BY <1>19 DEF ProxyEnds, IndInv, QuietWhenReturned, In
  <2>1. CASE force
    <3>1. Moves(c, "leaving", "ShutdownForced") /\ serve = "forcing"
      BY <1>0, <1>19, <2>0, <2>1 DEF ProxyEnds, Moves, ShutdownInOrder
    <3> QED
      BY <1>0, <1>6, <1>19, <3>1, EndMove DEF ProxyEnds
  <2>2. CASE ~force
    <3>1. PICK o \in ProxyOutcomes : Goto(c, "leaving", o)
      BY <1>19, <2>2 DEF ProxyEnds
    <3>2. Moves(c, "leaving", o) /\ serve # "forcing"
      BY <1>0, <1>19, <2>2, <3>1 DEF ProxyEnds, Moves, ShutdownInOrder
    <3> QED
      BY <1>0, <1>6, <1>19, <3>2, EndMove DEF ProxyEnds
  <2> QED
    BY <2>1, <2>2
<1>20. ASSUME NEW c \in Conns, Panics(c) PROVE Goal
  <2>1. CASE stage[c] = "proxy"
    <3>1. Moves(c, "leaving", "None")
      BY <1>20, <2>1 DEF Panics, Moves
    <3> QED
      BY <1>0, <1>6, <2>1, <3>1, EndMove
  <2>2. CASE stage[c] # "proxy"
    <3>1. Moves(c, "closing", "None") /\ stage[c] \in Handshaking
      BY <1>20, <2>2 DEF Panics, Moves
    <3> QED
      BY <1>0, <1>6, <3>1, EndMove
  <2> QED
    BY <2>1, <2>2
<1>21. ASSUME NEW c \in Conns, DropRecord(c) PROVE Goal
  <2>1. Moves(c, "release", IF outcome[c] = "None" THEN "Aborted" ELSE outcome[c])
    BY <1>21 DEF DropRecord, Moves
  <2> QED
    BY <1>0, <1>5, <1>21, <2>1 DEF DropRecord, PlaceOf, VerdictOf
<1>22. ASSUME NEW c \in Conns, DropSlot(c) PROVE Goal
  <2>1. Moves(c, "untrack", "None") /\ stage[c] = "release"
    BY <1>22 DEF DropSlot, Moves
  <2>2. /\ Place' = [Place EXCEPT ![c] = PlaceOf("untrack")]
        /\ Verdict' = [Verdict EXCEPT ![c] = VerdictOf("untrack", "None")]
        /\ Phase' = Phase
    BY <1>0, <2>1, AbstractMove
  <2>3. PlaceOf("untrack") = "left" /\ Place[c] = "ending"
    BY <2>1 DEF Place, PlaceOf
  <2>4. VerdictOf("untrack", "None") = "None"
    BY DEF VerdictOf, PlaceOf
  <2>5. GS!Leave(c)
    BY <2>2, <2>3, <2>4 DEF GS!Leave, Place, Verdict, Phase
  <2> QED
    BY <2>5 DEF GS!Next
<1>23. ASSUME NEW c \in Conns, TaskEnds(c) PROVE Goal
  <2>1. Moves(c, "done", "None")
    BY <1>23 DEF TaskEnds, Moves
  <2> QED
    BY <1>0, <1>5, <1>23, <2>1 DEF TaskEnds, PlaceOf, VerdictOf
<1> QED
  BY <1>1, <1>2, <1>3, <1>4, <1>7, <1>8, <1>9, <1>10, <1>11, <1>12, <1>13, <1>14, <1>15, <1>16,
     <1>17, <1>18, <1>19, <1>20, <1>21, <1>22, <1>23
  DEF Next, Serve, AcceptLoop, HandshakeStep, CleanupStep

\* Initially the abstract specification is in its initial state.
LEMMA RefinesInit == Init => GS!Init
  BY DEF Init, GS!Init, PlaceOf, VerdictOf, Outside, Handshaking

\* Router::serve, the gate and the connection tasks implement the graceful
\* shutdown of GracefulShutdown: the commit point, the verdicts, the capacity
\* and the orderly stop, for all constants.
THEOREM RouterImplementsGracefulShutdown == SafeSpec => ImplementsGracefulShutdown
<1>1. IndInv /\ [Next]_vars => [GS!Next]_(GS!vars)
  <2> SUFFICES ASSUME IndInv, [Next]_vars PROVE GS!Next \/ UNCHANGED GS!vars
    OBVIOUS
  <2>1. CASE Next
    BY <2>1, RefinesStep
  <2>2. CASE UNCHANGED vars
    BY <2>2 DEF vars, acceptVars, connVars, serveVars, gateVars, GS!vars
  <2> QED
    BY <2>1, <2>2
<1> QED
  BY <1>1, RefinesInit, RouterInvariant, PTL DEF SafeSpec, ImplementsGracefulShutdown, GS!Spec
=============================================================================
