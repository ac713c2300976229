------------------------------- MODULE Router -------------------------------
(***************************************************************************)
(* Router::serve, its accept loop, the proxy gate and the life of every    *)
(* connection task (delivery/server.rs, delivery/gate.rs,                  *)
(* delivery/connection.rs).                                                *)
(*                                                                         *)
(* The runtime is multi-threaded, so the accept loop, serve and every      *)
(* connection task are processes that interleave.  A connection task takes *)
(* one step per stage: a stage is one await of `run` or one of the drops   *)
(* that follow it (the gate pass, the ConnectionRecord, the slot, the      *)
(* tracker token, in this order).  Bytes, host names and durations are     *)
(* abstracted: a stage ends with any of the results the code distinguishes.*)
(***************************************************************************)
EXTENDS Integers, FiniteSets

CONSTANTS
    Conns,            \* client connections that may ever arrive
    NumListeners,     \* listeners.len()
    MaxConnections    \* config.max_connections, the size of the semaphore

ASSUME RouterAssumption ==
    /\ NumListeners \in Nat \ {0}
    /\ MaxConnections \in Nat

Listeners == 0..(NumListeners - 1)

\* ConnectionOutcome, by the stage that produces it.
HandshakeOutcomes ==
    {"ClientClosed", "HelloTimeout", "InvalidHello", "MissingSni", "UnknownHost",
     "LookupFailed", "LookupTimeout", "UpstreamConnectFailed", "UpstreamTimeout"}
ProxyOutcomes == {"Proxied", "ProxyError", "IdleTimeout"}
Outcomes ==
    HandshakeOutcomes \cup ProxyOutcomes \cup {"ShutdownCancelled", "ShutdownForced", "Aborted"}

\* Stages of a connection, from the client's connect to the end of its task.
Handshaking == {"spawned", "hello", "reject", "lookup", "connect", "enter"}
HoldingPass == {"proxy", "leaving"}
HoldingSlot == Handshaking \cup HoldingPass \cup {"closing", "release"}
CountedOpen == (Handshaking \ {"spawned"}) \cup HoldingPass \cup {"closing"}
InTracker   == HoldingSlot \cup {"untrack"}
Outside     == {"away", "queued", "reset"}
Stages      == Outside \cup InTracker \cup {"done"}

VARIABLES
    shutdown,   \* the caller's shutdown token is cancelled
    accept,     \* accept_loop: "slot", "accept", "backoff", "done"
    next,       \* accept_loop: the rotating index of accept_any
    skipped,    \* history: turns given to others while the listener was ready
    slots,      \* permits left in the max_connections semaphore
    serve,      \* serve: "serving", "draining", "forcing", "returned"
    closed,     \* gate.closed, and gate.cancel_handshakes (set together)
    proxying,   \* gate.proxying
    force,      \* shared.force_cancel is cancelled
    gauge,      \* ConnectionOpened minus ConnectionClosed events
    stage,      \* [Conns -> Stages]
    via,        \* [Conns -> Listeners]: where the client connected
    outcome     \* [Conns -> Outcomes \cup {"None"}]: ConnectionRecord.outcome

acceptVars == <<accept, next, skipped>>
gateVars   == <<closed, proxying>>
connVars   == <<stage, via, outcome>>
serveVars  == <<shutdown, serve, force>>
vars == <<acceptVars, gateVars, connVars, serveVars, slots, gauge>>

\* Connections that are in one of the stages S.
In(S) == {c \in Conns : stage[c] \in S}

TypeOK ==
    /\ shutdown \in BOOLEAN
    /\ accept \in {"slot", "accept", "backoff", "done"}
    /\ next \in Listeners
    /\ skipped \in [Listeners -> Nat]
    /\ slots \in Nat
    /\ serve \in {"serving", "draining", "forcing", "returned"}
    /\ closed \in BOOLEAN
    /\ proxying \in Nat
    /\ force \in BOOLEAN
    /\ gauge \in Nat
    /\ stage \in [Conns -> Stages]
    /\ via \in [Conns -> Listeners]
    /\ outcome \in [Conns -> Outcomes \cup {"None"}]

Init ==
    /\ shutdown = FALSE
    /\ accept = "slot"
    /\ next = 0
    /\ skipped = [l \in Listeners |-> 0]
    /\ slots = MaxConnections
    /\ serve = "serving"
    /\ closed = FALSE
    /\ proxying = 0
    /\ force = FALSE
    /\ gauge = 0
    /\ stage = [c \in Conns |-> "away"]
    /\ via = [c \in Conns |-> 0]
    /\ outcome = [c \in Conns |-> "None"]

-----------------------------------------------------------------------------
(* The environment.                                                        *)

\* A client connects: it waits in the kernel backlog of one listener.  The
\* listeners are dropped with the accept loop.
Arrive(c) ==
    /\ accept # "done"
    /\ stage[c] = "away"
    /\ \E l \in Listeners : via' = [via EXCEPT ![c] = l]
    /\ stage' = [stage EXCEPT ![c] = "queued"]
    /\ UNCHANGED <<acceptVars, gateVars, serveVars, outcome, slots, gauge>>

\* Somebody cancels the token handed to serve (a signal, or the embedder).
Shutdown ==
    /\ ~shutdown
    /\ shutdown' = TRUE
    /\ UNCHANGED <<acceptVars, gateVars, connVars, serve, force, slots, gauge>>

-----------------------------------------------------------------------------
(* accept_loop.                                                            *)

Ready(l) == \E c \in Conns : stage[c] = "queued" /\ via[c] = l

\* Where accept_any's scan meets listener l: the offset from `next`.
Offset(l) == IF l >= next THEN l - next ELSE l + NumListeners - next

\* accept_any returns the first ready listener of its scan.
Polled(l) ==
    /\ Ready(l)
    /\ \A m \in Listeners : Ready(m) => Offset(l) <= Offset(m)

\* Mutant: the scan starts again at the listener just served.
AfterStays(l) == l

\* The index the next scan starts at, (index + 1) % count.
After(l) == IF l + 1 = NumListeners THEN 0 ELSE l + 1

\* Bookkeeping of a turn given to listener l.
Turn(l) ==
    /\ next' = After(l)
    /\ skipped' = [m \in Listeners |->
                     IF m # l /\ Ready(m) THEN skipped[m] + 1 ELSE 0]

\* The slot is taken before anything is accepted.
AcquireSlot ==
    /\ accept = "slot"
    /\ ~shutdown
    /\ slots > 0
    /\ slots' = slots - 1
    /\ accept' = "accept"
    /\ UNCHANGED <<next, skipped, gateVars, connVars, serveVars, gauge>>

\* A connection is accepted; its task is spawned on the tracker and owns the slot.
Accept(c) ==
    /\ accept = "accept"
    /\ ~shutdown
    /\ stage[c] = "queued"
    /\ Polled(via[c])
    /\ Turn(via[c])
    /\ stage' = [stage EXCEPT ![c] = "spawned"]
    /\ accept' = "slot"
    /\ UNCHANGED <<gateVars, via, outcome, serveVars, slots, gauge>>

\* Mutant: the slot leaks when accept fails.
AcceptErrorLeaksSlot(c) ==
    /\ accept = "accept"
    /\ ~shutdown
    /\ stage[c] = "queued"
    /\ Polled(via[c])
    /\ Turn(via[c])
    /\ accept' = "backoff"
    /\ UNCHANGED <<gateVars, connVars, serveVars, slots, gauge>>

\* accept(2) fails for the listener c waits on.  The slot goes back before the
\* backoff.  The connection is either still queued (EMFILE) or lost
\* (ECONNABORTED).
AcceptError(c) ==
    /\ accept = "accept"
    /\ ~shutdown
    /\ stage[c] = "queued"
    /\ Polled(via[c])
    /\ Turn(via[c])
    /\ stage' \in {stage, [stage EXCEPT ![c] = "reset"]}
    /\ slots' = slots + 1
    /\ accept' = "backoff"
    /\ UNCHANGED <<gateVars, via, outcome, serveVars, gauge>>

\* ACCEPT_ERROR_BACKOFF elapses.  This select is not biased.
BackoffEnds ==
    /\ accept = "backoff"
    /\ accept' = "slot"
    /\ UNCHANGED <<next, skipped, gateVars, connVars, serveVars, slots, gauge>>

\* Mutant: the wait for a client is not raced against shutdown.
AcceptLoopReturnsLate ==
    /\ shutdown
    /\ accept \in {"slot", "backoff"}
    /\ accept' = "done"
    /\ UNCHANGED <<next, skipped, gateVars, connVars, serveVars, slots, gauge>>

\* Shutdown wins one of the three selects; a slot held meanwhile is dropped.
AcceptLoopReturns ==
    /\ shutdown
    /\ accept # "done"
    /\ slots' = IF accept = "accept" THEN slots + 1 ELSE slots
    /\ accept' = "done"
    /\ UNCHANGED <<next, skipped, gateVars, connVars, serveVars, gauge>>

-----------------------------------------------------------------------------
(* serve.                                                                  *)

\* Mutant: the gate and the tracker are closed without joining the accept loop.
CloseGateUnjoined ==
    /\ serve = "serving"
    /\ shutdown
    /\ closed' = TRUE
    /\ serve' = "draining"
    /\ UNCHANGED <<acceptVars, proxying, connVars, shutdown, force, slots, gauge>>

\* The accept loop has been joined: close the gate (which cancels every
\* handshake under the same lock) and the tracker.
CloseGate ==
    /\ serve = "serving"
    /\ shutdown
    /\ accept = "done"
    /\ closed' = TRUE
    /\ serve' = "draining"
    /\ UNCHANGED <<acceptVars, proxying, connVars, shutdown, force, slots, gauge>>

\* shutdown_grace elapses with tasks still tracked.
GraceElapses ==
    /\ serve = "draining"
    /\ In(InTracker) # {}
    /\ force' = TRUE
    /\ serve' = "forcing"
    /\ UNCHANGED <<acceptVars, gateVars, connVars, shutdown, slots, gauge>>

\* tracker.wait() completes and serve returns.
ServeReturns ==
    /\ serve \in {"draining", "forcing"}
    /\ In(InTracker) = {}
    /\ serve' = "returned"
    /\ UNCHANGED <<acceptVars, gateVars, connVars, shutdown, force, slots, gauge>>

-----------------------------------------------------------------------------
(* A connection task.                                                      *)

\* The task goes on to stage s, with o as the outcome decided so far.
Goto(c, s, o) ==
    /\ stage' = [stage EXCEPT ![c] = s]
    /\ outcome' = [outcome EXCEPT ![c] = o]

ConnFrame == UNCHANGED <<acceptVars, gateVars, via, serveVars, slots, gauge>>

\* The task is polled for the first time and reports ConnectionOpened.
Opened(c) ==
    /\ stage[c] = "spawned"
    /\ stage' = [stage EXCEPT ![c] = "hello"]
    /\ gauge' = gauge + 1
    /\ UNCHANGED <<acceptVars, gateVars, via, outcome, serveVars, slots>>

\* cancellable() looks at the token first, so a stage ends with a result of
\* its own only while the handshakes are not cancelled.
CancelHandshake(c) ==
    /\ stage[c] \in {"hello", "lookup", "connect"}
    /\ closed
    /\ Goto(c, "closing", "ShutdownCancelled")
    /\ ConnFrame

HelloEnds(c) ==
    /\ stage[c] = "hello"
    /\ ~closed
    /\ \/ Goto(c, "lookup", "None")
       \/ Goto(c, "reject", "MissingSni")
       \/ \E o \in {"HelloTimeout", "InvalidHello", "ClientClosed"} : Goto(c, "closing", o)
    /\ ConnFrame

LookupEnds(c) ==
    /\ stage[c] = "lookup"
    /\ ~closed
    /\ \/ Goto(c, "connect", "None")
       \/ Goto(c, "reject", "UnknownHost")
       \/ \E o \in {"LookupFailed", "LookupTimeout"} : Goto(c, "closing", o)
    /\ ConnFrame

\* The alert was sent, failed, timed out, or was cancelled by shutdown: the
\* outcome is the one that caused it.
RejectEnds(c) ==
    /\ stage[c] = "reject"
    /\ Goto(c, "closing", outcome[c])
    /\ ConnFrame

ConnectEnds(c) ==
    /\ stage[c] = "connect"
    /\ ~closed
    /\ \/ Goto(c, "enter", "None")
       \/ \E o \in {"UpstreamConnectFailed", "UpstreamTimeout"} : Goto(c, "closing", o)
    /\ ConnFrame

\* Mutant: the flag is not looked at under the lock that counts the pass.
EnterGateUnchecked(c) ==
    /\ stage[c] = "enter"
    /\ Goto(c, "proxy", "None")
    /\ proxying' = proxying + 1
    /\ UNCHANGED <<acceptVars, closed, via, serveVars, slots, gauge>>

\* gate.enter(): commit to proxying, unless the gate is closed.
EnterGate(c) ==
    /\ stage[c] = "enter"
    /\ ~closed
    /\ Goto(c, "proxy", "None")
    /\ proxying' = proxying + 1
    /\ UNCHANGED <<acceptVars, closed, via, serveVars, slots, gauge>>

RefusedByGate(c) ==
    /\ stage[c] = "enter"
    /\ closed
    /\ Goto(c, "closing", "ShutdownCancelled")
    /\ ConnFrame

\* proxy(): the force token is polled first, then the idle timer and the copy.
ProxyEnds(c) ==
    /\ stage[c] = "proxy"
    /\ \/ force /\ Goto(c, "leaving", "ShutdownForced")
       \/ ~force /\ \E o \in ProxyOutcomes : Goto(c, "leaving", o)
    /\ ConnFrame

\* Mutant: the pass is given back by a call after proxy(), not by a drop.
PanicsKeepPass(c) ==
    /\ stage[c] \in CountedOpen \ {"leaving", "closing"}
    /\ Goto(c, "closing", "None")
    /\ ConnFrame

\* The task panics or is aborted while `run` is in progress: the same drops
\* follow, and no outcome was recorded.
Panics(c) ==
    /\ stage[c] \in CountedOpen \ {"leaving", "closing"}
    /\ Goto(c, IF stage[c] = "proxy" THEN "leaving" ELSE "closing", "None")
    /\ ConnFrame

\* ProxyPass::drop.
DropPass(c) ==
    /\ stage[c] = "leaving"
    /\ stage' = [stage EXCEPT ![c] = "closing"]
    /\ proxying' = proxying - 1
    /\ UNCHANGED <<acceptVars, closed, via, outcome, serveVars, slots, gauge>>

\* ConnectionRecord::drop: one ConnectionClosed, Aborted if no outcome was set.
DropRecord(c) ==
    /\ stage[c] = "closing"
    /\ Goto(c, "release", IF outcome[c] = "None" THEN "Aborted" ELSE outcome[c])
    /\ gauge' = gauge - 1
    /\ UNCHANGED <<acceptVars, gateVars, via, serveVars, slots>>

\* The task's _slot is dropped once handle_connection, and with it the record,
\* is gone.
DropSlot(c) ==
    /\ stage[c] = "release"
    /\ Goto(c, "untrack", "None")
    /\ slots' = slots + 1
    /\ UNCHANGED <<acceptVars, gateVars, via, serveVars, gauge>>

\* The tracker token goes with the task.
TaskEnds(c) ==
    /\ stage[c] = "untrack"
    /\ Goto(c, "done", "None")
    /\ ConnFrame

-----------------------------------------------------------------------------

AcceptLoop == AcquireSlot \/ BackoffEnds \/ AcceptLoopReturns
                \/ \E c \in Conns : Accept(c) \/ AcceptError(c)

Serve == CloseGate \/ GraceElapses \/ ServeReturns

\* Steps of a handshake: each await of it has a deadline.
HandshakeStep(c) ==
    \/ Opened(c) \/ CancelHandshake(c) \/ HelloEnds(c) \/ LookupEnds(c) \/ RejectEnds(c)
    \/ ConnectEnds(c) \/ EnterGate(c) \/ RefusedByGate(c)

\* Steps of the drops that end a task.
CleanupStep(c) == DropPass(c) \/ DropRecord(c) \/ DropSlot(c) \/ TaskEnds(c)

Next ==
    \/ Shutdown
    \/ AcceptLoop
    \/ Serve
    \/ \E c \in Conns :
          Arrive(c) \/ HandshakeStep(c) \/ ProxyEnds(c) \/ Panics(c) \/ CleanupStep(c)

SafeSpec == Init /\ [][Next]_vars

(***************************************************************************)
(* Fairness.  The runtime polls a woken task again (accept loop return,    *)
(* serve, handshakes, drops), every handshake await has a deadline, and    *)
(* the grace timer fires.  A proxied connection need not end by itself     *)
(* (without idle_timeout it may last for ever): only the force token       *)
(* obliges it to.  Nothing obliges clients to arrive or accept to succeed. *)
(***************************************************************************)
Fairness ==
    /\ WF_vars(AcceptLoopReturns)
    /\ WF_vars(Serve)
    /\ \A c \in Conns :
          /\ WF_vars(HandshakeStep(c))
          /\ WF_vars(CleanupStep(c))
          /\ WF_vars(force /\ ProxyEnds(c))

Spec == SafeSpec /\ Fairness

-----------------------------------------------------------------------------
(* Properties.                                                             *)

\* Whether the accept loop holds a slot for the connection it waits for.
LoopSlot == IF accept = "accept" THEN 1 ELSE 0

\* max_connections is neither lost nor exceeded: on every path (accept
\* failure, shutdown while waiting, panic, each early return of `run`) the
\* free slots, the accept loop's and the tasks' add up to the limit.
SlotsConserved ==
    slots + LoopSlot + Cardinality(In(HoldingSlot)) = MaxConnections

\* The open-connections gauge an operator sees is the number of connections
\* between their Opened and Closed events, and never passes max_connections:
\* ConnectionRecord is dropped before the slot is.
GaugeWithinLimit ==
    /\ gauge = Cardinality(In(CountedOpen))
    /\ gauge <= MaxConnections

\* gate.proxying is the number of connections that hold a ProxyPass, however
\* they entered, ended or died; `proxying -= 1` never underflows.
GateCountsPasses == proxying = Cardinality(In(HoldingPass))

\* When serve returns nothing is left behind: no task, no open connection on
\* the gauge, no pass, and the accept loop is gone, so nothing can follow.
QuietWhenReturned ==
    serve = "returned" =>
        /\ In(InTracker) = {}
        /\ accept = "done"
        /\ slots = MaxConnections
        /\ gauge = 0
        /\ proxying = 0

\* The order of shutdown: the gate closes only after the request and after
\* the accept loop has ended, so no task is spawned behind it; the force token
\* is cancelled only once the grace period is over; a connection has been
\* cancelled only if the gate is closed and forced only if the token is.
ShutdownInOrder ==
    /\ closed <=> serve # "serving"
    /\ closed => shutdown /\ accept = "done"
    /\ force => serve \in {"forcing", "returned"}
    /\ serve = "forcing" => force
    /\ \A c \in Conns :
          /\ outcome[c] = "ShutdownCancelled" => closed
          /\ outcome[c] = "ShutdownForced" => force

\* "Polling starts at a rotating index so a busy listener can't starve the
\* others": a listener with a connection waiting is passed over at most
\* NumListeners - 1 times in a row.
NoListenerStarved == \A l \in Listeners : skipped[l] < NumListeners

\* Why: the turns a waiting listener was denied and the distance the scan still
\* has to go to reach it never add up to a full round.
RotationProgress == \A l \in Listeners : skipped[l] + Offset(l) < NumListeners

\* serve returns after shutdown is requested, whatever the clients, the
\* backends and the route lookup do.
ShutdownCompletes == shutdown ~> (serve = "returned")

\* The sets the counters count are finite, and an alert is only sent with an
\* outcome to report.
Bookkeeping ==
    /\ \A S \in {HoldingSlot, CountedOpen, HoldingPass} : IsFiniteSet(In(S))
    /\ \A c \in Conns : stage[c] = "reject" => outcome[c] \in HandshakeOutcomes

\* The inductive invariant behind the safety properties above: the counters
\* agree with where the tasks are, shutdown happens in order, and the accept
\* scan makes progress.  Router::serve relies on all of it at once: that it
\* returns with nothing left behind needs the counters and the order.
IndInv ==
    /\ TypeOK
    /\ Bookkeeping
    /\ SlotsConserved
    /\ GaugeWithinLimit
    /\ GateCountsPasses
    /\ ShutdownInOrder
    /\ QuietWhenReturned
    /\ RotationProgress

\* The abstract view of a connection at stage s with outcome o.  It has a
\* verdict once its task has decided how it ends; a missing outcome will be
\* reported as Aborted.
PlaceOf(s) ==
    CASE s \in Outside     -> "outside"
      [] s \in Handshaking -> "handshake"
      [] s = "proxy"       -> "proxying"
      [] s \in {"leaving", "closing", "release"} -> "ending"
      [] OTHER             -> "left"

VerdictOf(s, o) ==
    IF PlaceOf(s) # "ending" THEN "None" ELSE IF o = "None" THEN "Aborted" ELSE o

GS == INSTANCE GracefulShutdown WITH
    Capacity          <- MaxConnections,
    HandshakeVerdicts <- HandshakeOutcomes,
    ProxyVerdicts     <- ProxyOutcomes,
    Cancelled         <- "ShutdownCancelled",
    Forced            <- "ShutdownForced",
    Aborted           <- "Aborted",
    NoVerdict         <- "None",
    phase             <- IF serve = "returned" THEN "stopped" ELSE serve,
    place             <- [c \in Conns |-> PlaceOf(stage[c])],
    verdict           <- [c \in Conns |-> VerdictOf(stage[c], outcome[c])]

\* The router implements the graceful shutdown it promises: a connection that
\* races shutdown lands on exactly one side of the gate, only handshakes are
\* cancelled, only proxied connections are forced and only after the grace
\* period, and serve stops when all have left.
ImplementsGracefulShutdown == GS!Spec
=============================================================================
