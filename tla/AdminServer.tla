---------------------------- MODULE AdminServer -----------------------------
(***************************************************************************)
(* The admin listener (admin.rs): a loop that takes a slot, accepts a      *)
(* connection and spawns its task, and a handler for one request per       *)
(* connection. hyper is external: a connection's request arrives whole or  *)
(* never, and its task ends when it is done, fails or runs into one of its *)
(* two timeouts. App composes these actions with the rest of the process.  *)
(***************************************************************************)
EXTENDS Config

CONSTANTS
    Probes,         \* connections that may be made to the admin listener
    Requests,       \* what they may send: [get, target]
    AdminSlots      \* AdminLimits.max_connections

ASSUME AdminAssumption == AdminSlots \in Nat \ {0}

VARIABLES
    adminPc,        \* where AdminServer::serve is
    adminSlots,     \* permits left in the semaphore
    finished,       \* connection tasks of the JoinSet that ended, not yet joined
    probe,          \* [Probes -> [pc, request, status]]
    draining        \* Health.draining

adminVars == <<adminPc, adminSlots, finished, probe, draining>>

Open == {p \in Probes : probe[p].pc \in {"open", "answered"}}
Queued == {p \in Probes : probe[p].pc = "queued"}

Silence == [get |-> FALSE, target |-> MetricsPath]
NotConnected == [pc |-> "out", request |-> Silence, status |-> 0]

AdminInit ==
    /\ adminPc = "off"
    /\ adminSlots = AdminSlots
    /\ finished = {}
    /\ probe = [p \in Probes |-> NotConnected]
    /\ draining = FALSE

Gone(pc) == [NotConnected EXCEPT !.pc = pc]

\* A client connects; the kernel queues it until the listener is dropped.
Connect(p) ==
    /\ probe[p].pc = "out" /\ adminPc # "ended"
    /\ probe' = [probe EXCEPT ![p].pc = "queued"]
    /\ UNCHANGED <<adminPc, adminSlots, finished, draining>>

\* accept_with_slot.
AcquireSlot ==
    /\ adminPc = "waiting" /\ adminSlots > 0
    /\ adminSlots' = adminSlots - 1
    /\ adminPc' = "holding"
    /\ UNCHANGED <<finished, probe, draining>>

\* The slot moves into the connection's task.
Accept(p) ==
    /\ adminPc = "holding"
    /\ probe[p].pc = "queued"
    /\ probe' = [probe EXCEPT ![p].pc = "open"]
    /\ adminPc' = "waiting"
    /\ UNCHANGED <<adminSlots, finished, draining>>

\* Mutant: the slot is forgotten with the error.
AcceptFailsLeaks ==
    /\ adminPc = "holding"
    /\ adminPc' = "backoff"
    /\ UNCHANGED <<adminSlots, finished, probe, draining>>

\* The slot is dropped with accept_with_slot's error; then a pause of 50 ms.
AcceptFails ==
    /\ adminPc = "holding"
    /\ adminPc' = "backoff"
    /\ adminSlots' = adminSlots + 1
    /\ UNCHANGED <<finished, probe, draining>>

\* The pause is not raced against the shutdown.
PauseEnds ==
    /\ adminPc = "backoff"
    /\ adminPc' = "waiting"
    /\ UNCHANGED <<adminSlots, finished, probe, draining>>

\* What becomes of a slot the loop holds when select takes another branch.
SlotsBack == adminSlots + (IF adminPc = "holding" THEN 1 ELSE 0)

\* join_next wins the select: accept_with_slot is dropped and started again.
Reap(p) ==
    /\ adminPc \in {"waiting", "holding"}
    /\ p \in finished
    /\ finished' = finished \ {p}
    /\ adminSlots' = SlotsBack
    /\ adminPc' = "waiting"
    /\ UNCHANGED <<probe, draining>>

\* uri().path(): the request's target without its query.
UriPath(target) == [target EXCEPT !.query = FALSE]

\* AdminRoutes::handle. Encoding the metrics may fail.
Handle(request, health_path) ==
    IF ~request.get THEN {405}
    ELSE IF UriPath(request.target) = MetricsPath THEN {200, 500}
    ELSE IF UriPath(request.target) = health_path THEN {IF draining THEN 503 ELSE 200}
    ELSE {404}

\* A request arrives and is answered, unless the client never sends one.
Answer(p, health_path) ==
    /\ adminPc # "aborting"
    /\ probe[p].pc = "open"
    /\ \E r \in Requests : \E s \in Handle(r, health_path) :
           probe' = [probe EXCEPT ![p] = [pc |-> "answered", request |-> r, status |-> s]]
    /\ UNCHANGED <<adminPc, adminSlots, finished, draining>>

\* Mutant: without timeouts only a connection that was answered ends.
CloseAnswered(p) ==
    /\ probe[p].pc = "answered"
    /\ probe' = [probe EXCEPT ![p] = Gone("closed")]
    /\ adminSlots' = adminSlots + 1
    /\ finished' = finished \cup {p}
    /\ UNCHANGED <<adminPc, draining>>

\* The task of a connection ends: served, failed, header_timeout,
\* connection_timeout, a panic, or aborted. Its slot is dropped with it.
Close(p) ==
    /\ p \in Open
    /\ probe' = [probe EXCEPT ![p] = Gone("closed")]
    /\ adminSlots' = adminSlots + 1
    /\ finished' = finished \cup {p}
    /\ UNCHANGED <<adminPc, draining>>

StopAccepting ==
    /\ adminPc \in {"waiting", "holding"}
    /\ adminSlots' = SlotsBack
    /\ adminPc' = "grace"
    /\ UNCHANGED <<finished, probe, draining>>

\* SHUTDOWN_GRACE_PERIOD is over: abort_all.
AdminGraceElapses ==
    /\ adminPc = "grace" /\ Open # {}
    /\ adminPc' = "aborting"
    /\ UNCHANGED <<adminSlots, finished, probe, draining>>

\* Every task is joined: serve returns, and the listener and its backlog go.
AdminReturns ==
    /\ adminPc \in {"grace", "aborting"} /\ Open = {}
    /\ adminPc' = "ended"
    /\ finished' = {}
    /\ probe' = [p \in Probes |-> IF p \in Queued THEN Gone("reset") ELSE probe[p]]
    /\ UNCHANGED <<adminSlots, draining>>

\* Health::set_draining.
SetDraining ==
    /\ draining' = TRUE
    /\ UNCHANGED <<adminPc, adminSlots, finished, probe>>

-----------------------------------------------------------------------------
\* A slot of the admin listener is free, held by the loop, or a connection's,
\* also when accept fails, the loop's future is dropped and started again, or
\* connections are aborted: each leak brings the listener, and with it the
\* health endpoint, closer to silence.
AdminSlotsConserved ==
    /\ SlotsBack + Cardinality(Open) = AdminSlots
    /\ \A p \in finished : probe[p].pc = "closed"
=============================================================================
