------------------------------- MODULE Proxy -------------------------------
(***************************************************************************)
(* The proxy stage: proxy(), copy() and the idle watchdog                  *)
(* (delivery/proxy.rs), the splice(2) fast path with its process-wide      *)
(* file-descriptor budget (delivery/splice.rs) and the byte counters       *)
(* (delivery/metered.rs).                                                  *)
(*                                                                         *)
(* Connections run on their own tasks and share only the splice permits.   *)
(* Within one connection the two directions interleave at every await.     *)
(* A byte is only counted: a direction is a number of bytes sent by its    *)
(* source, held in its pipe or buffer, and delivered to its destination.   *)
(* Time is a number of ticks, each clock relative to the present.          *)
(***************************************************************************)
EXTENDS Integers, FiniteSets

CONSTANTS
    Conns,         \* connections that reach the proxy stage
    FdLimit,       \* the RLIMIT_NOFILE soft limit
    Override,      \* SNI_ROUTER_MAX_SPLICE_CONNECTIONS, or None
    BufferSize,    \* capacity of a pipe, and of a buffer of the portable copy
    IdleTimeout,   \* config.idle_timeout, or None
    MaxBytes,      \* bound: bytes a peer sends
    None

ASSUME ProxyAssumption ==
    /\ FdLimit \in Nat
    /\ Override \in Nat \cup {None}
    /\ BufferSize \in Nat \ {0}
    /\ IdleTimeout \in (Nat \ {0}) \cup {None}
    /\ MaxBytes \in Nat
    /\ None \notin Nat \cup {"splice", "portable", "Finished", "Error", "Idle", "Forced"}

Directions == {"up", "down"}    \* client to upstream, upstream to client

\* splice_permits and admission_capacity.
MaxSpliceFdShare == 2
FdsPerSpliceConnection == 4
SplicePermits == (FdLimit \div MaxSpliceFdShare) \div FdsPerSpliceConnection
AdmissionCapacity == IF Override = None THEN SplicePermits ELSE Override

VARIABLES
    available,   \* splice::available(), probed once
    permits,     \* permits left in Admission
    force,       \* the force token is cancelled
    pc,          \* [Conns -> "start", "opening", "copying", "closing", "releasing", "ended"]
    path,        \* [Conns -> None, "splice", "portable"]: the copy mechanism in use
    end,         \* [Conns -> ProxyEnd, or None]
    pipes,       \* [Conns -> SUBSET Directions]: pipes open
    flow,        \* [Conns -> [Directions -> state of the copy in one direction]]
    books,       \* [Conns -> ByteCounters]
    quiet,       \* [Conns -> ticks since Activity.last, up to the idle timeout]
    armed,       \* [Conns -> ticks until the watchdog's sleep ends]
    still        \* history: [Conns -> ticks since a byte moved on either socket]

timers == <<quiet, armed, still>>
vars == <<available, permits, force, pc, path, end, pipes, flow, books, timers>>

Longest == IF IdleTimeout = None THEN 0 ELSE IdleTimeout

TypeOK ==
    /\ available \in BOOLEAN
    /\ permits \in 0..AdmissionCapacity
    /\ force \in BOOLEAN
    /\ pc \in [Conns -> {"start", "opening", "copying", "closing", "releasing", "ended"}]
    /\ path \in [Conns -> {None, "splice", "portable"}]
    /\ end \in [Conns -> {None, "Finished", "Error", "Idle", "Forced"}]
    /\ pipes \in [Conns -> SUBSET Directions]
    /\ flow \in [Conns -> [Directions ->
                  [pc : {"read", "drain", "done"}, sent : 0..MaxBytes, eof : BOOLEAN,
                   held : 0..BufferSize, delivered : 0..MaxBytes, shut : BOOLEAN]]]
    /\ books \in [Conns -> [read : 0..MaxBytes, written : 0..MaxBytes]]
    /\ quiet \in [Conns -> 0..Longest]
    /\ armed \in [Conns -> 0..Longest]
    /\ still \in [Conns -> 0..Longest]

\* The activity clock is restarted just before proxy() is called.
Init ==
    /\ available \in BOOLEAN
    /\ permits = AdmissionCapacity
    /\ force = FALSE
    /\ pc = [c \in Conns |-> "start"]
    /\ path = [c \in Conns |-> None]
    /\ end = [c \in Conns |-> None]
    /\ pipes = [c \in Conns |-> {}]
    /\ flow = [c \in Conns |-> [d \in Directions |->
                 [pc |-> "read", sent |-> 0, eof |-> FALSE,
                  held |-> 0, delivered |-> 0, shut |-> FALSE]]]
    /\ books = [c \in Conns |-> [read |-> 0, written |-> 0]]
    /\ quiet = [c \in Conns |-> 0]
    /\ armed = [c \in Conns |-> Longest]
    /\ still = [c \in Conns |-> 0]

-----------------------------------------------------------------------------
(* The environment: the two peers, the force token, time.                  *)

\* The source of direction d sends a byte, or its FIN.
PeerSends(c, d) ==
    /\ pc[c] # "ended"
    /\ ~flow[c][d].eof
    /\ \/ /\ flow[c][d].sent < MaxBytes
          /\ flow' = [flow EXCEPT ![c][d].sent = @ + 1]
       \/ flow' = [flow EXCEPT ![c][d].eof = TRUE]
    /\ UNCHANGED <<available, permits, force, pc, path, end, pipes, books, timers>>

\* The shutdown grace period is over.
CancelForce ==
    /\ ~force
    /\ force' = TRUE
    /\ UNCHANGED <<available, permits, pc, path, end, pipes, flow, books, timers>>

Copying == {c \in Conns : pc[c] = "copying"}
Sooner(n) == IF n > 0 THEN n - 1 ELSE 0
Longer(n) == IF n < Longest THEN n + 1 ELSE n

Tick ==
    /\ IdleTimeout # None
    /\ Copying # {}
    /\ quiet' = [c \in Conns |-> IF c \in Copying THEN Longer(quiet[c]) ELSE quiet[c]]
    /\ still' = [c \in Conns |-> IF c \in Copying THEN Longer(still[c]) ELSE still[c]]
    /\ armed' = [c \in Conns |-> IF c \in Copying THEN Sooner(armed[c]) ELSE armed[c]]
    /\ UNCHANGED <<available, permits, force, pc, path, end, pipes, flow, books>>

-----------------------------------------------------------------------------
(* copy(): the choice of the mechanism.                                    *)

\* A permit is free: reserve it before the pipes are made.
TryAcquire(c) ==
    /\ pc[c] = "start" /\ ~force
    /\ available /\ permits > 0
    /\ permits' = permits - 1
    /\ pc' = [pc EXCEPT ![c] = "opening"]
    /\ UNCHANGED <<available, force, path, end, pipes, flow, books, timers>>

\* splice(2) does not work here, or the budget is used up.
UsePortable(c) ==
    /\ pc[c] = "start" /\ ~force
    /\ ~available \/ permits = 0
    /\ pc' = [pc EXCEPT ![c] = "copying"]
    /\ path' = [path EXCEPT ![c] = "portable"]
    /\ UNCHANGED <<available, permits, force, end, pipes, flow, books, timers>>

\* prepare(): one pipe after the other.
OpenPipe(c) ==
    /\ pc[c] = "opening"
    /\ pipes' = [pipes EXCEPT ![c] = IF @ = {} THEN {"up"} ELSE Directions]
    /\ IF pipes[c] = {}
       THEN UNCHANGED <<pc, path>>
       ELSE /\ pc' = [pc EXCEPT ![c] = "copying"]
            /\ path' = [path EXCEPT ![c] = "splice"]
    /\ UNCHANGED <<available, permits, force, end, flow, books, timers>>

\* A pipe cannot be made: the one already made is closed, the permit returned,
\* and the portable copy takes over.
OpenPipeFails(c) ==
    /\ pc[c] = "opening"
    /\ pipes' = [pipes EXCEPT ![c] = {}]
    /\ permits' = permits + 1
    /\ pc' = [pc EXCEPT ![c] = "copying"]
    /\ path' = [path EXCEPT ![c] = "portable"]
    /\ UNCHANGED <<available, force, end, flow, books, timers>>

-----------------------------------------------------------------------------
(* One direction of the copy.                                              *)

\* select! polls the force token and the watchdog before the copy.
Due(c) == IdleTimeout # None /\ armed[c] = 0
MayCopy(c, p) == pc[c] = "copying" /\ path[c] = p /\ ~force /\ ~Due(c)

CopyFrame == UNCHANGED <<available, permits, force, pc, path, end, armed>>

InFlight(f) == f.sent - f.delivered - f.held

\* Mutant: the client's bytes are not counted when they are taken.
CountReadNever(c, d, n) == UNCHANGED <<books, quiet>>

\* n bytes were taken from the source of d: only the client's are counted, and
\* only they restart the idle clock.
CountRead(c, d, n) ==
    IF d = "up"
    THEN /\ books' = [books EXCEPT ![c].read = @ + n]
         /\ quiet' = [quiet EXCEPT ![c] = 0]
    ELSE UNCHANGED <<books, quiet>>

\* n bytes reached the destination of d.
CountWritten(c, d, n) ==
    IF d = "down"
    THEN /\ books' = [books EXCEPT ![c].written = @ + n]
         /\ quiet' = [quiet EXCEPT ![c] = 0]
    ELSE UNCHANGED <<books, quiet>>

\* splice_direction, source to pipe: up to a pipe's capacity.
SpliceIn(c, d) ==
    /\ MayCopy(c, "splice")
    /\ flow[c][d].pc = "read"
    /\ \E n \in 1..(BufferSize - flow[c][d].held) :
          /\ n <= InFlight(flow[c][d])
          /\ flow' = [flow EXCEPT ![c][d].held = @ + n, ![c][d].pc = "drain"]
          /\ CountRead(c, d, n)
    /\ still' = [still EXCEPT ![c] = 0]
    /\ UNCHANGED pipes
    /\ CopyFrame

\* Mutant: one splice out per splice in, whatever it moved.
AfterSpliceOutOnce(f, n) == "read"

\* The pipe is drained to the last byte before the next splice in.
AfterSpliceOut(f, n) == IF n = f.held THEN "read" ELSE "drain"

\* Pipe to destination, as much as the destination takes.
SpliceOut(c, d) ==
    /\ MayCopy(c, "splice")
    /\ flow[c][d].pc = "drain"
    /\ \E n \in 1..flow[c][d].held :
          /\ flow' = [flow EXCEPT ![c][d].held = @ - n,
                                  ![c][d].delivered = @ + n,
                                  ![c][d].pc = AfterSpliceOut(flow[c][d], n)]
          /\ CountWritten(c, d, n)
    /\ still' = [still EXCEPT ![c] = 0]
    /\ UNCHANGED pipes
    /\ CopyFrame

\* Mutant: the end of the source is not passed on.
SpliceEofSilent(c, d) ==
    /\ MayCopy(c, "splice")
    /\ flow[c][d].pc = "read"
    /\ flow[c][d].eof /\ InFlight(flow[c][d]) = 0
    /\ flow' = [flow EXCEPT ![c][d].pc = "done"]
    /\ pipes' = [pipes EXCEPT ![c] = @ \ {d}]
    /\ UNCHANGED <<books, quiet, still>>
    /\ CopyFrame

\* The source is at its end: shutdown_write, and the direction's pipe closes.
SpliceEof(c, d) ==
    /\ MayCopy(c, "splice")
    /\ flow[c][d].pc = "read"
    /\ flow[c][d].eof /\ InFlight(flow[c][d]) = 0
    /\ flow' = [flow EXCEPT ![c][d].pc = "done", ![c][d].shut = TRUE]
    /\ pipes' = [pipes EXCEPT ![c] = @ \ {d}]
    /\ UNCHANGED <<books, quiet, still>>
    /\ CopyFrame

\* tokio::io::copy_bidirectional_with_sizes (external): it reads while its
\* buffer has room and writes while it holds bytes; at the end of the source
\* it writes what is left and shuts the destination down.
PortableRead(c, d) ==
    /\ MayCopy(c, "portable")
    /\ flow[c][d].pc = "read"
    /\ \E n \in 1..(BufferSize - flow[c][d].held) :
          /\ n <= InFlight(flow[c][d])
          /\ flow' = [flow EXCEPT ![c][d].held = @ + n]
          /\ CountRead(c, d, n)
    /\ still' = [still EXCEPT ![c] = 0]
    /\ UNCHANGED pipes
    /\ CopyFrame

PortableWrite(c, d) ==
    /\ MayCopy(c, "portable")
    /\ flow[c][d].pc \in {"read", "drain"}
    /\ \E n \in 1..flow[c][d].held :
          /\ flow' = [flow EXCEPT ![c][d].held = @ - n, ![c][d].delivered = @ + n]
          /\ CountWritten(c, d, n)
    /\ still' = [still EXCEPT ![c] = 0]
    /\ UNCHANGED pipes
    /\ CopyFrame

PortableEof(c, d) ==
    /\ MayCopy(c, "portable")
    /\ flow[c][d].eof /\ InFlight(flow[c][d]) = 0
    /\ \/ /\ flow[c][d].pc = "read"
          /\ flow' = [flow EXCEPT ![c][d].pc = "drain"]
       \/ /\ flow[c][d].pc = "drain" /\ flow[c][d].held = 0
          /\ flow' = [flow EXCEPT ![c][d].pc = "done", ![c][d].shut = TRUE]
    /\ UNCHANGED <<pipes, books, quiet, still>>
    /\ CopyFrame

-----------------------------------------------------------------------------
(* The end of the proxy stage.                                             *)

\* proxy() ends with e.  The copy is dropped: a splicing connection still has
\* its pipes and its permit to give back.
Ends(c, e) ==
    /\ end' = [end EXCEPT ![c] = e]
    /\ pc' = [pc EXCEPT ![c] = IF path[c] = "splice" THEN "closing" ELSE "ended"]
    /\ UNCHANGED <<available, permits, force, path, pipes, flow, books, quiet, still>>

\* try_join!: both directions are done.
CopyFinishes(c) ==
    /\ pc[c] = "copying" /\ ~force /\ ~Due(c)
    /\ \A d \in Directions : flow[c][d].pc = "done"
    /\ Ends(c, "Finished")
    /\ UNCHANGED armed

\* A socket fails in either direction, or a splice out makes no progress.
CopyFails(c) ==
    /\ pc[c] = "copying" /\ ~force /\ ~Due(c)
    /\ \E d \in Directions : flow[c][d].pc # "done"
    /\ Ends(c, "Error")
    /\ UNCHANGED armed

\* Mutants: the watchdog sleeps a whole timeout again; it watches a connection
\* only until one side has stopped sending.
WatchdogRestarts(c) ==
    /\ pc[c] = "copying" /\ ~force
    /\ Due(c)
    /\ \/ quiet[c] >= IdleTimeout /\ Ends(c, "Idle") /\ UNCHANGED armed
       \/ /\ quiet[c] < IdleTimeout
          /\ armed' = [armed EXCEPT ![c] = IdleTimeout]
          /\ UNCHANGED <<available, permits, force, pc, path, end, pipes, flow, books,
                         quiet, still>>

WatchdogUntilHalfClose(c) ==
    /\ pc[c] = "copying" /\ ~force
    /\ Due(c)
    /\ \A d \in Directions : flow[c][d].pc # "done"
    /\ \/ quiet[c] >= IdleTimeout /\ Ends(c, "Idle") /\ UNCHANGED armed
       \/ /\ quiet[c] < IdleTimeout
          /\ armed' = [armed EXCEPT ![c] = IdleTimeout - quiet[c]]
          /\ UNCHANGED <<available, permits, force, pc, path, end, pipes, flow, books,
                         quiet, still>>

\* idle_expired: the sleep ends, and the last activity is looked at again.
Watchdog(c) ==
    /\ pc[c] = "copying" /\ ~force
    /\ Due(c)
    /\ \/ quiet[c] >= IdleTimeout /\ Ends(c, "Idle") /\ UNCHANGED armed
       \/ /\ quiet[c] < IdleTimeout
          /\ armed' = [armed EXCEPT ![c] = IdleTimeout - quiet[c]]
          /\ UNCHANGED <<available, permits, force, pc, path, end, pipes, flow, books,
                         quiet, still>>

\* The force token wins over everything else, and before the copy has started.
Forced(c) ==
    /\ pc[c] \in {"start", "copying"} /\ force
    /\ Ends(c, "Forced")
    /\ UNCHANGED armed

\* The pipes are dropped with the future that owns them ...
ClosePipes(c) ==
    /\ pc[c] = "closing"
    /\ pipes' = [pipes EXCEPT ![c] = {}]
    /\ pc' = [pc EXCEPT ![c] = "releasing"]
    /\ UNCHANGED <<available, permits, force, path, end, flow, books, timers>>

\* Mutant: the permit is returned while the pipes are still open.
DropPermitEarly(c) ==
    /\ pc[c] \in {"closing", "releasing"}
    /\ pc' = [pc EXCEPT ![c] = "ended"]
    /\ permits' = permits + 1
    /\ UNCHANGED <<available, force, path, end, pipes, flow, books, timers>>

\* ... and then the permit.
DropPermit(c) ==
    /\ pc[c] = "releasing"
    /\ pc' = [pc EXCEPT ![c] = "ended"]
    /\ permits' = permits + 1
    /\ UNCHANGED <<available, force, path, end, pipes, flow, books, timers>>

-----------------------------------------------------------------------------

CopyStep(c, d) ==
    \/ SpliceIn(c, d) \/ SpliceOut(c, d) \/ SpliceEof(c, d)
    \/ PortableRead(c, d) \/ PortableWrite(c, d) \/ PortableEof(c, d)

\* Steps the task takes without waiting for a peer.
TaskStep(c) ==
    \/ TryAcquire(c) \/ UsePortable(c) \/ OpenPipe(c) \/ OpenPipeFails(c)
    \/ CopyFinishes(c) \/ Watchdog(c) \/ Forced(c)
    \/ ClosePipes(c) \/ DropPermit(c)

Next ==
    \/ CancelForce \/ Tick
    \/ \E c \in Conns :
          \/ TaskStep(c) \/ CopyFails(c)
          \/ \E d \in Directions : PeerSends(c, d) \/ CopyStep(c, d)

SafeSpec == Init /\ [][Next]_vars

(***************************************************************************)
(* Fairness.  Time passes and a woken task is polled.  Passing on the end  *)
(* of a source waits for no peer: the read returns 0 and shutdown_write is *)
(* a system call.  Peers are not obliged to send or to take anything, so   *)
(* no step that moves bytes is fair.                                       *)
(***************************************************************************)
EofStep(c, d) == SpliceEof(c, d) \/ PortableEof(c, d)

Spec ==
    /\ SafeSpec
    /\ WF_vars(Tick)
    /\ \A c \in Conns :
          /\ WF_vars(TaskStep(c))
          /\ \A d \in Directions : WF_vars(EofStep(c, d))

-----------------------------------------------------------------------------
(* Properties.                                                             *)

\* A direction of the copy as a stream: what has left the socket and is in the
\* pipe or the buffer is taken, not delivered.
StreamOf(f) ==
    [sent |-> f.sent, ended |-> f.eof, taken |-> f.delivered + f.held,
     delivered |-> f.delivered, closed |-> f.shut]
Streamed == [c \in Conns |-> [d \in Directions |-> StreamOf(flow[c][d])]]

Relay == INSTANCE ByteRelay WITH
    Streams <- Directions, Room <- BufferSize, Limit <- MaxBytes,
    Cuts <- {"Idle", "Forced"}, Open <- None, stream <- Streamed, verdict <- end

\* copy and proxy: whichever mechanism copies, whatever the chunks and partial
\* writes, and through fallback, half-close, errors, idle timeouts and force, a
\* connection is a relay of two byte streams.
ImplementsByteRelay == Relay!Spec

\* A destination's write half is shut down only after every byte its source
\* ever sent has reached it, on both copy mechanisms and whatever the chunks
\* and partial writes were (splice_direction, half-close in copy()); Relay!Close
\* demands it of the step that shuts it.
NoTruncation ==
    \A c \in Conns, d \in Directions :
       flow[c][d].shut => flow[c][d].eof /\ flow[c][d].delivered = flow[c][d].sent

\* The totals reported at close are the bytes taken from the client, the ones
\* still on their way to the upstream included, and the bytes the client got,
\* also when the connection was cut half way.
BooksBalance ==
    \A c \in Conns :
       /\ books[c].read = flow[c]["up"].delivered + flow[c]["up"].held
       /\ books[c].written = flow[c]["down"].delivered

\* Connections that hold a permit.
Reserved == {c \in Conns : \/ pc[c] \in {"opening", "closing", "releasing"}
                           \/ pc[c] = "copying" /\ path[c] = "splice"}

\* A splice permit is neither lost nor made up, however the connection ends.
PermitsConserved == permits + Cardinality(Reserved) = AdmissionCapacity

OpenFds == 2 * Cardinality({cd \in Conns \X Directions : cd[2] \in pipes[cd[1]]})

\* The pipes never take more descriptors than the permits stand for, which
\* without an override is at most half of the process's limit
\* (MAX_SPLICE_FD_SHARE).
PipesWithinBudget ==
    /\ OpenFds <= FdsPerSpliceConnection * AdmissionCapacity
    /\ Override = None => MaxSpliceFdShare * OpenFds <= FdLimit

\* The splice budget: permits and descriptors through setup failures,
\* half-close, errors and force.
SpliceBudgetKept == TypeOK /\ PermitsConserved /\ PipesWithinBudget

\* The watchdog never sleeps past the moment the connection has been quiet for
\* the idle timeout, although it sleeps on a deadline computed before the
\* bytes that moved meanwhile.
WatchdogArmed ==
    IdleTimeout # None => \A c \in Copying : quiet[c] + armed[c] <= IdleTimeout

\* A connection ends as Idle only when the client side was quiet for the whole
\* timeout at that moment.
IdleIsQuiet ==
    \A c \in Conns : end[c] = "Idle" => quiet[c] = IdleTimeout

\* The watchdog is exact: neither late nor early.
WatchdogExact == WatchdogArmed /\ IdleIsQuiet

\* What proxy.rs says of idle_expired: it resolves once no bytes have moved
\* for the idle timeout.  The code looks at the client's socket only.
IdleMeansNothingMoved ==
    \A c \in Conns : end[c] = "Idle" => still[c] = IdleTimeout

\* With an idle timeout no connection outlives its traffic, and its pipes and
\* permit come back, even if neither peer ever reads or sends again.
StalledConnectionEnds == \A c \in Conns : pc[c] = "copying" ~> pc[c] = "ended"

\* Half-close: a source that has stopped sending, and whose bytes have all been
\* delivered, has its end passed on although the other direction goes on or
\* stays silent for ever, unless the connection is cut by an error or by force
\* (splice_direction's shutdown_write).  Without an idle timeout nothing else
\* would ever end it, and a peer that waits for the end would wait for ever.
HalfClosePropagates ==
    \A c \in Conns, d \in Directions :
       (flow[c][d].eof /\ flow[c][d].delivered = flow[c][d].sent)
          ~> (flow[c][d].shut \/ end[c] \in {"Error", "Idle", "Forced"})
=============================================================================
