---------------------------- MODULE ProxyProofs -----------------------------
(***************************************************************************)
(* Proofs about Proxy, for every number of connections, every limit and    *)
(* every buffer size.                                                      *)
(***************************************************************************)
EXTENDS Proxy, FiniteSetTheorems, TLAPS

-----------------------------------------------------------------------------
(* The inductive invariant.                                                *)

\* Which copy mechanism, pipes and end go with each place of c's task.
Shape(c) ==
    /\ pc[c] \in {"start", "opening"} => path[c] = None
    /\ pc[c] = "copying" => path[c] \in {"splice", "portable"}
    /\ pc[c] \in {"closing", "releasing"} => path[c] = "splice"
    /\ pipes[c] # {} => \/ pc[c] \in {"opening", "closing"}
                        \/ pc[c] = "copying" /\ path[c] = "splice"
    /\ end[c] = None <=> pc[c] \in {"start", "opening", "copying"}

Tasks ==
    /\ available \in BOOLEAN /\ force \in BOOLEAN
    /\ pc \in [Conns -> {"start", "opening", "copying", "closing", "releasing", "ended"}]
    /\ path \in [Conns -> {None, "splice", "portable"}]
    /\ end \in [Conns -> {None, "Finished", "Error", "Idle", "Forced"}]
    /\ pipes \in [Conns -> SUBSET Directions]
    /\ \A c \in Conns : Shape(c)

FlowType ==
    [pc : {"read", "drain", "done"}, sent : 0..MaxBytes, eof : BOOLEAN,
     held : 0..BufferSize, delivered : 0..MaxBytes, shut : BOOLEAN]
BooksType == [read : 0..MaxBytes, written : 0..MaxBytes]

\* One direction of a connection that copies by mechanism p: nothing is made up,
\* a splicing direction reads only with an empty pipe, the portable copy
\* drains only what is left at the end, and only a drained direction is done.
FlowInv(f, p) ==
    /\ f.delivered + f.held <= f.sent
    /\ p = None => f.pc = "read" /\ f.held = 0
    /\ p = "splice" /\ f.pc = "read" => f.held = 0
    /\ p = "portable" /\ f.pc = "drain" => f.eof /\ InFlight(f) = 0
    /\ f.pc = "done" => f.eof /\ f.held = 0 /\ f.delivered = f.sent
    /\ f.shut <=> f.pc = "done"

Bytes ==
    /\ flow \in [Conns -> [Directions -> FlowType]]
    /\ books \in [Conns -> BooksType]
    /\ \A c \in Conns, d \in Directions : FlowInv(flow[c][d], path[c])
    /\ BooksBalance

\* The watchdog's sleep also counts before the copy has started.
TimersInv(c) ==
    /\ pc[c] \in {"start", "opening", "copying"} => quiet[c] + armed[c] <= Longest
    /\ end[c] = "Idle" => quiet[c] = IdleTimeout

Clocks ==
    /\ quiet \in [Conns -> 0..Longest]
    /\ armed \in [Conns -> 0..Longest]
    /\ still \in [Conns -> 0..Longest]
    /\ \A c \in Conns : TimersInv(c)

\* The connections that hold a permit are finitely many, also if Conns is not.
Permits == IsFiniteSet(Reserved) /\ PermitsConserved /\ permits \in Nat

IndInv == Tasks /\ Bytes /\ Clocks /\ Permits

-----------------------------------------------------------------------------
(* The constants and the initial state.                                    *)

\* What the configuration and the file-descriptor limit amount to.
LEMMA ConstantTypes ==
    /\ Longest \in Nat /\ BufferSize \in Nat /\ MaxBytes \in Nat
    /\ AdmissionCapacity \in Nat
    /\ Override = None => 8 * AdmissionCapacity <= FdLimit
    /\ IdleTimeout # None => Longest = IdleTimeout /\ IdleTimeout \in Nat \ {0}
<1>1. FdLimit \in Nat => SplicePermits \in Nat /\ 8 * SplicePermits <= FdLimit
  BY DEF SplicePermits, MaxSpliceFdShare, FdsPerSpliceConnection
<1> QED
  BY <1>1, ProxyAssumption DEF Longest, AdmissionCapacity

\* The invariant holds before any connection proxies.
LEMMA InitInd == Init => IndInv
<1> SUFFICES ASSUME Init PROVE IndInv
  OBVIOUS
<1>1. Tasks
  BY ProxyAssumption DEF Init, Tasks, Shape
<1>2. Bytes
  <2>1. flow \in [Conns -> [Directions -> FlowType]]
    BY ConstantTypes DEF Init, FlowType
  <2>2. books \in [Conns -> BooksType]
    BY ConstantTypes DEF Init, BooksType
  <2>3. \A c \in Conns, d \in Directions : FlowInv(flow[c][d], path[c])
    BY ProxyAssumption DEF Init, FlowInv
  <2>4. BooksBalance
    BY DEF Init, BooksBalance, Directions
  <2> QED
    BY <2>1, <2>2, <2>3, <2>4 DEF Bytes
<1>3. Clocks
  BY ProxyAssumption, ConstantTypes DEF Init, Clocks, TimersInv
<1>4. Permits
  <2>1. Reserved = {}
    BY ProxyAssumption DEF Init, Reserved
  <2> QED
    BY <2>1, FS_EmptySet, ConstantTypes DEF Init, Permits, PermitsConserved
<1> QED
  BY <1>1, <1>2, <1>3, <1>4 DEF IndInv

-----------------------------------------------------------------------------
(* The bytes.                                                              *)

\* The counters of connection c follow the state f of its direction d.
Booked(c, d, f) ==
    books' = [books EXCEPT ![c] =
        [read |-> IF d = "up" THEN f.delivered + f.held ELSE books[c].read,
         written |-> IF d = "down" THEN f.delivered ELSE books[c].written]]

\* Direction d of connection c gets the state f.
Progress(c, d, f) ==
    /\ flow' = [flow EXCEPT ![c] = [flow[c] EXCEPT ![d] = f]]
    /\ path' = path
    /\ Booked(c, d, f)

\* A direction that moves bytes by the book disturbs no other direction.
LEMMA ProgressBytes ==
    ASSUME Bytes, NEW c \in Conns, NEW d \in Directions, NEW f \in FlowType,
           FlowInv(f, path[c]), Progress(c, d, f)
    PROVE  Bytes'
<1>1. flow' \in [Conns -> [Directions -> FlowType]]
  BY DEF Bytes, Progress
<1>2. flow'[c][d] = f /\ \A e \in Conns, b \in Directions :
                            <<e, b>> # <<c, d>> => flow'[e][b] = flow[e][b]
  BY DEF Bytes, Progress
<1>3. \A e \in Conns, b \in Directions : FlowInv(flow'[e][b], path'[e])
  BY <1>2 DEF Bytes, Progress
<1>4. /\ f.delivered \in Nat /\ f.held \in Nat /\ f.sent \in 0..MaxBytes
      /\ f.delivered + f.held <= f.sent
  BY ConstantTypes DEF FlowType, FlowInv
<1>5. books' \in [Conns -> BooksType]
  BY <1>4, ConstantTypes DEF Bytes, Progress, Booked, BooksType
<1>6. BooksBalance'
  BY <1>2 DEF Bytes, Progress, Booked, BooksBalance, BooksType, Directions
<1> QED
  BY <1>1, <1>3, <1>5, <1>6 DEF Bytes

\* Bytes taken from a source are counted as the direction's state has them.
LEMMA ReadBooked ==
    ASSUME Bytes, NEW c \in Conns, NEW d \in Directions, NEW n \in Nat, NEW g \in FlowType,
           g.delivered = flow[c][d].delivered, g.held = flow[c][d].held + n,
           CountRead(c, d, n)
    PROVE  Booked(c, d, g)
<1>1. CASE d = "up"
  BY <1>1 DEF CountRead, Booked, Bytes, BooksBalance, BooksType, FlowType
<1>2. CASE d = "down"
  BY <1>2 DEF CountRead, Booked, Bytes, BooksBalance, BooksType, FlowType
<1> QED
  BY <1>1, <1>2 DEF Directions

\* So are bytes that reach a destination.
LEMMA WrittenBooked ==
    ASSUME Bytes, NEW c \in Conns, NEW d \in Directions, NEW n \in Nat, NEW g \in FlowType,
           g.delivered = flow[c][d].delivered + n, g.held = flow[c][d].held - n,
           CountWritten(c, d, n)
    PROVE  Booked(c, d, g)
<1>1. CASE d = "up"
  BY <1>1 DEF CountWritten, Booked, Bytes, BooksBalance, BooksType, FlowType
<1>2. CASE d = "down"
  BY <1>2 DEF CountWritten, Booked, Bytes, BooksBalance, BooksType, FlowType
<1> QED
  BY <1>1, <1>2 DEF Directions

\* Nothing is counted when neither number changes.
LEMMA NothingBooked ==
    ASSUME Bytes, NEW c \in Conns, NEW d \in Directions, NEW g \in FlowType,
           g.delivered = flow[c][d].delivered, g.held = flow[c][d].held,
           books' = books
    PROVE  Booked(c, d, g)
<1>1. CASE d = "up"
  BY <1>1 DEF Booked, Bytes, BooksBalance, BooksType, FlowType
<1>2. CASE d = "down"
  BY <1>2 DEF Booked, Bytes, BooksBalance, BooksType, FlowType
<1> QED
  BY <1>1, <1>2 DEF Directions

\* A peer sends a byte or closes: nothing is on its way that was not sent.
LEMMA PeerSendsBytes ==
    ASSUME IndInv, NEW c \in Conns, NEW d \in Directions, PeerSends(c, d) PROVE Bytes'
<1> DEFINE f == flow[c][d]
<1>1. f \in FlowType /\ FlowInv(f, path[c]) /\ Bytes
  BY DEF IndInv, Bytes
<1>2. CASE flow' = [flow EXCEPT ![c][d].sent = @ + 1] /\ f.sent < MaxBytes
  <2> DEFINE g == [f EXCEPT !.sent = @ + 1]
  <2>1. g \in FlowType
    BY <1>1, <1>2, ConstantTypes DEF FlowType
  <2>2. FlowInv(g, path[c])
    BY <1>1, <1>2, ConstantTypes DEF FlowType, FlowInv, InFlight, PeerSends
  <2>3. Booked(c, d, g)
    BY <1>1, <1>2, <2>1, NothingBooked DEF PeerSends, FlowType
  <2>4. Progress(c, d, g)
    BY <1>1, <1>2, <2>3 DEF PeerSends, Progress, Bytes, FlowType
  <2> QED
    BY <1>1, <2>1, <2>2, <2>4, ProgressBytes
<1>3. CASE flow' = [flow EXCEPT ![c][d].eof = TRUE]
  <2> DEFINE g == [f EXCEPT !.eof = TRUE]
  <2>1. g \in FlowType
    BY <1>1, <1>3, ConstantTypes DEF FlowType
  <2>2. FlowInv(g, path[c])
    BY <1>1, <1>3, ConstantTypes DEF FlowType, FlowInv, InFlight, PeerSends
  <2>3. Booked(c, d, g)
    BY <1>1, <1>3, <2>1, NothingBooked DEF PeerSends, FlowType
  <2>4. Progress(c, d, g)
    BY <1>1, <1>3, <2>3 DEF PeerSends, Progress, Bytes, FlowType
  <2> QED
    BY <1>1, <2>1, <2>2, <2>4, ProgressBytes
<1> QED
  BY <1>2, <1>3 DEF PeerSends

\* splice from the socket into the pipe: the bytes are held.
LEMMA SpliceInBytes ==
    ASSUME IndInv, NEW c \in Conns, NEW d \in Directions, SpliceIn(c, d) PROVE Bytes'
<1> DEFINE f == flow[c][d]
<1>1. /\ f \in FlowType /\ FlowInv(f, path[c]) /\ Bytes
      /\ flow \in [Conns -> [Directions -> FlowType]]
  BY DEF IndInv, Bytes
<1>2. PICK n \in 1..(BufferSize - f.held) :
         /\ flow' = [flow EXCEPT ![c][d].held = @ + n, ![c][d].pc = "drain"]
         /\ CountRead(c, d, n) /\ n <= InFlight(f)
  BY DEF SpliceIn
<1> DEFINE g == [f EXCEPT !.held = @ + n, !.pc = "drain"]
<1>3. f.held + n \in 0..BufferSize
  BY <1>1, ConstantTypes DEF FlowType
<1>4. g \in FlowType
  BY <1>1, <1>3 DEF FlowType
<1>5. FlowInv(g, path[c])
  BY <1>1, <1>2, <1>4, ConstantTypes, ProxyAssumption
     DEF FlowType, FlowInv, InFlight, SpliceIn, MayCopy
<1>6. /\ n \in Nat
      /\ g.delivered = f.delivered /\ g.held = f.held + n
  BY <1>1, ConstantTypes DEF FlowType
<1>7. Booked(c, d, g)
  BY <1>1, <1>2, <1>4, <1>6, ReadBooked
<1>8. flow' = [flow EXCEPT ![c] = [flow[c] EXCEPT ![d] = g]]
  BY <1>1, <1>2 DEF FlowType
<1>9. Progress(c, d, g)
  BY <1>7, <1>8 DEF SpliceIn, CopyFrame, Progress
<1> QED
  BY <1>1, <1>4, <1>5, <1>9, ProgressBytes

\* splice from the pipe to the socket: held bytes are delivered and counted.
LEMMA SpliceOutBytes ==
    ASSUME IndInv, NEW c \in Conns, NEW d \in Directions, SpliceOut(c, d) PROVE Bytes'
<1> DEFINE f == flow[c][d]
<1>1. /\ f \in FlowType /\ FlowInv(f, path[c]) /\ Bytes
      /\ flow \in [Conns -> [Directions -> FlowType]]
  BY DEF IndInv, Bytes
<1>2. PICK n \in 1..f.held :
         /\ flow' = [flow EXCEPT ![c][d].held = @ - n, ![c][d].delivered = @ + n,
                                 ![c][d].pc = AfterSpliceOut(flow[c][d], n)]
         /\ CountWritten(c, d, n)
  BY DEF SpliceOut
<1> DEFINE g == [f EXCEPT !.held = @ - n, !.delivered = @ + n, !.pc = AfterSpliceOut(f, n)]
<1>3. f.held - n \in 0..BufferSize /\ f.delivered + n \in 0..MaxBytes
  BY <1>1, ConstantTypes DEF FlowType, FlowInv
<1>4. g \in FlowType
  BY <1>1, <1>3 DEF FlowType, AfterSpliceOut
<1>5. FlowInv(g, path[c])
  BY <1>1, <1>2, <1>4, ConstantTypes, ProxyAssumption
     DEF FlowType, FlowInv, InFlight, SpliceOut, MayCopy, AfterSpliceOut
<1>6. /\ n \in Nat
      /\ g.delivered = f.delivered + n /\ g.held = f.held - n
  BY <1>1, ConstantTypes DEF FlowType
<1>7. Booked(c, d, g)
  BY <1>1, <1>2, <1>4, <1>6, WrittenBooked
<1>8. flow' = [flow EXCEPT ![c] = [flow[c] EXCEPT ![d] = g]]
  BY <1>1, <1>2 DEF FlowType
<1>9. Progress(c, d, g)
  BY <1>7, <1>8 DEF SpliceOut, CopyFrame, Progress
<1> QED
  BY <1>1, <1>4, <1>5, <1>9, ProgressBytes

\* The portable copy reads into its buffer.
LEMMA PortableReadBytes ==
    ASSUME IndInv, NEW c \in Conns, NEW d \in Directions, PortableRead(c, d) PROVE Bytes'
<1> DEFINE f == flow[c][d]
<1>1. /\ f \in FlowType /\ FlowInv(f, path[c]) /\ Bytes
      /\ flow \in [Conns -> [Directions -> FlowType]]
  BY DEF IndInv, Bytes
<1>2. PICK n \in 1..(BufferSize - f.held) :
         /\ flow' = [flow EXCEPT ![c][d].held = @ + n]
         /\ CountRead(c, d, n) /\ n <= InFlight(f)
  BY DEF PortableRead
<1> DEFINE g == [f EXCEPT !.held = @ + n]
<1>3. f.held + n \in 0..BufferSize
  BY <1>1, ConstantTypes DEF FlowType
<1>4. g \in FlowType
  BY <1>1, <1>3 DEF FlowType
<1>5. FlowInv(g, path[c])
  BY <1>1, <1>2, <1>4, ConstantTypes, ProxyAssumption
     DEF FlowType, FlowInv, InFlight, PortableRead, MayCopy
<1>6. /\ n \in Nat
      /\ g.delivered = f.delivered /\ g.held = f.held + n
  BY <1>1, ConstantTypes DEF FlowType
<1>7. Booked(c, d, g)
  BY <1>1, <1>2, <1>4, <1>6, ReadBooked
<1>8. flow' = [flow EXCEPT ![c] = [flow[c] EXCEPT ![d] = g]]
  BY <1>1, <1>2 DEF FlowType
<1>9. Progress(c, d, g)
  BY <1>7, <1>8 DEF PortableRead, CopyFrame, Progress
<1> QED
  BY <1>1, <1>4, <1>5, <1>9, ProgressBytes

\* The portable copy writes from its buffer and counts what it wrote.
LEMMA PortableWriteBytes ==
    ASSUME IndInv, NEW c \in Conns, NEW d \in Directions, PortableWrite(c, d) PROVE Bytes'
<1> DEFINE f == flow[c][d]
<1>1. /\ f \in FlowType /\ FlowInv(f, path[c]) /\ Bytes
      /\ flow \in [Conns -> [Directions -> FlowType]]
  BY DEF IndInv, Bytes
<1>2. PICK n \in 1..f.held :
         /\ flow' = [flow EXCEPT ![c][d].held = @ - n, ![c][d].delivered = @ + n]
         /\ CountWritten(c, d, n)
  BY DEF PortableWrite
<1> DEFINE g == [f EXCEPT !.held = @ - n, !.delivered = @ + n]
<1>3. f.held - n \in 0..BufferSize /\ f.delivered + n \in 0..MaxBytes
  BY <1>1, ConstantTypes DEF FlowType, FlowInv
<1>4. g \in FlowType
  BY <1>1, <1>3 DEF FlowType
<1>5. FlowInv(g, path[c])
  BY <1>1, <1>2, <1>4, ConstantTypes, ProxyAssumption
     DEF FlowType, FlowInv, InFlight, PortableWrite, MayCopy
<1>6. /\ n \in Nat
      /\ g.delivered = f.delivered + n /\ g.held = f.held - n
  BY <1>1, ConstantTypes DEF FlowType
<1>7. Booked(c, d, g)
  BY <1>1, <1>2, <1>4, <1>6, WrittenBooked
<1>8. flow' = [flow EXCEPT ![c] = [flow[c] EXCEPT ![d] = g]]
  BY <1>1, <1>2 DEF FlowType
<1>9. Progress(c, d, g)
  BY <1>7, <1>8 DEF PortableWrite, CopyFrame, Progress
<1> QED
  BY <1>1, <1>4, <1>5, <1>9, ProgressBytes

\* End of file on the splice path shuts the other half down with the pipe empty.
LEMMA SpliceEofBytes ==
    ASSUME IndInv, NEW c \in Conns, NEW d \in Directions, SpliceEof(c, d) PROVE Bytes'
<1> DEFINE f == flow[c][d]
           g == [f EXCEPT !.pc = "done", !.shut = TRUE]
<1>1. f \in FlowType /\ FlowInv(f, path[c]) /\ Bytes
  BY DEF IndInv, Bytes
<1>2. g \in FlowType
  BY <1>1 DEF FlowType
<1>3. FlowInv(g, path[c])
  BY <1>1, ConstantTypes, ProxyAssumption DEF FlowType, FlowInv, InFlight, SpliceEof, MayCopy
<1>4. Booked(c, d, g)
  BY <1>1, <1>2, NothingBooked DEF SpliceEof, FlowType
<1>5. Progress(c, d, g)
  BY <1>1, <1>4 DEF SpliceEof, CopyFrame, Progress, Bytes, FlowType
<1> QED
  BY <1>1, <1>2, <1>3, <1>5, ProgressBytes

\* End of file on the portable path shuts the other half down with the buffer empty.
LEMMA PortableEofBytes ==
    ASSUME IndInv, NEW c \in Conns, NEW d \in Directions, PortableEof(c, d) PROVE Bytes'
<1> DEFINE f == flow[c][d]
<1>1. f \in FlowType /\ FlowInv(f, path[c]) /\ Bytes
  BY DEF IndInv, Bytes
<1>2. CASE f.pc = "read" /\ flow' = [flow EXCEPT ![c][d].pc = "drain"]
  <2> DEFINE g == [f EXCEPT !.pc = "drain"]
  <2>1. g \in FlowType
    BY <1>1 DEF FlowType
  <2>2. FlowInv(g, path[c])
    BY <1>1, <1>2, ConstantTypes, ProxyAssumption
       DEF FlowType, FlowInv, InFlight, PortableEof, MayCopy
  <2>3. Booked(c, d, g)
    BY <1>1, <1>2, <2>1, NothingBooked DEF PortableEof, FlowType
  <2>4. Progress(c, d, g)
    BY <1>1, <1>2, <2>3 DEF PortableEof, CopyFrame, Progress, Bytes, FlowType
  <2> QED
    BY <1>1, <2>1, <2>2, <2>4, ProgressBytes
<1>3. CASE /\ f.pc = "drain" /\ f.held = 0
           /\ flow' = [flow EXCEPT ![c][d].pc = "done", ![c][d].shut = TRUE]
  <2> DEFINE g == [f EXCEPT !.pc = "done", !.shut = TRUE]
  <2>1. g \in FlowType
    BY <1>1 DEF FlowType
  <2>2. FlowInv(g, path[c])
    BY <1>1, <1>3, ConstantTypes, ProxyAssumption
       DEF FlowType, FlowInv, InFlight, PortableEof, MayCopy
  <2>3. Booked(c, d, g)
    BY <1>1, <1>3, <2>1, NothingBooked DEF PortableEof, FlowType
  <2>4. Progress(c, d, g)
    BY <1>1, <1>3, <2>3 DEF PortableEof, CopyFrame, Progress, Bytes, FlowType
  <2> QED
    BY <1>1, <2>1, <2>2, <2>4, ProgressBytes
<1> QED
  BY <1>2, <1>3 DEF PortableEof

\* A connection may choose its mechanism while it has copied nothing.
LEMMA SameBytes ==
    ASSUME Bytes, flow' = flow, books' = books,
           \A c \in Conns : path'[c] = path[c] \/ path[c] = None
    PROVE  Bytes'
<1>1. \A c \in Conns, d \in Directions : FlowInv(flow'[c][d], path'[c])
  <2> SUFFICES ASSUME NEW c \in Conns, NEW d \in Directions PROVE FlowInv(flow[c][d], path'[c])
    OBVIOUS
  <2>1. FlowInv(flow[c][d], path[c])
    BY DEF Bytes
  <2>2. CASE path[c] = None
    BY <2>1, <2>2 DEF FlowInv
  <2> QED
    BY <2>1, <2>2
<1> QED
  BY <1>1 DEF Bytes, BooksBalance

\* Every step accounts for every byte.
LEMMA BytesStep == ASSUME IndInv, [Next]_vars PROVE Bytes'
<1>1. CASE CancelForce \/ Tick \/ UNCHANGED vars
  BY <1>1, SameBytes DEF IndInv, CancelForce, Tick, vars
<1>2. ASSUME NEW c \in Conns, TaskStep(c) \/ CopyFails(c) PROVE Bytes'
  <2>1. flow' = flow /\ books' = books
    BY <1>2 DEF TaskStep, CopyFails, TryAcquire, UsePortable, OpenPipe, OpenPipeFails, CopyFinishes,
       Watchdog, Forced, Ends, ClosePipes, DropPermit
  <2>2. \A e \in Conns : path'[e] = path[e] \/ path[e] = None
    BY <1>2 DEF IndInv, Tasks, Shape, TaskStep, CopyFails, TryAcquire, UsePortable, OpenPipe,
       OpenPipeFails, CopyFinishes, Watchdog, Forced, Ends, ClosePipes, DropPermit
  <2> QED
    BY <2>1, <2>2, SameBytes DEF IndInv
<1>3. ASSUME NEW c \in Conns, NEW d \in Directions, PeerSends(c, d) \/ CopyStep(c, d) PROVE Bytes'
  BY <1>3, PeerSendsBytes, SpliceInBytes, SpliceOutBytes, SpliceEofBytes, PortableReadBytes,
     PortableWriteBytes, PortableEofBytes DEF CopyStep
<1> QED
  BY <1>1, <1>2, <1>3 DEF Next

-----------------------------------------------------------------------------
(* Where the tasks are.                                                    *)

\* Every step keeps the pipes, the path and the stage of each connection in step.
LEMMA TasksStep == ASSUME IndInv, [Next]_vars PROVE Tasks'
<1> USE DEF IndInv
<1>1. CASE CancelForce \/ Tick \/ UNCHANGED vars
  BY <1>1 DEF Tasks, Shape, CancelForce, Tick, vars
<1>2. ASSUME NEW c \in Conns, TryAcquire(c) PROVE Tasks'
  BY <1>2 DEF Tasks, Shape, TryAcquire
<1>3. ASSUME NEW c \in Conns, UsePortable(c) PROVE Tasks'
  BY <1>3 DEF Tasks, Shape, UsePortable
<1>4. ASSUME NEW c \in Conns, OpenPipe(c) PROVE Tasks'
  BY <1>4 DEF Tasks, Shape, OpenPipe, Directions
<1>5. ASSUME NEW c \in Conns, OpenPipeFails(c) PROVE Tasks'
  BY <1>5 DEF Tasks, Shape, OpenPipeFails
<1>6. ASSUME NEW c \in Conns, NEW e \in {"Finished", "Error", "Idle", "Forced"},
             pc[c] \in {"start", "copying"}, Ends(c, e)
      PROVE  Tasks'
  BY <1>6, ProxyAssumption DEF Tasks, Shape, Ends
<1>7. ASSUME NEW c \in Conns, CopyFinishes(c) \/ CopyFails(c) \/ Forced(c) PROVE Tasks'
  BY <1>6, <1>7 DEF CopyFinishes, CopyFails, Forced
<1>8. ASSUME NEW c \in Conns, Watchdog(c) PROVE Tasks'
  <2>1. CASE Ends(c, "Idle")
    BY <1>6, <1>8, <2>1 DEF Watchdog
  <2>2. CASE UNCHANGED <<available, force, pc, path, end, pipes>>
    BY <2>2 DEF Tasks, Shape
  <2> QED
    BY <1>8, <2>1, <2>2 DEF Watchdog
<1>9. ASSUME NEW c \in Conns, ClosePipes(c) \/ DropPermit(c) PROVE Tasks'
  BY <1>9 DEF Tasks, Shape, ClosePipes, DropPermit
<1>10. ASSUME NEW c \in Conns, NEW d \in Directions, PeerSends(c, d) \/ CopyStep(c, d) PROVE Tasks'
  <2>1. CASE SpliceEof(c, d)
    BY <2>1 DEF Tasks, Shape, SpliceEof, MayCopy, CopyFrame
  <2>2. CASE ~SpliceEof(c, d)
    <3>1. UNCHANGED <<available, force, pc, path, end, pipes>>
      BY <1>10, <2>2 DEF PeerSends, CopyStep, SpliceIn, SpliceOut, PortableRead, PortableWrite,
         PortableEof, CopyFrame
    <3> QED
      BY <3>1 DEF Tasks, Shape
  <2> QED
    BY <2>1, <2>2
<1> QED
  BY <1>1, <1>2, <1>3, <1>4, <1>5, <1>7, <1>8, <1>9, <1>10 DEF Next, TaskStep

-----------------------------------------------------------------------------
(* Permits.                                                                *)

\* A connection that reserves takes one permit.
LEMMA PermitTaken ==
    ASSUME Permits, NEW c, c \notin Reserved, Reserved' = Reserved \cup {c},
           permits > 0, permits' = permits - 1
    PROVE  Permits'
<1>1. IsFiniteSet(Reserved) /\ Cardinality(Reserved) \in Nat
  BY FS_CardinalityType DEF Permits
<1>2. IsFiniteSet(Reserved') /\ Cardinality(Reserved') = Cardinality(Reserved) + 1
  BY <1>1, FS_AddElement
<1> QED
  BY <1>1, <1>2, ConstantTypes DEF Permits, PermitsConserved

\* A connection that releases returns its one permit.
LEMMA PermitReturned ==
    ASSUME Permits, NEW c, c \in Reserved, Reserved' = Reserved \ {c},
           permits' = permits + 1
    PROVE  Permits'
<1>1. IsFiniteSet(Reserved) /\ Cardinality(Reserved) \in Nat
  BY FS_CardinalityType DEF Permits
<1>2. IsFiniteSet(Reserved') /\ Cardinality(Reserved') = Cardinality(Reserved) - 1
  BY <1>1, FS_RemoveElement
<1> QED
  BY <1>1, <1>2, ConstantTypes DEF Permits, PermitsConserved

\* A step that reserves and releases nothing keeps the count.
LEMMA PermitsSame ==
    ASSUME Permits, Reserved' = Reserved, permits' = permits PROVE Permits'
  BY DEF Permits, PermitsConserved

\* Every step keeps permits and reservations adding up to the capacity.
LEMMA PermitsStep == ASSUME IndInv, [Next]_vars PROVE Permits'
<1> USE DEF IndInv
<1>1. CASE CancelForce \/ Tick \/ UNCHANGED vars
  <2>1. Reserved' = Reserved
    BY <1>1 DEF Reserved, CancelForce, Tick, vars
  <2> QED
    BY <1>1, <2>1, PermitsSame DEF CancelForce, Tick, vars
<1>2. ASSUME NEW c \in Conns, TryAcquire(c) PROVE Permits'
  <2>1. c \notin Reserved /\ Reserved' = Reserved \cup {c}
    BY <1>2 DEF TryAcquire, Reserved, Tasks
  <2> QED
    BY <1>2, <2>1, PermitTaken DEF TryAcquire
<1>3. ASSUME NEW c \in Conns, OpenPipeFails(c) PROVE Permits'
  <2>1. c \in Reserved /\ Reserved' = Reserved \ {c}
    BY <1>3 DEF OpenPipeFails, Reserved, Tasks
  <2> QED
    BY <1>3, <2>1, PermitReturned DEF OpenPipeFails
<1>4. ASSUME NEW c \in Conns, DropPermit(c) PROVE Permits'
  <2>1. c \in Reserved /\ Reserved' = Reserved \ {c}
    BY <1>4 DEF DropPermit, Reserved, Tasks
  <2> QED
    BY <1>4, <2>1, PermitReturned DEF DropPermit
<1>5. ASSUME NEW c \in Conns, UsePortable(c) PROVE Permits'
  <2>1. Reserved' = Reserved
    BY <1>5 DEF UsePortable, Reserved, Tasks
  <2> QED
    BY <1>5, <2>1, PermitsSame DEF UsePortable
<1>6. ASSUME NEW c \in Conns, OpenPipe(c) PROVE Permits'
  <2>1. Reserved' = Reserved
    BY <1>6 DEF OpenPipe, Reserved, Tasks
  <2> QED
    BY <1>6, <2>1, PermitsSame DEF OpenPipe
<1>7. ASSUME NEW c \in Conns, NEW e, pc[c] \in {"start", "copying"}, Ends(c, e) PROVE Permits'
  <2>1. Reserved' = Reserved
    BY <1>7, ProxyAssumption DEF Ends, Reserved, Tasks, Shape
  <2> QED
    BY <1>7, <2>1, PermitsSame DEF Ends
<1>8. ASSUME NEW c \in Conns, CopyFinishes(c) \/ CopyFails(c) \/ Forced(c) PROVE Permits'
  BY <1>7, <1>8 DEF CopyFinishes, CopyFails, Forced
<1>9. ASSUME NEW c \in Conns, Watchdog(c) PROVE Permits'
  <2>1. CASE Ends(c, "Idle")
    BY <1>7, <1>9, <2>1 DEF Watchdog
  <2>2. CASE UNCHANGED <<permits, pc, path>>
    <3>1. Reserved' = Reserved
      BY <2>2 DEF Reserved
    <3> QED
      BY <2>2, <3>1, PermitsSame
  <2> QED
    BY <1>9, <2>1, <2>2 DEF Watchdog
<1>10. ASSUME NEW c \in Conns, ClosePipes(c) PROVE Permits'
  <2>1. Reserved' = Reserved
    BY <1>10 DEF ClosePipes, Reserved, Tasks
  <2> QED
    BY <1>10, <2>1, PermitsSame DEF ClosePipes
<1>11. ASSUME NEW c \in Conns, NEW d \in Directions, PeerSends(c, d) \/ CopyStep(c, d)
       PROVE  Permits'
  <2>1. UNCHANGED <<permits, pc, path>>
    BY <1>11 DEF PeerSends, CopyStep, SpliceIn, SpliceOut, SpliceEof, PortableRead, PortableWrite,
       PortableEof, CopyFrame
  <2>2. Reserved' = Reserved
    BY <2>1 DEF Reserved
  <2> QED
    BY <2>1, <2>2, PermitsSame
<1> QED
  BY <1>1, <1>2, <1>3, <1>4, <1>5, <1>6, <1>8, <1>9, <1>10, <1>11 DEF Next, TaskStep

-----------------------------------------------------------------------------
(* The watchdog.                                                           *)

\* A step that leaves the timers alone and ends nothing as Idle.
LEMMA ClocksSame ==
    ASSUME Clocks, UNCHANGED timers,
           \A c \in Conns : pc'[c] \in {"start", "opening", "copying"} =>
                                pc[c] \in {"start", "opening", "copying"},
           \A c \in Conns : end'[c] = "Idle" => end[c] = "Idle"
    PROVE  Clocks'
  BY DEF Clocks, TimersInv, timers

\* A step that may restart the idle clock of c, which has not ended.
LEMMA ClocksRestart ==
    ASSUME IndInv, NEW c \in Conns, pc[c] = "copying",
           UNCHANGED <<pc, end, armed>>,
           quiet' = quiet \/ quiet' = [quiet EXCEPT ![c] = 0],
           still' = still \/ still' = [still EXCEPT ![c] = 0]
    PROVE  Clocks'
<1>1. /\ quiet' \in [Conns -> 0..Longest] /\ still' \in [Conns -> 0..Longest]
      /\ armed' \in [Conns -> 0..Longest]
  BY ConstantTypes DEF IndInv, Clocks
<1>2. end[c] = None
  BY DEF IndInv, Tasks, Shape
<1>3. ASSUME NEW e \in Conns PROVE TimersInv(e)'
  <2>1. quiet'[e] = quiet[e] \/ (e = c /\ quiet'[e] = 0)
    BY DEF IndInv, Clocks
  <2>2. TimersInv(e) /\ armed[e] \in 0..Longest
    BY DEF IndInv, Clocks
  <2> QED
    BY <1>2, <2>1, <2>2, ConstantTypes, ProxyAssumption DEF TimersInv
<1> QED
  BY <1>1, <1>3 DEF Clocks

\* A tick brings the watchdog as much nearer as the silence grows longer.
LEMMA TickClocks == ASSUME IndInv, Tick PROVE Clocks'
<1>1. \A n \in 0..Longest : Longer(n) \in 0..Longest /\ Sooner(n) \in 0..Longest
  BY ConstantTypes DEF Longer, Sooner
<1>2. /\ quiet' \in [Conns -> 0..Longest] /\ still' \in [Conns -> 0..Longest]
      /\ armed' \in [Conns -> 0..Longest]
  BY <1>1 DEF IndInv, Clocks, Tick
<1>3. ASSUME NEW e \in Conns PROVE TimersInv(e)'
  <2>1. /\ TimersInv(e) /\ quiet[e] \in 0..Longest /\ armed[e] \in 0..Longest
        /\ pc'[e] = pc[e] /\ end'[e] = end[e]
    BY DEF IndInv, Clocks, Tick
  <2>2. CASE e \in Copying
    <3>1. end[e] = None
      BY <2>2 DEF IndInv, Tasks, Shape, Copying
    <3>2. quiet'[e] = Longer(quiet[e]) /\ armed'[e] = Sooner(armed[e])
      BY <2>2 DEF Tick
    <3>3. quiet'[e] + armed'[e] <= Longest
      BY <2>1, <2>2, <3>2, ConstantTypes DEF TimersInv, Copying, Longer, Sooner
    <3> QED
      BY <2>1, <3>1, <3>3, ProxyAssumption DEF TimersInv
  <2>3. CASE e \notin Copying
    BY <2>1, <2>3 DEF Tick, TimersInv
  <2> QED
    BY <2>2, <2>3
<1> QED
  BY <1>2, <1>3 DEF Clocks

\* The watchdog ends an idle connection or re-arms for the rest of the timeout.
LEMMA WatchdogClocks ==
    ASSUME IndInv, NEW c \in Conns, Watchdog(c) PROVE Clocks'
<1>1. IdleTimeout = Longest /\ Longest \in Nat
  BY ConstantTypes DEF Watchdog, Due
<1>2. quiet[c] \in 0..Longest
  BY DEF IndInv, Clocks
<1>3. CASE quiet[c] >= IdleTimeout /\ Ends(c, "Idle") /\ UNCHANGED armed
  <2>1. quiet[c] = IdleTimeout
    BY <1>1, <1>2, <1>3
  <2>2. \A e \in Conns : /\ pc'[e] \in {"start", "opening", "copying"} => pc'[e] = pc[e]
                         /\ e # c => end'[e] = end[e]
    BY <1>3 DEF IndInv, Tasks, Ends
  <2> QED
    BY <1>3, <2>1, <2>2 DEF IndInv, Clocks, TimersInv, Ends
<1>4. CASE /\ quiet[c] < IdleTimeout
           /\ armed' = [armed EXCEPT ![c] = IdleTimeout - quiet[c]]
           /\ UNCHANGED <<pc, end, quiet, still>>
  <2>1. IdleTimeout - quiet[c] \in 0..Longest /\ quiet[c] + (IdleTimeout - quiet[c]) = Longest
    BY <1>1, <1>2, <1>4
  <2> QED
    BY <1>1, <1>4, <2>1 DEF IndInv, Clocks, TimersInv
<1> QED
  BY <1>3, <1>4 DEF Watchdog

\* Every step keeps each timer no later than the connection's idle timeout.
LEMMA ClocksStep == ASSUME IndInv, [Next]_vars PROVE Clocks'
<1>1. CASE CancelForce \/ UNCHANGED vars
  BY <1>1, ClocksSame DEF IndInv, CancelForce, vars
<1>2. CASE Tick
  BY <1>2, TickClocks
<1>3. ASSUME NEW c \in Conns,
             \/ TryAcquire(c) \/ UsePortable(c) \/ OpenPipe(c) \/ OpenPipeFails(c)
             \/ ClosePipes(c) \/ DropPermit(c)
      PROVE  Clocks'
  <2>1. UNCHANGED timers /\ end' = end
    BY <1>3 DEF TryAcquire, UsePortable, OpenPipe, OpenPipeFails, ClosePipes, DropPermit
  <2>2. \A e \in Conns : pc'[e] \in {"start", "opening", "copying"} =>
                             pc[e] \in {"start", "opening", "copying"}
    BY <1>3
       DEF IndInv, Tasks, TryAcquire, UsePortable, OpenPipe, OpenPipeFails, ClosePipes, DropPermit
  <2> QED
    BY <2>1, <2>2, ClocksSame DEF IndInv
<1>4. ASSUME NEW c \in Conns, CopyFinishes(c) \/ CopyFails(c) \/ Forced(c) PROVE Clocks'
  <2>1. UNCHANGED timers
    BY <1>4 DEF CopyFinishes, CopyFails, Forced, Ends, timers
  <2>2. PICK e \in {"Finished", "Error", "Forced"} : Ends(c, e)
    BY <1>4 DEF CopyFinishes, CopyFails, Forced
  <2>3. \A b \in Conns : /\ pc'[b] \in {"start", "opening", "copying"} => pc'[b] = pc[b]
                         /\ end'[b] = "Idle" => end'[b] = end[b]
    BY <2>2 DEF IndInv, Tasks, Ends
  <2> QED
    BY <2>1, <2>3, ClocksSame DEF IndInv
<1>5. ASSUME NEW c \in Conns, Watchdog(c) PROVE Clocks'
  BY <1>5, WatchdogClocks
<1>6. ASSUME NEW c \in Conns, NEW d \in Directions, PeerSends(c, d) PROVE Clocks'
  BY <1>6, ClocksSame DEF IndInv, PeerSends
<1>7. ASSUME NEW c \in Conns, NEW d \in Directions, CopyStep(c, d) PROVE Clocks'
  <2>1. pc[c] = "copying" /\ UNCHANGED <<pc, end, armed>>
    BY <1>7 DEF CopyStep, SpliceIn, SpliceOut, SpliceEof, PortableRead, PortableWrite, PortableEof,
       MayCopy, CopyFrame
  <2>2. /\ quiet' = quiet \/ quiet' = [quiet EXCEPT ![c] = 0]
        /\ still' = still \/ still' = [still EXCEPT ![c] = 0]
    BY <1>7 DEF CopyStep, SpliceIn, SpliceOut, SpliceEof, PortableRead, PortableWrite, PortableEof,
       CountRead, CountWritten
  <2> QED
    BY <2>1, <2>2, ClocksRestart
<1> QED
  BY <1>1, <1>2, <1>3, <1>4, <1>5, <1>6, <1>7 DEF Next, TaskStep

-----------------------------------------------------------------------------
(* The theorems.                                                           *)

(* The proxy stage's inductive invariant: tasks, bytes, clocks and permits, for
   every number of connections, buffer size, timeout and descriptor limit. *)
THEOREM ProxyInvariant == SafeSpec => []IndInv
<1>1. IndInv /\ [Next]_vars => IndInv'
  BY TasksStep, BytesStep, ClocksStep, PermitsStep DEF IndInv
<1> QED
  BY InitInd, <1>1, PTL DEF SafeSpec

\* A half is shut down only when every byte has been delivered.
THEOREM NothingTruncated == SafeSpec => []NoTruncation
<1>1. IndInv => NoTruncation
  BY DEF IndInv, Bytes, FlowInv, NoTruncation
<1> QED
  BY <1>1, ProxyInvariant, PTL

(* The totals a connection reports are, at every moment and on either path, the
   bytes taken from the client, those still held included, and the bytes the
   client got (MeteredStream and the splice loop). *)
THEOREM TotalsAddUp == SafeSpec => []BooksBalance
<1>1. IndInv => BooksBalance
  BY DEF IndInv, Bytes
<1> QED
  BY <1>1, ProxyInvariant, PTL

(* The idle watchdog never sleeps past the moment the client has been silent for
   the idle timeout, and ends no connection before that (idle_expired). *)
THEOREM WatchdogIsExact == SafeSpec => []WatchdogExact
<1>1. IndInv => WatchdogArmed
  BY ConstantTypes DEF IndInv, Clocks, TimersInv, WatchdogArmed, Copying
<1>2. IndInv => IdleIsQuiet
  BY DEF IndInv, Clocks, TimersInv, IdleIsQuiet
<1> QED
  BY <1>1, <1>2, ProxyInvariant, PTL DEF WatchdogExact

\* Every open pipe belongs to a connection with a permit.
LEMMA PipesCounted ==
    ASSUME IndInv
    PROVE  OpenFds \in Nat /\ OpenFds <= FdsPerSpliceConnection * AdmissionCapacity
<1> DEFINE open == {cd \in Conns \X Directions : cd[2] \in pipes[cd[1]]}
<1>1. open \subseteq Reserved \X Directions
  BY DEF IndInv, Tasks, Shape, Reserved
<1>2. IsFiniteSet(Directions) /\ Cardinality(Directions) = 2
  <2>1. IsFiniteSet({"up"}) /\ Cardinality({"up"}) = 1
    BY FS_Singleton
  <2>2. Directions = {"up"} \cup {"down"} /\ "down" \notin {"up"}
    BY DEF Directions
  <2> QED
    BY <2>1, <2>2, FS_AddElement
<1>3. IsFiniteSet(Reserved) /\ Cardinality(Reserved) \in Nat
  BY FS_CardinalityType DEF IndInv, Permits
<1>4. /\ IsFiniteSet(Reserved \X Directions)
      /\ Cardinality(Reserved \X Directions) = Cardinality(Reserved) * 2
  BY <1>2, <1>3, FS_Product
<1>5. IsFiniteSet(open) /\ Cardinality(open) <= Cardinality(Reserved) * 2
  BY <1>1, <1>4, FS_Subset
<1>6. Cardinality(open) \in Nat
  BY <1>5, FS_CardinalityType
<1>7. OpenFds = 2 * Cardinality(open)
  BY DEF OpenFds
<1>8. Cardinality(Reserved) <= AdmissionCapacity
  BY <1>3, ConstantTypes DEF IndInv, Permits, PermitsConserved
<1> HIDE DEF open
<1> QED
  BY <1>3, <1>5, <1>6, <1>7, <1>8, ConstantTypes DEF FdsPerSpliceConnection

(* Permits are conserved and the pipes that are open never take more than their
   share of the descriptors (splice::Admission), for every limit. *)
THEOREM SpliceBudgetIsKept == SafeSpec => []SpliceBudgetKept
<1>1. IndInv => TypeOK
  <2> SUFFICES ASSUME IndInv PROVE TypeOK
    OBVIOUS
  <2>1. permits \in 0..AdmissionCapacity
    BY FS_CardinalityType, ConstantTypes DEF IndInv, Permits, PermitsConserved
  <2> QED
    BY <2>1 DEF IndInv, Tasks, Bytes, Clocks, FlowType, BooksType, TypeOK
<1>2. IndInv => PermitsConserved
  BY DEF IndInv, Permits
<1>3. IndInv => PipesWithinBudget
  BY PipesCounted, ConstantTypes, ProxyAssumption
  DEF PipesWithinBudget, FdsPerSpliceConnection, MaxSpliceFdShare
<1> QED
  BY <1>1, <1>2, <1>3, ProxyInvariant, PTL DEF SpliceBudgetKept

-----------------------------------------------------------------------------
(* The proxy stage implements ByteRelay.                                   *)

\* A direction that gets the state g is a stream that gets the state of g.
LEMMA StreamMoves ==
    ASSUME IndInv, NEW c \in Conns, NEW d \in Directions, NEW g,
           flow' = [flow EXCEPT ![c] = [flow[c] EXCEPT ![d] = g]], end' = end
    PROVE  Relay!Becomes(c, d, StreamOf(g))
<1>1. flow \in [Conns -> [Directions -> FlowType]]
  BY DEF IndInv, Bytes
<1>2. \A e \in Conns, b \in Directions :
         flow'[e][b] = IF e = c /\ b = d THEN g ELSE flow[e][b]
  BY <1>1
<1>3. \A e \in Conns, b \in Directions :
         StreamOf(flow'[e][b]) = IF e = c /\ b = d THEN StreamOf(g) ELSE StreamOf(flow[e][b])
  BY <1>2
<1>4. Streamed' = [e \in Conns |-> [b \in Directions |->
                     IF e = c /\ b = d THEN StreamOf(g) ELSE StreamOf(flow[e][b])]]
  BY <1>3 DEF Streamed
<1>5. [Streamed EXCEPT ![c][d] = StreamOf(g)]
        = [e \in Conns |-> [b \in Directions |->
             IF e = c /\ b = d THEN StreamOf(g) ELSE StreamOf(flow[e][b])]]
  BY DEF Streamed
<1> QED
  BY <1>4, <1>5 DEF Relay!Becomes

\* The stream of a direction, field by field.
LEMMA StreamFields ==
    ASSUME NEW c \in Conns, NEW d \in Directions
    PROVE  Streamed[c][d] = StreamOf(flow[c][d])
  BY DEF Streamed

\* A direction whose source ends, or whose far side is shut, changes its stream
\* in that alone.
LEMMA StreamFlags ==
    ASSUME NEW f, NEW g, NEW b, g.sent = f.sent, g.delivered = f.delivered, g.held = f.held
    PROVE  /\ StreamOf(f).closed = f.shut
           /\ g.eof = b /\ g.shut = f.shut => StreamOf(g) = [StreamOf(f) EXCEPT !.ended = b]
           /\ g.shut = b /\ g.eof = f.eof => StreamOf(g) = [StreamOf(f) EXCEPT !.closed = b]
  BY DEF StreamOf

\* A connection whose copy runs has not ended.
LEMMA CopyIsOpen ==
    ASSUME IndInv, NEW c \in Conns, pc[c] \in {"start", "opening", "copying"} PROVE end[c] = None
  BY DEF IndInv, Tasks, Shape

\* What a peer does is what a source does.
LEMMA PeerRelays ==
    ASSUME IndInv, NEW c \in Conns, NEW d \in Directions, PeerSends(c, d)
    PROVE  Relay!Send(c, d) \/ Relay!SendFin(c, d)
<1> DEFINE f == flow[c][d]
<1>1. f \in FlowType /\ flow \in [Conns -> [Directions -> FlowType]]
  BY DEF IndInv, Bytes
<1>2. Streamed[c][d] = StreamOf(f) /\ ~f.eof /\ end' = end
  BY StreamFields DEF PeerSends
<1>3. CASE flow' = [flow EXCEPT ![c][d].sent = @ + 1] /\ f.sent < MaxBytes
  <2> DEFINE g == [f EXCEPT !.sent = @ + 1]
  <2>1. flow' = [flow EXCEPT ![c] = [flow[c] EXCEPT ![d] = g]]
    BY <1>1, <1>3 DEF FlowType
  <2>2. StreamOf(g) = [StreamOf(f) EXCEPT !.sent = @ + 1]
    BY <1>1 DEF FlowType, StreamOf
  <2>3. Relay!Becomes(c, d, StreamOf(g))
    BY <1>2, <2>1, StreamMoves
  <2> QED
    BY <1>2, <1>3, <2>2, <2>3 DEF Relay!Send, StreamOf
<1>4. CASE flow' = [flow EXCEPT ![c][d].eof = TRUE]
  <2> DEFINE g == [f EXCEPT !.eof = TRUE]
  <2>1. flow' = [flow EXCEPT ![c] = [flow[c] EXCEPT ![d] = g]]
    BY <1>1, <1>4 DEF FlowType
  <2>2. StreamOf(g) = [StreamOf(f) EXCEPT !.ended = TRUE]
    <3>1. PICK b : b = TRUE
      OBVIOUS
    <3>2. /\ g.sent = f.sent /\ g.delivered = f.delivered /\ g.held = f.held
          /\ g.shut = f.shut
      BY <1>1 DEF FlowType
    <3>3. g.eof = b
      BY <1>1, <3>1 DEF FlowType
    <3> HIDE DEF f, g
    <3>4. StreamOf(g) = [StreamOf(f) EXCEPT !.ended = b]
      BY <3>2, <3>3, StreamFlags
    <3> QED
      BY <3>1, <3>4, Zenon
  <2>3. Relay!Becomes(c, d, StreamOf(g))
    BY <1>2, <2>1, StreamMoves
  <2> QED
    BY <1>2, <2>2, <2>3 DEF Relay!SendFin, StreamOf
<1> QED
  BY <1>3, <1>4 DEF PeerSends

\* Bytes that enter the pipe or the buffer are taken, within its size.
LEMMA TakesBytes ==
    ASSUME IndInv, NEW c \in Conns, NEW d \in Directions, end[c] = None, end' = end,
           NEW n \in 1..BufferSize, flow[c][d].held + n <= BufferSize,
           n <= InFlight(flow[c][d]), NEW p \in {"read", "drain", "done"},
           flow' = [flow EXCEPT ![c] = [flow[c] EXCEPT ![d] =
                      [flow[c][d] EXCEPT !.held = @ + n, !.pc = p]]]
    PROVE  Relay!Take(c, d)
<1> DEFINE f == flow[c][d]
           g == [f EXCEPT !.held = @ + n, !.pc = p]
<1>1. f \in FlowType
  BY DEF IndInv, Bytes
<1>2. Streamed[c][d] = StreamOf(f)
  BY StreamFields
<1>3. /\ f.delivered \in Nat /\ f.held \in Nat /\ f.sent \in Nat /\ BufferSize \in Nat
      /\ f.held <= BufferSize
  BY <1>1, ConstantTypes DEF FlowType
<1>4. StreamOf(g) = [StreamOf(f) EXCEPT !.taken = @ + n]
  BY <1>1, <1>3 DEF FlowType, StreamOf
<1>5. Relay!Becomes(c, d, StreamOf(g))
  BY StreamMoves
<1>6. /\ f.delivered + f.held + n <= f.sent
      /\ f.delivered + f.held + n <= f.delivered + BufferSize
  BY <1>3 DEF InFlight
<1> QED
  BY <1>2, <1>4, <1>5, <1>6 DEF Relay!Take, StreamOf

\* Bytes that leave it for the destination are delivered.
LEMMA DeliversBytes ==
    ASSUME IndInv, NEW c \in Conns, NEW d \in Directions, end[c] = None, end' = end,
           NEW n \in 1..flow[c][d].held, NEW p \in {"read", "drain", "done"},
           flow' = [flow EXCEPT ![c] = [flow[c] EXCEPT ![d] =
                      [flow[c][d] EXCEPT !.held = @ - n, !.delivered = @ + n, !.pc = p]]]
    PROVE  Relay!Deliver(c, d)
<1> DEFINE f == flow[c][d]
           g == [f EXCEPT !.held = @ - n, !.delivered = @ + n, !.pc = p]
<1>1. f \in FlowType
  BY DEF IndInv, Bytes
<1>2. Streamed[c][d] = StreamOf(f)
  BY StreamFields
<1>3. f.delivered \in Nat /\ f.held \in Nat /\ BufferSize \in Nat /\ f.held <= BufferSize
  BY <1>1, ConstantTypes DEF FlowType
<1>4. StreamOf(g) = [StreamOf(f) EXCEPT !.delivered = @ + n]
  BY <1>1, <1>3 DEF FlowType, StreamOf
<1>5. Relay!Becomes(c, d, StreamOf(g))
  BY StreamMoves
<1>6. n \in 1..BufferSize /\ f.delivered + n <= f.delivered + f.held
  BY <1>3
<1> QED
  BY <1>2, <1>4, <1>5, <1>6 DEF Relay!Deliver, StreamOf

\* The far side is closed when everything has arrived there.
LEMMA ClosesStream ==
    ASSUME IndInv, NEW c \in Conns, NEW d \in Directions, end[c] = None, end' = end,
           flow[c][d].pc # "done", flow[c][d].eof, flow[c][d].held = 0,
           InFlight(flow[c][d]) = 0,
           flow' = [flow EXCEPT ![c] = [flow[c] EXCEPT ![d] =
                      [flow[c][d] EXCEPT !.pc = "done", !.shut = TRUE]]]
    PROVE  Relay!Close(c, d)
<1> DEFINE f == flow[c][d]
           g == [f EXCEPT !.pc = "done", !.shut = TRUE]
<1>1. f \in FlowType /\ FlowInv(f, path[c])
  BY DEF IndInv, Bytes
<1>2. Streamed[c][d] = StreamOf(f)
  BY StreamFields
<1>3. ~f.shut /\ f.delivered = f.sent
  BY <1>1, ConstantTypes DEF FlowType, FlowInv, InFlight
<1>4. StreamOf(g) = [StreamOf(f) EXCEPT !.closed = TRUE]
  <2>1. PICK b : b = TRUE
    OBVIOUS
  <2>2. /\ g.sent = f.sent /\ g.delivered = f.delivered /\ g.held = f.held
        /\ g.eof = f.eof
    BY <1>1 DEF FlowType
  <2>3. g.shut = b
    BY <1>1, <2>1 DEF FlowType
  <2> HIDE DEF f, g
  <2>4. StreamOf(g) = [StreamOf(f) EXCEPT !.closed = b]
    BY <2>2, <2>3, StreamFlags
  <2> QED
    BY <2>1, <2>4, Zenon
<1>5. Relay!Becomes(c, d, StreamOf(g))
  BY StreamMoves
<1> QED
  BY <1>2, <1>3, <1>4, <1>5 DEF Relay!Close, StreamOf

\* Every step of either copy mechanism is a step of the stream, or of none.
LEMMA CopyRelays ==
    ASSUME IndInv, NEW c \in Conns, NEW d \in Directions, CopyStep(c, d)
    PROVE  \/ Relay!Take(c, d) \/ Relay!Deliver(c, d) \/ Relay!Close(c, d)
           \/ UNCHANGED Relay!vars
<1> DEFINE f == flow[c][d]
<1>1. /\ f \in FlowType /\ FlowInv(f, path[c])
      /\ flow \in [Conns -> [Directions -> FlowType]]
  BY DEF IndInv, Bytes
<1>2. end[c] = None /\ end' = end
  BY CopyIsOpen DEF CopyStep, SpliceIn, SpliceOut, SpliceEof, PortableRead, PortableWrite,
     PortableEof, MayCopy, CopyFrame
<1>3. CASE SpliceIn(c, d)
  <2>1. PICK n \in 1..(BufferSize - f.held) :
           /\ flow' = [flow EXCEPT ![c][d].held = @ + n, ![c][d].pc = "drain"]
           /\ n <= InFlight(f)
    BY <1>3 DEF SpliceIn
  <2>2. flow' = [flow EXCEPT ![c] = [flow[c] EXCEPT ![d] =
                   [f EXCEPT !.held = @ + n, !.pc = "drain"]]]
    BY <1>1, <2>1 DEF FlowType
  <2>3. n \in 1..BufferSize /\ f.held + n <= BufferSize
    BY <1>1, ConstantTypes DEF FlowType
  <2>4. n <= InFlight(f)
    BY <2>1
  <2>5. Relay!Take(c, d)
    BY <1>2, <2>2, <2>3, <2>4, TakesBytes, Zenon
  <2> QED
    BY <2>5
<1>4. CASE SpliceOut(c, d)
  <2>1. PICK n \in 1..f.held :
           flow' = [flow EXCEPT ![c][d].held = @ - n, ![c][d].delivered = @ + n,
                                ![c][d].pc = AfterSpliceOut(flow[c][d], n)]
    BY <1>4 DEF SpliceOut
  <2> DEFINE p == AfterSpliceOut(f, n)
  <2>2. p \in {"read", "drain", "done"}
    BY DEF AfterSpliceOut
  <2>3. flow' = [flow EXCEPT ![c] = [flow[c] EXCEPT ![d] =
                   [f EXCEPT !.held = @ - n, !.delivered = @ + n, !.pc = p]]]
    BY <1>1, <2>1 DEF FlowType
  <2> HIDE DEF p
  <2> QED
    BY <1>2, <2>2, <2>3, DeliversBytes
<1>5. CASE SpliceEof(c, d)
  <2>1. f.held = 0 /\ f.pc # "done" /\ f.eof /\ InFlight(f) = 0
    BY <1>1, <1>5 DEF SpliceEof, MayCopy, FlowInv
  <2>2. flow' = [flow EXCEPT ![c] = [flow[c] EXCEPT ![d] =
                   [f EXCEPT !.pc = "done", !.shut = TRUE]]]
    BY <1>1, <1>5 DEF SpliceEof, FlowType
  <2> QED
    BY <1>2, <2>1, <2>2, ClosesStream
<1>6. CASE PortableRead(c, d)
  <2>1. PICK n \in 1..(BufferSize - f.held) :
           flow' = [flow EXCEPT ![c][d].held = @ + n] /\ n <= InFlight(f)
    BY <1>6 DEF PortableRead
  <2>2. f.pc \in {"read", "drain", "done"}
    BY <1>1 DEF FlowType
  <2>3. flow' = [flow EXCEPT ![c] = [flow[c] EXCEPT ![d] =
                   [f EXCEPT !.held = @ + n, !.pc = f.pc]]]
    BY <1>1, <2>1 DEF FlowType
  <2>4. n \in 1..BufferSize /\ f.held + n <= BufferSize
    BY <1>1, ConstantTypes DEF FlowType
  <2>5. n <= InFlight(f)
    BY <2>1
  <2>6. Relay!Take(c, d)
    BY <1>2, <2>2, <2>3, <2>4, <2>5, TakesBytes, Zenon
  <2> QED
    BY <2>6
<1>7. CASE PortableWrite(c, d)
  <2>1. PICK n \in 1..f.held :
           flow' = [flow EXCEPT ![c][d].held = @ - n, ![c][d].delivered = @ + n]
    BY <1>7 DEF PortableWrite
  <2>2. f.pc \in {"read", "drain", "done"}
    BY <1>1 DEF FlowType
  <2>3. flow' = [flow EXCEPT ![c] = [flow[c] EXCEPT ![d] =
                   [f EXCEPT !.held = @ - n, !.delivered = @ + n, !.pc = f.pc]]]
    BY <1>1, <2>1 DEF FlowType
  <2> QED
    BY <1>2, <2>2, <2>3, DeliversBytes
<1>8. CASE PortableEof(c, d)
  <2>1. f.eof /\ InFlight(f) = 0
    BY <1>8 DEF PortableEof
  <2>2. CASE f.pc = "drain" /\ f.held = 0 /\ flow' = [flow EXCEPT ![c][d].pc = "done",
                                                               ![c][d].shut = TRUE]
    <3>1. flow' = [flow EXCEPT ![c] = [flow[c] EXCEPT ![d] =
                     [f EXCEPT !.pc = "done", !.shut = TRUE]]]
      BY <1>1, <2>2 DEF FlowType
    <3>2. f.pc # "done" /\ f.held = 0
      BY <2>2
    <3> QED
      BY <1>2, <2>1, <3>1, <3>2, ClosesStream
  <2>3. CASE flow' = [flow EXCEPT ![c][d].pc = "drain"]
    <3>1. \A e \in Conns, b \in Directions : StreamOf(flow'[e][b]) = StreamOf(flow[e][b])
      BY <1>1, <2>3 DEF FlowType, StreamOf
    <3>2. Streamed' = Streamed
      BY <3>1 DEF Streamed
    <3> QED
      BY <1>2, <3>2 DEF Relay!vars
  <2> QED
    BY <1>8, <2>2, <2>3 DEF PortableEof
<1> QED
  BY <1>3, <1>4, <1>5, <1>6, <1>7, <1>8 DEF CopyStep

\* A connection that ends with e, which its streams allow.
LEMMA EndRelays ==
    ASSUME IndInv, NEW c \in Conns, NEW e \in {"Finished", "Error", "Idle", "Forced"},
           pc[c] \in {"start", "copying"}, Ends(c, e),
           e = "Finished" => \A d \in Directions : flow[c][d].pc = "done",
           e = "Error" => \E d \in Directions : flow[c][d].pc # "done"
    PROVE  Relay!End(c)
<1>1. end[c] = None
  BY CopyIsOpen
<1>2. \A d \in Directions : Streamed[c][d].closed <=> flow[c][d].pc = "done"
  <2> SUFFICES ASSUME NEW d \in Directions
               PROVE  Streamed[c][d].closed <=> flow[c][d].pc = "done"
    OBVIOUS
  <2>1. Streamed[c][d].closed = flow[c][d].shut
    BY StreamFields, StreamFlags, Zenon
  <2>2. flow[c][d].shut <=> flow[c][d].pc = "done"
    BY DEF IndInv, Bytes, FlowInv
  <2> QED
    BY <2>1, <2>2
<1>3. Streamed' = Streamed
  BY DEF Ends, Streamed
<1>4. end' = [end EXCEPT ![c] = e]
  BY DEF Ends
<1> QED
  BY <1>1, <1>2, <1>3, <1>4 DEF Relay!End

\* Every step of the proxy stage is a step of the relay, or of none.
LEMMA RelaysStep == ASSUME IndInv, [Next]_vars PROVE [Relay!Next]_(Relay!vars)
<1>1. ASSUME UNCHANGED <<flow, end>> PROVE UNCHANGED Relay!vars
  BY <1>1 DEF Relay!vars, Streamed
<1>2. CASE CancelForce \/ Tick \/ UNCHANGED vars
  BY <1>1, <1>2 DEF CancelForce, Tick, vars
<1>3. ASSUME NEW c \in Conns,
             \/ TryAcquire(c) \/ UsePortable(c) \/ OpenPipe(c) \/ OpenPipeFails(c)
             \/ ClosePipes(c) \/ DropPermit(c)
      PROVE  UNCHANGED Relay!vars
  BY <1>1, <1>3 DEF TryAcquire, UsePortable, OpenPipe, OpenPipeFails, ClosePipes, DropPermit
<1>4. ASSUME NEW c \in Conns, CopyFinishes(c) PROVE Relay!End(c)
  BY <1>4, EndRelays DEF CopyFinishes
<1>5. ASSUME NEW c \in Conns, CopyFails(c) PROVE Relay!End(c)
  BY <1>5, EndRelays DEF CopyFails
<1>6. ASSUME NEW c \in Conns, Forced(c) PROVE Relay!End(c)
  BY <1>6, EndRelays DEF Forced
<1>7. ASSUME NEW c \in Conns, Watchdog(c) PROVE Relay!End(c) \/ UNCHANGED Relay!vars
  <2>1. CASE Ends(c, "Idle")
    BY <1>7, <2>1, EndRelays DEF Watchdog
  <2>2. CASE UNCHANGED <<flow, end>>
    BY <1>1, <2>2
  <2> QED
    BY <1>7, <2>1, <2>2 DEF Watchdog
<1>8. ASSUME NEW c \in Conns, NEW d \in Directions, PeerSends(c, d) \/ CopyStep(c, d)
      PROVE  \/ Relay!Send(c, d) \/ Relay!SendFin(c, d) \/ Relay!Take(c, d)
             \/ Relay!Deliver(c, d) \/ Relay!Close(c, d) \/ UNCHANGED Relay!vars
  BY <1>8, PeerRelays, CopyRelays
<1> QED
  BY <1>2, <1>3, <1>4, <1>5, <1>6, <1>7, <1>8 DEF Next, TaskStep, Relay!Next

\* No byte has been sent and no connection has ended.
LEMMA RelaysInit == Init => Relay!Init
  BY DEF Init, Relay!Init, Streamed, StreamOf

(* copy and proxy: on both copy mechanisms, for every buffer size and any set of
   connections, every behaviour is one of the abstract relay: bytes in order and
   within the buffer, a far side closed only when everything has arrived,
   Finished exactly when both are, and nothing after the end. *)
THEOREM ProxyImplementsByteRelay == SafeSpec => ImplementsByteRelay
<1>1. IndInv /\ [Next]_vars => [Relay!Next]_(Relay!vars)
  BY RelaysStep
<1> QED
  BY <1>1, RelaysInit, ProxyInvariant, PTL DEF SafeSpec, ImplementsByteRelay, Relay!Spec
=============================================================================
