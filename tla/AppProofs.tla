----------------------------- MODULE AppProofs ------------------------------
(***************************************************************************)
(* Proofs about App, for every set of files, connections, probes and jobs, *)
(* every number of admin slots and every budget.                           *)
(***************************************************************************)
EXTENDS App, RoutingProofs

-----------------------------------------------------------------------------
(* What loading a file says.                                               *)

AllFiles == StartFiles \cup Files

\* A list has no duplicates if and only if it has as many members as places.
LEMMA InjectiveSeq ==
    ASSUME NEW s, s \in Seq(ToSet(s))
    PROVE  IsInjective(s) <=> Cardinality(ToSet(s)) = Len(s)
<1>1. s \in [1 .. Len(s) -> ToSet(s)] /\ Len(s) \in Nat
  OBVIOUS
<1>2. s \in Surjection(1 .. Len(s), ToSet(s))
  <2>1. \A t \in ToSet(s) : \E i \in 1 .. Len(s) : s[i] = t
    BY <1>1 DEF ToSet
  <2> QED
    BY <1>1, <2>1 DEF Surjection
<1>3. IsFiniteSet(1 .. Len(s)) /\ Cardinality(1 .. Len(s)) = Len(s)
  <2> DEFINE n == Len(s)
  <2>1. n \in Nat /\ 1 \in Int /\ n \in Int
    BY <1>1
  <2> HIDE DEF n
  <2>2. IsFiniteSet(1 .. n) /\ Cardinality(1 .. n) = IF 1 > n THEN 0 ELSE n - 1 + 1
    BY <2>1, FS_Interval
  <2>3. Cardinality(1 .. n) = n
    BY <2>1, <2>2
  <2> QED
    BY <2>2, <2>3 DEF n
<1>4. Cardinality(ToSet(s)) = Len(s) <=> s \in Injection(1 .. Len(s), ToSet(s))
  BY <1>2, <1>3, FS_Surjection
<1> QED
  BY <1>1, <1>4 DEF Injection

\* RawServer::validate passes if and only if there are addresses, no two alike,
\* and every number is in its range.
LEMMA ServerErrorOk ==
    ASSUME NEW server
    PROVE  ServerError(server) = Ok <=>
               /\ server.listen # <<>>
               /\ IsInjective(server.listen)
               /\ \A i \in DOMAIN Ranges : InRange(server[Ranges[i].field], Ranges[i])
<1> DEFINE InRangeAt(i) == InRange(server[Ranges[i].field], Ranges[i])
           lists == <<Check(server.listen # <<>>, "NoListenAddresses"),
                      Check(IsInjective(server.listen), "DuplicateListenAddress")>>
           ranges == [i \in DOMAIN Ranges |-> Check(InRangeAt(i), "OutOfRange")]
<1>1. ServerError(server) = FirstError(lists \o ranges)
  BY DEF ServerError
<1>2. DOMAIN Ranges = 1 .. 11
  BY DEF Ranges
<1> DEFINE S == {Ok, "NoListenAddresses", "DuplicateListenAddress", "OutOfRange"}
<1>3. lists \in Seq(S) /\ Len(lists) = 2
  BY DEF Check
<1>4. ranges \in Seq(S) /\ Len(ranges) = 11
  <2>1. ranges \in [1 .. 11 -> S]
    BY <1>2 DEF Check
  <2> HIDE DEF ranges, S
  <2> QED
    <3>1. ranges \in Seq(S)
      BY <2>1, SeqDef
    <3>2. Len(ranges) \in Nat /\ \A i \in Int : i \in 1 .. Len(ranges) <=> i \in 1 .. 11
      <4>1. Len(ranges) \in Nat /\ DOMAIN ranges = 1 .. Len(ranges)
        BY <3>1, LenProperties
      <4>2. DOMAIN ranges = 1 .. 11
        BY <2>1
      <4> QED
        BY <4>1, <4>2, Zenon
    <3>3. Len(ranges) = 11
      <4> DEFINE n == Len(ranges)
      <4>1. n \in Nat /\ \A i \in Int : i \in 1 .. n <=> i \in 1 .. 11
        BY <3>2
      <4> HIDE DEF n
      <4>2. 11 \in 1 .. n /\ 12 \notin 1 .. n
        BY <4>1
      <4>3. n = 11
        BY <4>1, <4>2
      <4> QED
        BY <4>3 DEF n
    <3> QED
      BY <3>1, <3>3
<1>5. (\A i \in 1 .. 2 : lists[i] = Ok) <=> server.listen # <<>> /\ IsInjective(server.listen)
  BY DEF Check, Ok
<1>6. (\A i \in 1 .. 11 : ranges[i] = Ok) <=> \A i \in 1 .. 11 : InRangeAt(i)
  BY <1>2 DEF Check, Ok
<1> HIDE DEF lists, ranges, InRangeAt, S
<1>7. FirstError(lists \o ranges) = Ok <=>
          (\A i \in 1 .. 2 : lists[i] = Ok) /\ (\A i \in 1 .. 11 : ranges[i] = Ok)
  <2>1. FirstError(lists \o ranges) = Ok <=>
            (\A i \in 1 .. Len(lists) : lists[i] = Ok) /\ (\A i \in 1 .. Len(ranges) : ranges[i] = Ok)
    BY <1>3, <1>4, ConcatErrorsOk
  <2> QED
    BY <1>3, <1>4, <2>1
<1> QED
  BY <1>1, <1>2, <1>5, <1>6, <1>7 DEF InRangeAt

\* AppConfig::load passes if and only if each of its parts does.
LEMMA LoadErrorOk ==
    ASSUME NEW f
    PROVE  LoadError(f) = Ok <=>
               /\ f.readable /\ f.toml
               /\ ServerError(Server(f)) = Ok
               /\ AdminError(Admin(f)) = Ok
               /\ TableError(f.routes) = Ok
<1> DEFINE errors == <<Check(f.readable, "Read"), Check(f.toml, "Parse"), ServerError(Server(f)),
                       AdminError(Admin(f)), TableError(f.routes)>>
<1>1. LoadError(f) = FirstError(errors)
  BY DEF LoadError
<1>2. DOMAIN errors = 1 .. 5
  OBVIOUS
<1>3. (\A i \in 1 .. 5 : errors[i] = Ok) <=>
          /\ Check(f.readable, "Read") = Ok /\ Check(f.toml, "Parse") = Ok
          /\ ServerError(Server(f)) = Ok /\ AdminError(Admin(f)) = Ok /\ TableError(f.routes) = Ok
  OBVIOUS
<1> HIDE DEF errors
<1>4. FirstError(errors) = Ok <=> \A i \in 1 .. 5 : errors[i] = Ok
  BY <1>2, FirstErrorOk
<1> QED
  BY <1>1, <1>3, <1>4 DEF Check, Ok

\* AppConfig::load accepts exactly the files that satisfy all conditions at once.
LEMMA LoadsIfValid ==
    ASSUME NEW f \in AllFiles
    PROVE  Outcome[f] = Ok <=> Valid(f)
<1>1. Outcome[f] = LoadError(f)
  BY DEF Outcome, AllFiles
<1>2. ServerError(Server(f)) = Ok <=>
          /\ \A l \in ToSet(Ranges) : Server(f)[l.field] \in l.min .. l.max
          /\ Server(f).listen # <<>>
          /\ Cardinality(ToSet(Server(f).listen)) = Len(Server(f).listen)
  <2>1. Server(f).listen \in Seq(ToSet(Server(f).listen))
    BY AppAssumption DEF AllFiles
  <2>2. \A i \in DOMAIN Ranges : Server(f)[Ranges[i].field] \in Int
    BY AppAssumption DEF AllFiles
  <2>3. \A i \in DOMAIN Ranges : Ranges[i].min \in Int /\ Ranges[i].max \in Int
    BY DEF Ranges, Limit
  <2>4. \A i \in DOMAIN Ranges :
            InRange(Server(f)[Ranges[i].field], Ranges[i]) <=>
            Server(f)[Ranges[i].field] \in Ranges[i].min .. Ranges[i].max
    BY <2>2, <2>3 DEF InRange
  <2>5. (\A l \in ToSet(Ranges) : Server(f)[l.field] \in l.min .. l.max) <=>
        \A i \in DOMAIN Ranges : Server(f)[Ranges[i].field] \in Ranges[i].min .. Ranges[i].max
    BY DEF ToSet
  <2>6. IsInjective(Server(f).listen) <=>
            Cardinality(ToSet(Server(f).listen)) = Len(Server(f).listen)
    BY <2>1, InjectiveSeq
  <2> QED
    BY <2>4, <2>5, <2>6, ServerErrorOk
<1>3. TableError(f.routes) = Ok <=>
          /\ \A i \in DOMAIN f.routes : KeyParses(f.routes[i].hostname)
                                        /\ BackendError(f.routes[i].backend) = Ok
          /\ IsInjective([i \in DOMAIN f.routes |-> RouteKeyParse(f.routes[i].hostname)])
  <2>1. f.routes \in Seq(ToSet(f.routes))
    BY AppAssumption DEF AllFiles
  <2>2. Len(f.routes) \in Nat /\ DOMAIN f.routes = 1 .. Len(f.routes)
    BY <2>1
  <2> QED
    BY <2>2, TableErrorOk
<1>4. AdminError(Admin(f)) = Ok <=>
          /\ Admin(f).health_path.rooted /\ ~Admin(f).health_path.spaced
          /\ Admin(f).health_path.text # "/metrics" \/ Admin(f).health_path.query
  <2>1. Admin(f).health_path \in
            [text : STRING, rooted : BOOLEAN, spaced : BOOLEAN, query : BOOLEAN]
    BY AppAssumption DEF AllFiles
  <2> DEFINE path == Admin(f).health_path
  <2>2. path.rooted /\ ~path.spaced =>
            (path = [text |-> "/metrics", rooted |-> TRUE, spaced |-> FALSE, query |-> FALSE] <=>
             path.text = "/metrics" /\ ~path.query)
    <3>1. path.rooted /\ ~path.spaced => path.rooted = TRUE /\ path.spaced = FALSE
      BY <2>1
    <3>2. path = [text |-> path.text, rooted |-> path.rooted, spaced |-> path.spaced,
                  query |-> path.query]
      BY <2>1
    <3>3. path.query \in BOOLEAN
      BY <2>1
    <3> HIDE DEF path
    <3>4. ~path.query => path.query = FALSE
      BY <3>3
    <3> QED
      BY <3>1, <3>2, <3>4
  <2> QED
    BY <2>2 DEF AdminError, Check, Ok, MetricsPath, Path
<1> QED
  BY <1>1, <1>2, <1>3, <1>4, LoadErrorOk DEF Valid

-----------------------------------------------------------------------------
(* The inductive invariant.                                                *)

Places == {"outside", "handshake", "proxying", "ending", "left"}
AdminPcs == {"off", "waiting", "holding", "backoff", "grace", "aborting", "ended"}
Accepting == {"waiting", "holding", "backoff"}
ProbeType ==
    [pc : {"out", "queued", "open", "answered", "closed", "reset"},
     request : Requests \cup {Silence}, status : {0, 200, 404, 405, 500, 503}]

\* The admin server: slots add up, tasks that ended are closed, nothing is open
\* or answered before it starts, and nothing is left once it has returned.
AdminInv ==
    /\ adminPc \in AdminPcs /\ adminSlots \in Nat
    /\ probe \in [Probes -> ProbeType] /\ finished \subseteq Probes
    /\ IsFiniteSet(Open)
    /\ AdminSlotsConserved
    /\ adminPc = "off" => Open = {} /\ \A p \in Probes : probe[p].status = 0
    /\ adminPc = "ended" => Open = {} /\ Queued = {}

GoodSettings == {Settings(f) : f \in {g \in StartFiles : Outcome[g] = Ok}}

\* The settings are those of a valid file, and an answered health probe was
\* answered under them.
HealthInv ==
    /\ main \notin {"loading", "failed", "killed"} => settings \in GoodSettings
    /\ \A p \in Probes :
           LET r == probe[p].request IN
           probe[p].status # 0 /\ r.get /\ UriPath(r.target) = settings.admin.health_path =>
               probe[p].status \in {200, 503}

\* main: what runs at which stage of its life.
StageInv ==
    /\ main \in {"loading", "binding", "bound", "serving", "joining"} \cup Ended
    /\ main \in {"loading", "binding", "bound"} =>
          adminPc = "off" /\ reload = "off" /\ watch = "off" /\ ~adminShutdown
    /\ main = "serving" => adminPc \in Accepting /\ ~adminShutdown
    /\ main \in {"joining", "exited"} => phase = "stopped"
    /\ main = "exited" => watch = "done" /\ reload = "ended" /\ adminPc = "ended"
    /\ watch = "done" => draining

\* Connections keep to their places, and none comes back to a stopped router.
RouterInv ==
    /\ place \in [Conns -> Places]
    /\ phase = "stopped" => RouterSpec!Inside = {}

MainInv == StageInv /\ RouterInv

Tables == {<<>>} \cup {BuildRouteTable(f.routes) : f \in AllFiles}
TableType == [version : Int, routes : Tables]
JobType == [pc : {"free", "spawned", "read", "done"}, version : Int, file : AllFiles \cup {None}]

\* The routes are those of one valid file, and none is refused.
RoutesInForce ==
    /\ main \notin {"loading", "failed", "killed"} => table.routes \in ValidTables
    /\ main = "failed" /\ settings = None => ~Valid(disk.file)

\* The reload task: at most one job, only while it is awaited; what a job has
\* read is no older than the table and no newer than the disk.
ReloadInv ==
    /\ disk \in [version : Nat, file : AllFiles]
    /\ main = "loading" => disk.file \in StartFiles /\ settings = None
    /\ table \in TableType
    /\ job \in [Jobs -> JobType]
    /\ \A i, j \in Jobs : job[i].pc # "free" /\ job[j].pc # "free" => i = j
    /\ \A j \in Jobs : job[j].pc # "free" => reload = "reloading"
    /\ table.version <= disk.version
    /\ \A j \in Jobs : job[j].pc = "read" =>
          /\ job[j].file \in AllFiles
          /\ table.version <= job[j].version /\ job[j].version <= disk.version
    /\ RoutesInForce

Keys == {Candidates[i] : i \in DOMAIN Candidates}
Answers == {AnswerFor(r, k) : r \in Tables, k \in Keys}
LookupType == [snapshot : TableType, seen : Seq(Answers), era : SUBSET Tables]

\* A lookup has read a prefix of the candidates, all from its snapshot, which
\* was in force when it was taken.
LookupInv ==
    /\ lookup \in [Conns -> LookupType]
    /\ \A c \in Conns : lookup[c] # NoLookup =>
          /\ lookup[c].snapshot.routes \in lookup[c].era
          /\ Len(lookup[c].seen) <= Len(Candidates)
          /\ \A i \in 1 .. Len(lookup[c].seen) :
                lookup[c].seen[i] = AnswerFor(lookup[c].snapshot.routes, Candidates[i])

IndInv == AdminInv /\ HealthInv /\ MainInv /\ ReloadInv /\ LookupInv

-----------------------------------------------------------------------------
(* The admin server.                                                       *)

OpenPcs == {"open", "answered"}

\* One probe moves: how many are open follows.
LEMMA ProbeMoves ==
    ASSUME AdminInv, NEW p \in Probes, NEW q \in ProbeType, probe' = [probe EXCEPT ![p] = q]
    PROVE  /\ probe' \in [Probes -> ProbeType]
           /\ Open' = IF q.pc \in OpenPcs THEN Open \cup {p} ELSE Open \ {p}
           /\ IsFiniteSet(Open')
           /\ Cardinality(Open) \in Nat
           /\ p \in Open /\ q.pc \in OpenPcs => Cardinality(Open') = Cardinality(Open)
           /\ p \in Open /\ q.pc \notin OpenPcs => Cardinality(Open') = Cardinality(Open) - 1
           /\ p \notin Open /\ q.pc \in OpenPcs => Cardinality(Open') = Cardinality(Open) + 1
           /\ p \notin Open /\ q.pc \notin OpenPcs => Cardinality(Open') = Cardinality(Open)
<1>1. probe \in [Probes -> ProbeType] /\ IsFiniteSet(Open)
  BY DEF AdminInv
<1>2. probe' \in [Probes -> ProbeType]
  BY <1>1
<1>3. Open' = IF q.pc \in OpenPcs THEN Open \cup {p} ELSE Open \ {p}
  BY <1>1 DEF Open, OpenPcs
<1>4. Cardinality(Open) \in Nat
  BY <1>1, FS_CardinalityType
<1>5. /\ IsFiniteSet(Open \cup {p})
      /\ Cardinality(Open \cup {p}) = IF p \in Open THEN Cardinality(Open) ELSE Cardinality(Open) + 1
  BY <1>1, FS_AddElement
<1>6. /\ IsFiniteSet(Open \ {p})
      /\ Cardinality(Open \ {p}) = IF p \in Open THEN Cardinality(Open) - 1 ELSE Cardinality(Open)
  BY <1>1, FS_RemoveElement
<1> QED
  BY <1>2, <1>3, <1>4, <1>5, <1>6

\* No probe moves: whatever is said of probes alone stays.
LEMMA ProbesStay ==
    ASSUME AdminInv, UNCHANGED probe
    PROVE  /\ probe' \in [Probes -> ProbeType] /\ IsFiniteSet(Open')
           /\ Open' = Open /\ Queued' = Queued /\ Cardinality(Open) \in Nat
<1>1. Open' = Open /\ Queued' = Queued
  BY DEF Open, Queued
<1> QED
  BY <1>1, FS_CardinalityType DEF AdminInv

\* accept_with_slot, the pause after an error, the select and the way out keep
\* the slots.
LEMMA AdminLoopKeeps ==
    ASSUME AdminInv,
           AcquireSlot \/ AcceptFails \/ PauseEnds \/ StopAccepting \/ AdminGraceElapses
               \/ (\E p \in Probes : Reap(p))
    PROVE  AdminInv'
<1>1. UNCHANGED probe
  BY DEF AcquireSlot, AcceptFails, PauseEnds, StopAccepting, AdminGraceElapses, Reap
<1>2. /\ probe' \in [Probes -> ProbeType] /\ IsFiniteSet(Open')
      /\ Open' = Open /\ Cardinality(Open) \in Nat
  BY <1>1, ProbesStay
<1>3. /\ adminPc' \in AdminPcs \ {"off", "ended"} /\ adminSlots' \in Nat
      /\ finished' \subseteq finished
      /\ SlotsBack' = SlotsBack
  BY DEF AdminInv, AdminPcs, SlotsBack, AcquireSlot, AcceptFails, PauseEnds, StopAccepting,
         AdminGraceElapses, Reap
<1>4. AdminSlotsConserved'
  BY <1>1, <1>2, <1>3 DEF AdminInv, AdminSlotsConserved
<1> QED
  BY <1>2, <1>3, <1>4 DEF AdminInv

\* So does every step of a connection, and the return of the server.
LEMMA ConnectionKeeps ==
    ASSUME AdminInv, NEW p \in Probes, NEW h,
           Connect(p) \/ Accept(p) \/ Answer(p, h) \/ Close(p)
    PROVE  AdminInv'
<1> USE DEF AdminInv
<1>1. CASE Connect(p)
  <2> DEFINE q == [probe[p] EXCEPT !.pc = "queued"]
  <2>1. q \in ProbeType /\ probe' = [probe EXCEPT ![p] = q] /\ p \notin Open /\ q.pc \notin OpenPcs
    BY <1>1 DEF Connect, ProbeType, Open, OpenPcs
  <2>2. /\ probe' \in [Probes -> ProbeType] /\ IsFiniteSet(Open')
        /\ Open' = Open /\ Cardinality(Open') = Cardinality(Open)
    <3> HIDE DEF q, AdminInv
    <3>1. /\ probe' \in [Probes -> ProbeType] /\ IsFiniteSet(Open')
          /\ Open' = Open \ {p}
      BY <2>1, ProbeMoves
    <3> QED
      BY <2>1, <3>1
  <2>3. AdminSlotsConserved'
    BY <1>1, <2>2 DEF Connect, AdminSlotsConserved, SlotsBack
  <2>4. \A x \in Probes : probe'[x].status = probe[x].status
    BY <2>1
  <2>5. UNCHANGED <<adminPc, adminSlots, finished>> /\ adminPc # "ended"
    BY <1>1 DEF Connect
  <2> QED
    BY <2>2, <2>3, <2>4, <2>5
<1>2. CASE Accept(p)
  <2> DEFINE q == [probe[p] EXCEPT !.pc = "open"]
  <2>1. q \in ProbeType /\ probe' = [probe EXCEPT ![p] = q] /\ p \notin Open /\ q.pc \in OpenPcs
    BY <1>2 DEF Accept, ProbeType, Open, OpenPcs
  <2>2. /\ probe' \in [Probes -> ProbeType] /\ IsFiniteSet(Open')
        /\ Cardinality(Open) \in Nat /\ Cardinality(Open') = Cardinality(Open) + 1
    BY <2>1, ProbeMoves
  <2>3. AdminSlotsConserved'
    BY <1>2, <2>2 DEF Accept, AdminSlotsConserved, SlotsBack
  <2> QED
    BY <1>2, <2>2, <2>3 DEF Accept, AdminPcs
<1>3. CASE Answer(p, h)
  <2>0. PICK r \in Requests : \E s \in Handle(r, h) :
            probe' = [probe EXCEPT ![p] = [pc |-> "answered", request |-> r, status |-> s]]
    BY <1>3 DEF Answer
  <2>1. PICK s \in Handle(r, h) :
            probe' = [probe EXCEPT ![p] = [pc |-> "answered", request |-> r, status |-> s]]
    BY <2>0
  <2> DEFINE q == [pc |-> "answered", request |-> r, status |-> s]
  <2>2. s \in {200, 404, 405, 500, 503}
    BY DEF Handle
  <2>3. q \in ProbeType /\ p \in Open /\ q.pc \in OpenPcs
    BY <1>3, <2>2 DEF Answer, ProbeType, Open, OpenPcs
  <2>4. /\ probe' \in [Probes -> ProbeType] /\ IsFiniteSet(Open')
        /\ Cardinality(Open') = Cardinality(Open)
    BY <2>1, <2>3, ProbeMoves
  <2>5. AdminSlotsConserved'
    BY <1>3, <2>1, <2>4 DEF Answer, AdminSlotsConserved, SlotsBack
  <2> QED
    BY <1>3, <2>3, <2>4, <2>5 DEF Answer
<1>4. CASE Close(p)
  <2> DEFINE q == Gone("closed")
  <2>1. q \in ProbeType /\ q.pc = "closed" /\ q.pc \notin OpenPcs
    BY DEF ProbeType, Gone, NotConnected, OpenPcs
  <2>2. /\ probe' \in [Probes -> ProbeType] /\ IsFiniteSet(Open')
        /\ Cardinality(Open) \in Nat /\ Cardinality(Open') = Cardinality(Open) - 1
    BY <1>4, <2>1, ProbeMoves DEF Close
  <2>3. AdminSlotsConserved'
    <3>1. SlotsBack' = SlotsBack + 1 /\ SlotsBack \in Nat
      BY <1>4 DEF Close, SlotsBack
    <3>2. \A x \in finished' : probe'[x].pc = "closed"
      BY <1>4, <2>1 DEF Close, AdminSlotsConserved
    <3> QED
      BY <2>2, <3>1, <3>2 DEF AdminSlotsConserved
  <2> QED
    BY <1>4, <2>2, <2>3 DEF Close
<1> QED
  BY <1>1, <1>2, <1>3, <1>4

\* AdminServer::run returns with every slot back.
LEMMA AdminReturnKeeps == ASSUME AdminInv, AdminReturns PROVE AdminInv'
<1> USE DEF AdminInv
<1>1. Gone("reset") \in ProbeType /\ Gone("reset").pc = "reset"
  BY DEF ProbeType, Gone, NotConnected
<1>2. probe' \in [Probes -> ProbeType]
  BY <1>1 DEF AdminReturns
<1>3. Open' = {} /\ Queued' = {} /\ Open = {}
  BY <1>1 DEF AdminReturns, Open, Queued
<1>4. AdminSlotsConserved'
  BY <1>3 DEF AdminReturns, AdminSlotsConserved, SlotsBack
<1> QED
  BY <1>2, <1>3, <1>4 DEF AdminReturns, AdminPcs

\* A step that leaves the admin server alone keeps its invariant.
LEMMA AdminFrameKeeps ==
    ASSUME AdminInv, UNCHANGED <<adminPc, adminSlots, finished, probe>> PROVE AdminInv'
<1>1. Open' = Open /\ Queued' = Queued
  BY DEF Open, Queued
<1>2. AdminSlotsConserved'
  BY <1>1 DEF AdminInv, AdminSlotsConserved, SlotsBack
<1> QED
  BY <1>1, <1>2 DEF AdminInv

\* What may happen, by the part of the process that does it.
Process ==
    \/ Load \/ Bind \/ ServeReturns \/ Exit
    \/ SignalTask \/ WatchDrains \/ ReloadTask
    \/ (\E j \in Jobs : Job(j)) \/ WriteFile
    \/ (\E s \in {"TERM", "INT", "HUP"} : Signal(s))
    \/ (\E c \in Conns : TakeSnapshot(c) \/ ReadKey(c))
    \/ RouterStep
AdminTask ==
    \/ AdminLoop \/ AdminStops \/ AcceptProbe \/ AcceptFailed
    \/ \E p \in Probes : ConnectProbe(p) \/ AnswerProbe(p) \/ CloseProbe(p)

\* A step of a live process is run's, the process's or the admin server's.
LEMMA NextSplits == Next => Alive /\ (Run \/ Process \/ AdminTask)
  BY DEF Next, Process, AdminTask, Main

\* The process's own tasks leave the admin server's variables alone.
LEMMA ProcessFrame ==
    ASSUME Process PROVE UNCHANGED <<adminPc, adminSlots, finished, probe>>
<1>1. CASE Load \/ Bind \/ ServeReturns \/ Exit
  BY <1>1 DEF Load, Bind, ServeReturns, Exit, adminVars
<1>2. CASE SignalTask \/ WatchDrains \/ WriteFile
  BY <1>2 DEF SignalTask, InstallTerm, InstallInt, CtrlCFails, Cancel, WatchDrains, SetDraining, WriteFile,
     adminVars
<1>3. CASE ReloadTask \/ \E j \in Jobs : Job(j)
  BY <1>3 DEF ReloadTask, InstallHup, StartReload, ReloadStops, ReloadEnds, Job, ReadFile, Replace,
              adminVars
<1>4. CASE \E s \in {"TERM", "INT", "HUP"} : Signal(s)
  BY <1>4 DEF Signal, adminVars
<1>5. CASE (\E c \in Conns : TakeSnapshot(c) \/ ReadKey(c)) \/ RouterStep
  BY <1>5 DEF TakeSnapshot, ReadKey, RouterStep, adminVars
<1> QED
  BY <1>1, <1>2, <1>3, <1>4, <1>5 DEF Process

\* Slots, probes and the admin loop stay in step, whatever main does.
LEMMA AdminStep == ASSUME IndInv, Next PROVE AdminInv'
<1>1. AdminInv
  BY DEF IndInv
<1>2. CASE Process
  BY <1>1, <1>2, ProcessFrame, AdminFrameKeeps
<1>3. CASE Run
  <2>1. adminPc' = "waiting" /\ adminPc = "off" /\ UNCHANGED <<adminSlots, finished, probe>>
    BY <1>3 DEF Run, IndInv, MainInv, StageInv
  <2>2. Open' = Open
    BY <2>1 DEF Open
  <2>3. AdminSlotsConserved'
    BY <1>1, <2>1, <2>2 DEF AdminInv, AdminSlotsConserved, SlotsBack
  <2> QED
    BY <1>1, <2>1, <2>2, <2>3 DEF AdminInv, AdminPcs
<1>4. CASE AdminTask
  <2>1. CASE AdminLoop
    BY <1>1, <2>1, AdminLoopKeeps, AdminReturnKeeps DEF AdminLoop
  <2>2. CASE AdminStops \/ AcceptFailed
    BY <1>1, <2>2, AdminLoopKeeps DEF AdminStops, AcceptFailed
  <2>3. CASE AcceptProbe
    BY <1>1, <2>3, ConnectionKeeps DEF AcceptProbe
  <2>4. CASE \E p \in Probes : ConnectProbe(p) \/ AnswerProbe(p) \/ CloseProbe(p)
    BY <1>1, <2>4, ConnectionKeeps DEF ConnectProbe, AnswerProbe, CloseProbe
  <2> QED
    BY <1>4, <2>1, <2>2, <2>3, <2>4 DEF AdminTask
<1> QED
  BY <1>2, <1>3, <1>4, NextSplits

\* Every answer to the health path of a valid file is 200 or 503.
LEMMA HealthyAnswer ==
    ASSUME settings \in GoodSettings, NEW r, r.get,
           UriPath(r.target) = settings.admin.health_path,
           NEW s \in Handle(r, settings.admin.health_path)
    PROVE  s \in {200, 503}
<1>1. PICK f \in StartFiles : Outcome[f] = Ok /\ settings = Settings(f)
  BY DEF GoodSettings
<1>2. Valid(f)
  BY <1>1, LoadsIfValid DEF AllFiles
<1>3. settings.admin.health_path = Admin(f).health_path
  BY <1>1 DEF Settings
<1>4. settings.admin.health_path # MetricsPath
  <2>1. settings.admin.health_path.query = FALSE
    <3>1. DOMAIN UriPath(r.target) = DOMAIN r.target
      BY DEF UriPath
    <3>2. "query" \in DOMAIN settings.admin.health_path
      BY <1>3, AppAssumption
    <3> QED
      BY <3>1, <3>2 DEF UriPath
  <2> QED
    BY <1>2, <1>3, <2>1 DEF Valid, MetricsPath, Path
<1> QED
  BY <1>4 DEF Handle

\* The admin server leaves main and the settings alone.
LEMMA AdminTaskFrame ==
    ASSUME AdminTask
    PROVE  UNCHANGED <<procVars, signalVars, tokens, watch, reloadVars, disk, routerVars>>
  BY DEF AdminTask, AdminLoop, AdminStops, AcceptProbe, AcceptFailed, ConnectProbe, AnswerProbe,
         CloseProbe, NotAdmin

\* A probe of the health path is answered with 200 or 503 and nothing else.
LEMMA HealthStep == ASSUME IndInv, Next PROVE HealthInv'
<1> USE DEF HealthInv
<1>1. HealthInv /\ AdminInv /\ MainInv /\ ReloadInv /\ probe \in [Probes -> ProbeType]
  BY DEF IndInv, AdminInv
<1>2. CASE Load
  <2>1. main = "loading" /\ UNCHANGED probe /\ \A p \in Probes : probe[p].status = 0
    BY <1>1, <1>2 DEF Load, MainInv, StageInv, AdminInv, adminVars
  <2>2. main' = "binding" => settings' \in GoodSettings
    BY <1>1, <1>2, <2>1 DEF Load, ReloadInv, GoodSettings
  <2>3. main' \in {"binding", "failed"}
    BY <1>2 DEF Load
  <2> QED
    BY <2>1, <2>2, <2>3
<1>3. CASE Run
  BY <1>1, <1>3 DEF Run
<1>4. CASE Process /\ ~Load
  <2>1. UNCHANGED probe
    BY <1>4, ProcessFrame
  <2>2. UNCHANGED settings
    BY <1>4 DEF Process, Bind, ServeReturns, Exit, SignalTask, InstallTerm, InstallInt, CtrlCFails, Cancel,
                WatchDrains, WriteFile, ReloadTask, InstallHup, StartReload, ReloadStops, ReloadEnds,
                Job, ReadFile, Replace, Signal, TakeSnapshot, ReadKey, RouterStep, procVars
  <2>3. main' \notin {"failed", "killed"} => main \notin {"loading", "failed", "killed"} \/ main' = main
    BY <1>4, NextSplits
       DEF Process, Bind, ServeReturns, Exit, SignalTask, InstallTerm, InstallInt, CtrlCFails, Cancel,
                WatchDrains, WriteFile, ReloadTask, InstallHup, StartReload, ReloadStops, ReloadEnds,
                Job, ReadFile, Replace, Signal, TakeSnapshot, ReadKey, RouterStep, procVars
  <2> QED
    BY <1>1, <2>1, <2>2, <2>3
<1>5. CASE AdminTask
  <2>1. UNCHANGED <<main, settings>>
    BY <1>5, AdminTaskFrame DEF procVars
  <2>2. CASE \E p \in Probes : AnswerProbe(p)
    <3>1. PICK p \in Probes : Answer(p, settings.admin.health_path)
      BY <2>2 DEF AnswerProbe
    <3>2. PICK r \in Requests : \E s \in Handle(r, settings.admin.health_path) :
              probe' = [probe EXCEPT ![p] = [pc |-> "answered", request |-> r, status |-> s]]
      BY <3>1 DEF Answer
    <3>3. PICK s \in Handle(r, settings.admin.health_path) :
              probe' = [probe EXCEPT ![p] = [pc |-> "answered", request |-> r, status |-> s]]
      BY <3>2
    <3>4. settings \in GoodSettings
      <4>1. adminPc # "off"
        BY <1>1, <3>1 DEF AdminInv, Answer, Open
      <4> QED
        BY <1>1, <4>1, NextSplits DEF MainInv, StageInv, Alive, Ended
    <3>5. r.get /\ UriPath(r.target) = settings.admin.health_path => s \in {200, 503}
      BY <3>4, HealthyAnswer
    <3>6. /\ probe'[p].request = r /\ probe'[p].status = s
          /\ \A x \in Probes \ {p} : probe'[x] = probe[x]
      BY <1>1, <3>3
    <3> QED
      BY <1>1, <2>1, <3>5, <3>6
  <2>3. CASE ~\E p \in Probes : AnswerProbe(p)
    <3> DEFINE Kept(p) == probe'[p].status = 0 \/
              (probe'[p].status = probe[p].status /\ probe'[p].request = probe[p].request)
    <3>1. CASE UNCHANGED probe
      BY <1>1, <2>1, <3>1
    <3>2. CASE \E q \in Probes : Connect(q) \/ Accept(q) \/ Close(q)
      <4>1. PICK q \in Probes : Connect(q) \/ Accept(q) \/ Close(q)
        BY <3>2
      <4>2. \A p \in Probes : Kept(p)
        <5>1. CASE Connect(q) \/ Accept(q)
          <6>1. PICK pc : probe' = [probe EXCEPT ![q].pc = pc]
            BY <5>1 DEF Connect, Accept
          <6> QED
            BY <1>1, <6>1 DEF ProbeType
        <5>2. CASE Close(q)
          BY <1>1, <5>2 DEF Close, Gone, NotConnected
        <5> QED
          BY <4>1, <5>1, <5>2
      <4> QED
        BY <1>1, <2>1, <4>2
    <3>3. CASE AdminReturns
      <4>1. \A p \in Probes : Kept(p)
        BY <1>1, <3>3 DEF AdminReturns, Gone, NotConnected
      <4> QED
        BY <1>1, <2>1, <4>1
    <3>4. \/ UNCHANGED probe \/ AdminReturns
          \/ \E q \in Probes : Connect(q) \/ Accept(q) \/ Close(q)
      BY <1>5, <2>3
         DEF AdminTask, AdminLoop, AdminStops, AcceptProbe, AcceptFailed, ConnectProbe, CloseProbe,
             AcquireSlot, PauseEnds, Reap, AdminGraceElapses, StopAccepting, AcceptFails
    <3> QED
      BY <3>1, <3>2, <3>3, <3>4
  <2> QED
    BY <2>2, <2>3
<1> QED
  BY <1>2, <1>3, <1>4, <1>5, NextSplits

-----------------------------------------------------------------------------
(* main and the router.                                                    *)

\* The router counts its connections in and out, and never leaves "stopped".
LEMMA RouterKeeps ==
    ASSUME RouterInv, RouterStep PROVE RouterInv' /\ (phase = "stopped" => phase' = "stopped")
<1> USE DEF RouterInv
<1>1. CASE \E c \in Conns : Admits(c) \/ Commits(c)
  BY <1>1 DEF Admits, Commits, RouterSpec!Admit, RouterSpec!Commit, Places
<1>2. CASE \E c \in Conns : EndsOrLeaves(c)
  <2>1. PICK c \in Conns : EndsOrLeaves(c)
    BY <1>2
  <2>2. c \in RouterSpec!Inside /\ UNCHANGED phase
    BY <2>1 DEF EndsOrLeaves, RouterSpec!End, RouterSpec!Leave, RouterSpec!Inside
  <2>3. place' \in [Conns -> Places]
    BY <2>1 DEF EndsOrLeaves, RouterSpec!End, RouterSpec!Leave, Places
  <2> QED
    BY <2>2, <2>3
<1>3. CASE Drains \/ ForcesOrStops
  BY <1>3 DEF Drains, ForcesOrStops, RouterSpec!Drain, RouterSpec!Force, RouterSpec!Stop,
              RouterSpec!Inside
<1> QED
  BY <1>1, <1>2, <1>3 DEF RouterStep

\* A step of anyone but the router leaves it alone.
LEMMA RouterFrame ==
    ASSUME Next, ~RouterStep PROVE UNCHANGED <<phase, place>>
<1>1. CASE Run
  BY <1>1 DEF Run, routerVars
<1>2. CASE Process
  BY <1>2 DEF Process, Load, Bind, ServeReturns, Exit, SignalTask, InstallTerm, InstallInt, CtrlCFails, Cancel,
              WatchDrains, WriteFile, ReloadTask, InstallHup, StartReload, ReloadStops, ReloadEnds,
              Job, ReadFile, Replace, Signal, TakeSnapshot, ReadKey, routerVars
<1>3. CASE AdminTask
  BY <1>3, AdminTaskFrame DEF routerVars
<1> QED
  BY <1>1, <1>2, <1>3, NextSplits

\* main leaves a stage only when what the stage waits for is done.
LEMMA StageStep == ASSUME StageInv, AdminInv, RouterInv, Next PROVE StageInv'
<1> USE DEF StageInv, Ended
<1>0. Alive
  BY NextSplits
<1>1. CASE Load \/ Bind \/ Run \/ ServeReturns \/ Exit
  BY <1>1
     DEF Load, Bind, Run, ServeReturns, Exit, Accepting, adminVars, tokens, reloadVars, routerVars
<1>2. CASE SignalTask \/ WatchDrains \/ WriteFile
  BY <1>2 DEF SignalTask, InstallTerm, InstallInt, CtrlCFails, Cancel, WatchDrains, SetDraining, WriteFile,
              adminVars, tokens, reloadVars, routerVars, procVars
<1>3. CASE ReloadTask \/ \E j \in Jobs : Job(j)
  <2>1. /\ UNCHANGED <<main, adminPc, draining, watch, adminShutdown, phase>>
        /\ reload = "off" => reload' = "off"
    BY <1>3
       DEF ReloadTask, InstallHup, StartReload, ReloadStops, ReloadEnds, Job, ReadFile, Replace,
              adminVars, tokens, routerVars, procVars
  <2> QED
    BY <1>0, <2>1 DEF Alive
<1>4. CASE \E s \in {"TERM", "INT", "HUP"} : Signal(s)
  <2>1. /\ UNCHANGED <<adminPc, draining, watch, adminShutdown, reload, phase>>
        /\ main' = main \/ main' = "killed"
    BY <1>4 DEF Signal, adminVars, tokens, routerVars
  <2> QED
    BY <2>1
<1>5. CASE \E c \in Conns : TakeSnapshot(c) \/ ReadKey(c)
  BY <1>5 DEF TakeSnapshot, ReadKey, adminVars, tokens, routerVars, procVars
<1>6. CASE RouterStep
  <2>1. UNCHANGED <<main, adminPc, draining, watch, adminShutdown, reload>>
    BY <1>6 DEF RouterStep, adminVars, tokens, procVars
  <2> QED
    BY <1>6, <2>1, RouterKeeps
<1>7. CASE AdminTask
  <2>1. UNCHANGED <<main, watch, adminShutdown, reload, phase>>
    BY <1>7, AdminTaskFrame DEF procVars, tokens, reloadVars, routerVars
  <2>2. UNCHANGED draining
    BY <1>7 DEF AdminTask, AdminLoop, AdminStops, AcceptProbe, AcceptFailed, ConnectProbe,
                AnswerProbe, CloseProbe, AcquireSlot, PauseEnds, Reap, AdminGraceElapses,
                AdminReturns, StopAccepting, Accept, AcceptFails, Connect, Answer, Close
  <2>3. /\ adminPc = "off" => adminPc' = "off"
        /\ adminPc \in Accepting /\ ~adminShutdown => adminPc' \in Accepting
    BY <1>7 DEF AdminTask, AdminLoop, AdminStops, AcceptProbe, AcceptFailed, ConnectProbe,
                AnswerProbe, CloseProbe, AcquireSlot, PauseEnds, Reap, AdminGraceElapses,
                AdminReturns, StopAccepting, Accept, AcceptFails, Connect, Answer, Close, Accepting
  <2> QED
    BY <1>0, <2>1, <2>2, <2>3 DEF Alive
<1> QED
  BY <1>1, <1>2, <1>3, <1>4, <1>5, <1>6, <1>7, NextSplits DEF Process

\* main, its tokens and the router keep their places.
LEMMA MainStep == ASSUME IndInv, Next PROVE MainInv'
<1>1. StageInv /\ RouterInv /\ AdminInv
  BY DEF IndInv, MainInv
<1>2. RouterInv'
  <2>1. CASE RouterStep
    BY <1>1, <2>1, RouterKeeps
  <2>2. CASE ~RouterStep
    <3>1. UNCHANGED <<phase, place>>
      BY <2>2, RouterFrame
    <3>2. RouterSpec!Inside' = RouterSpec!Inside
      BY <3>1 DEF RouterSpec!Inside
    <3> QED
      BY <1>1, <3>1, <3>2 DEF RouterInv
  <2> QED
    BY <2>1, <2>2
<1>3. StageInv'
  BY <1>1, StageStep
<1> QED
  BY <1>2, <1>3 DEF MainInv

-----------------------------------------------------------------------------
(* The reload task.                                                        *)

\* Nothing of the reloads changes, and main neither loads nor fails.
LEMMA ReloadFrameKeeps ==
    ASSUME ReloadInv, UNCHANGED <<settings, reload, job, table, disk>>,
           main' = main \/ (main' \notin {"loading", "failed"} /\ main \notin {"loading", "failed", "killed"})
               \/ main' = "killed"
    PROVE  ReloadInv'
<1>1. RoutesInForce'
  BY DEF ReloadInv, RoutesInForce, ValidTables, Valid
<1> QED
  BY <1>1 DEF ReloadInv

\* A table that is put in force is that of one valid file.
LEMMA TableOfValid ==
    ASSUME NEW f \in AllFiles, Outcome[f] = Ok
    PROVE  BuildRouteTable(f.routes) \in Tables /\ BuildRouteTable(f.routes) \in ValidTables
<1>1. Valid(f)
  BY LoadsIfValid
<1> QED
  BY <1>1 DEF Tables, ValidTables, AllFiles

\* AppConfig::load puts one file's routes in force, or none.
LEMMA LoadKeeps == ASSUME IndInv, Load PROVE ReloadInv'
<1>1. /\ main = "loading" /\ ReloadInv /\ reload = "off" /\ UNCHANGED <<disk, job, reload>>
      /\ disk.file \in StartFiles /\ disk.file \in AllFiles /\ disk.version \in Nat
  BY DEF IndInv, MainInv, StageInv, Load, ReloadInv, AllFiles
<1>2. \A j \in Jobs : job[j].pc = "free"
  BY <1>1 DEF ReloadInv
<1>3. CASE Outcome[disk.file] = Ok
  <2>1. /\ main' = "binding"
        /\ table' = [version |-> disk.version, routes |-> BuildRouteTable(disk.file.routes)]
    BY <1>3 DEF Load
  <2>2. table'.routes \in Tables /\ table'.routes \in ValidTables
    BY <1>1, <1>3, <2>1, TableOfValid
  <2>3. table' \in TableType /\ table'.version = disk.version
    BY <1>1, <2>1, <2>2 DEF TableType
  <2>4. RoutesInForce'
    BY <2>1, <2>2 DEF RoutesInForce, ValidTables
  <2> QED
    BY <1>1, <1>2, <2>1, <2>3, <2>4 DEF ReloadInv
<1>4. CASE Outcome[disk.file] # Ok
  <2>1. main' = "failed" /\ UNCHANGED <<settings, table>>
    BY <1>4 DEF Load
  <2>2. ~Valid(disk.file)
    BY <1>1, <1>4, LoadsIfValid
  <2>3. RoutesInForce'
    BY <1>1, <2>1, <2>2 DEF RoutesInForce, Valid
  <2> QED
    BY <1>1, <1>2, <2>1, <2>3 DEF ReloadInv
<1> QED
  BY <1>3, <1>4

\* Binding the sockets leaves the routes alone.
LEMMA BindKeeps == ASSUME IndInv, Bind PROVE ReloadInv'
<1>1. /\ main = "binding" /\ main' \in {"binding", "bound", "failed"}
      /\ UNCHANGED <<settings, reload, job, table, disk>>
  BY DEF Bind, reloadVars
<1>2. settings # None
  <2>1. settings \in GoodSettings
    BY <1>1 DEF IndInv, HealthInv
  <2>2. PICK f \in StartFiles : settings = Settings(f)
    BY <2>1 DEF GoodSettings
  <2> QED
    BY <2>2, AppAssumption
<1>3. ReloadInv /\ RoutesInForce'
  BY <1>1, <1>2 DEF IndInv, ReloadInv, RoutesInForce, ValidTables, Valid
<1> QED
  BY <1>1, <1>3 DEF ReloadInv

\* Routes that nobody replaces stay those of one file.
LEMMA OneFileFrame ==
    ASSUME RoutesInForce, Alive, UNCHANGED <<main, table>> PROVE RoutesInForce'
  BY DEF RoutesInForce, Alive, Ended, ValidTables

\* A reload job starts without a file.
LEMMA StartReloadKeeps == ASSUME ReloadInv, Alive, StartReload PROVE ReloadInv'
<1>1. PICK j \in Jobs : job[j].pc = "free" /\ job' = [job EXCEPT ![j].pc = "spawned"]
  BY DEF StartReload
<1>2. \A i \in Jobs : job[i].pc = "free"
  BY DEF ReloadInv, StartReload
<1>3. reload' = "reloading" /\ UNCHANGED <<main, settings, table, disk>>
  BY DEF StartReload, procVars
<1>4. job' \in [Jobs -> JobType] /\ \A i \in Jobs : job'[i].pc = IF i = j THEN "spawned" ELSE "free"
  BY <1>1, <1>2 DEF ReloadInv, JobType
<1>5. RoutesInForce'
  BY <1>3, OneFileFrame DEF ReloadInv
<1> QED
  BY <1>3, <1>4, <1>5 DEF ReloadInv

\* A reload job reads the file that is on disk then.
LEMMA ReadFileKeeps == ASSUME ReloadInv, Alive, NEW j \in Jobs, ReadFile(j) PROVE ReloadInv'
<1>1. /\ UNCHANGED <<main, settings, table, disk, reload>> /\ job[j].pc = "spawned"
      /\ job' = [job EXCEPT ![j] = [pc |-> "read", version |-> disk.version, file |-> disk.file]]
  BY DEF ReadFile, procVars
<1>2. disk.version \in Nat /\ disk.file \in AllFiles
  BY DEF ReloadInv
<1>3. /\ job' \in [Jobs -> JobType]
      /\ \A i \in Jobs : i # j => job'[i] = job[i]
      /\ job'[j].pc = "read" /\ job'[j].version = disk.version /\ job'[j].file = disk.file
  BY <1>1, <1>2 DEF ReloadInv, JobType
<1>4. RoutesInForce'
  BY <1>1, OneFileFrame DEF ReloadInv
<1>5. /\ \A i, k \in Jobs : job'[i].pc # "free" /\ job'[k].pc # "free" => i = k
      /\ \A i \in Jobs : job'[i].pc # "free" => reload = "reloading"
  BY <1>1, <1>3 DEF ReloadInv
<1>6. \A i \in Jobs : job'[i].pc = "read" =>
          /\ job'[i].file \in AllFiles
          /\ table.version <= job'[i].version /\ job'[i].version <= disk.version
  BY <1>2, <1>3 DEF ReloadInv
<1> QED
  BY <1>1, <1>3, <1>4, <1>5, <1>6 DEF ReloadInv

\* A job puts the routes of the file it read in force, if that file loads.
LEMMA ReplaceKeeps == ASSUME ReloadInv, Alive, NEW j \in Jobs, Replace(j) PROVE ReloadInv'
<1>1. /\ UNCHANGED <<main, settings, disk, reload>> /\ job[j].pc = "read"
      /\ job' = [job EXCEPT ![j].pc = "done"]
  BY DEF Replace, procVars
<1>2. /\ job[j].file \in AllFiles /\ job[j].version \in Int /\ table.version \in Int
      /\ disk.version \in Int
      /\ table.version <= job[j].version /\ job[j].version <= disk.version
  BY <1>1 DEF ReloadInv, JobType, TableType
<1>3. /\ job' \in [Jobs -> JobType]
      /\ \A i \in Jobs : i # j => job'[i] = job[i] /\ job[i].pc = "free"
      /\ job'[j].pc = "done"
  BY <1>1 DEF ReloadInv, JobType
<1>4. CASE Outcome[job[j].file] = Ok
  <2>1. table' = [version |-> job[j].version, routes |-> BuildRouteTable(job[j].file.routes)]
    BY <1>4 DEF Replace
  <2>2. table'.routes \in Tables /\ table'.routes \in ValidTables
    BY <1>2, <1>4, <2>1, TableOfValid
  <2>3. table' \in TableType /\ table'.version = job[j].version
    BY <1>2, <2>1, <2>2 DEF TableType
  <2>4. RoutesInForce'
    BY <1>1, <2>2 DEF RoutesInForce, ValidTables, Alive, Ended
  <2>5. reload = "reloading" /\ disk \in [version : Nat, file : AllFiles]
        /\ (main = "loading" => disk.file \in StartFiles /\ settings = None)
    BY <1>1 DEF ReloadInv
  <2> QED
    BY <1>1, <1>2, <1>3, <2>3, <2>4, <2>5 DEF ReloadInv
<1>5. CASE Outcome[job[j].file] # Ok
  <2>1. UNCHANGED table
    BY <1>5 DEF Replace
  <2>2. RoutesInForce'
    BY <1>1, <2>1, OneFileFrame DEF ReloadInv
  <2> QED
    BY <1>1, <1>3, <2>1, <2>2 DEF ReloadInv
<1> QED
  BY <1>4, <1>5

\* A job that has ended is free again.
LEMMA ReloadEndsKeeps ==
    ASSUME ReloadInv, Alive, NEW j \in Jobs, ReloadEnds(j) PROVE ReloadInv'
<1>1. /\ UNCHANGED <<main, settings, disk, table>> /\ job[j].pc = "done"
      /\ job' = [job EXCEPT ![j] = FreeJob]
  BY DEF ReloadEnds, procVars
<1>2. FreeJob \in JobType /\ FreeJob.pc = "free"
  BY DEF FreeJob, JobType
<1>3. job' \in [Jobs -> JobType] /\ \A i \in Jobs : job'[i].pc = "free"
  BY <1>1, <1>2 DEF ReloadInv
<1>4. RoutesInForce'
  BY <1>1, OneFileFrame DEF ReloadInv
<1> QED
  BY <1>1, <1>3, <1>4 DEF ReloadInv

\* The reload task has no job while it waits for SIGHUP.
LEMMA WaitingKeeps ==
    ASSUME ReloadInv, Alive, InstallHup \/ ReloadStops PROVE ReloadInv'
<1>1. UNCHANGED <<main, settings, disk, table, job>> /\ reload # "reloading"
  BY DEF InstallHup, ReloadStops, procVars
<1>2. \A j \in Jobs : job[j].pc = "free"
  BY <1>1 DEF ReloadInv
<1>3. RoutesInForce'
  BY <1>1, OneFileFrame DEF ReloadInv
<1> QED
  BY <1>1, <1>2, <1>3 DEF ReloadInv

\* An operator may write any file at any time.
LEMMA WriteFileKeeps == ASSUME ReloadInv, Alive, WriteFile PROVE ReloadInv'
<1>1. PICK f \in Files : disk' = [version |-> disk.version + 1, file |-> f]
  BY DEF WriteFile
<1>2. UNCHANGED <<main, settings, job, table, reload>> /\ main # "loading"
  BY DEF WriteFile, procVars
<1>3. disk' \in [version : Nat, file : AllFiles] /\ disk'.version = disk.version + 1
      /\ disk.version \in Nat
  BY <1>1 DEF ReloadInv, AllFiles
<1>4. RoutesInForce'
  BY <1>2, OneFileFrame DEF ReloadInv
<1>5. table.version \in Int /\ \A j \in Jobs : job[j].version \in Int
  BY DEF ReloadInv, TableType, JobType
<1> QED
  BY <1>2, <1>3, <1>4, <1>5 DEF ReloadInv

\* Every step keeps one loaded file's routes in force.
LEMMA ReloadStep == ASSUME IndInv, Next PROVE ReloadInv'
<1>1. ReloadInv /\ Alive
  BY NextSplits DEF IndInv
<1>2. CASE Load \/ Bind
  BY <1>2, LoadKeeps, BindKeeps
<1>3. CASE Run \/ ServeReturns \/ Exit \/ \E s \in {"TERM", "INT", "HUP"} : Signal(s)
  <2>1. CASE Run
    <3>1. reload = "off" /\ reload' = "spawned"
      BY <2>1 DEF Run, IndInv, MainInv, StageInv
    <3>2. \A j \in Jobs : job[j].pc = "free"
      BY <1>1, <3>1 DEF ReloadInv
    <3>3. UNCHANGED <<settings, disk, table, job>> /\ main = "bound" /\ main' = "serving"
      BY <2>1 DEF Run
    <3>4. RoutesInForce'
      BY <1>1, <3>3 DEF ReloadInv, RoutesInForce, ValidTables
    <3> QED
      BY <1>1, <3>2, <3>3, <3>4 DEF ReloadInv
  <2>2. CASE ServeReturns \/ Exit
    BY <1>1, <2>2, ReloadFrameKeeps DEF ServeReturns, Exit, reloadVars
  <2>3. CASE \E s \in {"TERM", "INT", "HUP"} : Signal(s)
    BY <1>1, <2>3, ReloadFrameKeeps DEF Signal
  <2> QED
    BY <1>3, <2>1, <2>2, <2>3
<1>4. CASE SignalTask \/ WatchDrains \/ RouterStep \/ \E c \in Conns : TakeSnapshot(c) \/ ReadKey(c)
  <2>1. UNCHANGED <<main, settings, reload, job, table, disk>>
    BY <1>4 DEF SignalTask, InstallTerm, InstallInt, CtrlCFails, Cancel, WatchDrains, RouterStep, TakeSnapshot,
                ReadKey, procVars, reloadVars
  <2> QED
    BY <1>1, <2>1, ReloadFrameKeeps
<1>5. CASE ReloadTask \/ WriteFile \/ \E j \in Jobs : Job(j)
  BY <1>1, <1>5, StartReloadKeeps, ReadFileKeeps, ReplaceKeeps, ReloadEndsKeeps, WaitingKeeps,
     WriteFileKeeps DEF ReloadTask, Job
<1>6. CASE AdminTask
  <2>1. UNCHANGED <<main, settings, reload, job, table, disk>>
    BY <1>6, AdminTaskFrame DEF procVars, reloadVars
  <2> QED
    BY <1>1, <2>1, ReloadFrameKeeps
<1> QED
  BY <1>2, <1>3, <1>4, <1>5, <1>6, NextSplits DEF Process

-----------------------------------------------------------------------------
(* Lookups.                                                                *)

\* The candidates are a list, and never an empty one.
LEMMA CandidatesAreAList ==
    /\ Len(Candidates) \in Nat \ {0}
    /\ DOMAIN Candidates = 1 .. Len(Candidates)
    /\ Candidates \in [1 .. Len(Candidates) -> Keys]
<1> DEFINE S == {ExactKey(Host), WildcardKey(Tail(Host))}
           first == <<ExactKey(Host)>>
           rest == IF Len(Host) >= 3 THEN <<WildcardKey(Tail(Host))>> ELSE <<>>
<1>1. first \in Seq(S) /\ Len(first) = 1 /\ rest \in Seq(S)
  <2>1. first \in Seq(S) /\ Len(first) = 1
    OBVIOUS
  <2>2. <<WildcardKey(Tail(Host))>> \in Seq(S) /\ <<>> \in Seq(S)
    BY EmptySeq
  <2> QED
    BY <2>1, <2>2
<1>2. Candidates \in Seq(S) /\ Candidates # <<>>
  <2>1. Candidates = first \o rest
    BY DEF Candidates, CandidateKeys
  <2> HIDE DEF first, rest, S
  <2>2. Candidates \in Seq(S) /\ Len(Candidates) = 1 + Len(rest) /\ Len(rest) \in Nat
    BY <1>1, <2>1, ConcatProperties, LenProperties
  <2>3. Len(Candidates) # 0
    BY <2>2
  <2> QED
    BY <2>2, <2>3, EmptySeq
<1> HIDE DEF S
<1>3. Len(Candidates) \in Nat \ {0} /\ DOMAIN Candidates = 1 .. Len(Candidates)
  BY <1>2, LenProperties, EmptySeq
<1>4. Candidates \in [DOMAIN Candidates -> Keys]
  BY <1>2 DEF Keys
<1> QED
  BY <1>3, <1>4

\* What a lookup that has begun satisfies.
Begun(r) ==
    /\ r.snapshot.routes \in r.era
    /\ Len(r.seen) <= Len(Candidates)
    /\ \A i \in 1 .. Len(r.seen) : r.seen[i] = AnswerFor(r.snapshot.routes, Candidates[i])

\* One lookup changes.
LEMMA OneLookup ==
    ASSUME LookupInv, NEW c \in Conns, NEW r \in LookupType, lookup' = [lookup EXCEPT ![c] = r],
           r = NoLookup \/ Begun(r)
    PROVE  LookupInv'
<1>1. lookup' \in [Conns -> LookupType]
  BY DEF LookupInv
<1>2. \A d \in Conns : lookup'[d] = IF d = c THEN r ELSE lookup[d]
  BY DEF LookupInv
<1> QED
  BY <1>1, <1>2 DEF LookupInv, Begun

\* No lookup is a lookup without a snapshot.
LEMMA NoLookupType == NoLookup \in LookupType
<1>1. NoRoutes \in TableType
  BY DEF NoRoutes, TableType, Tables
<1> QED
  BY <1>1, EmptySeq DEF NoLookup, LookupType

\* A lookup begins with the table in force.
LEMMA SnapshotKeeps ==
    ASSUME LookupInv, table \in TableType, NEW c \in Conns, TakeSnapshot(c) PROVE LookupInv'
<1> DEFINE r == [snapshot |-> table, seen |-> <<>>, era |-> {table.routes}]
<1>1. lookup' = [lookup EXCEPT ![c] = r]
  BY DEF TakeSnapshot
<1>2. r \in LookupType
  BY EmptySeq DEF LookupType, TableType
<1>3. Begun(r)
  BY CandidatesAreAList DEF Begun
<1> QED
  BY <1>1, <1>2, <1>3, OneLookup

\* Every key of a lookup is read from the snapshot it began with.
LEMMA ReadKeyKeeps == ASSUME LookupInv, NEW c \in Conns, ReadKey(c) PROVE LookupInv'
<1> DEFINE seen == lookup[c].seen
           routes == lookup[c].snapshot.routes
           next == Len(seen) + 1
           answer == AnswerFor(routes, Candidates[next])
           r == [lookup[c] EXCEPT !.seen = Append(seen, answer)]
<1>1. lookup[c] \in LookupType /\ Begun(lookup[c]) /\ Len(seen) # Len(Candidates)
  BY DEF LookupInv, Begun, ReadKey, LookingUp, LookedUp
<1>2. seen \in Seq(Answers) /\ Len(seen) \in Nat /\ routes \in Tables
  BY <1>1, LenProperties DEF LookupType, TableType
<1>3. next \in 1 .. Len(Candidates)
  BY <1>1, <1>2, CandidatesAreAList DEF Begun
<1>4. answer \in Answers
  <2>1. Candidates[next] \in Keys
    BY <1>3, CandidatesAreAList
  <2> HIDE DEF routes, next
  <2> QED
    BY <1>2, <2>1 DEF Answers
<1>5. lookup' = [lookup EXCEPT ![c] = r]
  BY DEF ReadKey, Source
<1>6. /\ Append(seen, answer) \in Seq(Answers)
      /\ Len(Append(seen, answer)) = next
      /\ \A i \in 1 .. next : Append(seen, answer)[i] = IF i = next THEN answer ELSE seen[i]
  <2> HIDE DEF seen, answer
  <2> QED
    BY <1>2, <1>4
<1>7. /\ r \in LookupType
      /\ r.snapshot = lookup[c].snapshot /\ r.era = lookup[c].era /\ r.seen = Append(seen, answer)
  BY <1>1, <1>6 DEF LookupType
<1>8. \A i \in 1 .. next : r.seen[i] = AnswerFor(routes, Candidates[i])
  <2>1. \A i \in 1 .. Len(seen) : seen[i] = AnswerFor(routes, Candidates[i])
    BY <1>1 DEF Begun
  <2>2. \A i \in 1 .. next : i = next \/ i \in 1 .. Len(seen)
    BY <1>2
  <2> HIDE DEF seen, r
  <2> QED
    BY <1>6, <1>7, <2>1, <2>2
<1>9. Begun(r)
  BY <1>1, <1>3, <1>6, <1>7, <1>8, CandidatesAreAList DEF Begun
<1> HIDE DEF r
<1> QED
  BY <1>5, <1>7, <1>9, OneLookup

\* A replaced table is noted by the lookups under way and read by none of them.
LEMMA ReplaceKeepsLookups ==
    ASSUME LookupInv, table' \in TableType, NEW j \in Jobs, Replace(j) PROVE LookupInv'
<1>1. CASE UNCHANGED lookup
  BY <1>1 DEF LookupInv
<1>2. CASE lookup' = [c \in Conns |->
                         IF LookingUp(c) THEN [lookup[c] EXCEPT !.era = @ \cup {table'.routes}]
                         ELSE lookup[c]]
  <2>1. table'.routes \in Tables
    BY DEF TableType
  <2>2. ASSUME NEW c \in Conns PROVE lookup'[c] \in LookupType /\ (lookup'[c] # NoLookup => Begun(lookup'[c]))
    <3>1. lookup[c] \in LookupType /\ (lookup[c] # NoLookup => Begun(lookup[c]))
      BY DEF LookupInv, Begun
    <3>2. CASE LookingUp(c)
      <4> DEFINE r == [lookup[c] EXCEPT !.era = @ \cup {table'.routes}]
      <4>1. r \in LookupType
        BY <2>1, <3>1 DEF LookupType
      <4>2. /\ r.snapshot = lookup[c].snapshot /\ r.seen = lookup[c].seen
            /\ lookup[c].era \subseteq r.era
        BY <3>1 DEF LookupType
      <4>3. Begun(r)
        BY <3>1, <3>2, <4>2 DEF Begun, LookingUp
      <4> QED
        BY <1>2, <3>2, <4>1, <4>3
    <3>3. CASE ~LookingUp(c)
      BY <1>2, <3>1, <3>3
    <3> QED
      BY <3>2, <3>3
  <2>3. lookup' \in [Conns -> LookupType]
    BY <1>2, <2>2
  <2> QED
    BY <2>2, <2>3 DEF LookupInv, Begun
<1> QED
  BY <1>1, <1>2 DEF Replace

\* Every step keeps each lookup within its snapshot.
LEMMA LookupStep == ASSUME IndInv, Next PROVE LookupInv'
<1>1. LookupInv /\ table \in TableType
  BY DEF IndInv, ReloadInv
<1>2. CASE \E c \in Conns : TakeSnapshot(c) \/ ReadKey(c)
  BY <1>1, <1>2, SnapshotKeeps, ReadKeyKeeps
<1>3. CASE \E j \in Jobs : Job(j)
  <2>1. PICK j \in Jobs : ReadFile(j) \/ Replace(j)
    BY <1>3 DEF Job
  <2>2. CASE ReadFile(j)
    BY <1>1, <2>2 DEF ReadFile, LookupInv
  <2>3. CASE Replace(j)
    <3>1. table' \in TableType
      BY ReloadStep DEF ReloadInv
    <3> QED
      BY <1>1, <2>3, <3>1, ReplaceKeepsLookups
  <2> QED
    BY <2>1, <2>2, <2>3
<1>4. CASE RouterStep
  <2>1. CASE UNCHANGED lookup
    BY <1>1, <2>1 DEF LookupInv
  <2>2. CASE \E c \in Conns : lookup' = [lookup EXCEPT ![c] = NoLookup]
    BY <1>1, <2>2, NoLookupType, OneLookup
  <2> QED
    BY <1>4, <2>1, <2>2 DEF RouterStep, Admits, Commits, EndsOrLeaves, Drains, ForcesOrStops
<1>5. CASE UNCHANGED lookup
  BY <1>1, <1>5 DEF LookupInv
<1>6. CASE Run \/ AdminTask
  BY <1>5, <1>6, AdminTaskFrame DEF Run, reloadVars
<1>7. CASE Load \/ Bind \/ ServeReturns \/ Exit \/ SignalTask \/ WatchDrains \/ ReloadTask \/ WriteFile
           \/ \E s \in {"TERM", "INT", "HUP"} : Signal(s)
  BY <1>5, <1>7 DEF Load, Bind, ServeReturns, Exit, SignalTask, InstallTerm, InstallInt, CtrlCFails, Cancel,
              WatchDrains, WriteFile, ReloadTask, InstallHup, StartReload, ReloadStops, ReloadEnds,
              Signal, reloadVars
<1> QED
  BY <1>2, <1>3, <1>4, <1>6, <1>7, NextSplits DEF Process

-----------------------------------------------------------------------------
(* The invariant, and what follows from it.                                *)

\* The process starts with nothing bound, loaded, spawned or connected.
LEMMA InitInd == Init => IndInv
<1> SUFFICES ASSUME Init PROVE IndInv
  OBVIOUS
<1>1. AdminInv
  <2>1. NotConnected \in ProbeType /\ NotConnected.pc = "out" /\ NotConnected.status = 0
    BY DEF NotConnected, ProbeType
  <2>2. probe = [p \in Probes |-> NotConnected] /\ adminPc = "off" /\ adminSlots = AdminSlots
        /\ finished = {}
    BY DEF Init, AdminInit
  <2>3. Open = {} /\ probe \in [Probes -> ProbeType] /\ \A p \in Probes : probe[p].status = 0
    BY <2>1, <2>2 DEF Open
  <2>4. IsFiniteSet(Open) /\ Cardinality(Open) = 0
    BY <2>3, FS_EmptySet
  <2> QED
    BY <2>2, <2>3, <2>4, AdminAssumption DEF AdminInv, AdminPcs, AdminSlotsConserved, SlotsBack
<1>2. HealthInv
  BY DEF Init, AdminInit, HealthInv, NotConnected
<1>3. MainInv
  BY DEF Init, AdminInit, MainInv, StageInv, RouterInv, RouterSpec!Init, Places
<1>4. ReloadInv
  <2>1. FreeJob \in JobType /\ FreeJob.pc = "free"
    BY DEF FreeJob, JobType
  <2>2. NoRoutes \in TableType /\ NoRoutes.version = -1
    BY DEF NoRoutes, TableType, Tables
  <2>3. /\ disk \in [version : Nat, file : AllFiles] /\ disk.file \in StartFiles
        /\ disk.version = 0
    BY DEF Init, AllFiles
  <2> QED
    BY <2>1, <2>2, <2>3 DEF Init, ReloadInv, RoutesInForce
<1>5. LookupInv
  BY NoLookupType DEF Init, LookupInv
<1> QED
  BY <1>1, <1>2, <1>3, <1>4, <1>5 DEF IndInv

\* A step that changes nothing keeps everything.
LEMMA StutterKeeps == ASSUME IndInv, UNCHANGED vars PROVE IndInv'
<1>1. AdminInv'
  BY AdminFrameKeeps DEF IndInv, vars, adminVars
<1>2. HealthInv'
  BY DEF IndInv, HealthInv, vars, procVars, adminVars
<1>3. MainInv'
  BY DEF IndInv, MainInv, StageInv, RouterInv, RouterSpec!Inside, vars, procVars, tokens,
     reloadVars,
         routerVars, adminVars
<1>4. ReloadInv'
  BY ReloadFrameKeeps DEF IndInv, vars, procVars, reloadVars
<1>5. LookupInv'
  BY DEF IndInv, LookupInv, vars, reloadVars
<1> QED
  BY <1>1, <1>2, <1>3, <1>4, <1>5 DEF IndInv

\* The invariant of the process: main, its tasks, the admin server and lookups.
THEOREM AppInvariant == SafeSpec => []IndInv
<1>1. IndInv /\ Next => IndInv'
  BY AdminStep, HealthStep, MainStep, ReloadStep, LookupStep DEF IndInv
<1>2. IndInv /\ UNCHANGED vars => IndInv'
  BY StutterKeeps
<1> QED
  BY <1>1, <1>2, InitInd, PTL DEF SafeSpec

\* A slot of the admin listener is never lost and never used twice (admin.rs,
\* accept_with_slot and AdminServer::serve).
THEOREM AdminSlotsAreConserved == SafeSpec => []AdminSlotsConserved
<1>1. IndInv => AdminSlotsConserved
  BY DEF IndInv, AdminInv
<1> QED
  BY <1>1, AppInvariant, PTL

\* While the router serves or drains the admin server accepts, and a health
\* probe of the configured path gets 200 or 503 (run, AdminRoutes::handle, RawAdmin::validate).
THEOREM DrainIsSeen == SafeSpec => []ProbesSeeDrain
<1>1. IndInv => ProbesSeeDrain
  BY DEF IndInv, HealthInv, MainInv, StageInv, ProbesSeeDrain, Accepting
<1> QED
  BY <1>1, AppInvariant, PTL

\* run returns only when nothing it started is left (BoundApp::run).
THEOREM NothingIsLeft == SafeSpec => []NothingLeftAtExit
<1>1. ASSUME IndInv, main = "exited"
      PROVE  /\ RouterSpec!Inside = {} /\ Open = {} /\ Queued = {} /\ draining
             /\ reload = "ended" /\ \A j \in Jobs : job[j].pc = "free"
  <2>1. phase = "stopped" /\ watch = "done" /\ reload = "ended" /\ adminPc = "ended"
    BY <1>1 DEF IndInv, MainInv, StageInv
  <2>2. RouterSpec!Inside = {} /\ draining
    BY <1>1, <2>1 DEF IndInv, MainInv, StageInv, RouterInv
  <2>3. Open = {} /\ Queued = {}
    BY <1>1, <2>1 DEF IndInv, AdminInv
  <2>4. \A j \in Jobs : job[j].pc = "free"
    BY <1>1, <2>1 DEF IndInv, ReloadInv
  <2> QED
    BY <2>1, <2>2, <2>3, <2>4
<1>2. IndInv => NothingLeftAtExit
  BY <1>1 DEF NothingLeftAtExit
<1> QED
  BY <1>2, AppInvariant, PTL

\* The routes in force are those of one file that was valid as a whole, the
\* settings those of a valid startup file, and no valid file is refused
\* (AppConfig::load, reload_from_path).
THEOREM RoutesOfOneFile == SafeSpec => []OneFileInForce
<1>1. GoodSettings = ValidSettings
  BY LoadsIfValid DEF GoodSettings, ValidSettings, AllFiles
<1>2. IndInv => OneFileInForce
  BY <1>1 DEF IndInv, ReloadInv, RoutesInForce, HealthInv, OneFileInForce
<1> QED
  BY <1>2, AppInvariant, PTL

\* A reload never puts an older table over a newer one (reload_from_path).
THEOREM ReloadsOnlyGoForward == SafeSpec => RoutesNeverGoBack
<1>1. ASSUME IndInv, Next PROVE table' = table \/ table'.version >= table.version
  <2>1. CASE Load
    <3>1. table' = table \/ table' = [version |-> disk.version, routes |-> BuildRouteTable(disk.file.routes)]
      BY <2>1 DEF Load
    <3>2. table.version \in Int /\ disk.version \in Int /\ table.version <= disk.version
      BY <1>1 DEF IndInv, ReloadInv, TableType
    <3> QED
      BY <3>1, <3>2
  <2>2. CASE \E j \in Jobs : Job(j)
    <3>1. PICK j \in Jobs : ReadFile(j) \/ Replace(j)
      BY <2>2 DEF Job
    <3>2. CASE ReadFile(j)
      BY <3>2 DEF ReadFile
    <3>3. CASE Replace(j)
      <4>1. table' = table \/ table' = [version |-> job[j].version,
                                        routes |-> BuildRouteTable(job[j].file.routes)]
        BY <3>3 DEF Replace
      <4>2. /\ table.version \in Int /\ job[j].version \in Int
            /\ table.version <= job[j].version
        BY <1>1, <3>3 DEF IndInv, ReloadInv, TableType, JobType, Replace
      <4> QED
        BY <4>1, <4>2
    <3> QED
      BY <3>1, <3>2, <3>3
  <2>3. CASE Run \/ AdminTask
    BY <2>3, AdminTaskFrame DEF Run, reloadVars
  <2>4. CASE Bind \/ ServeReturns \/ Exit \/ SignalTask \/ WatchDrains \/ ReloadTask \/ WriteFile
             \/ (\E s \in {"TERM", "INT", "HUP"} : Signal(s))
             \/ (\E c \in Conns : TakeSnapshot(c) \/ ReadKey(c)) \/ RouterStep
    BY <2>4 DEF Bind, ServeReturns, Exit, SignalTask, InstallTerm, InstallInt, CtrlCFails, Cancel,
                WatchDrains, WriteFile, ReloadTask, InstallHup, StartReload, ReloadStops, ReloadEnds,
                Signal, TakeSnapshot, ReadKey, RouterStep, reloadVars
  <2> QED
    BY <1>1, <2>1, <2>2, <2>3, <2>4, NextSplits DEF Process
<1>2. UNCHANGED vars => UNCHANGED table
  BY DEF vars, reloadVars
<1>3. IndInv /\ [Next]_vars => [table'.version >= table.version]_table
  BY <1>1, <1>2
<1> QED
  BY <1>3, AppInvariant, PTL DEF SafeSpec, RoutesNeverGoBack

\* A lookup that a reload overtakes answers from one table, in force while it
\* ran (FileRouteLookup::snapshot).
THEOREM LookupsAreNotTorn == SafeSpec => []NoTornLookup
<1>1. ASSUME IndInv, NEW c \in Conns, LookedUp(c)
      PROVE  \E routes \in lookup[c].era :
                 lookup[c].seen = [i \in DOMAIN Candidates |-> AnswerFor(routes, Candidates[i])]
  <2> DEFINE routes == lookup[c].snapshot.routes
             seen == lookup[c].seen
  <2>1. seen \in Seq(Answers) /\ Len(seen) = Len(Candidates)
    BY <1>1 DEF IndInv, LookupInv, LookupType, LookedUp
  <2>2. lookup[c] # NoLookup
    BY <2>1, CandidatesAreAList DEF NoLookup
  <2>3. routes \in lookup[c].era /\ \A i \in 1 .. Len(seen) : seen[i] = AnswerFor(routes, Candidates[i])
    BY <1>1, <2>2 DEF IndInv, LookupInv
  <2>4. seen \in [DOMAIN Candidates -> Answers]
    BY <2>1, LenProperties, CandidatesAreAList
  <2> HIDE DEF seen
  <2>5. seen = [i \in DOMAIN Candidates |-> AnswerFor(routes, Candidates[i])]
    BY <2>1, <2>3, <2>4, CandidatesAreAList
  <2> QED
    BY <2>3, <2>5 DEF seen
<1>2. IndInv => NoTornLookup
  BY <1>1 DEF NoTornLookup
<1> QED
  BY <1>2, AppInvariant, PTL
=============================================================================
