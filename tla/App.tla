-------------------------------- MODULE App ---------------------------------
(***************************************************************************)
(* The sni_router process (main.rs, lib.rs, reload.rs and FileRouteLookup  *)
(* of config/routes.rs): main loads the config, binds, spawns the tasks    *)
(* that wait for signals, reload routes, watch for the shutdown and serve  *)
(* the admin listener, and runs the router; at the end it collects them.   *)
(*                                                                         *)
(* The router is the abstract one, GracefulShutdown, which Router is shown *)
(* to implement; the admin listener is AdminServer. Environment: a file    *)
(* that is rewritten at any time, signals, clients. A file written in      *)
(* place can be read half written: that is a content of its own.           *)
(***************************************************************************)
EXTENDS AdminServer

CONSTANTS
    StartFiles,     \* contents the config file may have at startup
    Files,          \* contents it may get later
    Taken,          \* addresses another process listens on
    Host,           \* the name clients ask for
    Conns,          \* connections clients may make to the router
    Jobs,           \* names for closures in the blocking pool
    Budget,         \* bounds the file's changes, signals, failures of ctrl_c and connections
    None

\* Numbers are numbers, lists are lists and paths are paths, also in a file that is refused.
ASSUME AppAssumption ==
    /\ \A f \in StartFiles : Settings(f) # None
    /\ \A f \in StartFiles \cup Files :
          /\ \A i \in DOMAIN Ranges : Server(f)[Ranges[i].field] \in Int
          /\ Server(f).listen \in Seq(ToSet(Server(f).listen))
          /\ Admin(f).health_path \in
                 [text : STRING, rooted : BOOLEAN, spaced : BOOLEAN, query : BOOLEAN]
          /\ f.routes \in Seq(ToSet(f.routes))

VARIABLES
    main,           \* where main is
    settings,       \* [server, admin] of the startup file
    bound,          \* the addresses bound so far
    handled,        \* signals whose handler is installed
    pending,        \* signals delivered to a handler and not yet received
    sig,            \* where cancel_on_signal is
    shutdown,       \* the token
    adminShutdown,  \* the token of the admin server
    watch,          \* where drain_watch is
    reload,         \* where the reload task is
    job,            \* [Jobs -> [pc, file]]: reload_from_path
    disk,           \* the config file: [version, file]
    table,          \* FileRouteLookup.table: [version, routes]
    lookup,         \* [Conns -> [snapshot, seen, era]]
    phase, place, verdict,      \* the router
    promised,       \* history: the file on disk was asked for by a SIGHUP
    budget

procVars == <<main, settings, bound>>
signalVars == <<handled, pending, sig>>
tokens == <<shutdown, adminShutdown>>
reloadVars == <<reload, job, table, lookup, promised>>
routerVars == <<phase, place, verdict>>
vars == <<procVars, signalVars, tokens, watch, reloadVars, disk, routerVars, budget, adminVars>>

\* How a connection ends is not told apart here.
RouterSpec == INSTANCE GracefulShutdown
    WITH Capacity <- Cardinality(Conns), HandshakeVerdicts <- {"Over"}, ProxyVerdicts <- {"Over"},
         Cancelled <- "Over", Forced <- "Over", Aborted <- "Over", NoVerdict <- "None"

\* What loading each of the files says.
Outcome == [f \in StartFiles \cup Files |-> LoadError(f)]

NoRoutes == [version |-> -1, routes |-> <<>>]
FreeJob == [pc |-> "free", version |-> -1, file |-> None]
NoLookup == [snapshot |-> NoRoutes, seen |-> <<>>, era |-> {}]

Ended == {"failed", "exited", "killed"}
Alive == main \notin Ended

Init ==
    /\ main = "loading"
    /\ \E f \in StartFiles : disk = [version |-> 0, file |-> f]
    /\ settings = None
    /\ bound = {}
    /\ handled = {} /\ pending = {}
    /\ sig = "off" /\ watch = "off" /\ reload = "off"
    /\ shutdown = FALSE /\ adminShutdown = FALSE
    /\ job = [j \in Jobs |-> FreeJob]
    /\ table = NoRoutes
    /\ lookup = [c \in Conns |-> NoLookup]
    /\ promised = FALSE
    /\ budget = Budget
    /\ RouterSpec!Init
    /\ AdminInit

-----------------------------------------------------------------------------
(* main and BoundApp.                                                      *)

\* AppConfig::load: the whole file, or no process.
Load ==
    /\ main = "loading"
    /\ IF Outcome[disk.file] = Ok
       THEN /\ main' = "binding"
            /\ settings' = Settings(disk.file)
            /\ table' = [version |-> disk.version, routes |-> BuildRouteTable(disk.file.routes)]
       ELSE main' = "failed" /\ UNCHANGED <<settings, table>>
    /\ UNCHANGED <<bound, signalVars, tokens, watch, reload, job, lookup, promised, disk,
                   routerVars, budget, adminVars>>

\* bind: the listeners in turn, then the admin listener. One that fails drops
\* those before it.
Bind ==
    /\ main = "binding"
    /\ LET order == Append(settings.server.listen, settings.admin.listen)
           address == order[Cardinality(bound) + 1]
       IN  IF address \in Taken \cup bound
           THEN main' = "failed" /\ bound' = {}
           ELSE /\ bound' = bound \cup {address}
                /\ main' = IF Cardinality(bound) + 1 = Len(order) THEN "bound" ELSE "binding"
    /\ UNCHANGED <<settings, signalVars, tokens, watch, reloadVars, disk, routerVars, budget,
                   adminVars>>

\* cancel_on_signal is spawned, then run spawns the others and serves.
Run ==
    /\ main = "bound"
    /\ main' = "serving"
    /\ sig' = "spawned" /\ reload' = "spawned" /\ watch' = "waiting" /\ adminPc' = "waiting"
    /\ UNCHANGED <<settings, bound, handled, pending, tokens, job, table, lookup, promised, disk,
                   routerVars, budget, adminSlots, finished, probe, draining>>

\* Mutant: the admin server is not told.
ServeReturnsSilently ==
    /\ main = "serving" /\ phase = "stopped"
    /\ main' = "joining"
    /\ UNCHANGED <<settings, bound, signalVars, tokens, watch, reloadVars, disk, routerVars,
                   budget, adminVars>>

\* Router::serve returned: admin_shutdown.cancel().
ServeReturns ==
    /\ main = "serving" /\ phase = "stopped"
    /\ main' = "joining"
    /\ adminShutdown' = TRUE
    /\ UNCHANGED <<settings, bound, signalVars, shutdown, watch, reloadVars, disk, routerVars,
                   budget, adminVars>>

\* Mutant: the reload task is not waited for.
ExitEarly ==
    /\ main = "joining"
    /\ watch = "done" /\ adminPc = "ended"
    /\ main' = "exited"
    /\ UNCHANGED <<settings, bound, signalVars, tokens, watch, reloadVars, disk, routerVars,
                   budget, adminVars>>

\* drain_watch, reload_task and admin_task are awaited.
Exit ==
    /\ main = "joining"
    /\ watch = "done" /\ reload = "ended" /\ adminPc = "ended"
    /\ main' = "exited"
    /\ UNCHANGED <<settings, bound, signalVars, tokens, watch, reloadVars, disk, routerVars,
                   budget, adminVars>>

-----------------------------------------------------------------------------
(* Signals.                                                                *)

\* Some task still waits for the signal.
Awaited(s) == IF s = "HUP" THEN reload # "ended" ELSE sig # "done"

\* A signal without a handler kills the process. One with a handler is noted
\* once, however often it comes before it is received; nobody notices it once
\* the task that waits for it has ended.
Signal(s) ==
    /\ budget > 0 /\ budget' = budget - 1
    /\ s \in handled => Awaited(s)
    /\ IF s \in handled
       THEN /\ pending' = pending \cup {s}
            /\ promised' = IF s = "HUP" THEN TRUE ELSE promised
            /\ UNCHANGED main
       ELSE main' = "killed" /\ UNCHANGED <<pending, promised>>
    /\ UNCHANGED <<settings, bound, handled, sig, tokens, watch, reload, job, table, lookup,
                   disk, routerVars, adminVars>>

\* cancel_on_signal installs its handlers, SIGTERM's first. If that fails it
\* waits for SIGINT alone.
InstallTerm ==
    /\ sig = "spawned"
    /\ sig' = "terminated"
    /\ \/ handled' = handled \cup {"TERM"}
       \/ UNCHANGED handled
    /\ UNCHANGED <<procVars, pending, tokens, watch, reloadVars, disk, routerVars, budget,
                   adminVars>>

InstallInt ==
    /\ sig = "terminated"
    /\ sig' = "armed"
    /\ handled' = handled \cup {"INT"}
    /\ UNCHANGED <<procVars, pending, tokens, watch, reloadVars, disk, routerVars, budget,
                   adminVars>>

\* ctrl_c() fails, which ends the wait like a signal.
CtrlCFails ==
    /\ sig = "terminated"
    /\ budget > 0 /\ budget' = budget - 1
    /\ sig' = "done"
    /\ pending' = pending \cap {"HUP"}
    /\ shutdown' = TRUE
    /\ UNCHANGED <<procVars, handled, adminShutdown, watch, reloadVars, disk, routerVars,
                   adminVars>>

\* Mutant: the admin server gets the same token.
CancelBoth ==
    /\ sig = "armed" \/ (sig = "terminated" /\ "TERM" \in pending)
    /\ pending \ {"HUP"} # {} /\ pending' = pending \cap {"HUP"}
    /\ sig' = "done"
    /\ shutdown' = TRUE /\ adminShutdown' = TRUE
    /\ UNCHANGED <<procVars, handled, watch, reloadVars, disk, routerVars, budget, adminVars>>

\* A signal is received. select may poll SIGTERM's branch before ctrl_c's.
Cancel ==
    /\ sig = "armed" \/ (sig = "terminated" /\ "TERM" \in pending)
    /\ pending \ {"HUP"} # {} /\ pending' = pending \cap {"HUP"}
    /\ sig' = "done"
    /\ shutdown' = TRUE
    /\ UNCHANGED <<procVars, handled, adminShutdown, watch, reloadVars, disk, routerVars, budget,
                   adminVars>>

\* drain_watch.
WatchDrains ==
    /\ watch = "waiting" /\ shutdown
    /\ watch' = "done"
    /\ SetDraining
    /\ UNCHANGED <<procVars, signalVars, tokens, reloadVars, disk, routerVars, budget>>

-----------------------------------------------------------------------------
(* The reload task and its blocking job.                                   *)

Candidates == CandidateKeys(Host)
LookedUp(c) == Len(lookup[c].seen) = Len(Candidates)
LookingUp(c) == lookup[c] # NoLookup /\ ~LookedUp(c)

\* spawn_sighup_reload: the handler, or no reloads.
InstallHup ==
    /\ reload = "spawned"
    /\ \/ reload' = "waiting" /\ handled' = handled \cup {"HUP"}
       \/ reload' = "ended" /\ UNCHANGED handled
    /\ UNCHANGED <<procVars, pending, sig, tokens, watch, job, table, lookup, promised, disk,
                   routerVars, budget, adminVars>>

\* A SIGHUP is received and a job spawned, which the task awaits.
StartReload ==
    /\ reload = "waiting" /\ "HUP" \in pending
    /\ pending' = pending \ {"HUP"}
    /\ \E j \in Jobs : job[j].pc = "free"
    /\ LET j == CHOOSE i \in Jobs : job[i].pc = "free"
       IN  job' = [job EXCEPT ![j].pc = "spawned"]
    /\ reload' = "reloading"
    /\ UNCHANGED <<procVars, handled, sig, tokens, watch, table, lookup, promised, disk,
                   routerVars, budget, adminVars>>

\* The other branch of the select; both may be ready.
ReloadStops ==
    /\ shutdown /\ reload = "waiting"
    /\ reload' = "ended"
    /\ pending' = pending \ {"HUP"}
    /\ UNCHANGED <<procVars, handled, sig, tokens, watch, job, table, lookup, promised, disk,
                   routerVars, budget, adminVars>>

\* read_to_string.
ReadFile(j) ==
    /\ job[j].pc = "spawned"
    /\ job' = [job EXCEPT ![j] = [pc |-> "read", version |-> disk.version, file |-> disk.file]]
    /\ UNCHANGED <<procVars, signalVars, tokens, watch, reload, table, lookup, promised, disk,
                   routerVars, budget, adminVars>>

\* from_toml_str and, if nothing is wrong, FileRouteLookup::replace. A job
\* that panics leaves the same behind as a bad file.
Replace(j) ==
    /\ job[j].pc = "read"
    /\ job' = [job EXCEPT ![j].pc = "done"]
    /\ IF Outcome[job[j].file] = Ok
       THEN /\ table' = [version |-> job[j].version,
                         routes |-> BuildRouteTable(job[j].file.routes)]
            /\ lookup' = [c \in Conns |->
                             IF LookingUp(c) THEN [lookup[c] EXCEPT !.era = @ \cup {table'.routes}]
                             ELSE lookup[c]]
            /\ UNCHANGED promised
       ELSE /\ promised' = (promised /\ job[j].version # disk.version)
            /\ UNCHANGED <<table, lookup>>
    /\ UNCHANGED <<procVars, signalVars, tokens, watch, reload, disk, routerVars, budget,
                   adminVars>>

\* Mutant: signals that came during the reload are dropped.
ReloadEndsDeaf(j) ==
    /\ reload = "reloading" /\ job[j].pc = "done"
    /\ job' = [job EXCEPT ![j] = FreeJob]
    /\ reload' = "waiting"
    /\ pending' = pending \ {"HUP"}
    /\ UNCHANGED <<procVars, handled, sig, tokens, watch, table, lookup, promised, disk,
                   routerVars, budget, adminVars>>

\* Mutant: the job is spawned and forgotten.
ReloadEndsUnawaited(j) ==
    /\ reload = "reloading" \/ job[j].pc = "done"
    /\ reload' = IF reload = "reloading" THEN "waiting" ELSE reload
    /\ job' = IF job[j].pc = "done" THEN [job EXCEPT ![j] = FreeJob] ELSE job
    /\ UNCHANGED <<procVars, signalVars, tokens, watch, table, lookup, promised, disk,
                   routerVars, budget, adminVars>>

\* The job is awaited, and its outcome logged.
ReloadEnds(j) ==
    /\ reload = "reloading" /\ job[j].pc = "done"
    /\ job' = [job EXCEPT ![j] = FreeJob]
    /\ reload' = "waiting"
    /\ UNCHANGED <<procVars, signalVars, tokens, watch, table, lookup, promised, disk,
                   routerVars, budget, adminVars>>

WriteFile ==
    /\ main \notin {"loading", "binding"}
    /\ budget > 0 /\ budget' = budget - 1
    /\ \E f \in Files : disk' = [version |-> disk.version + 1, file |-> f]
    /\ promised' = FALSE
    /\ UNCHANGED <<procVars, signalVars, tokens, watch, reload, job, table, lookup, routerVars,
                   adminVars>>

-----------------------------------------------------------------------------
(* FileRouteLookup::lookup, in a connection that handshakes.               *)

\* snapshot(): era collects the tables in force from here on.
TakeSnapshot(c) ==
    /\ place[c] = "handshake" /\ lookup[c] = NoLookup
    /\ lookup' = [lookup EXCEPT ![c] = [snapshot |-> table, seen |-> <<>>, era |-> {table.routes}]]
    /\ UNCHANGED <<procVars, signalVars, tokens, watch, reload, job, table, promised, disk,
                   routerVars, budget, adminVars>>

\* Mutant: the table in force is read.
SourceLive(c) == table.routes
Source(c) == lookup[c].snapshot.routes

AnswerFor(routes, k) == IF k \in DOMAIN routes THEN routes[k] ELSE NotFound

\* hits(): one candidate after the other.
ReadKey(c) ==
    /\ place[c] = "handshake" /\ LookingUp(c)
    /\ LET k == Candidates[Len(lookup[c].seen) + 1]
       IN  lookup' = [lookup EXCEPT ![c].seen = Append(@, AnswerFor(Source(c), k))]
    /\ UNCHANGED <<procVars, signalVars, tokens, watch, reload, job, table, promised, disk,
                   routerVars, budget, adminVars>>

-----------------------------------------------------------------------------
(* The router's steps. It drains once the shutdown token is cancelled.     *)

Admits(c) == budget > 0 /\ budget' = budget - 1 /\ RouterSpec!Admit(c) /\ UNCHANGED lookup
Commits(c) ==
    /\ LookedUp(c) /\ \E i \in DOMAIN lookup[c].seen : lookup[c].seen[i] # NotFound
    /\ RouterSpec!Commit(c) /\ UNCHANGED <<lookup, budget>>
EndsOrLeaves(c) ==
    /\ RouterSpec!End(c) \/ RouterSpec!Leave(c)
    /\ lookup' = [lookup EXCEPT ![c] = NoLookup]
    /\ UNCHANGED budget
Drains == shutdown /\ RouterSpec!Drain /\ UNCHANGED <<lookup, budget>>
ForcesOrStops == (RouterSpec!Force \/ RouterSpec!Stop) /\ UNCHANGED <<lookup, budget>>

RouterStep ==
    /\ main = "serving"
    /\ \/ \E c \in Conns : Admits(c) \/ Commits(c) \/ EndsOrLeaves(c)
       \/ Drains \/ ForcesOrStops
    /\ UNCHANGED <<procVars, signalVars, tokens, watch, reload, job, table, promised, disk,
                   adminVars>>

\* What the router does without help from the clients: handshakes have
\* deadlines, and force cuts the rest.
RouterEnds ==
    /\ main = "serving"
    /\ \/ \E c \in Conns : (place[c] # "proxying" \/ phase = "forcing") /\ EndsOrLeaves(c)
       \/ Drains \/ ForcesOrStops
    /\ UNCHANGED <<procVars, signalVars, tokens, watch, reload, job, table, promised, disk,
                   adminVars>>

-----------------------------------------------------------------------------
(* The admin server's steps.                                               *)

NotAdmin == UNCHANGED <<procVars, signalVars, tokens, watch, reloadVars, disk, routerVars>>

ConnectProbe(p) ==
    /\ main \in {"bound", "serving", "joining"}
    /\ budget > 0 /\ budget' = budget - 1
    /\ Connect(p) /\ NotAdmin

AdminLoop ==
    /\ \/ AcquireSlot \/ PauseEnds
       \/ \E p \in Probes : Reap(p)
       \/ AdminGraceElapses \/ AdminReturns
    /\ NotAdmin /\ UNCHANGED budget

AdminStops == adminShutdown /\ StopAccepting /\ NotAdmin /\ UNCHANGED budget
AcceptProbe == (\E p \in Probes : Accept(p)) /\ NotAdmin /\ UNCHANGED budget
AcceptFailed == AcceptFails /\ NotAdmin /\ UNCHANGED budget
AnswerProbe(p) == Answer(p, settings.admin.health_path) /\ NotAdmin /\ UNCHANGED budget
CloseProbe(p) == Close(p) /\ NotAdmin /\ UNCHANGED budget

-----------------------------------------------------------------------------
Main == Load \/ Bind \/ Run \/ ServeReturns \/ Exit
SignalTask == InstallTerm \/ InstallInt \/ CtrlCFails \/ Cancel
ReloadTask == InstallHup \/ StartReload \/ ReloadStops \/ \E j \in Jobs : ReloadEnds(j)
Job(j) == ReadFile(j) \/ Replace(j)

Next ==
    /\ Alive
    /\ \/ Main \/ SignalTask \/ WatchDrains \/ ReloadTask
       \/ \E j \in Jobs : Job(j)
       \/ WriteFile
       \/ \E s \in {"TERM", "INT", "HUP"} : Signal(s)
       \/ \E c \in Conns : TakeSnapshot(c) \/ ReadKey(c)
       \/ RouterStep
       \/ AdminLoop \/ AdminStops \/ AcceptProbe \/ AcceptFailed
       \/ \E p \in Probes : ConnectProbe(p) \/ AnswerProbe(p) \/ CloseProbe(p)

\* Tasks and threads are scheduled, the file can be read, connections to the
\* admin listener time out, accept does not fail for ever, and select, which
\* polls its branches in random order, does not pass over the shutdown for ever.
Fairness ==
    /\ WF_vars(Alive /\ Main)
    /\ WF_vars(Alive /\ SignalTask)
    /\ WF_vars(Alive /\ WatchDrains)
    /\ WF_vars(Alive /\ ReloadTask)
    /\ \A j \in Jobs : WF_vars(Alive /\ Job(j))
    /\ WF_vars(Alive /\ RouterEnds)
    /\ WF_vars(Alive /\ AdminLoop)
    /\ SF_vars(Alive /\ AdminStops)
    /\ SF_vars(Alive /\ AcceptProbe)
    /\ \A p \in Probes : WF_vars(Alive /\ CloseProbe(p))

SafeSpec == Init /\ [][Next]_vars
Spec == SafeSpec /\ Fairness

-----------------------------------------------------------------------------
(***************************************************************************)
(* Properties.                                                             *)
(***************************************************************************)

(* Once SIGTERM or SIGINT has reached its handler the process ends: the admin
   server, the reload task and the watch are all told, whatever they are in the
   middle of (run, cancel_on_signal). *)
ExitsAfterSignal == (shutdown \/ pending \cap {"TERM", "INT"} # {}) ~> ~Alive

(* A SIGHUP that comes while another reload is under way is not lost: the file
   as it was at the last SIGHUP is put in force, or reported as bad, unless it
   is changed again or the process shuts down (spawn_sighup_reload). *)
LastHangupWins == promised ~> (table.version = disk.version \/ ~promised \/ shutdown \/ ~Alive)

(* Reloads of a file that changes meanwhile never put an older table over a
   newer one (reload_from_path, one job at a time). *)
RoutesNeverGoBack == [][table'.version >= table.version]_table

(* A lookup that a reload overtakes answers from one table, and from one that
   was in force while it ran; it never pairs an exact row of one file with a
   wildcard row of another (FileRouteLookup::snapshot). *)
NoTornLookup ==
    \A c \in Conns :
        LookedUp(c) =>
            \E routes \in lookup[c].era :
                lookup[c].seen = [i \in DOMAIN Candidates |-> AnswerFor(routes, Candidates[i])]

(* Probes see the drain: while the router serves or drains the admin server
   accepts, and a probe of the configured path, with a query or without, is
   answered 200 or 503; a path that is configured with a query of its own is
   never the path of a request (run, AdminRoutes::handle, RawAdmin::validate). *)
ProbesSeeDrain ==
    /\ main = "serving" => adminPc \in {"waiting", "holding", "backoff"}
    /\ \A p \in Probes :
           LET r == probe[p].request IN
           probe[p].status # 0 /\ r.get /\ UriPath(r.target) = settings.admin.health_path =>
               probe[p].status \in {200, 503}

(* run returns with nothing left behind: no connection, no admin connection,
   no task, and no reload that is still about to replace the table. *)
NothingLeftAtExit ==
    main = "exited" =>
        /\ RouterSpec!Inside = {} /\ Open = {} /\ Queued = {}
        /\ draining
        /\ reload = "ended" /\ \A j \in Jobs : job[j].pc = "free"

\* What a config file must satisfy, told at once.
Valid(file) ==
    /\ file.readable /\ file.toml
    /\ \A l \in ToSet(Ranges) : Server(file)[l.field] \in l.min .. l.max
    /\ Server(file).listen # <<>>
    /\ Cardinality(ToSet(Server(file).listen)) = Len(Server(file).listen)
    /\ Admin(file).health_path.rooted /\ ~Admin(file).health_path.spaced
    /\ Admin(file).health_path.text # "/metrics" \/ Admin(file).health_path.query
    /\ \A i \in DOMAIN file.routes : KeyParses(file.routes[i].hostname)
                                     /\ BackendError(file.routes[i].backend) = Ok
    /\ IsInjective([i \in DOMAIN file.routes |-> RouteKeyParse(file.routes[i].hostname)])

ValidTables ==
    {BuildRouteTable(f.routes) : f \in {g \in StartFiles \cup Files : Valid(g)}}

ValidSettings == {Settings(f) : f \in {g \in StartFiles : Valid(g)}}

(* The routes in force are those of one file that was valid as a whole, every
   setting included; the settings in force are those of a startup file that was;
   and the process refuses no valid file (AppConfig::load, reload_from_path). *)
OneFileInForce ==
    /\ main \notin {"loading", "failed", "killed"} =>
           table.routes \in ValidTables /\ settings \in ValidSettings
    /\ main = "failed" /\ settings = None => ~Valid(disk.file)

(* A connection to the admin listener is not left waiting, although others hold
   every slot and never send a request (AdminLimits). *)
ProbeAnswered ==
    \A p \in Probes :
        probe[p].pc = "queued" ~> (probe[p].pc \in {"closed", "reset"} \/ ~Alive)

(* admin.rs on Health: "Flipped to draining when shutdown starts so load
   balancers stop sending new connections first": the router has not stopped
   accepting while probes still get 200. *)
HealthTurnsFirst == phase # "serving" => draining
=============================================================================
