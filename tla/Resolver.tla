------------------------------ MODULE Resolver ------------------------------
(***************************************************************************)
(* The DNS resolver (delivery/resolver.rs): a cache with single-flight     *)
(* lookups, each on a task of its own, behind a semaphore that bounds the  *)
(* blocking calls.                                                         *)
(*                                                                         *)
(* An action is one critical section of the resolver's mutex or one step   *)
(* of a lookup task.  The system resolver is external: a blocking call     *)
(* reads the zone at one moment while it runs, fails, or finds nothing;    *)
(* nothing bounds how long it runs.  An answer is abstracted to the zone's *)
(* version for that name.  Time is a tick; fresh_until and stale_until are *)
(* kept as the ticks that remain.                                          *)
(***************************************************************************)
EXTENDS Integers, FiniteSets

CONSTANTS
    Names,            \* backend (name, port) keys
    Callers,          \* connection tasks that call resolve
    Tasks,            \* names for lookup tasks; bounds those alive at a time
    MaxConcurrent,    \* max_concurrent_dns_lookups, at least 1
    Ttl,              \* dns_cache_ttl
    NegativeTtl,      \* NEGATIVE_TTL
    StaleIfError,     \* STALE_IF_ERROR
    PruneThreshold,   \* PRUNE_THRESHOLD
    MaxVersion,       \* bound on the changes of a name in the zone
    None, Err

ASSUME ResolverAssumption ==
    /\ MaxConcurrent \in Nat \ {0}
    /\ {Ttl, NegativeTtl, StaleIfError, PruneThreshold, MaxVersion} \subseteq Nat
    /\ None \notin Nat /\ Err \notin Nat /\ None # Err

Versions == 0..MaxVersion

VARIABLES
    cache,      \* State.cache: [names -> [addrs, fresh, stale]]
    inflight,   \* State.inflight: [names -> task whose channel is subscribed]
    slots,      \* permits left in the semaphore
    task,       \* [Tasks -> [pc, name, read, result]]
    caller,     \* [Callers -> [pc, name, task, got]]
    zone        \* [Names -> version], external

vars == <<cache, inflight, slots, task, caller, zone>>

FreeTask == [pc |-> "free", name |-> None, read |-> None, result |-> None]
IdleCaller == [pc |-> "idle", name |-> None, task |-> None, got |-> None]

\* stale is counted on below zero, to tell how long ago stale_until was.
TypeOK ==
    /\ DOMAIN cache \subseteq Names
    /\ \A n \in DOMAIN cache :
          cache[n] \in [addrs : Versions \cup {None}, fresh : Nat, stale : Int]
    /\ DOMAIN inflight \subseteq Names
    /\ \A n \in DOMAIN inflight : inflight[n] \in Tasks
    /\ slots \in 0..MaxConcurrent
    /\ task \in [Tasks -> [pc : {"free", "queued", "blocking", "returned", "stored"},
                           name : Names \cup {None}, read : Versions \cup {None},
                           result : Versions \cup {Err, None}]]
    /\ caller \in [Callers -> [pc : {"idle", "waiting", "returned"}, name : Names \cup {None},
                               task : Tasks \cup {None}, got : Versions \cup {Err, None}]]
    /\ zone \in [Names -> Versions]

Init ==
    /\ cache = <<>>
    /\ inflight = <<>>
    /\ slots = MaxConcurrent
    /\ task = [t \in Tasks |-> FreeTask]
    /\ caller = [p \in Callers |-> IdleCaller]
    /\ zone = [n \in Names |-> 0]

Without(f, S) == [x \in DOMAIN f \ S |-> f[x]]
With(f, x, y) == [z \in DOMAIN f \cup {x} |-> IF z = x THEN y ELSE f[z]]

-----------------------------------------------------------------------------
(* The zone and the clock.                                                 *)

Change(n) ==
    /\ zone[n] < MaxVersion
    /\ zone' = [zone EXCEPT ![n] = @ + 1]
    /\ UNCHANGED <<cache, inflight, slots, task, caller>>

Tick ==
    /\ cache' = [n \in DOMAIN cache |->
          [cache[n] EXCEPT !.fresh = IF @ > 0 THEN @ - 1 ELSE 0,
                           !.stale = IF @ > -NegativeTtl THEN @ - 1 ELSE @]]
    /\ UNCHANGED <<inflight, slots, task, caller, zone>>

-----------------------------------------------------------------------------
(* resolve.                                                                *)

Fresh(n) == n \in DOMAIN cache /\ cache[n].fresh > 0

\* A fresh entry answers: its addresses, or a remembered failure.
ResolveCached(p, n) ==
    /\ caller[p].pc # "waiting"
    /\ Fresh(n)
    /\ caller' = [caller EXCEPT ![p] = [IdleCaller EXCEPT
          !.pc = "returned", !.name = n,
          !.got = IF cache[n].addrs = None THEN Err ELSE cache[n].addrs]]
    /\ UNCHANGED <<cache, inflight, slots, task, zone>>

Waits(p, n, t) ==
    caller' = [caller EXCEPT ![p] =
        [IdleCaller EXCEPT !.pc = "waiting", !.name = n, !.task = t]]

ResolveJoins(p, n) ==
    /\ caller[p].pc # "waiting"
    /\ ~Fresh(n)
    /\ n \in DOMAIN inflight
    /\ Waits(p, n, inflight[n])
    /\ UNCHANGED <<cache, inflight, slots, task, zone>>

\* Mutant: the lookup is not registered, so later callers start their own.
ResolveSpawnsUnregistered(p, n) ==
    /\ caller[p].pc # "waiting"
    /\ ~Fresh(n)
    /\ n \notin DOMAIN inflight
    /\ \E t \in Tasks :
          /\ task[t].pc = "free"
          /\ task' = [task EXCEPT ![t] = [FreeTask EXCEPT !.pc = "queued", !.name = n]]
          /\ Waits(p, n, t)
    /\ UNCHANGED <<cache, inflight, slots, zone>>

\* Nobody is resolving the name: register the channel and spawn_lookup.
ResolveSpawns(p, n) ==
    /\ caller[p].pc # "waiting"
    /\ ~Fresh(n)
    /\ n \notin DOMAIN inflight
    /\ \E t \in Tasks :
          /\ task[t].pc = "free"
          /\ task' = [task EXCEPT ![t] = [FreeTask EXCEPT !.pc = "queued", !.name = n]]
          /\ inflight' = With(inflight, n, t)
          /\ Waits(p, n, t)
    /\ UNCHANGED <<cache, slots, zone>>

\* Mutant: the permit belongs to the caller's wait, not to the blocking call.
CallerGivesUpPermit(p) ==
    /\ caller[p].pc = "waiting"
    /\ slots' = IF task[caller[p].task].pc = "blocking" THEN slots + 1 ELSE slots
    /\ caller' = [caller EXCEPT ![p] = IdleCaller]
    /\ UNCHANGED <<cache, inflight, task, zone>>

\* The caller's future is dropped (upstream timeout, shutdown); the lookup
\* goes on.
CallerGivesUp(p) ==
    /\ caller[p].pc = "waiting"
    /\ caller' = [caller EXCEPT ![p] = IdleCaller]
    /\ UNCHANGED <<cache, inflight, slots, task, zone>>

-----------------------------------------------------------------------------
(* A lookup task.                                                          *)

AcquirePermit(t) ==
    /\ task[t].pc = "queued"
    /\ slots > 0
    /\ slots' = slots - 1
    /\ task' = [task EXCEPT ![t].pc = "blocking"]
    /\ UNCHANGED <<cache, inflight, caller, zone>>

\* The system resolver learns the answer.
ReadZone(t) ==
    /\ task[t].pc = "blocking"
    /\ task[t].read = None
    /\ task' = [task EXCEPT ![t].read = zone[task[t].name]]
    /\ UNCHANGED <<cache, inflight, slots, caller, zone>>

\* The blocking call returns (addresses; or an error, no addresses, or a
\* panic) and its permit is dropped with it.
CallReturns(t) ==
    /\ task[t].pc = "blocking"
    /\ \E r \in {task[t].read, Err} \ {None} :
          task' = [task EXCEPT ![t].pc = "returned", ![t].result = r]
    /\ slots' = slots + 1
    /\ UNCHANGED <<cache, inflight, caller, zone>>

\* Mutant: pruning looks at fresh_until alone.
PrunedFresh == {n \in DOMAIN cache : cache[n].fresh = 0}

\* What store() drops when the cache has reached the threshold: entries past
\* both of their deadlines.
Pruned == {n \in DOMAIN cache : cache[n].fresh = 0 /\ cache[n].stale <= 0}

Kept == IF Cardinality(DOMAIN cache) >= PruneThreshold THEN Without(cache, Pruned) ELSE cache

\* The entry a failure updates.
Before(n) ==
    IF n \in DOMAIN Kept THEN Kept[n] ELSE [addrs |-> None, fresh |-> 0, stale |-> 0]

\* Mutant: the stale window is not looked at.
UsableForever(n) == Before(n).addrs # None

\* A failed lookup falls back on addresses still inside their stale window.
Usable(n) == Before(n).addrs # None /\ Before(n).stale > 0

\* store(): the entry that a result leaves, and what the waiters are told.
StoredEntry(n, result) ==
    IF result # Err
    THEN [addrs |-> result, fresh |-> Ttl, stale |-> Ttl + StaleIfError]
    ELSE [Before(n) EXCEPT !.fresh = NegativeTtl, !.addrs = IF Usable(n) THEN @ ELSE None]

StoredOutcome(n, result) ==
    IF result = Err /\ Usable(n) THEN Before(n).addrs ELSE result

\* Mutant: a failed lookup leaves its channel registered.
InflightAfterSuccess(t) ==
    IF task[t].result # Err THEN Without(inflight, {task[t].name}) ELSE inflight

\* The channel is unregistered whatever the result.
InflightAfter(t) == Without(inflight, {task[t].name})

\* Under the lock: unregister and store.
Store(t) ==
    LET n == task[t].name IN
    /\ task[t].pc = "returned"
    /\ inflight' = InflightAfter(t)
    /\ cache' = With(Kept, n, StoredEntry(n, task[t].result))
    /\ task' = [task EXCEPT ![t].pc = "stored",
                            ![t].result = StoredOutcome(n, task[t].result)]
    /\ UNCHANGED <<slots, caller, zone>>

\* sender.send: every caller that waits on this channel returns.
Send(t) ==
    /\ task[t].pc = "stored"
    /\ caller' = [p \in Callers |->
          IF caller[p].pc = "waiting" /\ caller[p].task = t
          THEN [caller[p] EXCEPT !.pc = "returned", !.task = None, !.got = task[t].result]
          ELSE caller[p]]
    /\ task' = [task EXCEPT ![t] = FreeTask]
    /\ UNCHANGED <<cache, inflight, slots, zone>>

-----------------------------------------------------------------------------

TaskStep(t) == AcquirePermit(t) \/ CallReturns(t) \/ Store(t) \/ Send(t)

Next ==
    \/ Tick
    \/ \E n \in Names : Change(n)
    \/ \E p \in Callers :
          \/ CallerGivesUp(p)
          \/ \E n \in Names : ResolveCached(p, n) \/ ResolveJoins(p, n) \/ ResolveSpawns(p, n)
    \/ \E t \in Tasks : ReadZone(t) \/ TaskStep(t)

\* Tasks are polled, the system resolver returns in the end, and the semaphore
\* serves its waiters in turn (tokio's is first come, first served), hence
\* strong fairness for a permit.
Spec ==
    /\ Init /\ [][Next]_vars
    /\ \A t \in Tasks : WF_vars(TaskStep(t)) /\ SF_vars(AcquirePermit(t))

-----------------------------------------------------------------------------
(* Properties.                                                             *)

\* Tasks in the system resolver.
Blocking == {t \in Tasks : task[t].pc = "blocking"}

\* A permit is held exactly while a blocking call runs, however many callers
\* gave up meanwhile, so that at most MaxConcurrent threads are in the system
\* resolver.
PermitsFollowCalls == slots + Cardinality(Blocking) = MaxConcurrent

\* Single flight: a name is registered exactly while one task is resolving it,
\* and no two tasks resolve the same name.
SingleFlight ==
    /\ \A t, u \in Tasks :
          /\ task[t].pc \in {"queued", "blocking", "returned"}
          /\ task[u].pc \in {"queued", "blocking", "returned"}
          /\ task[t].name = task[u].name
          => t = u
    /\ DOMAIN inflight = {task[t].name : t \in
          {u \in Tasks : task[u].pc \in {"queued", "blocking", "returned"}}}

\* Lookups, registrations and permits stand for each other: a permit that does
\* not follow its call overloads the blocking pool, a registration without a
\* task leaves a name that is never looked up again.
LookupsAccounted == TypeOK /\ PermitsFollowCalls /\ SingleFlight

\* "no race between an older and a newer answer overwriting each other": the
\* addresses of a name never go back to an older answer.
AnswersNeverGoBack ==
    [][\A n \in DOMAIN cache \cap DOMAIN cache' :
          cache[n].addrs # None /\ cache'[n].addrs # None =>
              cache'[n].addrs >= cache[n].addrs]_vars

\* A good answer inside its stale window is not lost to a failed lookup, of
\* this name or of another (pruning): it is there until its window closes.
KeepsGoodAnswer ==
    [][\A n \in DOMAIN cache :
          cache[n].addrs # None /\ cache[n].stale > 0 =>
              n \in DOMAIN cache' /\ cache'[n].addrs # None]_vars

\* How long an old answer may outlive its stale window: a lookup that fails
\* just before the end makes the entry fresh for another NEGATIVE_TTL.
OverrunBounded ==
    \A n \in DOMAIN cache :
        Fresh(n) /\ cache[n].addrs # None => cache[n].stale > -NegativeTtl

\* resolver.rs on stale_until: "Until when `addrs` may be used if re-resolving
\* fails": no lookup is answered with addresses past it.
NotUsedPastStaleUntil ==
    \A n \in DOMAIN cache : Fresh(n) /\ cache[n].addrs # None => cache[n].stale > 0

\* A caller that waits is answered, even if its name's lookup fails or queues
\* behind others for a permit.
WaiterAnswered ==
    \A p \in Callers : caller[p].pc = "waiting" ~> caller[p].pc # "waiting"
=============================================================================
