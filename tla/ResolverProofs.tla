--------------------------- MODULE ResolverProofs ---------------------------
(***************************************************************************)
(* Proofs about Resolver, for every set of names, callers and tasks, every *)
(* number of permits and all the windows.                                  *)
(***************************************************************************)
EXTENDS Resolver, FiniteSetTheorems, TLAPS

-----------------------------------------------------------------------------
(* The inductive invariant.                                                *)

\* The places of a task that has not stored its result yet.
Active == {"queued", "blocking", "returned"}

\* Registrations and active tasks stand for each other.
Registered ==
    /\ \A t \in Tasks : task[t].pc \in Active =>
          task[t].name \in DOMAIN inflight /\ inflight[task[t].name] = t
    /\ \A n \in DOMAIN inflight :
          task[inflight[n]].pc \in Active /\ task[inflight[n]].name = n

\* What a task has read is no older than what is cached, and a successful
\* result is what it has read.
Newer(t) ==
    /\ task[t].pc # "free" => task[t].name \in Names
    /\ task[t].pc \in {"free", "queued"} => task[t].read = None
    /\ task[t].pc = "returned" => task[t].result \in {task[t].read, Err} \ {None}
    /\ task[t].pc \in Active /\ task[t].read # None =>
          /\ task[t].read <= zone[task[t].name]
          /\ task[t].name \in DOMAIN cache /\ cache[task[t].name].addrs # None =>
                cache[task[t].name].addrs <= task[t].read

\* An entry is no newer than the zone; a fresh one is inside its stale window,
\* or was made fresh by a failure that found it there.
Sound(n) ==
    /\ cache[n].addrs # None => cache[n].addrs <= zone[n]
    /\ cache[n].addrs # None /\ cache[n].fresh > 0 =>
          \/ cache[n].stale >= cache[n].fresh
          \/ cache[n].stale > cache[n].fresh - NegativeTtl

Permits == IsFiniteSet(Blocking) /\ PermitsFollowCalls /\ slots \in Nat

EntryType == [addrs : Versions \cup {None}, fresh : Nat, stale : Int]
TaskType ==
    [pc : {"free", "queued", "blocking", "returned", "stored"},
     name : Names \cup {None}, read : Versions \cup {None}, result : Versions \cup {Err, None}]
CallerType ==
    [pc : {"idle", "waiting", "returned"}, name : Names \cup {None},
     task : Tasks \cup {None}, got : Versions \cup {Err, None}]

CacheTyped == DOMAIN cache \subseteq Names /\ cache \in [DOMAIN cache -> EntryType]
InflightTyped == DOMAIN inflight \subseteq Names /\ inflight \in [DOMAIN inflight -> Tasks]

Typed ==
    /\ CacheTyped /\ InflightTyped
    /\ task \in [Tasks -> TaskType]
    /\ caller \in [Callers -> CallerType]
    /\ zone \in [Names -> Versions]

IndInv ==
    /\ Typed
    /\ Registered
    /\ \A t \in Tasks : Newer(t)
    /\ \A n \in DOMAIN cache : Sound(n)
    /\ Permits

-----------------------------------------------------------------------------
(* The constants and the initial state.                                   *)

\* The configured limits are numbers and no version is None or Err.
LEMMA Constants ==
    /\ MaxConcurrent \in Nat \ {0}
    /\ Ttl \in Nat /\ NegativeTtl \in Nat /\ StaleIfError \in Nat /\ MaxVersion \in Nat
    /\ Versions \subseteq Nat /\ 0 \in Versions
    /\ None \notin Versions /\ Err \notin Versions /\ None # Err
  BY ResolverAssumption DEF Versions

\* The invariant holds for an empty resolver.
LEMMA InitInd == Init => IndInv
<1> SUFFICES ASSUME Init PROVE IndInv
  OBVIOUS
<1>1. cache \in [{} -> EntryType] /\ inflight \in [{} -> Tasks] /\ DOMAIN cache = {} /\ DOMAIN inflight = {}
  BY DEF Init
<1>2. Typed
  BY <1>1, Constants
     DEF Init, Typed, CacheTyped, InflightTyped, TaskType, CallerType, FreeTask, IdleCaller
<1>3. Registered /\ \A t \in Tasks : Newer(t)
  BY <1>1 DEF Init, Registered, Newer, FreeTask, Active
<1>4. Permits
  <2>1. Blocking = {}
    BY DEF Init, Blocking, FreeTask
  <2> QED
    BY <2>1, FS_EmptySet, Constants DEF Init, Permits, PermitsFollowCalls
<1> QED
  BY <1>1, <1>2, <1>3, <1>4 DEF IndInv

-----------------------------------------------------------------------------
(* store().                                                                *)

\* Pruning drops only entries past both deadlines, and changes none.
LEMMA KeptFacts ==
    ASSUME CacheTyped
    PROVE  /\ DOMAIN Kept \subseteq DOMAIN cache
           /\ Kept \in [DOMAIN Kept -> EntryType]
           /\ \A n \in DOMAIN Kept : Kept[n] = cache[n]
           /\ \A n \in DOMAIN cache :
                 cache[n].fresh > 0 \/ cache[n].stale > 0 => n \in DOMAIN Kept
<1>1. CASE Kept = cache
  BY <1>1 DEF CacheTyped
<1>2. CASE Kept = Without(cache, Pruned)
  <2>1. /\ Without(cache, Pruned) \in [DOMAIN cache \ Pruned -> EntryType]
        /\ DOMAIN Without(cache, Pruned) = DOMAIN cache \ Pruned
        /\ \A n \in DOMAIN cache \ Pruned : Without(cache, Pruned)[n] = cache[n]
    BY DEF CacheTyped, Without
  <2>2. \A n \in DOMAIN cache : cache[n].fresh > 0 \/ cache[n].stale > 0 => n \notin Pruned
    BY DEF CacheTyped, EntryType, Pruned
  <2> QED
    BY <1>2, <2>1, <2>2
<1> QED
  BY <1>1, <1>2 DEF Kept

\* The entry that a result leaves: the result, or the addresses there were, if
\* they are still inside their window, or none.
LEMMA StoredFacts ==
    ASSUME CacheTyped, NEW n \in Names, NEW r \in Versions \cup {Err}
    PROVE  /\ StoredEntry(n, r) \in EntryType
           /\ r # Err => /\ StoredEntry(n, r).addrs = r
                         /\ StoredEntry(n, r).stale >= StoredEntry(n, r).fresh
           /\ r = Err /\ StoredEntry(n, r).addrs # None =>
                 /\ n \in DOMAIN cache
                 /\ StoredEntry(n, r).addrs = cache[n].addrs
                 /\ StoredEntry(n, r).stale > 0
                 /\ StoredEntry(n, r).fresh = NegativeTtl
           /\ n \in DOMAIN cache /\ cache[n].addrs # None /\ cache[n].stale > 0 =>
                 StoredEntry(n, r).addrs # None
           /\ StoredOutcome(n, r) \in Versions \cup {Err}
<1>1. /\ Before(n) \in EntryType
      /\ n \in DOMAIN Kept => n \in DOMAIN cache /\ Before(n) = cache[n]
      /\ n \notin DOMAIN Kept => Before(n).addrs = None
      /\ n \in DOMAIN cache /\ cache[n].stale > 0 => n \in DOMAIN Kept
  BY KeptFacts, Constants DEF Before, EntryType
<1>2. CASE r # Err
  BY <1>1, <1>2, Constants DEF StoredEntry, StoredOutcome, EntryType
<1>3. CASE r = Err
  <2>1. StoredEntry(n, r) = [Before(n) EXCEPT !.fresh = NegativeTtl,
                                              !.addrs = IF Usable(n) THEN @ ELSE None]
    BY <1>3 DEF StoredEntry
  <2>2. /\ StoredEntry(n, r) \in EntryType
        /\ StoredEntry(n, r).fresh = NegativeTtl
        /\ StoredEntry(n, r).stale = Before(n).stale
        /\ StoredEntry(n, r).addrs = IF Usable(n) THEN Before(n).addrs ELSE None
    BY <1>1, <2>1, Constants DEF EntryType
  <2> QED
    BY <1>1, <1>3, <2>2, Constants DEF StoredOutcome, Usable, EntryType
<1> QED
  BY <1>2, <1>3

\* What a step of Store does, for a task that has its result.
LEMMA StoreFacts ==
    ASSUME IndInv, NEW t \in Tasks, Store(t),
           NEW CONSTANT n, n = task[t].name
    PROVE  /\ n \in Names /\ CacheTyped' /\ InflightTyped'
           /\ n \in DOMAIN cache' /\ cache'[n] = StoredEntry(n, task[t].result)
           /\ DOMAIN cache' \subseteq DOMAIN cache \cup {n}
           /\ \A m \in DOMAIN cache' \ {n} : cache'[m] = cache[m]
           /\ \A m \in DOMAIN cache :
                 cache[m].fresh > 0 \/ cache[m].stale > 0 => m \in DOMAIN cache'
           /\ DOMAIN inflight' = DOMAIN inflight \ {n}
           /\ \A m \in DOMAIN inflight' : inflight'[m] = inflight[m]
           /\ task[t].result \in Versions \cup {Err}
<1>1. n \in Names /\ task[t].result \in Versions \cup {Err}
  BY DEF IndInv, Newer, Typed, TaskType, Store
<1>2. StoredEntry(n, task[t].result) \in EntryType
  BY <1>1, StoredFacts DEF IndInv, Typed
<1>3. /\ Kept \in [DOMAIN Kept -> EntryType]
      /\ DOMAIN Kept \subseteq DOMAIN cache
      /\ \A m \in DOMAIN Kept : Kept[m] = cache[m]
      /\ \A m \in DOMAIN cache : cache[m].fresh > 0 \/ cache[m].stale > 0 => m \in DOMAIN Kept
  BY KeptFacts DEF IndInv, Typed
<1>4. cache' = With(Kept, n, StoredEntry(n, task[t].result))
  BY DEF Store
<1>5. /\ cache' \in [DOMAIN Kept \cup {n} -> EntryType]
      /\ DOMAIN cache' = DOMAIN Kept \cup {n}
      /\ cache'[n] = StoredEntry(n, task[t].result)
      /\ \A m \in DOMAIN Kept \ {n} : cache'[m] = Kept[m]
  BY <1>2, <1>3, <1>4 DEF With
<1>6. CacheTyped'
  BY <1>1, <1>3, <1>5 DEF CacheTyped, IndInv, Typed
<1>7. inflight' = Without(inflight, {n})
  BY DEF Store, InflightAfter
<1>8. /\ inflight' \in [DOMAIN inflight \ {n} -> Tasks]
      /\ DOMAIN inflight' = DOMAIN inflight \ {n}
      /\ \A m \in DOMAIN inflight \ {n} : inflight'[m] = inflight[m]
  BY <1>7 DEF IndInv, Typed, InflightTyped, Without
<1>9. InflightTyped'
  BY <1>8 DEF InflightTyped, IndInv, Typed
<1> QED
  BY <1>1, <1>3, <1>5, <1>6, <1>8, <1>9

-----------------------------------------------------------------------------
(* The other steps.                                                        *)

\* A task is spawned for a name that nobody resolves.
LEMMA SpawnFacts ==
    ASSUME IndInv, NEW n \in Names, n \notin DOMAIN inflight, NEW t \in Tasks,
           task[t].pc = "free",
           task' = [task EXCEPT ![t] = [FreeTask EXCEPT !.pc = "queued", !.name = n]],
           inflight' = With(inflight, n, t)
    PROVE  /\ InflightTyped' /\ task' \in [Tasks -> TaskType]
           /\ task'[t].pc = "queued" /\ task'[t].name = n /\ task'[t].read = None
           /\ \A u \in Tasks \ {t} : task'[u] = task[u]
           /\ DOMAIN inflight' = DOMAIN inflight \cup {n} /\ inflight'[n] = t
           /\ \A m \in DOMAIN inflight : inflight'[m] = inflight[m]
<1>1. /\ inflight' \in [DOMAIN inflight \cup {n} -> Tasks]
      /\ DOMAIN inflight' = DOMAIN inflight \cup {n} /\ inflight'[n] = t
      /\ \A m \in DOMAIN inflight : inflight'[m] = inflight[m]
  BY DEF With, IndInv, Typed, InflightTyped
<1>2. InflightTyped'
  BY <1>1 DEF IndInv, Typed, InflightTyped
<1>3. [FreeTask EXCEPT !.pc = "queued", !.name = n] \in TaskType
  BY DEF FreeTask, TaskType
<1> QED
  BY <1>1, <1>2, <1>3 DEF IndInv, Typed, FreeTask

\* Every step keeps the state in its type.
LEMMA TypedStep == ASSUME IndInv, [Next]_vars PROVE Typed'
<1> USE DEF IndInv
<1>1. CASE UNCHANGED vars
  BY <1>1 DEF vars, Typed, CacheTyped, InflightTyped
<1>2. CASE Tick
  <2>1. ASSUME NEW n \in DOMAIN cache
        PROVE  [cache[n] EXCEPT !.fresh = IF @ > 0 THEN @ - 1 ELSE 0,
                                !.stale = IF @ > -NegativeTtl THEN @ - 1 ELSE @] \in EntryType
    <3>1. cache[n] \in EntryType
      BY DEF Typed, CacheTyped
    <3>2. /\ cache[n].fresh \in Nat
          /\ (IF cache[n].fresh > 0 THEN cache[n].fresh - 1 ELSE 0) \in Nat
      BY <3>1 DEF EntryType
    <3>3. (IF cache[n].stale > -NegativeTtl THEN cache[n].stale - 1 ELSE cache[n].stale) \in Int
      BY <3>1, Constants DEF EntryType
    <3> QED
      BY <3>1, <3>2, <3>3 DEF EntryType
  <2>2. cache' \in [DOMAIN cache -> EntryType] /\ DOMAIN cache' = DOMAIN cache
    BY <1>2, <2>1 DEF Tick
  <2> QED
    BY <1>2, <2>2 DEF Tick, Typed, CacheTyped, InflightTyped
<1>3. ASSUME NEW n \in Names, Change(n) PROVE Typed'
  <2>1. zone[n] + 1 \in Versions
    BY <1>3, Constants DEF Change, Typed, Versions
  <2> QED
    BY <1>3, <2>1 DEF Change, Typed, CacheTyped, InflightTyped
<1>4. ASSUME NEW p \in Callers, CallerGivesUp(p) PROVE Typed'
  BY <1>4 DEF CallerGivesUp, Typed, CacheTyped, InflightTyped, IdleCaller, CallerType
<1>5. ASSUME NEW p \in Callers, NEW n \in Names, ResolveCached(p, n) PROVE Typed'
  <2>1. cache[n].addrs \in Versions \cup {None}
    BY <1>5 DEF ResolveCached, Fresh, Typed, CacheTyped, EntryType
  <2> QED
    BY <1>5, <2>1 DEF ResolveCached, Typed, CacheTyped, InflightTyped, IdleCaller, CallerType
<1>6. ASSUME NEW p \in Callers, NEW n \in Names, NEW t \in Tasks, Waits(p, n, t)
      PROVE  caller' \in [Callers -> CallerType]
  BY <1>6 DEF Waits, Typed, IdleCaller, CallerType
<1>7. ASSUME NEW p \in Callers, NEW n \in Names, ResolveJoins(p, n) PROVE Typed'
  <2>1. inflight[n] \in Tasks
    BY <1>7 DEF ResolveJoins, Typed, InflightTyped
  <2>2. caller' \in [Callers -> CallerType]
    BY <1>6, <1>7, <2>1 DEF ResolveJoins
  <2> QED
    BY <1>7, <2>2 DEF ResolveJoins, Typed, CacheTyped, InflightTyped
<1>8. ASSUME NEW p \in Callers, NEW n \in Names, ResolveSpawns(p, n) PROVE Typed'
  <2>1. PICK t \in Tasks :
           /\ task[t].pc = "free"
           /\ task' = [task EXCEPT ![t] = [FreeTask EXCEPT !.pc = "queued", !.name = n]]
           /\ inflight' = With(inflight, n, t)
           /\ Waits(p, n, t)
    BY <1>8 DEF ResolveSpawns
  <2>2. caller' \in [Callers -> CallerType]
    BY <1>6, <2>1
  <2>3. InflightTyped' /\ task' \in [Tasks -> TaskType]
    BY <1>8, <2>1, SpawnFacts DEF ResolveSpawns
  <2> QED
    BY <1>8, <2>2, <2>3 DEF ResolveSpawns, Typed, CacheTyped
<1>9. ASSUME NEW t \in Tasks, AcquirePermit(t) \/ ReadZone(t) \/ CallReturns(t) PROVE Typed'
  <2>1. /\ task[t] \in TaskType
        /\ task[t].pc = "blocking" => zone[task[t].name] \in Versions
    BY DEF Typed, Newer
  <2>2. task' \in [Tasks -> TaskType]
    <3>1. CASE AcquirePermit(t)
      BY <2>1, <3>1 DEF AcquirePermit, Typed, TaskType
    <3>2. CASE ReadZone(t)
      BY <2>1, <3>2 DEF ReadZone, Typed, TaskType
    <3>3. CASE CallReturns(t)
      <4>1. PICK r \in {task[t].read, Err} \ {None} :
               task' = [task EXCEPT ![t].pc = "returned", ![t].result = r]
        BY <3>3 DEF CallReturns
      <4>2. r \in Versions \cup {Err}
        BY <2>1 DEF TaskType
      <4> QED
        BY <2>1, <4>1, <4>2 DEF Typed, TaskType
    <3> QED
      BY <1>9, <3>1, <3>2, <3>3
  <2> QED
    BY <1>9, <2>2 DEF AcquirePermit, ReadZone, CallReturns, Typed, CacheTyped, InflightTyped
<1>10. ASSUME NEW t \in Tasks, Store(t) PROVE Typed'
  <2>1. CacheTyped' /\ InflightTyped' /\ StoredOutcome(task[t].name, task[t].result) \in Versions \cup {Err}
    BY <1>10, StoreFacts, StoredFacts DEF Typed
  <2>2. task' \in [Tasks -> TaskType]
    BY <1>10, <2>1 DEF Store, Typed, TaskType
  <2> QED
    BY <1>10, <2>1, <2>2 DEF Store, Typed
<1>11. ASSUME NEW t \in Tasks, Send(t) PROVE Typed'
  <2>1. FreeTask \in TaskType /\ task[t].result \in Versions \cup {Err, None}
    BY DEF FreeTask, TaskType, Typed
  <2>2. task' \in [Tasks -> TaskType]
    <3>1. task' = [task EXCEPT ![t] = FreeTask] /\ task \in [Tasks -> TaskType]
      BY <1>11 DEF Send, Typed
    <3> QED
      BY <2>1, <3>1
  <2>3. caller' \in [Callers -> CallerType]
    <3>1. ASSUME NEW w \in CallerType, NEW r \in Versions \cup {Err, None}
          PROVE  [w EXCEPT !.pc = "returned", !.task = None, !.got = r] \in CallerType
      BY DEF CallerType
    <3>2. \A p \in Callers :
              [caller[p] EXCEPT !.pc = "returned", !.task = None, !.got = task[t].result]
                  \in CallerType /\ caller[p] \in CallerType
      BY <2>1, <3>1 DEF Typed
    <3> QED
      BY <1>11, <3>2 DEF Send
  <2> QED
    BY <1>11, <2>2, <2>3 DEF Send, Typed, CacheTyped, InflightTyped
<1> QED
  BY <1>1, <1>2, <1>3, <1>4, <1>5, <1>7, <1>8, <1>9, <1>10, <1>11 DEF Next, TaskStep

\* Every step keeps a name in flight exactly while a live lookup stands for it.
LEMMA RegisteredStep == ASSUME IndInv, [Next]_vars PROVE Registered'
<1> USE DEF IndInv
<1>1. CASE UNCHANGED <<inflight, task>>
  BY <1>1 DEF Registered
<1>2. ASSUME NEW p \in Callers, NEW n \in Names, ResolveSpawns(p, n) PROVE Registered'
  <2>1. PICK t \in Tasks :
           /\ task[t].pc = "free"
           /\ task' = [task EXCEPT ![t] = [FreeTask EXCEPT !.pc = "queued", !.name = n]]
           /\ inflight' = With(inflight, n, t)
    BY <1>2 DEF ResolveSpawns
  <2>2. /\ task'[t].pc = "queued" /\ task'[t].name = n
        /\ \A u \in Tasks \ {t} : task'[u] = task[u]
        /\ DOMAIN inflight' = DOMAIN inflight \cup {n} /\ inflight'[n] = t
        /\ \A m \in DOMAIN inflight : inflight'[m] = inflight[m]
    <3>1. n \notin DOMAIN inflight
      BY <1>2 DEF ResolveSpawns
    <3>2. /\ task'[t].pc = "queued" /\ task'[t].name = n
          /\ \A u \in Tasks \ {t} : task'[u] = task[u]
      BY <2>1 DEF Typed, FreeTask
    <3>3. /\ DOMAIN inflight' = DOMAIN inflight \cup {n} /\ inflight'[n] = t
          /\ \A m \in DOMAIN inflight : inflight'[m] = inflight[m]
      BY <2>1, <3>1 DEF With
    <3> QED
      BY <3>2, <3>3
  <2>3. t \notin {inflight[m] : m \in DOMAIN inflight} /\ n \notin DOMAIN inflight
    BY <1>2, <2>1 DEF Registered, Active, ResolveSpawns
  <2> QED
    BY <2>2, <2>3 DEF Registered, Active, Typed, InflightTyped
<1>3. ASSUME NEW t \in Tasks, AcquirePermit(t) \/ ReadZone(t) \/ CallReturns(t) PROVE Registered'
  <2>1. /\ inflight' = inflight
        /\ \A u \in Tasks : task'[u].name = task[u].name
        /\ \A u \in Tasks : task'[u].pc \in Active <=> task[u].pc \in Active
    BY <1>3 DEF AcquirePermit, ReadZone, CallReturns, Typed, TaskType, Active
  <2> QED
    BY <2>1 DEF Registered, Typed, InflightTyped
<1>4. ASSUME NEW t \in Tasks, Store(t) PROVE Registered'
  <2>1. /\ DOMAIN inflight' = DOMAIN inflight \ {task[t].name}
        /\ \A m \in DOMAIN inflight' : inflight'[m] = inflight[m]
    BY <1>4, StoreFacts
  <2>2. /\ \A u \in Tasks \ {t} : task'[u] = task[u]
        /\ task[t].pc \in Active /\ task'[t].pc \notin Active
    BY <1>4 DEF Store, Typed, TaskType, Active
  <2> QED
    BY <2>1, <2>2 DEF Registered, Typed, InflightTyped
<1>5. ASSUME NEW t \in Tasks, Send(t) PROVE Registered'
  <2>1. /\ inflight' = inflight
        /\ \A u \in Tasks \ {t} : task'[u] = task[u]
        /\ task[t].pc \notin Active /\ task'[t].pc \notin Active
    BY <1>5 DEF Send, Typed, TaskType, Active, FreeTask
  <2> QED
    BY <2>1 DEF Registered, Typed, InflightTyped
<1> QED
  BY <1>1, <1>2, <1>3, <1>4, <1>5 DEF Next, TaskStep, vars, Tick, Change, CallerGivesUp,
     ResolveCached, ResolveJoins

\* What a task has read and what is cached, over a step: the zone only grows,
\* an entry changes its addresses only when the task of its name stores, and
\* that is the one task of that name.
LEMMA NewerStep == ASSUME IndInv, [Next]_vars, NEW u \in Tasks PROVE Newer(u)'
<1>0. /\ Typed /\ Registered /\ Newer(u) /\ task[u] \in TaskType
      /\ \A n \in DOMAIN cache : cache[n] \in EntryType /\ Sound(n)
  BY DEF IndInv, Typed, CacheTyped
<1>1. CASE UNCHANGED <<cache, task, zone>>
  BY <1>0, <1>1 DEF Newer
<1>2. CASE Tick
  <2>1. /\ task' = task /\ zone' = zone /\ DOMAIN cache' = DOMAIN cache
        /\ \A n \in DOMAIN cache : cache'[n].addrs = cache[n].addrs
    BY <1>0, <1>2 DEF Tick, EntryType
  <2> QED
    BY <1>0, <2>1 DEF Newer
<1>3. ASSUME NEW n \in Names, Change(n) PROVE Newer(u)'
  <2>1. task' = task /\ cache' = cache
    BY <1>3 DEF Change
  <2>2. ASSUME task[u].pc \in Active, task[u].read # None
        PROVE  task[u].read <= zone'[task[u].name]
    <3>1. /\ task[u].read \in Nat /\ task[u].read <= zone[task[u].name]
          /\ task[u].name \in Names /\ zone[task[u].name] \in Nat
      BY <1>0, <2>2, Constants DEF Newer, Typed, TaskType, Active
    <3>2. zone'[task[u].name] \in {zone[task[u].name], zone[task[u].name] + 1}
      BY <1>0, <1>3, <3>1 DEF Change, Typed
    <3> QED
      BY <3>1, <3>2
  <2> QED
    BY <1>0, <2>1, <2>2 DEF Newer
<1>4. ASSUME NEW p \in Callers, NEW n \in Names, ResolveSpawns(p, n) PROVE Newer(u)'
  <2>1. PICK t \in Tasks :
           task' = [task EXCEPT ![t] = [FreeTask EXCEPT !.pc = "queued", !.name = n]]
    BY <1>4 DEF ResolveSpawns
  <2>2. cache' = cache /\ zone' = zone
    BY <1>4 DEF ResolveSpawns
  <2>3. CASE u = t
    BY <1>0, <2>1, <2>3 DEF Newer, FreeTask, Typed
  <2>4. CASE u # t
    BY <1>0, <2>1, <2>2, <2>4 DEF Newer, Typed
  <2> QED
    BY <2>3, <2>4
<1>5. ASSUME NEW t \in Tasks, AcquirePermit(t) PROVE Newer(u)'
  BY <1>0, <1>5 DEF AcquirePermit, Newer, Typed, TaskType, Active
<1>6. ASSUME NEW t \in Tasks, ReadZone(t) PROVE Newer(u)'
  <2>1. cache' = cache /\ zone' = zone
    BY <1>6 DEF ReadZone
  <2>2. CASE u # t
    BY <1>0, <1>6, <2>1, <2>2 DEF ReadZone, Newer, Typed
  <2>3. CASE u = t
    <3>1. /\ task'[u].pc = "blocking" /\ task'[u].name = task[u].name
          /\ task'[u].read = zone[task[u].name] /\ task[u].name \in Names
          /\ zone[task[u].name] \in Nat
      BY <1>0, <1>6, <2>3, Constants DEF ReadZone, Newer, Typed, TaskType
    <3>2. task[u].name \in DOMAIN cache /\ cache[task[u].name].addrs # None =>
             cache[task[u].name].addrs <= zone[task[u].name]
      BY <1>0 DEF Sound
    <3> QED
      BY <2>1, <3>1, <3>2 DEF Newer
  <2> QED
    BY <2>2, <2>3
<1>7. ASSUME NEW t \in Tasks, CallReturns(t) PROVE Newer(u)'
  <2>1. PICK r \in {task[t].read, Err} \ {None} :
           task' = [task EXCEPT ![t].pc = "returned", ![t].result = r]
    BY <1>7 DEF CallReturns
  <2>2. cache' = cache /\ zone' = zone /\ task[t].pc = "blocking"
    BY <1>7 DEF CallReturns
  <2> QED
    BY <1>0, <2>1, <2>2 DEF Newer, Typed, TaskType, Active
<1>8. ASSUME NEW t \in Tasks, Store(t) PROVE Newer(u)'
  <2>1. /\ \A m \in DOMAIN cache' \ {task[t].name} : m \in DOMAIN cache /\ cache'[m] = cache[m]
        /\ zone' = zone
    BY <1>8, StoreFacts DEF Store
  <2>2. CASE u = t
    BY <1>0, <1>8, <2>1, <2>2 DEF Store, Newer, Typed, TaskType, Active
  <2>3. CASE u # t
    <3>1. task'[u] = task[u]
      BY <1>0, <1>8, <2>3 DEF Store, Typed
    <3>2. task[u].pc \in Active => task[u].name # task[t].name
      BY <1>0, <1>8, <2>3 DEF Store, Registered, Active
    <3> QED
      BY <1>0, <2>1, <3>1, <3>2 DEF Newer
  <2> QED
    BY <2>2, <2>3
<1>9. ASSUME NEW t \in Tasks, Send(t) PROVE Newer(u)'
  BY <1>0, <1>9 DEF Send, Newer, Typed, TaskType, FreeTask, Active
<1> QED
  BY <1>1, <1>2, <1>3, <1>4, <1>5, <1>6, <1>7, <1>8, <1>9 DEF Next, TaskStep, vars,
     CallerGivesUp, ResolveCached, ResolveJoins

\* The entries over a step.  Time moves both windows by one; a failed lookup
\* makes an entry fresh for NegativeTtl only inside its stale window.
LEMMA SoundStep == ASSUME IndInv, [Next]_vars, NEW m \in DOMAIN cache' PROVE Sound(m)'
<1>0. /\ Typed /\ \A n \in DOMAIN cache : cache[n] \in EntryType /\ Sound(n)
      /\ DOMAIN cache \subseteq Names
  BY DEF IndInv, Typed, CacheTyped
<1>1. CASE UNCHANGED <<cache, zone>>
  BY <1>0, <1>1 DEF Sound
<1>2. CASE Tick
  <2>1. zone' = zone /\ m \in DOMAIN cache
    BY <1>2 DEF Tick
  <2>2. /\ cache'[m].addrs = cache[m].addrs
        /\ cache'[m].fresh = (IF cache[m].fresh > 0 THEN cache[m].fresh - 1 ELSE 0)
        /\ cache'[m].stale =
              (IF cache[m].stale > -NegativeTtl THEN cache[m].stale - 1 ELSE cache[m].stale)
    BY <1>0, <1>2, <2>1 DEF Tick, EntryType
  <2>3. cache[m].fresh \in Nat /\ cache[m].stale \in Int
    BY <1>0, <2>1 DEF EntryType
  <2> QED
    BY <1>0, <2>1, <2>2, <2>3, Constants DEF Sound
<1>3. ASSUME NEW n \in Names, Change(n) PROVE Sound(m)'
  <2>1. cache' = cache /\ m \in DOMAIN cache /\ m \in Names
    BY <1>0, <1>3 DEF Change
  <2>2. zone'[m] \in {zone[m], zone[m] + 1} /\ zone[m] \in Nat
    BY <1>0, <1>3, <2>1, Constants DEF Change, Typed
  <2>3. cache[m].addrs # None => cache[m].addrs \in Nat
    BY <1>0, <2>1, Constants DEF EntryType
  <2> QED
    BY <1>0, <2>1, <2>2, <2>3 DEF Sound
<1>4. ASSUME NEW t \in Tasks, Store(t) PROVE Sound(m)'
  <2>1. CASE m # task[t].name
    <3>1. m \in DOMAIN cache /\ cache'[m] = cache[m]
      <4>1. m \in DOMAIN cache' \ {task[t].name}
        BY <2>1
      <4>2. \A k \in DOMAIN cache' \ {task[t].name} : k \in DOMAIN cache /\ cache'[k] = cache[k]
        BY <1>4, StoreFacts
      <4> QED
        BY <4>1, <4>2
    <3> QED
      BY <1>0, <1>4, <3>1 DEF Sound, Store
  <2>2. CASE m = task[t].name
    <3> DEFINE r == task[t].result
               e == StoredEntry(m, r)
    <3>1. /\ cache'[m] = e /\ r \in Versions \cup {Err} /\ m \in Names
      BY <1>4, <2>2, StoreFacts
    <3>2. zone' = zone /\ task[t].pc = "returned" /\ Newer(t) /\ CacheTyped
      BY <1>4 DEF Store, IndInv, Typed
    <3>3. e \in EntryType
      BY <3>1, <3>2, StoredFacts
    <3>4. CASE r # Err
      <4>1. e.addrs = r /\ e.stale >= e.fresh
        BY <3>1, <3>2, <3>4, StoredFacts
      <4>2. r <= zone[m]
        BY <2>2, <3>1, <3>2, <3>4, Constants DEF Newer, Active
      <4> QED
        BY <3>1, <3>2, <3>3, <4>1, <4>2 DEF Sound
    <3>5. CASE r = Err
      <4>1. e.addrs # None =>
               m \in DOMAIN cache /\ e.addrs = cache[m].addrs /\ e.stale > 0 /\ e.fresh = NegativeTtl
        BY <3>1, <3>2, <3>5, StoredFacts
      <4>2. e.stale \in Int
        BY <3>3 DEF EntryType
      <4> HIDE DEF e
      <4> QED
        BY <1>0, <3>1, <3>2, <4>1, <4>2, Constants DEF Sound
    <3> QED
      BY <3>4, <3>5
  <2> QED
    BY <2>1, <2>2
<1> QED
  BY <1>1, <1>2, <1>3, <1>4 DEF Next, TaskStep, vars, CallerGivesUp, ResolveCached, ResolveJoins,
     ResolveSpawns, AcquirePermit, ReadZone, CallReturns, Send

\* The permits over a step: AcquirePermit takes one and puts its task among the
\* blocking ones, CallReturns gives it back and takes the task out, and no
\* other step moves a task in or out.
LEMMA PermitsStep == ASSUME IndInv, [Next]_vars PROVE Permits'
<1>0. /\ task \in [Tasks -> TaskType] /\ IsFiniteSet(Blocking) /\ Cardinality(Blocking) \in Nat
      /\ slots \in Nat /\ slots + Cardinality(Blocking) = MaxConcurrent /\ MaxConcurrent \in Nat
  BY FS_CardinalityType, Constants DEF IndInv, Typed, Permits, PermitsFollowCalls
<1>1. ASSUME slots' = slots, \A t \in Tasks : task'[t].pc = "blocking" <=> task[t].pc = "blocking"
      PROVE  Permits'
  <2>1. Blocking' = Blocking
    BY <1>1 DEF Blocking
  <2> QED
    BY <1>0, <1>1, <2>1 DEF Permits, PermitsFollowCalls
<1>2. ASSUME NEW t \in Tasks, AcquirePermit(t) PROVE Permits'
  <2>1. Blocking' = Blocking \cup {t} /\ t \notin Blocking
    BY <1>0, <1>2 DEF AcquirePermit, Blocking, TaskType
  <2>2. IsFiniteSet(Blocking') /\ Cardinality(Blocking') = Cardinality(Blocking) + 1
    BY <1>0, <2>1, FS_AddElement
  <2>3. slots' = slots - 1 /\ slots > 0
    BY <1>2 DEF AcquirePermit
  <2> QED
    BY <1>0, <2>2, <2>3 DEF Permits, PermitsFollowCalls
<1>3. ASSUME NEW t \in Tasks, CallReturns(t) PROVE Permits'
  <2>1. Blocking' = Blocking \ {t} /\ t \in Blocking
    BY <1>0, <1>3 DEF CallReturns, Blocking, TaskType
  <2>2. IsFiniteSet(Blocking') /\ Cardinality(Blocking') = Cardinality(Blocking) - 1
    BY <1>0, <2>1, FS_RemoveElement
  <2>3. slots' = slots + 1
    BY <1>3 DEF CallReturns
  <2> QED
    BY <1>0, <2>2, <2>3 DEF Permits, PermitsFollowCalls
<1>4. ASSUME NEW t \in Tasks, ReadZone(t) \/ Store(t) \/ Send(t) PROVE Permits'
  <2>1. slots' = slots
    BY <1>4 DEF ReadZone, Store, Send
  <2>2. \A u \in Tasks : task'[u].pc = "blocking" <=> task[u].pc = "blocking"
    <3>1. CASE ReadZone(t)
      BY <1>0, <3>1 DEF ReadZone, TaskType
    <3>2. CASE Store(t)
      BY <1>0, <3>2 DEF Store, TaskType
    <3>3. CASE Send(t)
      BY <1>0, <3>3 DEF Send, FreeTask
    <3> QED
      BY <1>4, <3>1, <3>2, <3>3
  <2> QED
    BY <1>1, <2>1, <2>2
<1>5. ASSUME NEW p \in Callers, NEW n \in Names, ResolveSpawns(p, n) PROVE Permits'
  <2>1. /\ slots' = slots
        /\ \A u \in Tasks : task'[u].pc = "blocking" <=> task[u].pc = "blocking"
    BY <1>0, <1>5 DEF ResolveSpawns, FreeTask
  <2> QED
    BY <1>1, <2>1
<1>6. CASE UNCHANGED <<slots, task>>
  BY <1>1, <1>6
<1> QED
  BY <1>2, <1>3, <1>4, <1>5, <1>6 DEF Next, TaskStep, vars, Tick, Change, CallerGivesUp,
     ResolveCached, ResolveJoins

-----------------------------------------------------------------------------
(* The theorems.                                                           *)

\* The invariant of the resolver: registrations and active lookups stand for
\* each other, an active lookup has read nothing older than what is cached for
\* its name, and a permit is out exactly for each blocking call.
THEOREM ResolverInvariant == Spec => []IndInv
<1>1. IndInv /\ [Next]_vars => IndInv'
  <2> SUFFICES ASSUME IndInv, [Next]_vars PROVE IndInv'
    OBVIOUS
  <2>1. Typed' /\ Registered' /\ Permits'
    BY TypedStep, RegisteredStep, PermitsStep
  <2>2. \A t \in Tasks : Newer(t)'
    BY NewerStep
  <2>3. \A n \in DOMAIN cache' : Sound(n)'
    BY SoundStep
  <2> QED
    BY <2>1, <2>2, <2>3 DEF IndInv
<1> QED
  BY InitInd, <1>1, PTL DEF Spec

\* A permit is held exactly while a blocking call runs, a name is registered
\* exactly while one task resolves it, and no two tasks resolve one name:
\* whatever callers give up meanwhile (resolve, spawn_lookup, store).
THEOREM LookupsStandForEachOther == Spec => []LookupsAccounted
<1>1. IndInv => LookupsAccounted
  <2> SUFFICES ASSUME IndInv PROVE LookupsAccounted
    OBVIOUS
  <2>1. TypeOK
    <3>1. slots \in 0..MaxConcurrent
      BY FS_CardinalityType, Constants DEF IndInv, Permits, PermitsFollowCalls
    <3> QED
      BY <3>1 DEF TypeOK, IndInv, Typed, CacheTyped, InflightTyped, EntryType, TaskType, CallerType
  <2>2. SingleFlight
    <3>1. \A t, u \in Tasks :
             task[t].pc \in Active /\ task[u].pc \in Active /\ task[t].name = task[u].name => t = u
      BY DEF IndInv, Registered
    <3>2. DOMAIN inflight = {task[t].name : t \in {u \in Tasks : task[u].pc \in Active}}
      BY DEF IndInv, Registered, Typed, InflightTyped
    <3> QED
      BY <3>1, <3>2 DEF SingleFlight, Active
  <2> QED
    BY <2>1, <2>2 DEF LookupsAccounted, IndInv, Permits
<1> QED
  BY ResolverInvariant, <1>1, PTL

\* An old answer outlives its stale window by less than NEGATIVE_TTL, the time
\* for which a failure that found it inside its window makes it fresh (store).
THEOREM OverrunIsBounded == Spec => []OverrunBounded
<1>1. IndInv => OverrunBounded
  <2> SUFFICES ASSUME IndInv, NEW n \in DOMAIN cache, Fresh(n), cache[n].addrs # None
               PROVE  cache[n].stale > -NegativeTtl
    BY DEF OverrunBounded
  <2>1. cache[n].fresh \in Nat /\ cache[n].stale \in Int /\ cache[n].fresh > 0 /\ Sound(n)
    BY DEF IndInv, Typed, CacheTyped, EntryType, Fresh
  <2> QED
    BY <2>1, Constants DEF Sound
<1> QED
  BY ResolverInvariant, <1>1, PTL

\* "no race between an older and a newer answer overwriting each other": what
\* store() puts in the cache is never older than what it replaces, in whatever
\* order the lookups run and return.
THEOREM NoAnswerGoesBack == Spec => AnswersNeverGoBack
<1> DEFINE A == \A n \in DOMAIN cache \cap DOMAIN cache' :
                   cache[n].addrs # None /\ cache'[n].addrs # None =>
                       cache'[n].addrs >= cache[n].addrs
<1>1. IndInv /\ [Next]_vars => [A]_vars
  <2> SUFFICES ASSUME IndInv, [Next]_vars, NEW n \in DOMAIN cache \cap DOMAIN cache',
                      cache[n].addrs # None, cache'[n].addrs # None
               PROVE  cache'[n].addrs >= cache[n].addrs
    OBVIOUS
  <2>1. CASE cache'[n].addrs = cache[n].addrs
    BY <2>1, Constants DEF IndInv, Typed, CacheTyped, EntryType
  <2>2. CASE Tick
    BY <2>1, <2>2 DEF Tick, IndInv, Typed, CacheTyped, EntryType
  <2>3. ASSUME NEW t \in Tasks, Store(t) PROVE cache'[n].addrs >= cache[n].addrs
    <3>1. CASE n # task[t].name
      <4>1. \A k \in DOMAIN cache' \ {task[t].name} : cache'[k] = cache[k]
        BY <2>3, StoreFacts
      <4> QED
        BY <2>1, <3>1, <4>1
    <3>2. CASE n = task[t].name
      <4> DEFINE r == task[t].result
      <4>1. cache'[n] = StoredEntry(n, r) /\ r \in Versions \cup {Err} /\ n \in Names
        BY <2>3, <3>2, StoreFacts
      <4>2. task[t].pc = "returned" /\ Newer(t) /\ CacheTyped
        BY <2>3 DEF Store, IndInv, Typed
      <4>3. CASE r = Err
        BY <2>1, <4>1, <4>2, <4>3, StoredFacts
      <4>4. CASE r # Err
        <5>1. cache'[n].addrs = r
          BY <4>1, <4>2, <4>4, StoredFacts
        <5>2. r = task[t].read /\ task[t].read # None
          BY <4>2, <4>4 DEF Newer
        <5>3. cache[n].addrs <= r /\ cache[n].addrs \in Nat /\ r \in Nat
          BY <3>2, <4>1, <4>2, <4>4, <5>2, Constants DEF Newer, Active, CacheTyped, EntryType
        <5> QED
          BY <5>1, <5>3
      <4> QED
        BY <4>3, <4>4
    <3> QED
      BY <3>1, <3>2
  <2> QED
    BY <2>1, <2>2, <2>3 DEF Next, TaskStep, vars, Change, CallerGivesUp, ResolveCached,
       ResolveJoins, ResolveSpawns, AcquirePermit, ReadZone, CallReturns, Send
<1> QED
  BY ResolverInvariant, <1>1, PTL DEF Spec, AnswersNeverGoBack

\* A good answer inside its stale window survives every step: a failed lookup
\* of its name falls back on it, and a store for another name, which may prune,
\* drops only entries past both of their deadlines.
THEOREM GoodAnswerIsKept == Spec => KeepsGoodAnswer
<1> DEFINE A == \A n \in DOMAIN cache :
                   cache[n].addrs # None /\ cache[n].stale > 0 =>
                       n \in DOMAIN cache' /\ cache'[n].addrs # None
<1>1. IndInv /\ [Next]_vars => [A]_vars
  <2> SUFFICES ASSUME IndInv, [Next]_vars, NEW n \in DOMAIN cache,
                      cache[n].addrs # None, cache[n].stale > 0
               PROVE  n \in DOMAIN cache' /\ cache'[n].addrs # None
    OBVIOUS
  <2>1. CASE cache' = cache
    BY <2>1
  <2>2. CASE Tick
    BY <2>2 DEF Tick, IndInv, Typed, CacheTyped, EntryType
  <2>3. ASSUME NEW t \in Tasks, Store(t) PROVE n \in DOMAIN cache' /\ cache'[n].addrs # None
    <3>1. n \in DOMAIN cache'
      BY <2>3, StoreFacts
    <3>2. CASE n # task[t].name
      <4>1. \A k \in DOMAIN cache' \ {task[t].name} : cache'[k] = cache[k]
        BY <2>3, StoreFacts
      <4> QED
        BY <3>1, <3>2, <4>1
    <3>3. CASE n = task[t].name
      <4>1. /\ cache'[n] = StoredEntry(n, task[t].result) /\ n \in Names
            /\ task[t].result \in Versions \cup {Err} /\ CacheTyped
        BY <2>3, <3>3, StoreFacts DEF IndInv, Typed
      <4> QED
        BY <3>1, <4>1, StoredFacts
    <3> QED
      BY <3>2, <3>3
  <2> QED
    BY <2>1, <2>2, <2>3 DEF Next, TaskStep, vars, Change, CallerGivesUp, ResolveCached,
       ResolveJoins, ResolveSpawns, AcquirePermit, ReadZone, CallReturns, Send
<1> QED
  BY ResolverInvariant, <1>1, PTL DEF Spec, KeepsGoodAnswer
=============================================================================
