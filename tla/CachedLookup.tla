---------------------------- MODULE CachedLookup ----------------------------
(***************************************************************************)
(* CachedLookup (cache.rs): a TTL cache with single-flight loads in front  *)
(* of a slow route store.                                                  *)
(*                                                                         *)
(* Each action is one critical section of the cache's mutex: a lookup up   *)
(* to its first await, the end of a load, invalidate, clear.  Loads run on *)
(* tasks of their own and overlap with everything.  The store belongs to   *)
(* the embedder: it holds a version per route key and a load reads the     *)
(* versions of all its candidate keys at one moment between its start and  *)
(* its end.  An even version means the key has no route.                   *)
(*                                                                         *)
(* Time is a tick; deadlines are kept as the ticks that remain (0: over).  *)
(***************************************************************************)
EXTENDS Integers, Sequences, FiniteSets, SequencesExt, FiniteSetsExt

CONSTANTS
    Keys,           \* RouteKeys
    Cands,          \* RouteCandidates: non-empty sets of keys
    Callers,        \* concurrent callers of lookup
    Loads,          \* names for load tasks
    MaxEntries,     \* config.max_entries
    MaxInflight,    \* config.max_inflight_loads
    Ttl,            \* config.ttl
    Jitter,         \* the most ticks by which jitter moves a TTL
    NegativeTtl,    \* config.negative_ttl
    StaleIfError,   \* config.stale_if_error, 0 if unset
    LoadTimeout,    \* config.load_timeout
    FirstVersion,   \* [Keys -> version in the store at first]; odd versions are routes
    MaxVersion,     \* bound on the versions of one key
    AgeCap,         \* bound on the age the history variable `since` tells apart
    None, Err

ASSUME CacheAssumption ==
    /\ Cands \subseteq (SUBSET Keys) \ {{}}
    /\ {MaxEntries, MaxInflight, Ttl, Jitter, NegativeTtl, StaleIfError, LoadTimeout,
        MaxVersion, AgeCap} \subseteq Nat
    /\ FirstVersion \in [Keys -> 0..MaxVersion]
    /\ Jitter <= Ttl
    /\ MaxInflight <= Cardinality(Loads)

VARIABLES
    cache,     \* CacheState: entries, index, order, and the ticks to the next purge
    inflight,  \* CacheState.inflight: [candidates -> the load that owns the slot]
    running,   \* CacheState.running_loads
    load,      \* [Loads -> state of the task and its LoadGuard]
    caller,    \* [Callers -> state of its cached_lookup call; history: how it was
               \*  answered and how old the answer was then (by, age)]
    store,     \* [Keys -> version in the embedder's store]
    floor,     \* history: [Keys -> version when last invalidated]
    since      \* history: [Keys -> [version -> ticks since it was superseded]]

vars == <<cache, inflight, running, load, caller, store, floor, since>>

Versions == 0..MaxVersion
Hits(c) == [c -> Versions]
AllHits == UNION {Hits(c) : c \in Cands}
AllAges == UNION {[c -> 0..AgeCap] : c \in Cands}

\* RouteHits::is_empty: no candidate key has a route.
IsEmpty(hits) == \A k \in DOMAIN hits : hits[k] % 2 = 0

\* f without the keys S, and f with f[x] = y.
Without(f, S) == [x \in DOMAIN f \ S |-> f[x]]
With(f, x, y) == [z \in DOMAIN f \cup {x} |-> IF z = x THEN y ELSE f[z]]

\* The longest a positive entry may live, and an entry of either kind.
LongestTtl == IF Ttl + Jitter > NegativeTtl THEN Ttl + Jitter ELSE NegativeTtl
Ids == 0..(2 * MaxEntries)

Entry ==
    [hits : AllHits, fresh : 0..LongestTtl, stale : 0..(LongestTtl + StaleIfError), id : Ids]

FreeLoad == [pc |-> "free", cands |-> None, read |-> None, left |-> 0, result |-> None]
IdleCaller == [pc |-> "idle", cands |-> None, load |-> None, stale |-> None,
               need |-> None, got |-> None, by |-> None, age |-> None]

TypeOK ==
    /\ DOMAIN cache.entries \subseteq Cands
    /\ \A c \in DOMAIN cache.entries :
          /\ cache.entries[c] \in Entry
          /\ cache.entries[c].hits \in Hits(c)
    /\ cache.index \in [Keys -> SUBSET Cands]
    /\ cache.order \in Seq(Cands \X Ids)
    /\ cache.purge \in 0..NegativeTtl
    /\ DOMAIN inflight \subseteq Cands
    /\ \A c \in DOMAIN inflight : inflight[c] \in Loads
    /\ running \in Nat
    /\ load \in [Loads -> [pc : {"free", "running", "ended"}, cands : Cands \cup {None},
                           read : AllHits \cup {None}, left : 0..LoadTimeout,
                           result : AllHits \cup {None, Err}]]
    /\ caller \in [Callers -> [pc : {"idle", "waiting", "returned"}, cands : Cands \cup {None},
                               load : Loads \cup {None}, stale : AllHits \cup {None},
                               need : AllHits \cup {None}, got : AllHits \cup {None, Err},
                               by : {None, "hit", "shed", "load", "stale"},
                               age : AllAges \cup {None}]]
    /\ store \in [Keys -> Versions]
    /\ floor \in [Keys -> Versions]
    /\ since \in [Keys -> [Versions -> 0..AgeCap]]

EmptyCache == [entries |-> <<>>, index |-> [k \in Keys |-> {}], order |-> <<>>, purge |-> 0]

Init ==
    /\ cache = EmptyCache
    /\ inflight = <<>>
    /\ running = 0
    /\ load = [l \in Loads |-> FreeLoad]
    /\ caller = [p \in Callers |-> IdleCaller]
    /\ store = FirstVersion
    /\ floor = FirstVersion
    /\ since = [k \in Keys |-> [v \in Versions |-> IF v < FirstVersion[k] THEN AgeCap ELSE 0]]

-----------------------------------------------------------------------------
(* CacheState: entries, index and eviction order.                          *)

\* Mutant: the index records are left behind.
RemoveEntriesOnly(st, S) == [st EXCEPT !.entries = Without(@, S)]

\* remove_entry, for a set of entries.
RemoveEntries(st, S) ==
    [st EXCEPT !.entries = Without(@, S),
               !.index = [k \in Keys |-> @[k] \ (S \cap DOMAIN st.entries)]]

\* An order record is live only if its id is the entry's.
IsLive(st, rec) == rec[1] \in DOMAIN st.entries /\ st.entries[rec[1]].id = rec[2]

\* Mutant: one entry too many.
FullLate(st) == Cardinality(DOMAIN st.entries) > MaxEntries

Full(st) == Cardinality(DOMAIN st.entries) >= MaxEntries

\* make_room, first half: drop the entries past their stale window, at most
\* once per negative_ttl.
Purge(st) ==
    IF st.purge > 0 THEN st
    ELSE LET dead == {c \in DOMAIN st.entries : st.entries[c].stale = 0}
         IN  [RemoveEntries(st, dead) EXCEPT !.purge = NegativeTtl]

\* make_room, second half: pop records from the front, dropping the entries of
\* the live ones, until there is room.
EvictOldest(st) ==
    LET LiveIn(n) == {st.order[i][1] : i \in {j \in 1..n : IsLive(st, st.order[j])}}
        enough == {n \in 0..Len(st.order) :
                      Cardinality(DOMAIN st.entries \ LiveIn(n)) < MaxEntries}
        n == IF enough = {} THEN Len(st.order) ELSE Min(enough)
    IN  [RemoveEntries(st, LiveIn(n)) EXCEPT !.order = SubSeq(@, n + 1, Len(@))]

MakeRoom(st) == IF Full(st) THEN EvictOldest(Purge(st)) ELSE st

\* take_id: an id that tells this insertion of c from every recorded one.
FreshId(st, c) == Min(Ids \ {rec[2] : rec \in {r \in ToSet(st.order) : r[1] = c}})

\* Mutant: the random factor is taken in [1, 1 + 2 * jitter].
TtlsLopsided(hits) == IF IsEmpty(hits) THEN {NegativeTtl} ELSE Ttl..(Ttl + 2 * Jitter)

\* The TTLs an entry may get: jitter makes it a choice for positive ones.
Ttls(hits) == IF IsEmpty(hits) THEN {NegativeTtl} ELSE (Ttl - Jitter)..(Ttl + Jitter)

\* The items of s at the given places, in their order: the n-th is at the place
\* up to which there are n.
Retain(s, places) ==
    [n \in 1..Cardinality(places) |->
        s[CHOOSE i \in places : Cardinality({j \in places : j <= i}) = n]]

\* Superseded records are dropped once the order is twice as long as the cache.
Compact(st) ==
    LET live == {i \in DOMAIN st.order : IsLive(st, st.order[i])}
    IN  IF Len(st.order) > 2 * MaxEntries THEN [st EXCEPT !.order = Retain(@, live)] ELSE st

\* insert.
Insert(st, c, hits, ttl) ==
    IF MaxEntries = 0 THEN st
    ELSE LET new == c \notin DOMAIN st.entries
             roomy == IF new THEN MakeRoom(st) ELSE st
             id == FreshId(st, c)
             entry == [hits |-> hits, fresh |-> ttl, stale |-> ttl + StaleIfError, id |-> id]
         IN  Compact([roomy EXCEPT
                !.entries = With(@, c, entry),
                !.index = [k \in Keys |-> IF new /\ k \in c THEN @[k] \cup {c} ELSE @[k]],
                !.order = Append(@, <<c, id>>)])

-----------------------------------------------------------------------------
(* The store and the clock.                                                *)

\* A route is added, changed or removed in the store.
Change(k) ==
    /\ store[k] < MaxVersion
    /\ store' = [store EXCEPT ![k] = @ + 1]
    /\ UNCHANGED <<cache, inflight, running, load, caller, floor, since>>

Less(n) == IF n > 0 THEN n - 1 ELSE 0
Aged(entry) == [entry EXCEPT !.fresh = Less(@), !.stale = Less(@)]

\* A tick.  Timers fire on time: no load outlives its timeout, and no time
\* passes between the unlock in finish and the send, with no await between them.
Tick ==
    /\ \A l \in Loads : load[l].pc = "running" => load[l].left > 0
    /\ \A l \in Loads : load[l].pc # "ended"
    /\ cache' = [cache EXCEPT
          !.entries = [c \in DOMAIN @ |-> Aged(@[c])],
          !.purge = Less(@)]
    /\ load' = [l \in Loads |-> [load[l] EXCEPT !.left = Less(@)]]
    /\ since' = [k \in Keys |-> [v \in Versions |->
          IF v < store[k] /\ since[k][v] < AgeCap THEN since[k][v] + 1 ELSE since[k][v]]]
    /\ UNCHANGED <<inflight, running, caller, store, floor>>

-----------------------------------------------------------------------------
(* cached_lookup.                                                          *)

Cached(c) == c \in DOMAIN cache.entries
Fresh(c) == Cached(c) /\ cache.entries[c].fresh > 0

\* The copy a caller keeps of an expired entry inside its stale window.
StaleCopy(c) ==
    IF Cached(c) /\ cache.entries[c].stale > 0 THEN cache.entries[c].hits ELSE None

\* What a lookup that starts now must at least see.
Need(c) == [k \in c |-> floor[k]]

\* The ticks since each version of an answer was superseded.
AgeOf(r) == IF r = Err THEN None ELSE [k \in DOMAIN r |-> since[k][r[k]]]

\* The call returns r without waiting.
Returns(p, c, r, by) ==
    caller' = [caller EXCEPT ![p] =
        [IdleCaller EXCEPT !.pc = "returned", !.cands = c, !.need = Need(c), !.got = r,
                           !.by = by, !.age = AgeOf(r)]]

\* The call waits for load l.
Waits(p, c, l) ==
    caller' = [caller EXCEPT ![p] =
        [IdleCaller EXCEPT !.pc = "waiting", !.cands = c, !.load = l,
                           !.stale = StaleCopy(c), !.need = Need(c)]]

Ready(p) == caller[p].pc # "waiting"

\* A fresh entry answers (Hit, NegativeHit).
LookupHit(p, c) ==
    /\ Ready(p)
    /\ Fresh(c)
    /\ Returns(p, c, cache.entries[c].hits, "hit")
    /\ UNCHANGED <<cache, inflight, running, load, store, floor, since>>

\* A load for the same candidates is in flight (Coalesced).
LookupJoin(p, c) ==
    /\ Ready(p)
    /\ ~Fresh(c)
    /\ c \in DOMAIN inflight
    /\ Waits(p, c, inflight[c])
    /\ UNCHANGED <<cache, inflight, running, load, store, floor, since>>

\* Too many loads are running (Shed): stale if there is one, else fail.
LookupShed(p, c) ==
    /\ Ready(p)
    /\ ~Fresh(c)
    /\ c \notin DOMAIN inflight
    /\ running >= MaxInflight
    /\ Returns(p, c, IF StaleCopy(c) # None THEN StaleCopy(c) ELSE Err, "shed")
    /\ UNCHANGED <<cache, inflight, running, load, store, floor, since>>

\* start_load (Miss).
LookupMiss(p, c) ==
    /\ Ready(p)
    /\ ~Fresh(c)
    /\ c \notin DOMAIN inflight
    /\ running < MaxInflight
    /\ \E l \in Loads :
          /\ load[l].pc = "free"
          /\ load' = [load EXCEPT ![l] =
                        [FreeLoad EXCEPT !.pc = "running", !.cands = c, !.left = LoadTimeout]]
          /\ inflight' = With(inflight, c, l)
          /\ Waits(p, c, l)
    /\ running' = running + 1
    /\ UNCHANGED <<cache, store, floor, since>>

\* The caller's future is dropped (lookup timeout, client gone, shutdown); the
\* load goes on.
CallerGivesUp(p) ==
    /\ caller[p].pc = "waiting"
    /\ caller' = [caller EXCEPT ![p] = IdleCaller]
    /\ UNCHANGED <<cache, inflight, running, load, store, floor, since>>

-----------------------------------------------------------------------------
(* A load.                                                                 *)

\* inner.lookup reads the store.
LoadReads(l) ==
    /\ load[l].pc = "running"
    /\ load[l].read = None
    /\ load' = [load EXCEPT ![l].read = [k \in load[l].cands |-> store[k]]]
    /\ UNCHANGED <<cache, inflight, running, caller, store, floor, since>>

OwnsSlot(l) == load[l].cands \in DOMAIN inflight /\ inflight[load[l].cands] = l

\* Mutant: only a load that still owns its slot is taken off the count.
RunningAfterOwned(l) == IF OwnsSlot(l) THEN running - 1 ELSE running

\* finish: the load no longer runs, whether or not it owns its slot.
RunningAfter(l) == running - 1

\* finish: a slot that is still the load's own is cleared.
SlotsAfter(l, result) ==
    IF OwnsSlot(l) THEN Without(inflight, {load[l].cands}) ELSE inflight

\* Mutant: every result is cached.
MayCacheAlways(l) == TRUE

\* finish: still owning the slot means nothing invalidated this key while the
\* load ran, so its result is safe to cache.
MayCache(l) == OwnsSlot(l)

\* LoadGuard::finish up to the unlock.
Finish(l, result) ==
    LET c == load[l].cands IN
    /\ running' = RunningAfter(l)
    /\ inflight' = SlotsAfter(l, result)
    /\ load' = [load EXCEPT ![l].pc = "ended", ![l].result = result]
    /\ \/ /\ result # Err /\ MayCache(l)
          /\ \E ttl \in Ttls(result) : cache' = Insert(cache, c, result, ttl)
       \/ /\ result # Err /\ ~MayCache(l)
          /\ cache' = cache
       \/ /\ result = Err    \* a failing store does not pin a dead entry
          /\ cache' = IF Cached(c) /\ cache.entries[c].stale = 0
                      THEN RemoveEntries(cache, {c}) ELSE cache
    /\ UNCHANGED <<caller, store, floor, since>>

\* The store answered.
LoadSucceeds(l) ==
    /\ load[l].pc = "running"
    /\ load[l].read # None
    /\ Finish(l, load[l].read)

\* The store failed, load_timeout elapsed, or the task panicked or was dropped
\* (LoadGuard::drop).
LoadFails(l) ==
    /\ load[l].pc = "running"
    /\ Finish(l, Err)

\* What a waiting caller returns, given the loaded result.
Answer(p, result) ==
    IF result = Err /\ caller[p].stale # None THEN caller[p].stale ELSE result

\* A waiting caller is woken with the loaded result.
Wakes(p, result) ==
    [caller[p] EXCEPT !.pc = "returned", !.load = None, !.stale = None,
                      !.got = Answer(p, result), !.age = AgeOf(Answer(p, result)),
                      !.by = IF result = Err THEN "stale" ELSE "load"]

\* Mutant: a failed load wakes nobody.
LoadSendsOk(l) ==
    /\ load[l].pc = "ended"
    /\ caller' = [p \in Callers |->
          IF caller[p].pc = "waiting" /\ caller[p].load = l /\ load[l].result # Err
          THEN Wakes(p, load[l].result) ELSE caller[p]]
    /\ load' = [load EXCEPT ![l] = FreeLoad]
    /\ UNCHANGED <<cache, inflight, running, store, floor, since>>

\* sender.send: every caller that waits on this load returns.
LoadSends(l) ==
    /\ load[l].pc = "ended"
    /\ caller' = [p \in Callers |->
          IF caller[p].pc = "waiting" /\ caller[p].load = l
          THEN Wakes(p, load[l].result) ELSE caller[p]]
    /\ load' = [load EXCEPT ![l] = FreeLoad]
    /\ UNCHANGED <<cache, inflight, running, store, floor, since>>

-----------------------------------------------------------------------------
(* invalidate and clear.                                                   *)

\* Mutant: loads in flight keep their slots.
InvalidateEntries(k) ==
    /\ cache' = [RemoveEntries(cache, cache.index[k]) EXCEPT !.index[k] = {}]
    /\ floor' = [floor EXCEPT ![k] = store[k]]
    /\ UNCHANGED <<inflight, running, load, caller, store, since>>

\* Entries are found through the index; slots of matching loads are dropped.
Invalidate(k) ==
    /\ cache' = [RemoveEntries(cache, cache.index[k]) EXCEPT !.index[k] = {}]
    /\ inflight' = Without(inflight, {c \in DOMAIN inflight : k \in c})
    /\ floor' = [floor EXCEPT ![k] = store[k]]
    /\ UNCHANGED <<running, load, caller, store, since>>

Clear ==
    /\ cache' = [EmptyCache EXCEPT !.purge = cache.purge]
    /\ inflight' = <<>>
    /\ floor' = store
    /\ UNCHANGED <<running, load, caller, store, since>>

-----------------------------------------------------------------------------

CallerStep(p) ==
    \/ CallerGivesUp(p)
    \/ \E c \in Cands :
          LookupHit(p, c) \/ LookupJoin(p, c) \/ LookupShed(p, c) \/ LookupMiss(p, c)

LoadEnds(l) == LoadSucceeds(l) \/ LoadFails(l) \/ LoadSends(l)

Next ==
    \/ Tick \/ Clear
    \/ \E k \in Keys : Change(k) \/ Invalidate(k)
    \/ \E p \in Callers : CallerStep(p)
    \/ \E l \in Loads : LoadReads(l) \/ LoadEnds(l)

\* load_timeout ends every load, and the runtime polls its task until it has
\* sent the result.  Nothing else is obliged to happen.
Spec == Init /\ [][Next]_vars /\ \A l \in Loads : WF_vars(LoadEnds(l))

-----------------------------------------------------------------------------
(* Properties.                                                             *)

\* The reverse index finds exactly the entries a key could have answered, so
\* invalidate, which looks nowhere else, misses none.
IndexExact ==
    \A k \in Keys : cache.index[k] = {c \in DOMAIN cache.entries : k \in c}

\* max_entries holds, and the eviction order, which keeps superseded and
\* invalidated records, stays within twice of it.
WithinCapacity ==
    /\ Cardinality(DOMAIN cache.entries) <= MaxEntries
    /\ Len(cache.order) <= 2 * MaxEntries

\* Every entry can be evicted: it has exactly one live record in the order.
EveryEntryEvictable ==
    \A c \in DOMAIN cache.entries :
        Cardinality({i \in 1..Len(cache.order) :
                        cache.order[i][1] = c /\ IsLive(cache, cache.order[i])}) = 1

\* The three views of the cache agree: entries, reverse index, eviction order.
\* An entry missing from the index survives its invalidation; one missing from
\* the order is never evicted and shrinks the cache for good.
ViewsAgree == TypeOK /\ IndexExact /\ EveryEntryEvictable

\* running_loads counts the loads whose task has not finished, those that lost
\* their slot to an invalidation included, and never passes the limit.
LoadsBounded ==
    /\ running = Cardinality({l \in Loads : load[l].pc = "running"})
    /\ running <= MaxInflight

\* No key is left stuck in flight: a slot belongs to a load that is running
\* for those candidates.
NoSlotStuck ==
    \A c \in DOMAIN inflight :
        load[inflight[c]].pc = "running" /\ load[inflight[c]].cands = c

\* Loads are accounted for: none is lost from the count, which would raise the
\* limit, and none keeps a name in flight after it ended.
LoadsAccounted == LoadsBounded /\ NoSlotStuck

\* A lookup that starts after invalidate (or clear) never returns data from
\* before it, be it a hit, a joined load, a stale copy or a shed answer.
SeesInvalidation ==
    \A p \in Callers :
        caller[p].pc = "returned" /\ caller[p].got # Err =>
            \A k \in caller[p].cands : caller[p].got[k] >= caller[p].need[k]

\* A late load cannot put older data over newer: an entry's versions only grow.
NeverGoesBack ==
    [][\A c \in DOMAIN cache.entries \cap DOMAIN cache'.entries :
          \A k \in c : cache'.entries[c].hits[k] >= cache.entries[c].hits[k]]_vars

\* The ticks since the data of entry c for key k was superseded.
Outdated(c, k) == since[k][cache.entries[c].hits[k]]

\* How long after it was superseded data can be handed out (the age is less).
\* A load may read just before the change and end load_timeout later; what it
\* cached then is a hit for a TTL, which jitter may lengthen, and a shed lookup
\* is answered from it for stale_if_error more.  A caller that waits takes its
\* stale copy first and is handed it when the load fails, load_timeout later.
AgeLimit(by) ==
    CASE by = "load"  -> LoadTimeout + 1
      [] by = "hit"   -> LoadTimeout + LongestTtl
      [] by = "shed"  -> LoadTimeout + LongestTtl + StaleIfError
      [] by = "stale" -> LoadTimeout + LongestTtl + StaleIfError + LoadTimeout

\* A lookup is never answered with data that was superseded longer ago than the
\* windows of the way it was answered add up to: hit, shed, loaded, or stale
\* after a failed load.
OutdatedBounded ==
    \A p \in Callers :
        caller[p].pc = "returned" /\ caller[p].got # Err =>
            \A k \in caller[p].cands : caller[p].age[k] < AgeLimit(caller[p].by)

\* cache.rs: "A changed or removed route becomes visible within `ttl`".  As a
\* claim about hits: an entry a lookup would be answered from is not more than
\* ttl behind the store.
VisibleWithinTtl ==
    \A c \in DOMAIN cache.entries : \A k \in c :
        Fresh(c) /\ cache.entries[c].hits[k] % 2 = 1 => Outdated(c, k) <= Ttl

\* A caller that waits on a load is answered, whatever becomes of the load,
\* its slot or the other callers (unless it gives up).
WaiterAnswered ==
    \A p \in Callers : caller[p].pc = "waiting" ~> caller[p].pc # "waiting"
=============================================================================
