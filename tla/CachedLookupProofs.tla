------------------------- MODULE CachedLookupProofs -------------------------
(***************************************************************************)
(* Proofs about CachedLookup, for every set of keys, candidates, callers   *)
(* and loads, every capacity and all the windows.                          *)
(***************************************************************************)
EXTENDS CachedLookup, FiniteSetTheorems, SequenceTheorems, TLAPS

-----------------------------------------------------------------------------
(* The inductive invariant.                                                *)

\* A CacheState, and one whose index is exact.
Shape(st) ==
    /\ DOMAIN st = {"entries", "index", "order", "purge"}
    /\ st = [f \in DOMAIN st |-> st[f]]

Indexed(st) ==
    /\ st.index \in [Keys -> SUBSET Cands]
    /\ \A k \in Keys : st.index[k] = {c \in DOMAIN st.entries : k \in c}
    /\ DOMAIN st.entries \subseteq Cands

LoadType ==
    [pc : {"free", "running", "ended"}, cands : Cands \cup {None}, read : AllHits \cup {None},
     left : 0..LoadTimeout, result : AllHits \cup {None, Err}]

CallerType ==
    [pc : {"idle", "waiting", "returned"}, cands : Cands \cup {None}, load : Loads \cup {None},
     stale : AllHits \cup {None}, need : AllHits \cup {None}, got : AllHits \cup {None, Err},
     by : {None, "hit", "shed", "load", "stale"}, age : AllAges \cup {None}]

Typed ==
    /\ Shape(cache) /\ Indexed(cache)
    /\ inflight \in [DOMAIN inflight -> Loads]
    /\ load \in [Loads -> LoadType]
    /\ caller \in [Callers -> CallerType]
    /\ store \in [Keys -> Versions]
    /\ floor \in [Keys -> Versions]
    /\ since \in [Keys -> [Versions -> Nat]]
    /\ \A k \in Keys : \A v \in Versions : since[k][v] <= AgeCap

\* Nothing was invalidated at a version the store has not reached, and only
\* superseded versions age.
Ages(k) ==
    /\ floor[k] <= store[k]
    /\ \A v \in Versions : v >= store[k] => since[k][v] = 0

\* What a load has read was in the store, and has been superseded for no longer
\* than the load has been running.
LoadInv(l) ==
    /\ load[l].pc # "free" =>
          /\ load[l].cands \in Cands
          /\ load[l].read # None => load[l].read \in Hits(load[l].cands)
    /\ load[l].pc = "running" /\ load[l].read # None =>
          \A k \in load[l].cands :
              /\ load[l].read[k] <= store[k]
              /\ since[k][load[l].read[k]] + load[l].left <= LoadTimeout
    /\ load[l].pc = "ended" /\ load[l].result # Err => load[l].result \in Hits(load[l].cands)

\* The owner of a slot runs for its candidates, and has read nothing older than
\* the last invalidation or than what is cached.
SlotInv(c) ==
    LET l == inflight[c] IN
    /\ load[l].pc = "running" /\ load[l].cands = c
    /\ load[l].read # None =>
          \A k \in c :
              /\ load[l].read[k] >= floor[k]
              /\ c \in DOMAIN cache.entries => load[l].read[k] >= cache.entries[c].hits[k]

\* An entry is from after the last invalidation of its keys, and its windows
\* leave room for its age.
EntryInv(c) ==
    LET e == cache.entries[c] IN
    /\ e.hits \in Hits(c) /\ e.fresh \in Nat /\ e.stale \in Nat
    /\ e = [f \in {"hits", "fresh", "stale", "id"} |-> e[f]]
    /\ \A k \in c :
          /\ floor[k] <= e.hits[k] /\ e.hits[k] <= store[k]
          /\ e.fresh > 0 => since[k][e.hits[k]] + e.fresh <= LoadTimeout + LongestTtl
          /\ e.stale > 0 =>
                since[k][e.hits[k]] + e.stale <= LoadTimeout + LongestTtl + StaleIfError

\* Data that is no older than what the caller needs.
Serves(hits, p) == \A k \in caller[p].cands : hits[k] >= caller[p].need[k]

\* What a waiting caller may be answered with serves it: its stale copy, and
\* what its load has read or will read.
CallerInv(p) ==
    LET w == caller[p] IN
    /\ w.pc = "waiting" =>
          /\ w.cands \in Cands /\ w.need \in Hits(w.cands)
          /\ \A k \in w.cands : w.need[k] <= store[k]
          /\ w.load \in Loads
          /\ load[w.load].pc # "free" /\ load[w.load].cands = w.cands
          /\ load[w.load].pc = "running" /\ load[w.load].read # None =>
                Serves(load[w.load].read, p)
          /\ load[w.load].pc = "ended" /\ load[w.load].result # Err =>
                Serves(load[w.load].result, p)
          /\ w.stale # None => Serves(w.stale, p)
    /\ w.pc = "returned" /\ w.got # Err => Serves(w.got, p)

Running == {l \in Loads : load[l].pc = "running"}

Counted ==
    /\ IsFiniteSet(Running) /\ running \in Nat
    /\ running = Cardinality(Running) /\ running <= MaxInflight

IndInv ==
    /\ Typed
    /\ \A k \in Keys : Ages(k)
    /\ \A l \in Loads : LoadInv(l)
    /\ \A c \in DOMAIN inflight : SlotInv(c)
    /\ \A c \in DOMAIN cache.entries : EntryInv(c)
    /\ \A p \in Callers : CallerInv(p)
    /\ Counted

-----------------------------------------------------------------------------
(* CacheState.                                                             *)

\* `to` has some of the entries of st, unchanged, and they are indexed.
Shrinks(st, to) ==
    /\ Shape(to) /\ Indexed(to)
    /\ DOMAIN to.entries \subseteq DOMAIN st.entries
    /\ \A c \in DOMAIN to.entries : to.entries[c] = st.entries[c]

\* remove_entry takes an entry out of the entries and out of the index.
LEMMA Removed ==
    ASSUME NEW st, Shape(st), Indexed(st), NEW S
    PROVE  /\ Shrinks(st, RemoveEntries(st, S))
           /\ DOMAIN RemoveEntries(st, S).entries = DOMAIN st.entries \ S
<1> DEFINE to == RemoveEntries(st, S)
<1>1. Shape(to)
  BY DEF RemoveEntries, Shape
<1>2. /\ to.entries = [x \in DOMAIN st.entries \ S |-> st.entries[x]]
      /\ to.index = [k \in Keys |-> st.index[k] \ (S \cap DOMAIN st.entries)]
  BY DEF RemoveEntries, Shape, Without
<1>3. DOMAIN to.entries = DOMAIN st.entries \ S
  BY <1>2
<1>4. Indexed(to)
  BY <1>2, <1>3 DEF Indexed
<1> HIDE DEF to
<1>5. \A c \in DOMAIN to.entries : to.entries[c] = st.entries[c]
  BY <1>2
<1> QED
  BY <1>1, <1>3, <1>4, <1>5 DEF Shrinks, to

\* The other two fields do not matter.
LEMMA OtherFields ==
    ASSUME NEW st, NEW to, Shrinks(st, to), NEW v, NEW a,
           a = [to EXCEPT !.order = v] \/ a = [to EXCEPT !.purge = v]
    PROVE  Shrinks(st, a)
<1>1. Shape(a) /\ a.entries = to.entries /\ a.index = to.index
  BY DEF Shrinks, Shape
<1> QED
  BY <1>1 DEF Shrinks, Indexed

\* make_room removes entries and does nothing else to them.
LEMMA RoomMade ==
    ASSUME NEW st, Shape(st), Indexed(st) PROVE Shrinks(st, MakeRoom(st))
<1>1. Shrinks(st, st)
  BY DEF Shrinks
<1>2. Shrinks(st, Purge(st))
  <2>1. CASE st.purge > 0
    BY <1>1, <2>1 DEF Purge
  <2>2. CASE ~(st.purge > 0)
    <3> DEFINE dead == {c \in DOMAIN st.entries : st.entries[c].stale = 0}
    <3>1. Purge(st) = [RemoveEntries(st, dead) EXCEPT !.purge = NegativeTtl]
      BY <2>2 DEF Purge
    <3>2. Shrinks(st, RemoveEntries(st, dead))
      BY Removed
    <3> HIDE DEF dead
    <3> QED
      BY <3>1, <3>2, OtherFields
  <2> QED
    BY <2>1, <2>2
<1>3. ASSUME NEW a, Shape(a), Indexed(a) PROVE Shrinks(a, EvictOldest(a))
  <2>1. PICK S, o : EvictOldest(a) = [RemoveEntries(a, S) EXCEPT !.order = o]
    BY DEF EvictOldest
  <2>2. Shrinks(a, RemoveEntries(a, S))
    BY <1>3, Removed
  <2> QED
    BY <2>1, <2>2, OtherFields
<1>4. ASSUME NEW a, NEW b, Shrinks(st, a), Shrinks(a, b) PROVE Shrinks(st, b)
  BY <1>4 DEF Shrinks
<1>5. Shrinks(Purge(st), EvictOldest(Purge(st)))
  BY <1>2, <1>3 DEF Shrinks
<1> QED
  BY <1>1, <1>2, <1>4, <1>5 DEF MakeRoom

NewEntry(hits, ttl, id) ==
    [hits |-> hits, fresh |-> ttl, stale |-> ttl + StaleIfError, id |-> id]

\* insert adds the entry, with its index records, and may drop others.
LEMMA Inserted ==
    ASSUME NEW st, Shape(st), Indexed(st), NEW c \in Cands, NEW hits, NEW ttl,
           NEW to, to = Insert(st, c, hits, ttl)
    PROVE  /\ Shape(to) /\ Indexed(to)
           /\ DOMAIN to.entries \subseteq DOMAIN st.entries \cup {c}
           /\ \A d \in DOMAIN to.entries \ {c} : to.entries[d] = st.entries[d]
           /\ \/ to = st
              \/ \E id : to.entries[c] = NewEntry(hits, ttl, id)
<1>1. CASE MaxEntries = 0
  <2>1. to = st
    BY <1>1 DEF Insert
  <2> QED
    BY <2>1
<1>2. CASE MaxEntries # 0
  <2> DEFINE new == c \notin DOMAIN st.entries
             roomy == IF new THEN MakeRoom(st) ELSE st
             id == FreshId(st, c)
             entry == [hits |-> hits, fresh |-> ttl, stale |-> ttl + StaleIfError, id |-> id]
             grown == [roomy EXCEPT
                !.entries = With(@, c, entry),
                !.index = [k \in Keys |-> IF new /\ k \in c THEN @[k] \cup {c} ELSE @[k]],
                !.order = Append(@, <<c, id>>)]
  <2>1. to = Compact(grown)
    BY <1>2 DEF Insert
  <2>2. Shrinks(st, roomy) /\ (~new => roomy = st)
    BY RoomMade DEF Shrinks
  <2>3. new => c \notin DOMAIN roomy.entries
    BY <2>2 DEF Shrinks
  <2> HIDE DEF roomy, id, entry, new
  <2>4. /\ Shape(grown)
        /\ grown.entries = With(roomy.entries, c, entry)
        /\ grown.index = [k \in Keys |-> IF new /\ k \in c THEN roomy.index[k] \cup {c}
                                         ELSE roomy.index[k]]
    BY <2>2 DEF Shrinks, Shape
  <2> HIDE DEF grown
  <2>5. /\ DOMAIN grown.entries = DOMAIN roomy.entries \cup {c} /\ grown.entries[c] = entry
        /\ \A d \in DOMAIN roomy.entries \ {c} : grown.entries[d] = roomy.entries[d]
    BY <2>4 DEF With
  <2>6. Indexed(grown)
    <3>1. grown.index \in [Keys -> SUBSET Cands]
      BY <2>2, <2>4 DEF Shrinks, Indexed
    <3>2. ASSUME NEW k \in Keys PROVE grown.index[k] = {d \in DOMAIN grown.entries : k \in d}
      <4>1. roomy.index[k] = {d \in DOMAIN roomy.entries : k \in d}
        BY <2>2 DEF Shrinks, Indexed
      <4>2. new \/ c \in DOMAIN roomy.entries
        BY <2>2 DEF new
      <4> QED
        BY <2>4, <2>5, <4>1, <4>2
    <3> QED
      BY <2>2, <2>5, <3>1, <3>2 DEF Shrinks, Indexed
  <2>7. Shape(to) /\ to.entries = grown.entries /\ to.index = grown.index
    <3>1. CASE to = grown
      BY <2>4, <3>1
    <3>2. CASE to # grown
      <4>1. PICK o : to = [grown EXCEPT !.order = o]
        BY <2>1, <3>2 DEF Compact
      <4> QED
        BY <2>4, <4>1 DEF Shape
    <3> QED
      BY <3>1, <3>2
  <2>8. Indexed(to)
    BY <2>6, <2>7 DEF Indexed
  <2> QED
    BY <2>2, <2>5, <2>7, <2>8 DEF Shrinks, entry, NewEntry
<1> QED
  BY <1>1, <1>2

-----------------------------------------------------------------------------
(* The constants and the initial state.                                    *)

\* What the assumptions on the configuration say of each number, and of the
\* TTL that an entry may get.
LEMMA Constants ==
    /\ MaxInflight \in Nat /\ StaleIfError \in Nat /\ LoadTimeout \in Nat /\ AgeCap \in Nat
    /\ NegativeTtl \in Nat /\ LongestTtl \in Nat
    /\ Versions \subseteq Nat
    /\ FirstVersion \in [Keys -> Versions]
    /\ Cands \subseteq SUBSET Keys
    /\ \A hits : \A ttl \in Ttls(hits) : ttl \in Nat /\ ttl <= LongestTtl
<1>1. /\ MaxInflight \in Nat /\ StaleIfError \in Nat /\ LoadTimeout \in Nat /\ AgeCap \in Nat
      /\ NegativeTtl \in Nat /\ Ttl \in Nat /\ Jitter \in Nat /\ MaxVersion \in Nat /\ Jitter <= Ttl
  BY CacheAssumption
<1>2. LongestTtl \in Nat /\ NegativeTtl <= LongestTtl /\ Ttl + Jitter <= LongestTtl
  BY <1>1 DEF LongestTtl
<1>3. ASSUME NEW hits, NEW ttl \in Ttls(hits) PROVE ttl \in Nat /\ ttl <= LongestTtl
  <2>1. CASE IsEmpty(hits)
    BY <1>1, <1>2, <1>3, <2>1 DEF Ttls
  <2>2. CASE ~IsEmpty(hits)
    BY <1>1, <1>2, <1>3, <2>2 DEF Ttls
  <2> QED
    BY <2>1, <2>2
<1> QED
  BY <1>1, <1>2, <1>3, CacheAssumption DEF Versions

\* Nothing is cached, in flight or waiting at first.
LEMMA InitInd == Init => IndInv
<1> SUFFICES ASSUME Init PROVE IndInv
  OBVIOUS
<1>1. /\ Shape(cache) /\ cache.entries = <<>> /\ cache.index = [k \in Keys |-> {}]
  BY DEF Init, EmptyCache, Shape
<1>2. DOMAIN cache.entries = {} /\ DOMAIN inflight = {} /\ inflight \in [{} -> Loads]
  BY <1>1 DEF Init
<1>3. Indexed(cache)
  BY <1>1, <1>2 DEF Indexed
<1>4. /\ load \in [Loads -> LoadType]
      /\ \A l \in Loads : load[l].pc = "free"
  BY Constants DEF Init, FreeLoad, LoadType
<1>5. /\ caller \in [Callers -> CallerType]
      /\ \A p \in Callers : caller[p].pc = "idle"
  BY DEF Init, IdleCaller, CallerType
<1>6. /\ store \in [Keys -> Versions] /\ floor = store
      /\ since \in [Keys -> [Versions -> Nat]]
      /\ \A k \in Keys : \A v \in Versions : since[k][v] <= AgeCap
      /\ \A k \in Keys : store[k] \in Nat /\ \A v \in Versions : v >= store[k] => since[k][v] = 0
  <2>1. store = FirstVersion /\ floor = FirstVersion
    BY DEF Init
  <2>2. since = [k \in Keys |-> [v \in Versions |-> IF v < FirstVersion[k] THEN AgeCap ELSE 0]]
    BY DEF Init
  <2>3. /\ since \in [Keys -> [Versions -> Nat]]
        /\ \A k \in Keys : \A v \in Versions : since[k][v] <= AgeCap
    BY <2>2, Constants
  <2>4. \A k \in Keys : FirstVersion[k] \in Nat
    BY Constants
  <2> QED
    BY <2>1, <2>2, <2>3, <2>4, Constants
<1>7. Typed /\ \A k \in Keys : Ages(k)
  BY <1>1, <1>2, <1>3, <1>4, <1>5, <1>6 DEF Typed, Ages
<1>8. \A l \in Loads : LoadInv(l)
  BY <1>4 DEF LoadInv
<1>9. \A p \in Callers : CallerInv(p)
  BY <1>5 DEF CallerInv
<1>10. Counted
  <2>1. Running = {} /\ running = 0
    BY <1>4 DEF Running, Init
  <2> QED
    BY <2>1, FS_EmptySet, Constants DEF Counted
<1> QED
  BY <1>2, <1>7, <1>8, <1>9, <1>10 DEF IndInv

-----------------------------------------------------------------------------
(* What the steps that change the cache do to it.                          *)

\* The entry at d, after a step, is the one from before it.
Kept(d) == d \in DOMAIN cache.entries /\ cache'.entries[d] = cache.entries[d]

\* The entry that load l leaves at d: it owned its slot and read the hits.
Loaded(d, l) ==
    /\ d = load[l].cands /\ OwnsSlot(l) /\ load[l].read # None
    /\ \E ttl \in Ttls(load[l].read) : \E id :
          cache'.entries[d] = NewEntry(load[l].read, ttl, id)

\* The end of a load: it is counted out, its slot is cleared, and the entries
\* stay as they are but for its own candidates'.
LEMMA FinishFacts ==
    ASSUME IndInv, NEW l \in Loads, LoadSucceeds(l) \/ LoadFails(l)
    PROVE  /\ load[l].pc = "running" /\ running' = running - 1
           /\ UNCHANGED <<caller, store, floor, since>>
           /\ \A m \in Loads \ {l} : load'[m] = load[m]
           /\ \E r : /\ load' = [load EXCEPT ![l].pc = "ended", ![l].result = r]
                     /\ r = Err \/ (r = load[l].read /\ load[l].read # None)
           /\ DOMAIN inflight' \subseteq DOMAIN inflight
           /\ inflight' \in [DOMAIN inflight' -> Loads]
           /\ \A d \in DOMAIN inflight' : inflight'[d] = inflight[d] /\ inflight[d] # l
           /\ Shape(cache') /\ Indexed(cache)'
           /\ \A d \in DOMAIN cache'.entries : Kept(d) \/ Loaded(d, l)
<1>1. PICK r : Finish(l, r) /\ (r = Err \/ (r = load[l].read /\ load[l].read # None))
  BY DEF LoadSucceeds, LoadFails
<1>2. load[l].pc = "running" /\ LoadInv(l) /\ load \in [Loads -> LoadType]
  BY DEF LoadSucceeds, LoadFails, IndInv, Typed
<1>3. /\ running' = running - 1 /\ UNCHANGED <<caller, store, floor, since>>
      /\ load' = [load EXCEPT ![l].pc = "ended", ![l].result = r]
  BY <1>1 DEF Finish, RunningAfter
<1>4. /\ DOMAIN inflight' \subseteq DOMAIN inflight
      /\ inflight' \in [DOMAIN inflight' -> Loads]
      /\ \A d \in DOMAIN inflight' : inflight'[d] = inflight[d] /\ inflight[d] # l
  <2>1. inflight' = SlotsAfter(l, r) /\ inflight \in [DOMAIN inflight -> Loads]
    BY <1>1 DEF Finish, IndInv, Typed
  <2>2. \A d \in DOMAIN inflight : inflight[d] = l => d = load[l].cands
    BY DEF IndInv, SlotInv
  <2>3. CASE OwnsSlot(l)
    BY <2>1, <2>2, <2>3 DEF SlotsAfter, Without
  <2>4. CASE ~OwnsSlot(l)
    BY <2>1, <2>2, <2>4 DEF SlotsAfter, OwnsSlot
  <2> QED
    BY <2>3, <2>4
<1>5. /\ Shape(cache') /\ Indexed(cache')
      /\ \A d \in DOMAIN cache'.entries : Kept(d) \/ Loaded(d, l)
  <2>1. Shape(cache) /\ Indexed(cache) /\ load[l].cands \in Cands
    BY <1>2 DEF IndInv, Typed, LoadInv
  <2>2. CASE cache' = cache
    BY <2>1, <2>2 DEF Kept
  <2>3. ASSUME r # Err, OwnsSlot(l), NEW ttl \in Ttls(r),
               cache' = Insert(cache, load[l].cands, r, ttl)
        PROVE  /\ Shape(cache') /\ Indexed(cache')
               /\ \A d \in DOMAIN cache'.entries : Kept(d) \/ Loaded(d, l)
    <3>1. /\ Shape(cache') /\ Indexed(cache')
          /\ DOMAIN cache'.entries \subseteq DOMAIN cache.entries \cup {load[l].cands}
          /\ \A d \in DOMAIN cache'.entries \ {load[l].cands} : cache'.entries[d] = cache.entries[d]
          /\ \/ cache' = cache
             \/ \E id : cache'.entries[load[l].cands] = NewEntry(r, ttl, id)
      <4> DEFINE to == Insert(cache, load[l].cands, r, ttl)
      <4>1. /\ Shape(to) /\ Indexed(to)
            /\ DOMAIN to.entries \subseteq DOMAIN cache.entries \cup {load[l].cands}
            /\ \A d \in DOMAIN to.entries \ {load[l].cands} : to.entries[d] = cache.entries[d]
        BY <2>1, Inserted
      <4>2. \/ to = cache
            \/ \E id : to.entries[load[l].cands] = NewEntry(r, ttl, id)
        BY <2>1, Inserted
      <4> QED
        BY <2>3, <4>1, <4>2
    <3>2. r = load[l].read /\ load[l].read # None
      BY <1>1, <2>3
    <3>3. CASE cache' = cache
      BY <2>2, <3>3
    <3>4. CASE cache' # cache
      <4>1. PICK id : cache'.entries[load[l].cands] = NewEntry(r, ttl, id)
        BY <3>1, <3>4
      <4>2. Loaded(load[l].cands, l)
        BY <2>3, <3>2, <4>1 DEF Loaded
      <4>3. \A d \in DOMAIN cache'.entries \ {load[l].cands} : Kept(d)
        BY <3>1 DEF Kept
      <4> QED
        BY <3>1, <4>2, <4>3
    <3> QED
      BY <3>3, <3>4
  <2>4. CASE cache' = RemoveEntries(cache, {load[l].cands})
    <3>1. Shrinks(cache, cache')
      BY <2>1, <2>4, Removed
    <3> QED
      BY <3>1 DEF Shrinks, Kept
  <2> QED
    BY <1>1, <2>2, <2>3, <2>4 DEF Finish, MayCache
<1>6. Indexed(cache)'
  BY <1>5 DEF Indexed
<1> QED
  BY <1>1, <1>2, <1>3, <1>4, <1>5, <1>6

\* invalidate and clear: entries and slots of the keys S, whose floor is
\* raised, are gone, and the others are as they were.
LEMMA InvalidateFacts ==
    ASSUME IndInv, (\E k \in Keys : Invalidate(k)) \/ Clear
    PROVE  \E S \in SUBSET Keys :
           /\ UNCHANGED <<running, load, caller, store, since>>
           /\ floor' = [k \in Keys |-> IF k \in S THEN store[k] ELSE floor[k]]
           /\ DOMAIN inflight' \subseteq DOMAIN inflight
           /\ inflight' \in [DOMAIN inflight' -> Loads]
           /\ \A d \in DOMAIN inflight' : inflight'[d] = inflight[d] /\ d \cap S = {}
           /\ Shape(cache') /\ Indexed(cache)'
           /\ \A d \in DOMAIN cache'.entries : Kept(d) /\ d \cap S = {}
<1>0. Shape(cache) /\ Indexed(cache) /\ store \in [Keys -> Versions] /\ floor \in [Keys -> Versions]
      /\ inflight \in [DOMAIN inflight -> Loads]
  BY DEF IndInv, Typed
<1> DEFINE Wanted(S) ==
           /\ UNCHANGED <<running, load, caller, store, since>>
           /\ floor' = [k \in Keys |-> IF k \in S THEN store[k] ELSE floor[k]]
           /\ DOMAIN inflight' \subseteq DOMAIN inflight
           /\ inflight' \in [DOMAIN inflight' -> Loads]
           /\ \A d \in DOMAIN inflight' : inflight'[d] = inflight[d] /\ d \cap S = {}
           /\ Shape(cache') /\ Indexed(cache)'
           /\ \A d \in DOMAIN cache'.entries : Kept(d) /\ d \cap S = {}
<1>1. ASSUME NEW k \in Keys, Invalidate(k) PROVE Wanted({k})
  <2>1. /\ UNCHANGED <<running, load, caller, store, since>>
        /\ floor' = [j \in Keys |-> IF j \in {k} THEN store[j] ELSE floor[j]]
    BY <1>0, <1>1 DEF Invalidate
  <2>2. /\ DOMAIN inflight' \subseteq DOMAIN inflight
        /\ inflight' \in [DOMAIN inflight' -> Loads]
        /\ \A d \in DOMAIN inflight' : inflight'[d] = inflight[d] /\ d \cap {k} = {}
    BY <1>0, <1>1 DEF Invalidate, Without
  <2> DEFINE to == RemoveEntries(cache, cache.index[k])
  <2>3. Shrinks(cache, to) /\ DOMAIN to.entries = DOMAIN cache.entries \ cache.index[k]
    BY <1>0, Removed
  <2>4. cache' = [to EXCEPT !.index[k] = {}]
    BY <1>1 DEF Invalidate
  <2> HIDE DEF to
  <2>5. Shape(cache') /\ cache'.entries = to.entries /\ cache'.index = [to.index EXCEPT ![k] = {}]
    BY <2>3, <2>4 DEF Shrinks, Shape
  <2>6. to.index[k] = {} /\ to.index \in [Keys -> SUBSET Cands]
    BY <1>0, <2>3 DEF Shrinks, Indexed
  <2>7. cache'.index = to.index
    BY <2>5, <2>6
  <2>8. Indexed(cache)'
    BY <2>3, <2>5, <2>7 DEF Shrinks, Indexed
  <2>9. \A d \in DOMAIN cache'.entries : Kept(d) /\ d \cap {k} = {}
    BY <1>0, <2>3, <2>5 DEF Shrinks, Indexed, Kept
  <2> QED
    BY <2>1, <2>2, <2>5, <2>8, <2>9
<1>2. ASSUME Clear PROVE Wanted(Keys)
  <2>1. /\ UNCHANGED <<running, load, caller, store, since>>
        /\ floor' = [k \in Keys |-> IF k \in Keys THEN store[k] ELSE floor[k]]
    BY <1>0, <1>2 DEF Clear
  <2>2. DOMAIN inflight' = {} /\ inflight' \in [{} -> Loads]
    BY <1>2 DEF Clear
  <2>3. /\ Shape(cache') /\ cache'.entries = <<>>
        /\ cache'.index = [k \in Keys |-> {}]
    BY <1>2 DEF Clear, EmptyCache, Shape
  <2>4. DOMAIN cache'.entries = {}
    BY <2>3
  <2>5. Indexed(cache)'
    BY <2>3, <2>4 DEF Indexed
  <2> QED
    BY <2>1, <2>2, <2>3, <2>4, <2>5
<1>3. \E S \in SUBSET Keys : Wanted(S)
  <2> HIDE DEF Wanted
  <2> QED
    BY <1>1, <1>2
<1> QED
  BY <1>3

\* A tick takes one from every deadline and adds at most one to every age.
LEMMA TickFacts ==
    ASSUME IndInv, Tick
    PROVE  /\ UNCHANGED <<inflight, running, caller, store, floor>>
           /\ Shape(cache') /\ Indexed(cache)'
           /\ DOMAIN cache'.entries = DOMAIN cache.entries
           /\ \A c \in DOMAIN cache.entries :
                 LET e == cache.entries[c]
                     f == cache'.entries[c]
                 IN  /\ f.hits = e.hits /\ f.fresh = Less(e.fresh) /\ f.stale = Less(e.stale)
                     /\ f = [x \in {"hits", "fresh", "stale", "id"} |-> f[x]]
           /\ load' \in [Loads -> LoadType]
           /\ \A l \in Loads :
                 /\ load'[l].pc = load[l].pc /\ load'[l].cands = load[l].cands
                 /\ load'[l].read = load[l].read /\ load'[l].result = load[l].result
                 /\ load'[l].left = Less(load[l].left)
                 /\ load[l].pc = "running" => load[l].left > 0
                 /\ load[l].pc # "ended"
           /\ since' \in [Keys -> [Versions -> Nat]]
           /\ \A k \in Keys : \A v \in Versions :
                 /\ since'[k][v] \in {since[k][v], since[k][v] + 1} /\ since'[k][v] <= AgeCap
                 /\ v >= store[k] => since'[k][v] = since[k][v]
<1>0. /\ Shape(cache) /\ Indexed(cache) /\ load \in [Loads -> LoadType]
      /\ store \in [Keys -> Versions] /\ since \in [Keys -> [Versions -> Nat]]
      /\ \A k \in Keys : \A v \in Versions : since[k][v] <= AgeCap
      /\ \A c \in DOMAIN cache.entries : EntryInv(c)
  BY DEF IndInv, Typed
<1>1. /\ Shape(cache') /\ cache'.index = cache.index
      /\ cache'.entries = [c \in DOMAIN cache.entries |-> Aged(cache.entries[c])]
  <2> DEFINE all == [c \in DOMAIN cache.entries |-> Aged(cache.entries[c])]
  <2>1. cache' = [cache EXCEPT !.entries = all, !.purge = Less(cache.purge)]
    BY DEF Tick
  <2> HIDE DEF all
  <2>2. Shape(cache') /\ cache'.index = cache.index /\ cache'.entries = all
    BY <1>0, <2>1 DEF Shape
  <2> QED
    BY <2>2 DEF all
<1>2. ASSUME NEW c \in DOMAIN cache.entries
      PROVE  LET e == cache.entries[c]
                 f == cache'.entries[c]
             IN  /\ f.hits = e.hits /\ f.fresh = Less(e.fresh) /\ f.stale = Less(e.stale)
                 /\ f = [x \in {"hits", "fresh", "stale", "id"} |-> f[x]]
  <2>1. cache'.entries[c] = Aged(cache.entries[c])
    BY <1>1
  <2>2. cache.entries[c] = [x \in {"hits", "fresh", "stale", "id"} |-> cache.entries[c][x]]
    BY <1>0 DEF EntryInv
  <2> QED
    BY <2>1, <2>2 DEF Aged
<1>3. DOMAIN cache'.entries = DOMAIN cache.entries
  BY <1>1
<1>4. Indexed(cache)'
  BY <1>0, <1>1, <1>3 DEF Indexed
<1>5. ASSUME NEW l \in Loads
      PROVE  /\ load'[l] \in LoadType
             /\ load'[l].pc = load[l].pc /\ load'[l].cands = load[l].cands
             /\ load'[l].read = load[l].read /\ load'[l].result = load[l].result
             /\ load'[l].left = Less(load[l].left)
             /\ load[l].pc = "running" => load[l].left > 0
             /\ load[l].pc # "ended"
  <2>1. load'[l] = [load[l] EXCEPT !.left = Less(@)] /\ load[l] \in LoadType
    BY <1>0 DEF Tick
  <2>2. Less(load[l].left) \in 0..LoadTimeout
    BY <2>1, Constants DEF LoadType, Less
  <2> QED
    BY <2>1, <2>2 DEF LoadType, Tick
<1>6. load' \in [Loads -> LoadType]
  BY <1>5 DEF Tick
<1>7. ASSUME NEW k \in Keys, NEW v \in Versions
      PROVE  /\ since'[k][v] \in Nat
             /\ since'[k][v] \in {since[k][v], since[k][v] + 1} /\ since'[k][v] <= AgeCap
             /\ v >= store[k] => since'[k][v] = since[k][v]
  <2>1. since'[k][v] = (IF v < store[k] /\ since[k][v] < AgeCap THEN since[k][v] + 1
                        ELSE since[k][v])
    BY DEF Tick
  <2>2. since[k][v] \in Nat /\ since[k][v] <= AgeCap /\ AgeCap \in Nat
        /\ v \in Nat /\ store[k] \in Nat
    BY <1>0, Constants
  <2> QED
    BY <2>1, <2>2
<1>8. since' \in [Keys -> [Versions -> Nat]]
  <2>1. since' = [k \in Keys |-> [v \in Versions |-> since'[k][v]]]
    BY DEF Tick
  <2> QED
    BY <1>7, <2>1
<1> QED
  BY <1>1, <1>2, <1>3, <1>4, <1>5, <1>6, <1>7, <1>8 DEF Tick

\* Caller p starts load l for candidates c.
Starts(p, c, l) ==
    /\ load[l].pc = "free"
    /\ load' \in [Loads -> LoadType]
    /\ load'[l].pc = "running" /\ load'[l].cands = c /\ load'[l].read = None
    /\ \A m \in Loads \ {l} : load'[m] = load[m]
    /\ c \notin DOMAIN inflight /\ DOMAIN inflight' = DOMAIN inflight \cup {c}
    /\ inflight' \in [DOMAIN inflight' -> Loads] /\ inflight'[c] = l
    /\ \A d \in DOMAIN inflight : inflight'[d] = inflight[d]
    /\ Waits(p, c, l)
    /\ running < MaxInflight /\ running' = running + 1
    /\ UNCHANGED <<cache, store, floor, since>>

\* start_load takes a free load, for candidates that are not in flight.
LEMMA MissFacts ==
    ASSUME IndInv, NEW p \in Callers, NEW c \in Cands, LookupMiss(p, c)
    PROVE  \E l \in Loads : Starts(p, c, l)
<1>1. PICK l \in Loads :
          /\ load[l].pc = "free"
          /\ load' = [load EXCEPT ![l] =
                        [FreeLoad EXCEPT !.pc = "running", !.cands = c, !.left = LoadTimeout]]
          /\ inflight' = With(inflight, c, l)
          /\ Waits(p, c, l)
  BY DEF LookupMiss
<1>2. /\ c \notin DOMAIN inflight /\ running < MaxInflight /\ running' = running + 1
      /\ UNCHANGED <<cache, store, floor, since>>
  BY DEF LookupMiss
<1>3. [FreeLoad EXCEPT !.pc = "running", !.cands = c, !.left = LoadTimeout] \in LoadType
  <2>1. LoadTimeout \in 0..LoadTimeout
    BY Constants
  <2>2. FreeLoad \in LoadType
    BY Constants DEF FreeLoad, LoadType
  <2> QED
    BY <2>1, <2>2 DEF LoadType
<1>4. /\ load' \in [Loads -> LoadType]
      /\ load'[l].pc = "running" /\ load'[l].cands = c /\ load'[l].read = None
      /\ \A m \in Loads \ {l} : load'[m] = load[m]
  BY <1>1, <1>3 DEF IndInv, Typed, FreeLoad
<1>5. /\ DOMAIN inflight' = DOMAIN inflight \cup {c}
      /\ inflight' \in [DOMAIN inflight' -> Loads] /\ inflight'[c] = l
      /\ \A d \in DOMAIN inflight : inflight'[d] = inflight[d]
  BY <1>1, <1>2 DEF IndInv, Typed, With
<1> QED
  BY <1>1, <1>2, <1>4, <1>5 DEF Starts

\* What a caller records when it looks up: it needs the versions of the last
\* invalidations, and every entry, hence a stale copy, has them.
LEMMA CallerFacts ==
    ASSUME IndInv, NEW p \in Callers, NEW c \in Cands
    PROVE  /\ Need(c) \in Hits(c) /\ Need(c) \in AllHits
           /\ \A k \in c : Need(c)[k] = floor[k] /\ Need(c)[k] <= store[k]
           /\ Cached(c) => /\ cache.entries[c].hits \in AllHits
                           /\ \A k \in c : cache.entries[c].hits[k] >= floor[k]
           /\ StaleCopy(c) \in AllHits \cup {None}
           /\ StaleCopy(c) # None => \A k \in c : StaleCopy(c)[k] >= floor[k]
<1>0. floor \in [Keys -> Versions] /\ c \subseteq Keys /\ \A k \in Keys : floor[k] <= store[k]
  BY Constants DEF IndInv, Typed, Ages
<1>1. /\ Need(c) \in Hits(c)
      /\ \A k \in c : Need(c)[k] = floor[k] /\ Need(c)[k] <= store[k]
  BY <1>0 DEF Need, Hits
<1>2. Hits(c) \subseteq AllHits
  BY DEF AllHits
<1>3. ASSUME Cached(c)
      PROVE  /\ cache.entries[c].hits \in AllHits
             /\ \A k \in c : cache.entries[c].hits[k] >= floor[k]
  <2>1. EntryInv(c)
    BY <1>3 DEF IndInv, Cached
  <2>2. \A k \in c : floor[k] \in Nat /\ cache.entries[c].hits[k] \in Nat
    BY <1>0, <2>1, Constants DEF EntryInv, Hits
  <2> QED
    BY <1>2, <2>1, <2>2 DEF EntryInv
<1> QED
  BY <1>1, <1>2, <1>3 DEF StaleCopy

-----------------------------------------------------------------------------
(* Every conjunct of the invariant, over a step.                           *)

\* The ages of an answer are ages of its candidates' versions.
LEMMA AgeType ==
    ASSUME IndInv, NEW r \in AllHits \cup {Err} PROVE AgeOf(r) \in AllAges \cup {None}
<1>1. CASE r = Err
  BY <1>1 DEF AgeOf
<1>2. CASE r # Err
  <2>1. PICK c \in Cands : r \in [c -> Versions]
    BY <1>2 DEF AllHits, Hits
  <2>2. ASSUME NEW k \in c PROVE since[k][r[k]] \in 0..AgeCap
    <3>1. k \in Keys /\ r[k] \in Versions /\ AgeCap \in Nat
      BY <2>1, Constants
    <3>2. since[k][r[k]] \in Nat /\ since[k][r[k]] <= AgeCap
      BY <3>1 DEF IndInv, Typed
    <3> QED
      BY <3>1, <3>2
  <2>3. AgeOf(r) = [k \in c |-> since[k][r[k]]]
    BY <1>2, <2>1 DEF AgeOf
  <2>4. AgeOf(r) \in [c -> 0..AgeCap]
    BY <2>2, <2>3
  <2> QED
    BY <2>4 DEF AllAges
<1> QED
  BY <1>1, <1>2

\* A caller that is woken is a caller.
LEMMA WokenType ==
    ASSUME NEW w \in CallerType, NEW got \in AllHits \cup {Err}, NEW age \in AllAges \cup {None},
           NEW b
    PROVE  [w EXCEPT !.pc = "returned", !.load = None, !.stale = None, !.got = got, !.age = age,
                     !.by = IF b THEN "stale" ELSE "load"] \in CallerType
<1>0. PICK by : by = (IF b THEN "stale" ELSE "load")
  OBVIOUS
<1>1. by \in {None, "hit", "shed", "load", "stale"} /\ got \in AllHits \cup {None, Err}
  BY <1>0
<1>2. [w EXCEPT !.pc = "returned"] \in CallerType
  BY DEF CallerType
<1>3. ASSUME NEW v \in CallerType
      PROVE  [v EXCEPT !.load = None] \in CallerType /\ [v EXCEPT !.stale = None] \in CallerType
  BY DEF CallerType
<1>4. ASSUME NEW v \in CallerType
      PROVE  [v EXCEPT !.got = got] \in CallerType /\ [v EXCEPT !.age = age] \in CallerType
  BY <1>1 DEF CallerType
<1>5. ASSUME NEW v \in CallerType PROVE [v EXCEPT !.by = by] \in CallerType
  BY <1>1 DEF CallerType
<1>6. [w EXCEPT !.pc = "returned", !.load = None, !.stale = None, !.got = got, !.age = age,
                !.by = by] \in CallerType
  BY <1>2, <1>3, <1>4, <1>5, Zenon
<1> QED
  BY <1>0, <1>6

\* The types of everything, and the index.
LEMMA TypedStep == ASSUME IndInv, [Next]_vars PROVE Typed'
<1>0. Typed
  BY DEF IndInv
<1>1. CASE UNCHANGED vars
  BY <1>0, <1>1 DEF vars, Typed, Indexed
<1>2. CASE Tick
  BY <1>0, <1>2, TickFacts DEF Typed
<1>3. CASE Clear \/ \E k \in Keys : Invalidate(k)
  <2>1. PICK S \in SUBSET Keys :
           /\ UNCHANGED <<running, load, caller, store, since>>
           /\ floor' = [k \in Keys |-> IF k \in S THEN store[k] ELSE floor[k]]
           /\ inflight' \in [DOMAIN inflight' -> Loads]
           /\ Shape(cache') /\ Indexed(cache)'
    BY <1>3, InvalidateFacts
  <2> QED
    BY <1>0, <2>1 DEF Typed
<1>4. ASSUME NEW k \in Keys, Change(k) PROVE Typed'
  <2>1. store[k] + 1 \in Versions
    BY <1>0, <1>4, CacheAssumption DEF Change, Typed, Versions
  <2> QED
    BY <1>0, <1>4, <2>1 DEF Change, Typed, Indexed
<1>5. ASSUME NEW p \in Callers, CallerGivesUp(p) PROVE Typed'
  BY <1>0, <1>5 DEF CallerGivesUp, Typed, Indexed, IdleCaller, CallerType
<1>6. ASSUME NEW p \in Callers, NEW c \in Cands, NEW l \in Loads, Waits(p, c, l)
      PROVE  caller' \in [Callers -> CallerType]
  BY <1>0, <1>6, CallerFacts DEF Waits, Typed, IdleCaller, CallerType
<1>7. ASSUME NEW p \in Callers, NEW c \in Cands, NEW r \in AllHits \cup {Err},
             NEW by \in {"hit", "shed"}, Returns(p, c, r, by)
      PROVE  caller' \in [Callers -> CallerType]
  <2>1. AgeOf(r) \in AllAges \cup {None}
    BY <1>0, <1>7, AgeType DEF IndInv
  <2> QED
    BY <1>0, <1>7, <2>1, CallerFacts DEF Returns, Typed, IdleCaller, CallerType
<1>8. ASSUME NEW p \in Callers, NEW c \in Cands,
             LookupHit(p, c) \/ LookupJoin(p, c) \/ LookupShed(p, c)
      PROVE  Typed'
  <2>1. caller' \in [Callers -> CallerType]
    <3>1. CASE LookupHit(p, c)
      BY <1>7, <3>1, CallerFacts DEF LookupHit, Fresh
    <3>2. CASE LookupJoin(p, c)
      <4>1. inflight[c] \in Loads /\ Waits(p, c, inflight[c])
        BY <1>0, <3>2 DEF LookupJoin, Typed
      <4> QED
        BY <1>6, <4>1
    <3>3. CASE LookupShed(p, c)
      BY <1>7, <3>3, CallerFacts DEF LookupShed
    <3> QED
      BY <1>8, <3>1, <3>2, <3>3
  <2> QED
    BY <1>0, <1>8, <2>1 DEF LookupHit, LookupJoin, LookupShed, Typed, Indexed
<1>9. ASSUME NEW p \in Callers, NEW c \in Cands, LookupMiss(p, c) PROVE Typed'
  <2>1. PICK l \in Loads : Starts(p, c, l)
    BY <1>9, MissFacts
  <2>2. caller' \in [Callers -> CallerType]
    BY <1>6, <2>1 DEF Starts
  <2> QED
    BY <1>0, <2>1, <2>2 DEF Starts, Typed, Indexed
<1>10. ASSUME NEW l \in Loads, LoadReads(l) PROVE Typed'
  <2>1. load[l].cands \in Cands /\ load[l] \in LoadType
    BY <1>0, <1>10 DEF LoadReads, IndInv, LoadInv, Typed
  <2>2. [k \in load[l].cands |-> store[k]] \in AllHits
    BY <1>0, <2>1, Constants DEF Typed, AllHits, Hits
  <2>3. load' \in [Loads -> LoadType]
    BY <1>0, <1>10, <2>1, <2>2 DEF LoadReads, Typed, LoadType
  <2> QED
    BY <1>0, <1>10, <2>3 DEF LoadReads, Typed, Indexed
<1>11. ASSUME NEW l \in Loads, LoadSucceeds(l) \/ LoadFails(l) PROVE Typed'
  <2>1. /\ UNCHANGED <<caller, store, floor, since>>
        /\ inflight' \in [DOMAIN inflight' -> Loads]
        /\ Shape(cache') /\ Indexed(cache)'
    BY <1>11, FinishFacts
  <2>2. PICK r : /\ load' = [load EXCEPT ![l].pc = "ended", ![l].result = r]
                 /\ r = Err \/ (r = load[l].read /\ load[l].read # None)
    BY <1>11, FinishFacts
  <2>3. load' \in [Loads -> LoadType]
    <3>1. load[l] \in LoadType
      BY <1>0 DEF Typed
    <3>2. r \in AllHits \cup {None, Err}
      BY <2>2, <3>1 DEF LoadType
    <3> QED
      BY <1>0, <2>2, <3>1, <3>2 DEF Typed, LoadType
  <2> QED
    BY <1>0, <2>1, <2>3 DEF Typed
<1>12. ASSUME NEW l \in Loads, LoadSends(l) PROVE Typed'
  <2>1. FreeLoad \in LoadType
    BY Constants DEF FreeLoad, LoadType
  <2>2. load' \in [Loads -> LoadType]
    BY <1>0, <1>12, <2>1 DEF LoadSends, Typed
  <2>3. ASSUME NEW p \in Callers PROVE caller'[p] \in CallerType
    <3>1. caller[p] \in CallerType /\ load[l] \in LoadType
      BY <1>0 DEF Typed
    <3>2. load[l].result # Err => load[l].result \in AllHits
      BY <1>12 DEF LoadSends, IndInv, LoadInv, AllHits
    <3>3. Answer(p, load[l].result) \in AllHits \cup {Err}
      BY <3>1, <3>2 DEF Answer, CallerType
    <3>4. AgeOf(Answer(p, load[l].result)) \in AllAges \cup {None}
      BY <3>3, AgeType
    <3>5. Wakes(p, load[l].result) \in CallerType
      BY <3>1, <3>3, <3>4, WokenType, Zenon DEF Wakes
    <3> QED
      BY <1>12, <3>1, <3>5 DEF LoadSends
  <2>4. caller' \in [Callers -> CallerType]
    BY <1>12, <2>3 DEF LoadSends
  <2> QED
    BY <1>0, <1>12, <2>2, <2>4 DEF LoadSends, Typed, Indexed
<1> QED
  BY <1>1, <1>2, <1>3, <1>4, <1>5, <1>8, <1>9, <1>10, <1>11, <1>12 DEF Next, CallerStep, LoadEnds

\* Versions only grow, and an invalidation raises the floor to the store.
LEMMA AgesStep == ASSUME IndInv, [Next]_vars, NEW k \in Keys PROVE Ages(k)'
<1>0. /\ Ages(k) /\ store[k] \in Nat /\ floor[k] \in Nat /\ store \in [Keys -> Versions]
      /\ Versions \subseteq Nat
  BY Constants DEF IndInv, Typed
<1>1. CASE UNCHANGED <<store, floor, since>>
  BY <1>0, <1>1 DEF Ages
<1>2. CASE Tick
  BY <1>0, <1>2, TickFacts DEF Ages
<1>3. CASE Clear \/ \E j \in Keys : Invalidate(j)
  <2>1. PICK S \in SUBSET Keys :
           /\ UNCHANGED <<store, since>>
           /\ floor' = [j \in Keys |-> IF j \in S THEN store[j] ELSE floor[j]]
    BY <1>3, InvalidateFacts
  <2>2. floor'[k] = store[k] \/ floor'[k] = floor[k]
    BY <2>1
  <2>3. floor'[k] <= store[k]
    BY <1>0, <2>2 DEF Ages
  <2> QED
    BY <1>0, <2>1, <2>3 DEF Ages
<1>4. ASSUME NEW j \in Keys, Change(j) PROVE Ages(k)'
  <2>1. store'[k] \in {store[k], store[k] + 1} /\ UNCHANGED <<floor, since>>
    BY <1>0, <1>4 DEF Change
  <2>2. floor[k] <= store'[k]
    BY <1>0, <2>1 DEF Ages
  <2>3. ASSUME NEW v \in Versions, v >= store'[k] PROVE since[k][v] = 0
    <3>1. v >= store[k]
      BY <1>0, <2>1, <2>3
    <3> QED
      BY <1>0, <3>1 DEF Ages
  <2> QED
    BY <2>1, <2>2, <2>3 DEF Ages
<1> QED
  BY <1>1, <1>2, <1>3, <1>4, FinishFacts DEF Next, CallerStep, LoadEnds, vars, CallerGivesUp,
     LookupHit, LookupJoin, LookupShed, LookupMiss, LoadReads, LoadSends

\* What a load has read, over a step: the data ages by a tick when the time the
\* load has left goes down by one.
LEMMA LoadsStep == ASSUME IndInv, [Next]_vars, NEW l \in Loads PROVE LoadInv(l)'
<1>0. /\ LoadInv(l) /\ load[l] \in LoadType /\ store \in [Keys -> Versions]
      /\ load \in [Loads -> LoadType] /\ since \in [Keys -> [Versions -> Nat]]
      /\ Cands \subseteq SUBSET Keys /\ Versions \subseteq Nat /\ LoadTimeout \in Nat
      /\ load[l].left \in Nat
  BY Constants DEF IndInv, Typed, LoadType
<1> DEFINE r == load[l].read
           c == load[l].cands
<1>1. ASSUME load[l].pc # "free", load[l].read # None
      PROVE  /\ c \in Cands /\ c \subseteq Keys /\ r \in Hits(c)
             /\ \A k \in c : r[k] \in Versions /\ since[k][r[k]] \in Nat /\ store[k] \in Nat
  <2>1. c \in Cands /\ r \in [c -> Versions] /\ c \subseteq Keys
    BY <1>0, <1>1 DEF LoadInv, Hits
  <2> HIDE DEF r, c
  <2>2. ASSUME NEW k \in c
        PROVE  r[k] \in Versions /\ since[k][r[k]] \in Nat /\ store[k] \in Nat
    <3>1. k \in Keys /\ r[k] \in Versions
      BY <2>1, <2>2
    <3>2. since[k] \in [Versions -> Nat] /\ store[k] \in Nat
      BY <1>0, <3>1
    <3> QED
      BY <3>1, <3>2
  <2> QED
    BY <2>1, <2>2 DEF Hits
<1>2. CASE UNCHANGED <<store, since>> /\ load'[l] = load[l]
  BY <1>0, <1>2 DEF LoadInv
<1>3. CASE Tick
  <2>1. /\ load'[l].pc = load[l].pc /\ load'[l].cands = c /\ load'[l].read = r
        /\ load'[l].result = load[l].result /\ load'[l].left = Less(load[l].left)
        /\ load[l].pc = "running" => load[l].left > 0
        /\ store' = store
    BY <1>3, TickFacts
  <2>2. \A k \in Keys : \A v \in Versions : since'[k][v] \in {since[k][v], since[k][v] + 1}
    BY <1>3, TickFacts
  <2>3. ASSUME load[l].pc = "running", r # None, NEW k \in c
        PROVE  since'[k][r[k]] + load'[l].left <= LoadTimeout
    <3>1. since[k][r[k]] \in Nat /\ since'[k][r[k]] \in {since[k][r[k]], since[k][r[k]] + 1}
      BY <1>1, <2>2, <2>3
    <3>2. load'[l].left = load[l].left - 1
      BY <1>0, <2>1, <2>3 DEF Less
    <3>3. since[k][r[k]] + load[l].left <= LoadTimeout
      BY <1>0, <2>3 DEF LoadInv
    <3> QED
      BY <1>0, <3>1, <3>2, <3>3
  <2> QED
    BY <1>0, <2>1, <2>3 DEF LoadInv
<1>4. ASSUME NEW k \in Keys, Change(k) PROVE LoadInv(l)'
  <2>1. UNCHANGED <<load, since>> /\ \A j \in Keys : store'[j] \in {store[j], store[j] + 1}
    BY <1>0, <1>4 DEF Change
  <2>2. ASSUME load[l].pc = "running", r # None, NEW j \in c PROVE r[j] <= store'[j]
    <3>1. r[j] \in Nat /\ store[j] \in Nat /\ r[j] <= store[j]
      BY <1>0, <1>1, <2>2 DEF LoadInv
    <3>2. store'[j] \in {store[j], store[j] + 1}
      BY <1>1, <2>1, <2>2
    <3> QED
      BY <3>1, <3>2
  <2> QED
    BY <1>0, <2>1, <2>2 DEF LoadInv
<1>5. ASSUME NEW p \in Callers, NEW d \in Cands, LookupMiss(p, d) PROVE LoadInv(l)'
  <2>1. PICK m \in Loads : Starts(p, d, m)
    BY <1>5, MissFacts
  <2>2. CASE l = m
    BY <2>1, <2>2 DEF Starts, LoadInv
  <2>3. CASE l # m
    BY <1>2, <2>1, <2>3 DEF Starts
  <2> QED
    BY <2>2, <2>3
<1>6. ASSUME NEW m \in Loads, LoadReads(m) PROVE LoadInv(l)'
  <2>1. UNCHANGED <<store, since>>
    BY <1>6 DEF LoadReads
  <2>2. CASE l # m
    BY <1>0, <1>2, <1>6, <2>1, <2>2 DEF LoadReads
  <2>3. CASE l = m
    <3>1. /\ load[l].pc = "running" /\ c \in Cands /\ c \subseteq Keys
          /\ load'[l].pc = "running" /\ load'[l].cands = c /\ load'[l].left = load[l].left
          /\ load'[l].read = [k \in c |-> store[k]]
      BY <1>0, <1>6, <2>3 DEF LoadReads, LoadInv, LoadType
    <3>2. load'[l].read \in Hits(c) /\ \A k \in c : load'[l].read[k] = store[k]
      BY <1>0, <3>1 DEF Hits
    <3>3. ASSUME NEW k \in c PROVE store[k] <= store[k] /\ since[k][store[k]] = 0
      <4>1. k \in Keys /\ store[k] \in Versions /\ store[k] \in Nat /\ Ages(k)
        BY <1>0, <3>1 DEF IndInv
      <4> QED
        BY <4>1 DEF Ages
    <3>4. load[l].left <= LoadTimeout
      BY <1>0 DEF LoadType
    <3> HIDE DEF c
    <3>5. ASSUME NEW k \in c PROVE since'[k][load'[l].read[k]] + load'[l].left <= LoadTimeout
      BY <1>0, <2>1, <3>1, <3>2, <3>3, <3>4
    <3> QED
      BY <2>1, <3>1, <3>2, <3>3, <3>5 DEF LoadInv
  <2> QED
    BY <2>2, <2>3
<1>7. ASSUME NEW m \in Loads, LoadSucceeds(m) \/ LoadFails(m) PROVE LoadInv(l)'
  <2>1. load[m].pc = "running" /\ UNCHANGED <<store, since>>
    BY <1>7, FinishFacts
  <2>2. PICK res : /\ load' = [load EXCEPT ![m].pc = "ended", ![m].result = res]
                   /\ res = Err \/ (res = load[m].read /\ load[m].read # None)
    BY <1>7, FinishFacts
  <2>3. CASE l # m
    BY <1>0, <1>2, <2>1, <2>2, <2>3
  <2>4. CASE l = m
    <3>1. /\ load'[l].pc = "ended" /\ load'[l].cands = c /\ load'[l].read = r
          /\ load'[l].result = res
      BY <1>0, <2>2, <2>4 DEF LoadType
    <3> QED
      BY <1>0, <2>1, <2>2, <2>4, <3>1 DEF LoadInv
  <2> QED
    BY <2>3, <2>4
<1>8. ASSUME NEW m \in Loads, LoadSends(m) PROVE LoadInv(l)'
  <2>1. CASE l # m
    BY <1>0, <1>2, <1>8, <2>1 DEF LoadSends
  <2>2. CASE l = m
    BY <1>0, <1>8, <2>2 DEF LoadSends, LoadInv, FreeLoad
  <2> QED
    BY <2>1, <2>2
<1>9. CASE Clear \/ \E k \in Keys : Invalidate(k)
  BY <1>2, <1>9, InvalidateFacts
<1> QED
  BY <1>2, <1>3, <1>4, <1>5, <1>6, <1>7, <1>8, <1>9 DEF Next, CallerStep, LoadEnds, vars,
     CallerGivesUp, LookupHit, LookupJoin, LookupShed

\* The owner of a slot, over a step: invalidations take the slots of their keys
\* away, and the entry of the slot's candidates is only ever replaced by the
\* owner, whose end clears the slot.
LEMMA SlotsStep == ASSUME IndInv, [Next]_vars, NEW c \in DOMAIN inflight' PROVE SlotInv(c)'
<1>0. /\ \A d \in DOMAIN inflight : SlotInv(d) /\ inflight[d] \in Loads
      /\ \A d \in DOMAIN cache.entries : EntryInv(d)
      /\ load \in [Loads -> LoadType] /\ store \in [Keys -> Versions]
      /\ floor \in [Keys -> Versions] /\ Versions \subseteq Nat
      /\ \A l \in Loads : LoadInv(l)
  BY Constants DEF IndInv, Typed
<1>1. ASSUME c \in DOMAIN inflight, inflight'[c] = inflight[c],
             load'[inflight[c]] = load[inflight[c]], floor' = floor,
             \A d \in DOMAIN cache'.entries : Kept(d) \/ d # c
      PROVE  SlotInv(c)'
  BY <1>0, <1>1 DEF SlotInv, Kept
<1>2. CASE UNCHANGED <<inflight, load, floor, cache>>
  BY <1>1, <1>2 DEF Kept
<1>3. CASE Tick
  <2>1. c \in DOMAIN inflight /\ inflight' = inflight /\ floor' = floor
    BY <1>3, TickFacts
  <2>2. \A l \in Loads : /\ load'[l].pc = load[l].pc /\ load'[l].cands = load[l].cands
                         /\ load'[l].read = load[l].read
    BY <1>3, TickFacts
  <2>3. /\ DOMAIN cache'.entries = DOMAIN cache.entries
        /\ \A d \in DOMAIN cache.entries : cache'.entries[d].hits = cache.entries[d].hits
    BY <1>3, TickFacts
  <2> QED
    BY <1>0, <2>1, <2>2, <2>3 DEF SlotInv
<1>4. CASE Clear \/ \E k \in Keys : Invalidate(k)
  <2>1. PICK S \in SUBSET Keys :
           /\ load' = load
           /\ floor' = [k \in Keys |-> IF k \in S THEN store[k] ELSE floor[k]]
           /\ DOMAIN inflight' \subseteq DOMAIN inflight
           /\ \A d \in DOMAIN inflight' : inflight'[d] = inflight[d] /\ d \cap S = {}
           /\ \A d \in DOMAIN cache'.entries : Kept(d)
    BY <1>4, InvalidateFacts
  <2>2. c \in DOMAIN inflight /\ inflight'[c] = inflight[c] /\ c \cap S = {}
    BY <2>1
  <2>3. c \subseteq Keys
    BY <1>0, <2>2, Constants DEF SlotInv, LoadInv
  <2>4. \A k \in c : floor'[k] = floor[k]
    BY <2>1, <2>2, <2>3
  <2> QED
    BY <1>0, <2>1, <2>2, <2>4 DEF SlotInv, Kept
<1>5. ASSUME NEW p \in Callers, NEW d \in Cands, LookupMiss(p, d) PROVE SlotInv(c)'
  <2>1. PICK l \in Loads : Starts(p, d, l)
    BY <1>5, MissFacts
  <2>2. CASE c = d
    BY <2>1, <2>2 DEF Starts, SlotInv
  <2>3. CASE c # d
    <3>1. c \in DOMAIN inflight /\ inflight'[c] = inflight[c] /\ inflight[c] # l
      BY <1>0, <2>1, <2>3 DEF Starts, SlotInv
    <3> QED
      BY <1>0, <1>1, <2>1, <3>1 DEF Starts, Kept
  <2> QED
    BY <2>2, <2>3
<1>6. ASSUME NEW l \in Loads, LoadReads(l) PROVE SlotInv(c)'
  <2>1. UNCHANGED <<cache, inflight, floor, store>> /\ \A m \in Loads \ {l} : load'[m] = load[m]
    BY <1>0, <1>6 DEF LoadReads
  <2>2. CASE inflight[c] # l
    BY <1>0, <1>1, <2>1, <2>2 DEF Kept
  <2>3. CASE inflight[c] = l
    <3>1. /\ load[l].pc = "running" /\ load[l].cands = c /\ c \in Cands /\ c \subseteq Keys
      BY <1>0, <2>1, <2>3, Constants DEF SlotInv, LoadInv
    <3>2. /\ load'[l].pc = "running" /\ load'[l].cands = c
          /\ load'[l].read = [k \in c |-> store[k]]
      BY <1>0, <1>6, <3>1 DEF LoadReads, LoadType
    <3>3. ASSUME NEW k \in c
          PROVE  /\ load'[l].read[k] >= floor[k]
                 /\ c \in DOMAIN cache.entries => load'[l].read[k] >= cache.entries[c].hits[k]
      <4>1. load'[l].read[k] = store[k] /\ store[k] \in Nat /\ floor[k] \in Nat /\ floor[k] <= store[k]
        BY <1>0, <3>1, <3>2 DEF IndInv, Ages
      <4>2. c \in DOMAIN cache.entries =>
               cache.entries[c].hits[k] \in Nat /\ cache.entries[c].hits[k] <= store[k]
        BY <1>0 DEF EntryInv, Hits
      <4> QED
        BY <4>1, <4>2
    <3> QED
      BY <2>1, <2>3, <3>2, <3>3 DEF SlotInv
  <2> QED
    BY <2>2, <2>3
<1>7. ASSUME NEW l \in Loads, LoadSucceeds(l) \/ LoadFails(l) PROVE SlotInv(c)'
  <2>1. /\ \A m \in Loads \ {l} : load'[m] = load[m]
        /\ DOMAIN inflight' \subseteq DOMAIN inflight
        /\ \A d \in DOMAIN inflight' : inflight'[d] = inflight[d] /\ inflight[d] # l
        /\ floor' = floor
    BY <1>7, FinishFacts
  <2>2. \A d \in DOMAIN cache'.entries : Kept(d) \/ Loaded(d, l)
    BY <1>7, FinishFacts
  <2>3. \A d \in DOMAIN cache'.entries : Loaded(d, l) => d # c
    BY <2>1 DEF Loaded, OwnsSlot
  <2> QED
    BY <1>0, <1>1, <2>1, <2>2, <2>3
<1>8. ASSUME NEW l \in Loads, LoadSends(l) PROVE SlotInv(c)'
  <2>1. UNCHANGED <<cache, inflight, floor>> /\ \A m \in Loads \ {l} : load'[m] = load[m]
    BY <1>0, <1>8 DEF LoadSends
  <2>2. inflight[c] # l
    BY <1>0, <1>8, <2>1 DEF LoadSends, SlotInv
  <2> QED
    BY <1>0, <1>1, <2>1, <2>2 DEF Kept
<1>9. ASSUME NEW k \in Keys, Change(k) PROVE SlotInv(c)'
  BY <1>2, <1>9 DEF Change
<1> QED
  BY <1>2, <1>3, <1>4, <1>5, <1>6, <1>7, <1>8, <1>9 DEF Next, CallerStep, LoadEnds, vars,
     CallerGivesUp, LookupHit, LookupJoin, LookupShed

\* The entries over a step: what a load puts there is from after the last
\* invalidation, since the load owned its slot, and no older than the load;
\* what an invalidation leaves has none of its keys.
LEMMA EntriesStep ==
    ASSUME IndInv, [Next]_vars, NEW c \in DOMAIN cache'.entries PROVE EntryInv(c)'
<1>0. /\ \A d \in DOMAIN cache.entries : EntryInv(d) /\ d \in Cands
      /\ store \in [Keys -> Versions] /\ floor \in [Keys -> Versions]
      /\ since \in [Keys -> [Versions -> Nat]]
      /\ Cands \subseteq SUBSET Keys /\ Versions \subseteq Nat
      /\ LoadTimeout \in Nat /\ LongestTtl \in Nat /\ StaleIfError \in Nat
  BY Constants DEF IndInv, Typed, Indexed
<1>1. ASSUME NEW hits, NEW d \in Cands, hits \in Hits(d), NEW k \in d
      PROVE  k \in Keys /\ hits[k] \in Versions /\ hits[k] \in Nat /\ since[k][hits[k]] \in Nat
  <2>1. k \in Keys /\ hits[k] \in Versions
    BY <1>0, <1>1 DEF Hits
  <2>2. since[k] \in [Versions -> Nat]
    BY <1>0, <2>1
  <2> QED
    BY <1>0, <2>1, <2>2
<1>2. ASSUME Kept(c), UNCHANGED since, \A k \in c : floor'[k] = floor[k] /\ store'[k] = store[k]
      PROVE  EntryInv(c)'
  BY <1>0, <1>2 DEF Kept, EntryInv
<1>3. CASE UNCHANGED <<cache, since, floor, store>>
  BY <1>2, <1>3 DEF Kept
<1>4. CASE Tick
  <2>1. /\ c \in DOMAIN cache.entries /\ c \in Cands /\ EntryInv(c)
        /\ UNCHANGED <<store, floor>>
    BY <1>0, <1>4, TickFacts
  <2> DEFINE e == cache.entries[c]
             f == cache'.entries[c]
  <2>2. /\ f.hits = e.hits /\ f.fresh = Less(e.fresh) /\ f.stale = Less(e.stale)
        /\ f = [x \in {"hits", "fresh", "stale", "id"} |-> f[x]]
    BY <1>4, <2>1, TickFacts
  <2>3. \A k \in Keys : \A v \in Versions : since'[k][v] \in {since[k][v], since[k][v] + 1}
    BY <1>4, TickFacts
  <2>4. e.hits \in Hits(c) /\ e.fresh \in Nat /\ e.stale \in Nat
    BY <2>1 DEF EntryInv
  <2>5. f.fresh \in Nat /\ f.stale \in Nat
        /\ (f.fresh > 0 => f.fresh = e.fresh - 1) /\ (f.stale > 0 => f.stale = e.stale - 1)
    BY <2>2, <2>4 DEF Less
  <2>6. ASSUME NEW k \in c
        PROVE  /\ floor[k] <= e.hits[k] /\ e.hits[k] <= store[k]
               /\ f.fresh > 0 => since'[k][e.hits[k]] + f.fresh <= LoadTimeout + LongestTtl
               /\ f.stale > 0 =>
                     since'[k][e.hits[k]] + f.stale <= LoadTimeout + LongestTtl + StaleIfError
    <3>1. k \in Keys /\ e.hits[k] \in Versions /\ since[k][e.hits[k]] \in Nat
      BY <1>1, <2>1, <2>4
    <3>2. since'[k][e.hits[k]] \in {since[k][e.hits[k]], since[k][e.hits[k]] + 1}
      BY <2>3, <3>1
    <3>3. /\ floor[k] <= e.hits[k] /\ e.hits[k] <= store[k]
          /\ e.fresh > 0 => since[k][e.hits[k]] + e.fresh <= LoadTimeout + LongestTtl
          /\ e.stale > 0 => since[k][e.hits[k]] + e.stale <= LoadTimeout + LongestTtl + StaleIfError
      BY <2>1 DEF EntryInv
    <3> HIDE DEF e, f
    <3> QED
      BY <1>0, <2>4, <2>5, <3>1, <3>2, <3>3
  <2> QED
    BY <2>1, <2>2, <2>4, <2>5, <2>6 DEF EntryInv
<1>5. CASE Clear \/ \E k \in Keys : Invalidate(k)
  <2>1. PICK S \in SUBSET Keys :
           /\ UNCHANGED <<store, since>>
           /\ floor' = [k \in Keys |-> IF k \in S THEN store[k] ELSE floor[k]]
           /\ \A d \in DOMAIN cache'.entries : Kept(d) /\ d \cap S = {}
    BY <1>5, InvalidateFacts
  <2>2. c \subseteq Keys
    BY <1>0, <2>1 DEF Kept
  <2>3. \A k \in c : floor'[k] = floor[k]
    BY <2>1, <2>2
  <2> QED
    BY <1>2, <2>1, <2>3
<1>6. ASSUME NEW j \in Keys, Change(j) PROVE EntryInv(c)'
  <2>1. /\ UNCHANGED <<cache, since, floor>>
        /\ \A k \in Keys : store'[k] \in {store[k], store[k] + 1}
    BY <1>0, <1>6 DEF Change
  <2>2. c \in Cands /\ EntryInv(c)
    BY <1>0, <2>1
  <2>3. ASSUME NEW k \in c PROVE cache.entries[c].hits[k] <= store'[k]
    <3>1. k \in Keys /\ cache.entries[c].hits[k] \in Nat
      BY <1>1, <2>2 DEF EntryInv
    <3>2. store[k] \in Nat /\ store'[k] \in {store[k], store[k] + 1}
      BY <1>0, <2>1, <3>1
    <3>3. cache.entries[c].hits[k] <= store[k]
      BY <2>2 DEF EntryInv
    <3> QED
      BY <3>1, <3>2, <3>3
  <2> QED
    BY <2>1, <2>2, <2>3 DEF EntryInv
<1>7. ASSUME NEW l \in Loads, LoadSucceeds(l) \/ LoadFails(l) PROVE EntryInv(c)'
  <2>1. (Kept(c) \/ Loaded(c, l)) /\ UNCHANGED <<store, floor, since>> /\ load[l].pc = "running"
    BY <1>7, FinishFacts
  <2>2. CASE Kept(c)
    BY <1>2, <2>1, <2>2
  <2>3. CASE Loaded(c, l)
    <3> DEFINE r == load[l].read
    <3>1. PICK ttl \in Ttls(r) : \E id : cache'.entries[c] = NewEntry(r, ttl, id)
      BY <2>3 DEF Loaded
    <3>2. PICK id : cache'.entries[c] = NewEntry(r, ttl, id)
      BY <3>1
    <3>3. /\ cache'.entries[c].hits = r /\ cache'.entries[c].fresh = ttl
          /\ cache'.entries[c].stale = ttl + StaleIfError
          /\ cache'.entries[c] =
                [f \in {"hits", "fresh", "stale", "id"} |-> cache'.entries[c][f]]
      BY <3>2 DEF NewEntry
    <3>4. ttl \in Nat /\ ttl <= LongestTtl
      BY Constants
    <3>5. /\ c \in DOMAIN inflight /\ inflight[c] = l /\ r # None /\ c = load[l].cands
      BY <2>3 DEF Loaded, OwnsSlot
    <3>6. LoadInv(l) /\ SlotInv(c) /\ load[l].left \in Nat
      BY <3>5, Constants DEF IndInv, Typed, LoadType
    <3>7. c \in Cands /\ r \in Hits(c)
      BY <2>1, <3>5, <3>6 DEF LoadInv
    <3>8. ASSUME NEW k \in c
          PROVE  /\ floor[k] <= r[k] /\ r[k] <= store[k]
                 /\ since[k][r[k]] + ttl <= LoadTimeout + LongestTtl
                 /\ since[k][r[k]] + (ttl + StaleIfError) <= LoadTimeout + LongestTtl + StaleIfError
      <4>1. k \in Keys /\ r[k] \in Nat /\ since[k][r[k]] \in Nat
        BY <1>1, <3>7
      <4>2. r[k] <= store[k] /\ since[k][r[k]] + load[l].left <= LoadTimeout
        BY <2>1, <3>5, <3>6 DEF LoadInv
      <4>3. r[k] >= floor[k] /\ floor[k] \in Nat
        BY <1>0, <3>5, <3>6, <4>1 DEF SlotInv
      <4> HIDE DEF r
      <4> QED
        BY <1>0, <3>4, <3>6, <4>1, <4>2, <4>3
    <3> QED
      BY <1>0, <2>1, <3>3, <3>4, <3>7, <3>8 DEF EntryInv
  <2> QED
    BY <2>1, <2>2, <2>3
<1> QED
  BY <1>3, <1>4, <1>5, <1>6, <1>7 DEF Next, CallerStep, LoadEnds, vars, CallerGivesUp,
     LookupHit, LookupJoin, LookupShed, LookupMiss, LoadReads, LoadSends

\* running_loads over a step: start_load adds one, the end of a load takes one
\* off, whether or not it owns its slot.
LEMMA CountedStep == ASSUME IndInv, [Next]_vars PROVE Counted'
<1>0. /\ load \in [Loads -> LoadType] /\ IsFiniteSet(Running) /\ running \in Nat
      /\ running = Cardinality(Running) /\ running <= MaxInflight /\ MaxInflight \in Nat
  BY Constants DEF IndInv, Typed, Counted
<1>1. ASSUME running' = running, \A l \in Loads : load'[l].pc = "running" <=> load[l].pc = "running"
      PROVE  Counted'
  <2>1. Running' = Running
    BY <1>1 DEF Running
  <2> QED
    BY <1>0, <1>1, <2>1 DEF Counted
<1>2. ASSUME NEW p \in Callers, NEW c \in Cands, LookupMiss(p, c) PROVE Counted'
  <2>1. PICK l \in Loads : Starts(p, c, l)
    BY <1>2, MissFacts
  <2>2. Running' = Running \cup {l} /\ l \notin Running
    BY <2>1 DEF Starts, Running
  <2>3. IsFiniteSet(Running') /\ Cardinality(Running') = Cardinality(Running) + 1
    BY <1>0, <2>2, FS_AddElement
  <2>4. running' = running + 1 /\ running < MaxInflight
    BY <2>1 DEF Starts
  <2> QED
    BY <1>0, <2>3, <2>4 DEF Counted
<1>3. ASSUME NEW l \in Loads, LoadSucceeds(l) \/ LoadFails(l) PROVE Counted'
  <2>1. /\ load[l].pc = "running" /\ running' = running - 1
        /\ \A m \in Loads \ {l} : load'[m] = load[m]
    BY <1>3, FinishFacts
  <2>2. PICK r : load' = [load EXCEPT ![l].pc = "ended", ![l].result = r]
    BY <1>3, FinishFacts
  <2>3. load'[l].pc = "ended"
    BY <1>0, <2>2 DEF LoadType
  <2>4. Running' = Running \ {l} /\ l \in Running
    BY <2>1, <2>3 DEF Running
  <2>5. IsFiniteSet(Running') /\ Cardinality(Running') = Cardinality(Running) - 1
    BY <1>0, <2>4, FS_RemoveElement
  <2>6. Cardinality(Running') \in Nat
    BY <2>5, FS_CardinalityType
  <2> QED
    BY <1>0, <2>1, <2>5, <2>6 DEF Counted
<1>4. ASSUME NEW l \in Loads, LoadReads(l) PROVE Counted'
  BY <1>0, <1>1, <1>4 DEF LoadReads, LoadType
<1>5. ASSUME NEW l \in Loads, LoadSends(l) PROVE Counted'
  BY <1>0, <1>1, <1>5 DEF LoadSends, FreeLoad
<1>6. CASE Tick
  BY <1>1, <1>6, TickFacts
<1>7. CASE Clear \/ \E k \in Keys : Invalidate(k)
  BY <1>1, <1>7, InvalidateFacts
<1>8. CASE UNCHANGED <<running, load>>
  BY <1>1, <1>8
<1> QED
  BY <1>2, <1>3, <1>4, <1>5, <1>6, <1>7, <1>8 DEF Next, CallerStep, LoadEnds, vars, Change,
     CallerGivesUp, LookupHit, LookupJoin, LookupShed

\* The callers over a step: a load that is joined owns its slot, so that what
\* it has read is from after the last invalidation, and what it has yet to read
\* is what the store holds then.
LEMMA CallersStep == ASSUME IndInv, [Next]_vars, NEW p \in Callers PROVE CallerInv(p)'
<1>0. /\ CallerInv(p) /\ caller \in [Callers -> CallerType] /\ load \in [Loads -> LoadType]
      /\ store \in [Keys -> Versions] /\ floor \in [Keys -> Versions]
      /\ Versions \subseteq Nat /\ Cands \subseteq SUBSET Keys
  BY Constants DEF IndInv, Typed
<1> DEFINE w == caller[p]
           m == caller[p].load
\* The same caller, with its load in the same state, and the store grown.
<1>1. ASSUME caller'[p] = caller[p], store' = store,
             w.pc = "waiting" =>
                /\ load'[m].pc = load[m].pc /\ load'[m].cands = load[m].cands
                /\ load'[m].read = load[m].read /\ load'[m].result = load[m].result
      PROVE  CallerInv(p)'
  BY <1>0, <1>1 DEF CallerInv, Serves
<1>2. CASE UNCHANGED <<caller, load, store>>
  BY <1>1, <1>2
<1>3. CASE Tick
  <2>1. UNCHANGED <<caller, store>>
        /\ \A l \in Loads :
              /\ load'[l].pc = load[l].pc /\ load'[l].cands = load[l].cands
              /\ load'[l].read = load[l].read /\ load'[l].result = load[l].result
    BY <1>3, TickFacts
  <2> QED
    BY <1>0, <1>1, <2>1 DEF CallerInv
<1>4. CASE Clear \/ \E k \in Keys : Invalidate(k)
  BY <1>2, <1>4, InvalidateFacts
<1>5. ASSUME NEW j \in Keys, Change(j) PROVE CallerInv(p)'
  <2>1. UNCHANGED <<caller, load>> /\ \A k \in Keys : store'[k] \in {store[k], store[k] + 1}
    BY <1>0, <1>5 DEF Change
  <2>2. ASSUME w.pc = "waiting", NEW k \in w.cands PROVE w.need[k] <= store'[k]
    <3>1. w.cands \subseteq Keys /\ w.need \in [w.cands -> Versions] /\ w.need[k] <= store[k]
      BY <1>0, <2>2 DEF CallerInv, Hits
    <3>2. w.need[k] \in Nat /\ store[k] \in Nat /\ store'[k] \in {store[k], store[k] + 1}
      BY <1>0, <2>1, <2>2, <3>1
    <3> QED
      BY <3>1, <3>2
  <2> QED
    BY <1>0, <2>1, <2>2 DEF CallerInv, Serves
<1>6. ASSUME NEW q \in Callers, CallerGivesUp(q) PROVE CallerInv(p)'
  <2>1. CASE p = q
    BY <1>0, <1>6, <2>1 DEF CallerGivesUp, CallerInv, IdleCaller
  <2>2. CASE p # q
    BY <1>0, <1>1, <1>6, <2>2 DEF CallerGivesUp
  <2> QED
    BY <2>1, <2>2
\* p returns r at once, and r is no older than the floors.
<1>7. ASSUME NEW q \in Callers, NEW c \in Cands, NEW r, NEW by, Returns(q, c, r, by),
             UNCHANGED <<load, store>>,
             r # Err => \A k \in c : r[k] >= floor[k]
      PROVE  CallerInv(p)'
  <2>1. CASE p # q
    BY <1>0, <1>1, <1>7, <2>1 DEF Returns
  <2>2. CASE p = q
    <3>1. /\ caller'[p].pc = "returned" /\ caller'[p].cands = c
          /\ caller'[p].need = Need(c) /\ caller'[p].got = r
      BY <1>0, <1>7, <2>2 DEF Returns, IdleCaller
    <3>2. \A k \in c : Need(c)[k] = floor[k]
      BY CallerFacts
    <3> QED
      BY <1>7, <3>1, <3>2 DEF CallerInv, Serves
  <2> QED
    BY <2>1, <2>2
<1>8. ASSUME NEW q \in Callers, NEW c \in Cands, LookupHit(q, c) PROVE CallerInv(p)'
  <2>1. /\ Returns(q, c, cache.entries[c].hits, "hit") /\ UNCHANGED <<load, store>>
        /\ \A k \in c : cache.entries[c].hits[k] >= floor[k]
    BY <1>8, CallerFacts DEF LookupHit, Fresh
  <2> QED
    BY <1>7, <2>1
<1>9. ASSUME NEW q \in Callers, NEW c \in Cands, LookupShed(q, c) PROVE CallerInv(p)'
  <2> DEFINE r == IF StaleCopy(c) # None THEN StaleCopy(c) ELSE Err
  <2>1. Returns(q, c, r, "shed") /\ UNCHANGED <<load, store>>
    BY <1>9 DEF LookupShed
  <2>2. r # Err => \A k \in c : r[k] >= floor[k]
    BY CallerFacts
  <2> HIDE DEF r
  <2> QED
    BY <1>7, <2>1, <2>2
\* p waits for load l, which runs for c and serves the floors.
<1>10. ASSUME NEW q \in Callers, NEW c \in Cands, NEW l \in Loads, Waits(q, c, l), store' = store,
              load'[l].pc = "running", load'[l].cands = c,
              load'[l].read # None => \A k \in c : load'[l].read[k] >= floor[k],
              \A n \in Loads : load[n].pc # "free" => load'[n] = load[n]
       PROVE  CallerInv(p)'
  <2>1. CASE p # q
    <3>1. caller'[p] = caller[p]
      BY <1>0, <1>10, <2>1 DEF Waits
    <3>2. w.pc = "waiting" => load'[m] = load[m]
      BY <1>0, <1>10 DEF CallerInv
    <3> QED
      BY <1>1, <1>10, <3>1, <3>2
  <2>2. CASE p = q
    <3>1. /\ caller'[p].pc = "waiting" /\ caller'[p].cands = c /\ caller'[p].load = l
          /\ caller'[p].need = Need(c) /\ caller'[p].stale = StaleCopy(c)
      BY <1>0, <1>10, <2>2 DEF Waits, IdleCaller
    <3>2. /\ Need(c) \in Hits(c) /\ \A k \in c : Need(c)[k] = floor[k] /\ Need(c)[k] <= store[k]
          /\ StaleCopy(c) # None => \A k \in c : StaleCopy(c)[k] >= floor[k]
      BY CallerFacts
    <3> QED
      BY <1>10, <3>1, <3>2 DEF CallerInv, Serves
  <2> QED
    BY <2>1, <2>2
<1>11. ASSUME NEW q \in Callers, NEW c \in Cands, LookupJoin(q, c) PROVE CallerInv(p)'
  <2>1. c \in DOMAIN inflight /\ Waits(q, c, inflight[c]) /\ UNCHANGED <<load, store>>
    BY <1>11 DEF LookupJoin
  <2>2. SlotInv(c) /\ inflight[c] \in Loads
    BY <2>1 DEF IndInv, Typed
  <2> QED
    BY <1>10, <2>1, <2>2 DEF SlotInv
<1>12. ASSUME NEW q \in Callers, NEW c \in Cands, LookupMiss(q, c) PROVE CallerInv(p)'
  <2>1. PICK l \in Loads : Starts(q, c, l)
    BY <1>12, MissFacts
  <2>2. \A n \in Loads : load[n].pc # "free" => load'[n] = load[n]
    BY <2>1 DEF Starts
  <2> QED
    BY <1>10, <2>1, <2>2 DEF Starts
<1>13. ASSUME NEW l \in Loads, LoadReads(l) PROVE CallerInv(p)'
  <2>1. /\ UNCHANGED <<caller, store>> /\ load[l].pc = "running"
        /\ \A n \in Loads \ {l} : load'[n] = load[n]
        /\ load'[l].pc = "running" /\ load'[l].cands = load[l].cands
        /\ load'[l].read = [k \in load[l].cands |-> store[k]]
    BY <1>0, <1>13 DEF LoadReads, LoadType
  <2>2. CASE ~(w.pc = "waiting" /\ m = l)
    BY <1>0, <1>1, <2>1, <2>2 DEF CallerInv
  <2>3. CASE w.pc = "waiting" /\ m = l
    <3>1. /\ load[l].cands = w.cands /\ w.cands \subseteq Keys
          /\ w.need \in [w.cands -> Versions] /\ \A k \in w.cands : w.need[k] <= store[k]
      BY <1>0, <2>3 DEF CallerInv, Hits
    <3>2. \A k \in w.cands : w.need[k] \in Nat /\ store[k] \in Nat
      BY <1>0, <3>1
    <3>3. \A k \in w.cands : load'[l].read[k] >= w.need[k]
      BY <2>1, <3>1, <3>2
    <3> QED
      BY <1>0, <2>1, <2>3, <3>3 DEF CallerInv, Serves
  <2> QED
    BY <2>2, <2>3
<1>14. ASSUME NEW l \in Loads, LoadSucceeds(l) \/ LoadFails(l) PROVE CallerInv(p)'
  <2>1. /\ UNCHANGED <<caller, store>> /\ load[l].pc = "running"
        /\ \A n \in Loads \ {l} : load'[n] = load[n]
    BY <1>14, FinishFacts
  <2>2. PICK r : /\ load' = [load EXCEPT ![l].pc = "ended", ![l].result = r]
                 /\ r = Err \/ (r = load[l].read /\ load[l].read # None)
    BY <1>14, FinishFacts
  <2>3. load'[l].pc = "ended" /\ load'[l].cands = load[l].cands /\ load'[l].result = r
    BY <1>0, <2>2 DEF LoadType
  <2>4. CASE ~(w.pc = "waiting" /\ m = l)
    BY <1>0, <1>1, <2>1, <2>4 DEF CallerInv
  <2>5. CASE w.pc = "waiting" /\ m = l
    BY <1>0, <2>1, <2>2, <2>3, <2>5 DEF CallerInv, Serves
  <2> QED
    BY <2>4, <2>5
<1>15. ASSUME NEW l \in Loads, LoadSends(l) PROVE CallerInv(p)'
  <2>1. /\ load[l].pc = "ended" /\ store' = store
        /\ \A n \in Loads \ {l} : load'[n] = load[n]
    BY <1>0, <1>15 DEF LoadSends
  <2>2. CASE ~(w.pc = "waiting" /\ m = l)
    <3>1. caller'[p] = caller[p]
      BY <1>15, <2>2 DEF LoadSends
    <3> QED
      BY <1>0, <1>1, <2>1, <2>2, <3>1 DEF CallerInv
  <2>3. CASE w.pc = "waiting" /\ m = l
    <3>1. caller[p] \in CallerType
      BY <1>0
    <3>2. /\ caller'[p].pc = "returned" /\ caller'[p].cands = w.cands /\ caller'[p].need = w.need
          /\ caller'[p].got = Answer(p, load[l].result)
      BY <1>15, <2>3, <3>1 DEF LoadSends, Wakes, CallerType
    <3>3. Answer(p, load[l].result) # Err => Serves(Answer(p, load[l].result), p)
      BY <1>0, <2>1, <2>3 DEF Answer, CallerInv
    <3> QED
      BY <3>2, <3>3 DEF CallerInv, Serves
  <2> QED
    BY <2>2, <2>3
<1> QED
  BY <1>2, <1>3, <1>4, <1>5, <1>6, <1>8, <1>9, <1>11, <1>12, <1>13, <1>14, <1>15
  DEF Next, CallerStep, LoadEnds, vars

-----------------------------------------------------------------------------
(* The theorems.                                                           *)

\* The invariant of the cache: what an in-flight slot, an entry, a stale copy
\* or a load that somebody waits for says is never older than the last
\* invalidation that counts for it, nor older than its windows allow.
THEOREM CacheInvariant == Spec => []IndInv
<1>1. IndInv /\ [Next]_vars => IndInv'
  <2> SUFFICES ASSUME IndInv, [Next]_vars PROVE IndInv'
    OBVIOUS
  <2>1. Typed' /\ Counted'
    BY TypedStep, CountedStep
  <2>2. (\A k \in Keys : Ages(k)') /\ (\A l \in Loads : LoadInv(l)')
    BY AgesStep, LoadsStep
  <2>3. (\A c \in DOMAIN inflight' : SlotInv(c)') /\ (\A c \in DOMAIN cache'.entries : EntryInv(c)')
    BY SlotsStep, EntriesStep
  <2>4. \A p \in Callers : CallerInv(p)'
    BY CallersStep
  <2> QED
    BY <2>1, <2>2, <2>3, <2>4 DEF IndInv
<1> QED
  BY InitInd, <1>1, PTL DEF Spec

\* running_loads is the number of loads whose task has not finished, and never
\* passes the limit; a slot belongs to a load that runs for those candidates
\* (start_load, LoadGuard::finish, invalidate, clear).
THEOREM LoadsStandForEachOther == Spec => []LoadsAccounted
<1>1. IndInv => LoadsAccounted
  BY DEF IndInv, Counted, Running, SlotInv, LoadsAccounted, LoadsBounded, NoSlotStuck
<1> QED
  BY CacheInvariant, <1>1, PTL

\* A lookup that starts after invalidate or clear returns nothing from before
\* it, by whichever of its five ways it is answered (cached_lookup).
THEOREM InvalidationIsSeen == Spec => []SeesInvalidation
<1>1. IndInv => SeesInvalidation
  BY DEF IndInv, CallerInv, Serves, SeesInvalidation
<1> QED
  BY CacheInvariant, <1>1, PTL

-----------------------------------------------------------------------------
(* The age of an answer.                                                   *)

\* How old the data of an entry may be while a lookup is answered from it.
LEMMA EntryAges ==
    ASSUME IndInv, NEW c \in Cands, Cached(c), NEW k \in c
    PROVE  LET e == cache.entries[c] IN
           /\ e.hits \in Hits(c) /\ since[k][e.hits[k]] \in Nat
           /\ e.fresh > 0 => since[k][e.hits[k]] < LoadTimeout + LongestTtl
           /\ e.stale > 0 => since[k][e.hits[k]] < LoadTimeout + LongestTtl + StaleIfError
<1> DEFINE e == cache.entries[c]
           age == since[k][e.hits[k]]
<1>1. EntryInv(c) /\ e.hits \in Hits(c) /\ e.fresh \in Nat /\ e.stale \in Nat
  BY DEF IndInv, EntryInv, Cached
<1>2. age \in Nat
  <2>1. k \in Keys /\ e.hits[k] \in Versions
    BY <1>1, Constants DEF Hits
  <2>2. since[k] \in [Versions -> Nat]
    BY <2>1 DEF IndInv, Typed
  <2> QED
    BY <2>1, <2>2
<1>3. /\ e.fresh > 0 => age + e.fresh <= LoadTimeout + LongestTtl
      /\ e.stale > 0 => age + e.stale <= LoadTimeout + LongestTtl + StaleIfError
  BY <1>1 DEF EntryInv
<1> HIDE DEF e, age
<1>4. /\ e.fresh > 0 => age < LoadTimeout + LongestTtl
      /\ e.stale > 0 => age < LoadTimeout + LongestTtl + StaleIfError
  BY <1>1, <1>2, <1>3, Constants
<1> QED
  BY <1>1, <1>2, <1>4 DEF e, age

\* The longest a caller's stale copy can have been superseded when it is used.
CopyLimit == LoadTimeout + LongestTtl + StaleIfError + LoadTimeout

\* The stale copy of a waiting caller leaves room for the rest of its load, and
\* what was answered was within the limit then.
AnswerInv(p) ==
    LET w == caller[p] IN
    /\ w.pc = "waiting" /\ w.stale # None =>
          /\ w.stale \in Hits(w.cands)
          /\ \A k \in w.cands : since[k][w.stale[k]] + load[w.load].left < CopyLimit
    /\ w.pc = "returned" /\ w.got # Err => \A k \in w.cands : w.age[k] < AgeLimit(w.by)

\* A result that waits to be sent is no older than the longest load.
ResultInv(l) ==
    load[l].pc = "ended" /\ load[l].result # Err =>
        \A k \in load[l].cands : since[k][load[l].result[k]] <= LoadTimeout

AgeInv == (\A p \in Callers : AnswerInv(p)) /\ (\A l \in Loads : ResultInv(l))

\* The limits as sums.
LEMMA AgeLimits ==
    /\ AgeLimit("load") = LoadTimeout + 1
    /\ AgeLimit("hit") = LoadTimeout + LongestTtl
    /\ AgeLimit("shed") = LoadTimeout + LongestTtl + StaleIfError
    /\ AgeLimit("stale") = CopyLimit
BY DEF AgeLimit, CopyLimit

\* Only the end of a load makes a result, from what it read.
LEMMA ResultsStep == ASSUME IndInv, AgeInv, [Next]_vars, NEW l \in Loads PROVE ResultInv(l)'
<1>0. ResultInv(l) /\ load \in [Loads -> LoadType] /\ load[l] \in LoadType
  BY DEF IndInv, Typed, AgeInv
<1>1. CASE since' = since /\ load'[l] = load[l]
  BY <1>0, <1>1 DEF ResultInv
<1>2. CASE load'[l].pc # "ended"
  BY <1>2 DEF ResultInv
<1>3. CASE Tick
  BY <1>2, <1>3, TickFacts
<1>4. CASE Clear \/ \E k \in Keys : Invalidate(k)
  BY <1>1, <1>4, InvalidateFacts
<1>5. CASE \/ UNCHANGED vars \/ \E k \in Keys : Change(k)
           \/ \E p \in Callers : CallerGivesUp(p)
           \/ \E p \in Callers : \E c \in Cands :
                 LookupHit(p, c) \/ LookupJoin(p, c) \/ LookupShed(p, c)
  BY <1>1, <1>5 DEF vars, Change, CallerGivesUp, LookupHit, LookupJoin, LookupShed
<1>6. ASSUME NEW p \in Callers, NEW c \in Cands, LookupMiss(p, c) PROVE ResultInv(l)'
  <2>1. PICK n \in Loads : Starts(p, c, n)
    BY <1>6, MissFacts
  <2> QED
    BY <1>1, <1>2, <2>1 DEF Starts
<1>7. ASSUME NEW n \in Loads, LoadReads(n) PROVE ResultInv(l)'
  <2>1. CASE n # l
    BY <1>0, <1>1, <1>7, <2>1 DEF LoadReads
  <2>2. CASE n = l
    BY <1>0, <1>2, <1>7, <2>2 DEF LoadReads, LoadType
  <2> QED
    BY <2>1, <2>2
<1>8. ASSUME NEW n \in Loads, LoadSends(n) PROVE ResultInv(l)'
  <2>1. CASE n # l
    BY <1>0, <1>1, <1>8, <2>1 DEF LoadSends
  <2>2. CASE n = l
    BY <1>0, <1>2, <1>8, <2>2 DEF LoadSends, FreeLoad
  <2> QED
    BY <2>1, <2>2
<1>9. ASSUME NEW n \in Loads, LoadSucceeds(n) \/ LoadFails(n) PROVE ResultInv(l)'
  <2>1. since' = since /\ load[n].pc = "running" /\ \A m \in Loads \ {n} : load'[m] = load[m]
    BY <1>9, FinishFacts
  <2>2. PICK r : /\ load' = [load EXCEPT ![n].pc = "ended", ![n].result = r]
                 /\ r = Err \/ (r = load[n].read /\ load[n].read # None)
    BY <1>9, FinishFacts
  <2>3. CASE n # l
    BY <1>1, <2>1, <2>3
  <2>4. CASE n = l
    <3>1. load'[l].result = r /\ load'[l].cands = load[l].cands
      BY <1>0, <2>2, <2>4 DEF LoadType
    <3>2. ASSUME r # Err, NEW k \in load[l].cands PROVE since[k][r[k]] <= LoadTimeout
      <4>1. /\ r = load[l].read /\ load[l].cands \in Cands /\ r \in Hits(load[l].cands)
            /\ since[k][r[k]] + load[l].left <= LoadTimeout
        BY <2>1, <2>2, <2>4, <3>2 DEF IndInv, LoadInv
      <4>2. k \in Keys /\ r[k] \in Versions
        BY <3>2, <4>1, Constants DEF Hits
      <4>3. since[k][r[k]] \in Nat
        BY <4>2 DEF IndInv, Typed
      <4>4. load[l].left \in Nat /\ LoadTimeout \in Nat
        BY <1>0, Constants DEF LoadType
      <4> QED
        BY <4>1, <4>3, <4>4
    <3> QED
      BY <2>1, <3>1, <3>2 DEF ResultInv
  <2> QED
    BY <2>3, <2>4
<1> QED
  BY <1>3, <1>4, <1>5, <1>6, <1>7, <1>8, <1>9 DEF Next, CallerStep, LoadEnds

\* A copy ages with its load's deadline, and what is answered was within the
\* windows of its entry, its load or its copy.
LEMMA AnswersStep == ASSUME IndInv, AgeInv, [Next]_vars, NEW p \in Callers PROVE AnswerInv(p)'
<1>0. /\ AnswerInv(p) /\ CallerInv(p)
      /\ caller \in [Callers -> CallerType] /\ load \in [Loads -> LoadType]
      /\ \A k \in Keys : since[k] \in [Versions -> Nat]
      /\ LoadTimeout \in Nat /\ LongestTtl \in Nat /\ StaleIfError \in Nat
      /\ Cands \subseteq SUBSET Keys
  BY Constants DEF IndInv, Typed, AgeInv
<1> DEFINE w == caller[p]
           m == caller[p].load
<1>1. ASSUME caller'[p] = caller[p], since' = since, w.pc = "waiting" => load'[m].left = load[m].left
      PROVE  AnswerInv(p)'
  BY <1>0, <1>1 DEF AnswerInv
<1>2. CASE UNCHANGED <<caller, load, since>>
  BY <1>1, <1>2
<1>3. CASE Tick
  <2>1. /\ caller' = caller
        /\ \A l \in Loads : /\ load[l].pc # "ended"
                            /\ load[l].pc = "running" => load[l].left > 0
                            /\ load'[l].left = Less(load[l].left)
        /\ \A k \in Keys : \A v \in Versions : since'[k][v] \in {since[k][v], since[k][v] + 1}
    BY <1>3, TickFacts
  <2>2. ASSUME w.pc = "waiting", w.stale # None, NEW k \in w.cands
        PROVE  since'[k][w.stale[k]] + load'[m].left < CopyLimit
    <3>1. /\ m \in Loads /\ load[m].pc # "free" /\ w.cands \in Cands /\ w.stale \in Hits(w.cands)
          /\ since[k][w.stale[k]] + load[m].left < CopyLimit
      BY <1>0, <2>2 DEF CallerInv, AnswerInv
    <3>2. load[m] \in LoadType
      BY <1>0, <3>1
    <3>3. load[m].left \in Nat /\ load[m].left > 0 /\ load'[m].left = Less(load[m].left)
      BY <1>0, <2>1, <3>1, <3>2 DEF LoadType
    <3>4. k \in Keys /\ w.stale[k] \in Versions
      BY <1>0, <2>2, <3>1 DEF Hits
    <3>5. /\ since[k][w.stale[k]] \in Nat
          /\ since'[k][w.stale[k]] \in {since[k][w.stale[k]], since[k][w.stale[k]] + 1}
      BY <1>0, <2>1, <3>4
    <3>6. CopyLimit \in Nat
      BY <1>0 DEF CopyLimit
    <3> QED
      BY <3>1, <3>3, <3>5, <3>6 DEF Less
  <2> QED
    BY <1>0, <2>1, <2>2 DEF AnswerInv
<1>4. CASE Clear \/ \E k \in Keys : Invalidate(k)
  BY <1>2, <1>4, InvalidateFacts
<1>5. CASE \E k \in Keys : Change(k)
  BY <1>2, <1>5 DEF Change
<1>6. ASSUME NEW q \in Callers, CallerGivesUp(q) PROVE AnswerInv(p)'
  <2>1. CASE p = q
    BY <1>0, <1>6, <2>1 DEF CallerGivesUp, AnswerInv, IdleCaller
  <2>2. CASE p # q
    BY <1>0, <1>1, <1>6, <2>2 DEF CallerGivesUp
  <2> QED
    BY <2>1, <2>2
\* p returns r at once.
<1>7. ASSUME NEW q \in Callers, NEW c \in Cands, NEW r, NEW by, Returns(q, c, r, by),
             UNCHANGED <<load, since>>,
             r # Err => /\ r \in Hits(c)
                        /\ \A k \in c : since[k][r[k]] < AgeLimit(by)
      PROVE  AnswerInv(p)'
  <2>1. CASE p # q
    BY <1>0, <1>1, <1>7, <2>1 DEF Returns
  <2>2. CASE p = q
    <3>1. /\ caller'[p].pc = "returned" /\ caller'[p].cands = c /\ caller'[p].got = r
          /\ caller'[p].by = by /\ caller'[p].age = AgeOf(r)
      BY <1>0, <1>7, <2>2 DEF Returns, IdleCaller
    <3>2. r # Err => \A k \in c : AgeOf(r)[k] = since[k][r[k]]
      BY <1>7 DEF AgeOf, Hits
    <3> QED
      BY <1>7, <3>1, <3>2 DEF AnswerInv
  <2> QED
    BY <2>1, <2>2
<1>8. ASSUME NEW q \in Callers, NEW c \in Cands, LookupHit(q, c) PROVE AnswerInv(p)'
  <2>1. /\ Returns(q, c, cache.entries[c].hits, "hit") /\ UNCHANGED <<load, since>>
        /\ Cached(c) /\ cache.entries[c].fresh > 0
    BY <1>8 DEF LookupHit, Fresh
  <2>2. c # {}
    BY CacheAssumption
  <2>3. cache.entries[c].hits \in Hits(c)
    BY <2>1, <2>2, EntryAges
  <2>4. \A k \in c : since[k][cache.entries[c].hits[k]] < AgeLimit("hit")
    BY <2>1, EntryAges, AgeLimits
  <2> QED
    BY <1>7, <2>1, <2>3, <2>4
\* What a caller may keep of an expired entry.
<1>9. ASSUME NEW c \in Cands, StaleCopy(c) # None
      PROVE  /\ StaleCopy(c) \in Hits(c)
             /\ \A k \in c : /\ since[k][StaleCopy(c)[k]] \in Nat
                             /\ since[k][StaleCopy(c)[k]] < LoadTimeout + LongestTtl + StaleIfError
  <2>1. Cached(c) /\ cache.entries[c].stale > 0 /\ StaleCopy(c) = cache.entries[c].hits
    BY <1>9 DEF StaleCopy
  <2>2. c # {}
    BY CacheAssumption
  <2> QED
    BY <2>1, <2>2, EntryAges
<1>10. ASSUME NEW q \in Callers, NEW c \in Cands, LookupShed(q, c) PROVE AnswerInv(p)'
  <2> DEFINE r == IF StaleCopy(c) # None THEN StaleCopy(c) ELSE Err
  <2>1. Returns(q, c, r, "shed") /\ UNCHANGED <<load, since>>
    BY <1>10 DEF LookupShed
  <2>2. r # Err => r \in Hits(c) /\ \A k \in c : since[k][r[k]] < AgeLimit("shed")
    BY <1>9, AgeLimits
  <2> HIDE DEF r
  <2> QED
    BY <1>7, <2>1, <2>2
\* p waits for load l.
<1>11. ASSUME NEW q \in Callers, NEW c \in Cands, NEW l \in Loads, Waits(q, c, l), since' = since,
              load' \in [Loads -> LoadType],
              \A n \in Loads : load[n].pc # "free" => load'[n] = load[n]
       PROVE  AnswerInv(p)'
  <2>1. CASE p # q
    <3>1. caller'[p] = caller[p]
      BY <1>0, <1>11, <2>1 DEF Waits
    <3>2. w.pc = "waiting" => load'[m].left = load[m].left
      BY <1>0, <1>11 DEF CallerInv
    <3> QED
      BY <1>1, <1>11, <3>1, <3>2
  <2>2. CASE p = q
    <3>1. /\ caller'[p].pc = "waiting" /\ caller'[p].cands = c /\ caller'[p].load = l
          /\ caller'[p].stale = StaleCopy(c)
      BY <1>0, <1>11, <2>2 DEF Waits, IdleCaller
    <3>2. load'[l].left \in 0..LoadTimeout
      BY <1>11 DEF LoadType
    <3>3. ASSUME StaleCopy(c) # None, NEW k \in c
          PROVE  since[k][StaleCopy(c)[k]] + load'[l].left < CopyLimit
      <4>1. /\ since[k][StaleCopy(c)[k]] \in Nat
            /\ since[k][StaleCopy(c)[k]] < LoadTimeout + LongestTtl + StaleIfError
        BY <1>9, <3>3
      <4> QED
        BY <1>0, <3>2, <4>1 DEF CopyLimit
    <3> QED
      BY <1>9, <1>11, <3>1, <3>3 DEF AnswerInv
  <2> QED
    BY <2>1, <2>2
<1>12. ASSUME NEW q \in Callers, NEW c \in Cands, LookupJoin(q, c) PROVE AnswerInv(p)'
  <2>1. c \in DOMAIN inflight /\ Waits(q, c, inflight[c]) /\ UNCHANGED <<load, since>>
    BY <1>12 DEF LookupJoin
  <2>2. inflight[c] \in Loads
    BY <2>1 DEF IndInv, Typed
  <2> QED
    BY <1>0, <1>11, <2>1, <2>2
<1>13. ASSUME NEW q \in Callers, NEW c \in Cands, LookupMiss(q, c) PROVE AnswerInv(p)'
  <2>1. PICK l \in Loads : Starts(q, c, l)
    BY <1>13, MissFacts
  <2>2. \A n \in Loads : load[n].pc # "free" => load'[n] = load[n]
    BY <2>1 DEF Starts
  <2> QED
    BY <1>11, <2>1, <2>2 DEF Starts
<1>14. ASSUME NEW l \in Loads, LoadReads(l) \/ LoadSucceeds(l) \/ LoadFails(l) PROVE AnswerInv(p)'
  <2>1. CASE LoadReads(l)
    <3>1. UNCHANGED <<caller, since>> /\ \A n \in Loads : load'[n].left = load[n].left
      BY <1>0, <2>1 DEF LoadReads, LoadType
    <3> QED
      BY <1>0, <1>1, <3>1 DEF CallerInv
  <2>2. CASE LoadSucceeds(l) \/ LoadFails(l)
    <3>1. UNCHANGED <<caller, since>>
      BY <2>2, FinishFacts
    <3>2. PICK r : load' = [load EXCEPT ![l].pc = "ended", ![l].result = r]
      BY <2>2, FinishFacts
    <3>3. \A n \in Loads : load'[n].left = load[n].left
      BY <1>0, <3>2 DEF LoadType
    <3> QED
      BY <1>0, <1>1, <3>1, <3>3 DEF CallerInv
  <2> QED
    BY <1>14, <2>1, <2>2
<1>15. ASSUME NEW l \in Loads, LoadSends(l) PROVE AnswerInv(p)'
  <2>1. /\ load[l].pc = "ended" /\ since' = since
        /\ \A n \in Loads \ {l} : load'[n] = load[n]
    BY <1>0, <1>15 DEF LoadSends
  <2>2. CASE ~(w.pc = "waiting" /\ m = l)
    <3>1. caller'[p] = caller[p]
      BY <1>15, <2>2 DEF LoadSends
    <3> QED
      BY <1>0, <1>1, <2>1, <2>2, <3>1 DEF CallerInv
  <2>3. CASE w.pc = "waiting" /\ m = l
    <3> DEFINE r == Answer(p, load[l].result)
               by == IF load[l].result = Err THEN "stale" ELSE "load"
    <3>1. caller[p] \in CallerType /\ load[l] \in LoadType /\ load[l].cands = w.cands
      BY <1>0, <2>3 DEF CallerInv
    <3>2. /\ caller'[p].pc = "returned" /\ caller'[p].cands = w.cands
          /\ caller'[p].got = r /\ caller'[p].age = AgeOf(r) /\ caller'[p].by = by
      BY <1>15, <2>3, <3>1 DEF LoadSends, Wakes, CallerType
    <3>3. ASSUME load[l].result # Err, NEW k \in w.cands
          PROVE  DOMAIN r = w.cands /\ since[k][r[k]] < AgeLimit("load")
      <4>1. /\ r = load[l].result /\ r \in Hits(w.cands) /\ w.cands \in Cands
            /\ since[k][r[k]] <= LoadTimeout
        BY <1>0, <2>1, <2>3, <3>1, <3>3 DEF Answer, IndInv, LoadInv, AgeInv, ResultInv, CallerInv
      <4>2. k \in Keys /\ r[k] \in Versions /\ DOMAIN r = w.cands
        BY <1>0, <3>3, <4>1 DEF Hits
      <4>3. since[k][r[k]] \in Nat
        BY <1>0, <4>2
      <4> QED
        BY <1>0, <4>1, <4>2, <4>3, AgeLimits
    <3>4. ASSUME load[l].result = Err, r # Err, NEW k \in w.cands
          PROVE  DOMAIN r = w.cands /\ since[k][r[k]] < AgeLimit("stale")
      <4>1. /\ r = w.stale /\ r \in Hits(w.cands) /\ w.cands \in Cands
            /\ since[k][r[k]] + load[l].left < CopyLimit
        BY <1>0, <2>3, <3>4 DEF Answer, AnswerInv, CallerInv
      <4>2. k \in Keys /\ r[k] \in Versions /\ DOMAIN r = w.cands
        BY <1>0, <3>4, <4>1 DEF Hits
      <4>3. since[k][r[k]] \in Nat /\ load[l].left \in Nat /\ CopyLimit \in Nat
        BY <1>0, <3>1, <4>2 DEF LoadType, CopyLimit
      <4> QED
        BY <4>1, <4>2, <4>3, AgeLimits
    <3> HIDE DEF r
    <3>5. ASSUME r # Err, NEW k \in w.cands PROVE AgeOf(r)[k] < AgeLimit(by)
      <4>1. DOMAIN r = w.cands /\ since[k][r[k]] < AgeLimit(by)
        BY <3>3, <3>4, <3>5
      <4> QED
        BY <3>5, <4>1 DEF AgeOf
    <3> QED
      BY <3>2, <3>5 DEF AnswerInv
  <2> QED
    BY <2>2, <2>3
<1> QED
  BY <1>2, <1>3, <1>4, <1>5, <1>6, <1>8, <1>10, <1>12, <1>13, <1>14, <1>15
  DEF Next, CallerStep, LoadEnds, vars

\* No lookup is answered with data that was superseded longer ago than the
\* windows of the way it was answered add up to: a load and a TTL with its
\* jitter for a hit, stale_if_error more for a shed lookup, and a second load
\* for the copy a waiter keeps while its load fails (cached_lookup, finish).
THEOREM OutdatedIsBounded == Spec => []OutdatedBounded
<1>1. Init => AgeInv
  BY DEF Init, IdleCaller, FreeLoad, AgeInv, AnswerInv, ResultInv
<1>2. IndInv /\ AgeInv /\ [Next]_vars => AgeInv'
  BY ResultsStep, AnswersStep DEF AgeInv
<1>3. AgeInv => OutdatedBounded
  BY DEF AgeInv, AnswerInv, OutdatedBounded
<1> QED
  BY CacheInvariant, <1>1, <1>2, <1>3, PTL DEF Spec

-----------------------------------------------------------------------------
(* Entries over a step.                                                    *)

\* A late load never puts older data over newer, in whatever order loads read
\* and end (LoadGuard::finish caches only for the owner of the slot).
THEOREM EntriesNeverGoBack == Spec => NeverGoesBack
<1> DEFINE A == \A c \in DOMAIN cache.entries \cap DOMAIN cache'.entries :
                   \A k \in c : cache'.entries[c].hits[k] >= cache.entries[c].hits[k]
<1>1. IndInv /\ [Next]_vars => [A]_vars
  <2> SUFFICES ASSUME IndInv, [Next]_vars,
                      NEW c \in DOMAIN cache.entries \cap DOMAIN cache'.entries, NEW k \in c
               PROVE  cache'.entries[c].hits[k] >= cache.entries[c].hits[k]
    OBVIOUS
  <2>1. EntryInv(c) /\ cache.entries[c].hits[k] \in Nat
    BY Constants DEF IndInv, EntryInv, Hits
  <2>2. CASE cache'.entries[c].hits = cache.entries[c].hits
    BY <2>1, <2>2
  <2>3. CASE Tick
    BY <2>2, <2>3, TickFacts
  <2>4. CASE Clear \/ \E j \in Keys : Invalidate(j)
    <3>1. Kept(c)
      BY <2>4, InvalidateFacts
    <3> QED
      BY <2>2, <3>1 DEF Kept
  <2>5. ASSUME NEW l \in Loads, LoadSucceeds(l) \/ LoadFails(l)
        PROVE  cache'.entries[c].hits[k] >= cache.entries[c].hits[k]
    <3>1. Kept(c) \/ Loaded(c, l)
      BY <2>5, FinishFacts
    <3>2. CASE Kept(c)
      BY <2>2, <3>2 DEF Kept
    <3>3. CASE Loaded(c, l)
      <4>1. cache'.entries[c].hits = load[l].read
        BY <3>3 DEF Loaded, NewEntry
      <4>2. c \in DOMAIN inflight /\ inflight[c] = l /\ load[l].read # None
        BY <3>3 DEF Loaded, OwnsSlot
      <4> QED
        BY <4>1, <4>2 DEF IndInv, SlotInv
    <3> QED
      BY <3>1, <3>2, <3>3
  <2> QED
    BY <2>2, <2>3, <2>4, <2>5 DEF Next, CallerStep, LoadEnds, vars, Change, CallerGivesUp,
       LookupHit, LookupJoin, LookupShed, LookupMiss, LoadReads, LoadSends
<1> QED
  BY CacheInvariant, <1>1, PTL DEF Spec, NeverGoesBack

-----------------------------------------------------------------------------
(* The eviction order. It has an invariant of its own, over a CacheState.   *)

\* The record that keeps entry c alive is in the order, once.
OneRecord(st, c) ==
    \E i \in 1..Len(st.order) :
        /\ st.order[i] = <<c, st.entries[c].id>>
        /\ \A j \in 1..Len(st.order) : st.order[j] = <<c, st.entries[c].id>> => j = i

Ordered(st) ==
    /\ st.order \in Seq(Cands \X Ids)
    /\ DOMAIN st.entries \subseteq Cands
    /\ \A c \in DOMAIN st.entries : st.entries[c].id \in Ids /\ OneRecord(st, c)

Roomy(st) ==
    /\ IsFiniteSet(DOMAIN st.entries) /\ Cardinality(DOMAIN st.entries) <= MaxEntries
    /\ Len(st.order) <= 2 * MaxEntries

\* A set of numbers has a least element.
LEMMA MinIsLeast ==
    ASSUME NEW S \in SUBSET Nat, S # {}
    PROVE  Min(S) \in S /\ \A y \in S : Min(S) <= y
<1> DEFINE R == {ss \in Nat \X Nat : ss[1] < ss[2]}
<1>0. OpToRel(<, Nat) = R
  BY Zenon DEF OpToRel
<1>1. PICK x \in S : \A y \in S : ~(<<y, x>> \in R)
  <2>1. IsWellFoundedOn(R, Nat)
    BY <1>0, NatLessThanWellFounded
  <2> HIDE DEF R
  <2> QED
    BY <2>1, WFMin
<1>2. \A y \in S : x <= y
  <2>1. ASSUME NEW y \in Nat, NEW z \in Nat, y < z PROVE <<y, z>> \in R
    BY <2>1, Zenon
  <2> HIDE DEF R
  <2>2. \A y \in S : ~(y < x)
    BY <1>1, <2>1
  <2> QED
    BY <2>2
<1>3. \E z \in S : \A y \in S : z <= y
  BY <1>2
<1> QED
  BY <1>3 DEF Min

\* Removing entries removes none of the other entries' records.
LEMMA FewerEntries ==
    ASSUME NEW st, Ordered(st), NEW to, to.order = st.order,
           DOMAIN to.entries \subseteq DOMAIN st.entries,
           \A c \in DOMAIN to.entries : to.entries[c].id = st.entries[c].id
    PROVE  /\ Ordered(to)
           /\ IsFiniteSet(DOMAIN st.entries) =>
                  IsFiniteSet(DOMAIN to.entries)
                  /\ Cardinality(DOMAIN to.entries) <= Cardinality(DOMAIN st.entries)
<1>1. ASSUME NEW c \in DOMAIN to.entries PROVE OneRecord(to, c)
  <2>1. OneRecord(st, c)
    BY DEF Ordered
  <2> QED
    BY <2>1 DEF OneRecord
<1>2. Ordered(to)
  BY <1>1 DEF Ordered
<1>3. IsFiniteSet(DOMAIN st.entries) =>
          IsFiniteSet(DOMAIN to.entries)
          /\ Cardinality(DOMAIN to.entries) <= Cardinality(DOMAIN st.entries)
  BY FS_Subset
<1> QED
  BY <1>2, <1>3

\* A record is live if and only if it is its entry's.
LEMMA LiveRecord ==
    ASSUME NEW st, Ordered(st), NEW i \in 1..Len(st.order)
    PROVE  /\ st.order[i][1] \in Cands
           /\ IsLive(st, st.order[i]) <=>
                  \E c \in DOMAIN st.entries : st.order[i] = <<c, st.entries[c].id>>
           /\ \A c : st.order[i] = <<c, st.entries[c].id>> => st.order[i][1] = c
<1> DEFINE r == st.order[i]
<1>1. r \in Cands \X Ids
  <2>1. st.order \in Seq(Cands \X Ids)
    BY DEF Ordered
  <2> QED
    BY <2>1, ElementOfSeq
<1>2. r[1] \in Cands /\ r = <<r[1], r[2]>>
  BY <1>1
<1> HIDE DEF r
<1>3. IsLive(st, r) <=> \E c \in DOMAIN st.entries : r = <<c, st.entries[c].id>>
  BY <1>2 DEF IsLive
<1>4. \A c : r = <<c, st.entries[c].id>> => r[1] = c
  OBVIOUS
<1> QED
  BY <1>2, <1>3, <1>4 DEF r

\* make_room's second half: enough records are popped, and only those of the
\* entries that go.
LEMMA Evicted ==
    ASSUME NEW st, Shape(st), Indexed(st), Ordered(st), IsFiniteSet(DOMAIN st.entries),
           MaxEntries \in Nat \ {0}, NEW to, to = EvictOldest(st)
    PROVE  /\ Ordered(to)
           /\ IsFiniteSet(DOMAIN to.entries) /\ Cardinality(DOMAIN to.entries) < MaxEntries
           /\ Len(to.order) <= Len(st.order)
           /\ \A i \in 1..Len(to.order) : \E j \in 1..Len(st.order) : to.order[i] = st.order[j]
           /\ to.purge = st.purge
<1> DEFINE LiveIn(m) == {st.order[i][1] : i \in {j \in 1..m : IsLive(st, st.order[j])}}
           enough == {m \in 0..Len(st.order) :
                         Cardinality(DOMAIN st.entries \ LiveIn(m)) < MaxEntries}
           n == IF enough = {} THEN Len(st.order) ELSE Min(enough)
           gone == LiveIn(n)
           L == Len(st.order)
<1>1. st.order \in Seq(Cands \X Ids) /\ L \in Nat
  BY LenProperties DEF Ordered
<1>2. L \in enough
  <2>1. DOMAIN st.entries \subseteq LiveIn(L)
    <3> SUFFICES ASSUME NEW c \in DOMAIN st.entries PROVE c \in LiveIn(L)
      OBVIOUS
    <3>1. PICK i \in 1..L : st.order[i] = <<c, st.entries[c].id>>
      BY DEF Ordered, OneRecord
    <3>2. IsLive(st, st.order[i]) /\ st.order[i][1] = c
      BY <3>1, LiveRecord
    <3> QED
      BY <3>2
  <2>2. DOMAIN st.entries \ LiveIn(L) = {}
    BY <2>1
  <2>3. Cardinality(DOMAIN st.entries \ LiveIn(L)) = 0
    BY <2>2, FS_EmptySet
  <2>4. Cardinality(DOMAIN st.entries \ LiveIn(L)) < MaxEntries
    BY <2>3
  <2>5. L \in 0..L
    BY <1>1
  <2> HIDE DEF LiveIn
  <2> QED
    BY <2>4, <2>5, Zenon
<1>3. n \in enough
  <2>1. enough \in SUBSET Nat
    BY <1>1
  <2> HIDE DEF enough
  <2> QED
    BY <1>2, <2>1, MinIsLeast
<1>4. n \in 0..L /\ Cardinality(DOMAIN st.entries \ gone) < MaxEntries
  <2> HIDE DEF n
  <2> QED
    BY <1>3
<1>5. to = [RemoveEntries(st, gone) EXCEPT !.order = SubSeq(@, n + 1, Len(@))]
  BY DEF EvictOldest
<1> HIDE DEF n, enough
<1>6. \A c \in DOMAIN st.entries : \A i \in 1..n :
          st.order[i] = <<c, st.entries[c].id>> => c \in gone
  <2> SUFFICES ASSUME NEW c \in DOMAIN st.entries, NEW i \in 1..n,
                      st.order[i] = <<c, st.entries[c].id>>
               PROVE  c \in gone
    OBVIOUS
  <2>1. i \in 1..L
    BY <1>1, <1>4
  <2>2. IsLive(st, st.order[i]) /\ st.order[i][1] = c
    BY <2>1, LiveRecord
  <2> QED
    BY <2>2
<1> HIDE DEF gone, LiveIn
<1>7. /\ Shrinks(st, RemoveEntries(st, gone))
      /\ DOMAIN RemoveEntries(st, gone).entries = DOMAIN st.entries \ gone
      /\ RemoveEntries(st, gone).order = st.order /\ RemoveEntries(st, gone).purge = st.purge
  <2>1. RemoveEntries(st, gone).order = st.order /\ RemoveEntries(st, gone).purge = st.purge
    BY DEF RemoveEntries, Shape
  <2> QED
    BY <2>1, Removed
<1>8. /\ to.entries = RemoveEntries(st, gone).entries
      /\ to.order = SubSeq(st.order, n + 1, L) /\ to.purge = st.purge
  BY <1>5, <1>7 DEF Shrinks, Shape
<1>9. /\ DOMAIN to.entries = DOMAIN st.entries \ gone
      /\ \A c \in DOMAIN to.entries : to.entries[c] = st.entries[c]
  BY <1>7, <1>8 DEF Shrinks
<1>10. /\ to.order \in Seq(Cands \X Ids) /\ Len(to.order) = L - n
       /\ \A i \in 1..(L - n) : to.order[i] = st.order[i + n]
  <2> DEFINE s == st.order
  <2>1. s \in Seq(Cands \X Ids) /\ Len(s) = L
    BY <1>1
  <2> HIDE DEF s, L
  <2>2. \A i \in (n + 1)..L : s[i] \in Cands \X Ids
    <3> SUFFICES ASSUME NEW i \in (n + 1)..L PROVE s[i] \in Cands \X Ids
      OBVIOUS
    <3>1. i \in 1..Len(s)
      BY <1>1, <1>4, <2>1
    <3> QED
      BY <2>1, <3>1, ElementOfSeq
  <2>3. /\ SubSeq(s, n + 1, L) \in Seq(Cands \X Ids)
        /\ Len(SubSeq(s, n + 1, L)) = IF n + 1 <= L THEN L - (n + 1) + 1 ELSE 0
        /\ \A i \in 1..(L - (n + 1) + 1) : SubSeq(s, n + 1, L)[i] = s[(n + 1) + i - 1]
    <3>1. n + 1 \in Int /\ L \in Int
      BY <1>1, <1>4
    <3> QED
      BY <2>2, <3>1, SubSeqProperties
  <2>4. to.order = SubSeq(s, n + 1, L)
    BY <1>8 DEF s
  <2>5. L - (n + 1) + 1 = L - n /\ \A i \in 1..(L - n) : (n + 1) + i - 1 = i + n
    BY <1>1, <1>4
  <2>6. Len(to.order) = L - n
    BY <1>1, <1>4, <2>3, <2>4
  <2>7. \A i \in 1..(L - n) : to.order[i] = s[i + n]
    BY <2>3, <2>4, <2>5
  <2> QED
    BY <2>3, <2>4, <2>6, <2>7 DEF s
<1> HIDE DEF L
<1>11. \A i \in 1..(L - n) : i + n \in 1..L
  BY <1>1, <1>4
<1>12. ASSUME NEW c \in DOMAIN to.entries PROVE OneRecord(to, c)
  <2>1. c \in DOMAIN st.entries /\ c \notin gone /\ to.entries[c] = st.entries[c]
    BY <1>9
  <2> DEFINE r == <<c, st.entries[c].id>>
  <2>2. PICK i \in 1..L : st.order[i] = r /\ \A j \in 1..L : st.order[j] = r => j = i
    BY <2>1 DEF Ordered, OneRecord, L
  <2>3. i \notin 1..n
    BY <1>6, <2>1, <2>2
  <2>4. i - n \in 1..(L - n) /\ (i - n) + n = i
    BY <1>1, <1>4, <2>3
  <2>5. to.order[i - n] = r
    BY <1>10, <2>2, <2>4
  <2> HIDE DEF r
  <2>6. ASSUME NEW j \in 1..(L - n), to.order[j] = r PROVE j = i - n
    <3>1. st.order[j + n] = r /\ j + n \in 1..L
      BY <1>10, <1>11, <2>6
    <3>2. j + n = i
      BY <2>2, <3>1
    <3> QED
      BY <1>1, <1>4, <3>2
  <2> QED
    BY <1>10, <2>1, <2>4, <2>5, <2>6 DEF OneRecord, r
<1>13. Ordered(to)
  BY <1>9, <1>10, <1>12 DEF Ordered
<1>14. IsFiniteSet(DOMAIN to.entries) /\ Cardinality(DOMAIN to.entries) < MaxEntries
  BY <1>4, <1>9, FS_Subset
<1>15. Len(to.order) <= L /\ \A i \in 1..Len(to.order) : \E j \in 1..L : to.order[i] = st.order[j]
  BY <1>1, <1>4, <1>10, <1>11
<1> QED
  BY <1>8, <1>13, <1>14, <1>15 DEF L

\* The records of st that are left in s stand in it once each: s has st's
\* records at the given places, each at one place of its own.
Selects(s, st, places) ==
    \E f \in [1..Len(s) -> places] :
        /\ \A n \in 1..Len(s) : s[n] = st.order[f[n]]
        /\ \A m, n \in 1..Len(s) : f[m] = f[n] => m = n
        /\ \A i \in places : \E n \in 1..Len(s) : f[n] = i

\* Retain has an item for each of the places, and nothing else.
LEMMA Retained ==
    ASSUME NEW st, Ordered(st), NEW places, places \subseteq 1..Len(st.order),
           NEW s, s = Retain(st.order, places)
    PROVE  /\ s \in Seq(Cands \X Ids) /\ Len(s) = Cardinality(places)
           /\ Selects(s, st, places)
<1> DEFINE N == Cardinality(places)
           UpTo(i) == {j \in places : j <= i}
           rank == [i \in places |-> Cardinality(UpTo(i))]
           f == [n \in 1..N |-> CHOOSE i \in places : Cardinality(UpTo(i)) = n]
<1>1. IsFiniteSet(places) /\ places \subseteq Nat /\ N \in Nat
  <2>1. Len(st.order) \in Nat
    BY LenProperties DEF Ordered
  <2>2. IsFiniteSet(1..Len(st.order))
    BY <2>1, FS_Interval
  <2>3. IsFiniteSet(places)
    BY <2>2, FS_Subset
  <2>4. places \subseteq Nat
    BY <2>1
  <2> QED
    BY <2>3, <2>4, FS_CardinalityType
<1>2. ASSUME NEW i \in places
      PROVE  IsFiniteSet(UpTo(i)) /\ Cardinality(UpTo(i)) \in 1..N
  <2>1. IsFiniteSet(UpTo(i)) /\ Cardinality(UpTo(i)) <= N
    BY <1>1, FS_Subset
  <2>2. Cardinality(UpTo(i)) # 0
    <3>1. i \in UpTo(i)
      BY <1>1
    <3> QED
      BY <2>1, <3>1, FS_EmptySet
  <2>3. Cardinality(UpTo(i)) \in Nat
    BY <2>1, FS_CardinalityType
  <2> DEFINE m == Cardinality(UpTo(i))
  <2>4. m \in Nat /\ m # 0 /\ m <= N
    BY <2>1, <2>2, <2>3
  <2> HIDE DEF UpTo, N, m
  <2>5. m \in 1..N
    BY <1>1, <2>4
  <2> QED
    BY <2>1, <2>5 DEF m
<1>3. ASSUME NEW i \in places, NEW j \in places, i < j
      PROVE  Cardinality(UpTo(i)) # Cardinality(UpTo(j))
  <2>0. i \in Nat /\ j \in Nat /\ \A m \in places : m \in Nat
    BY <1>1
  <2>1. UpTo(i) \subseteq UpTo(j) /\ j \in UpTo(j) /\ j \notin UpTo(i)
    <3>1. (\A m \in places : m <= i => m <= j) /\ j <= j /\ ~(j <= i)
      BY <1>3, <2>0
    <3> QED
      BY <3>1, Zenon
  <2>2. IsFiniteSet(UpTo(j))
    BY <1>2
  <2> HIDE DEF UpTo
  <2> QED
    BY <2>1, <2>2, FS_Subset
<1>4. ASSUME NEW i \in places, NEW j \in places, Cardinality(UpTo(i)) = Cardinality(UpTo(j))
      PROVE  i = j
  <2>1. i < j \/ j < i \/ i = j
    BY <1>1
  <2> HIDE DEF UpTo
  <2> QED
    BY <1>3, <1>4, <2>1
<1> HIDE DEF UpTo
<1>5. rank \in Injection(places, 1..N)
  BY <1>2, <1>4 DEF Injection, IsInjective
<1>6. IsFiniteSet(1..N) /\ Cardinality(1..N) = N
  BY <1>1, FS_Interval
<1>7. rank \in Surjection(places, 1..N)
  <2> HIDE DEF rank
  <2>1. Cardinality(places) = Cardinality(1..N)
    BY <1>6
  <2> HIDE DEF N
  <2> QED
    BY <1>5, <1>6, <2>1, FS_Injection
<1>8. \A n \in 1..N : \E i \in places : Cardinality(UpTo(i)) = n
  BY <1>7 DEF Surjection
<1>9. \A n \in 1..N : f[n] \in places /\ Cardinality(UpTo(f[n])) = n
  BY <1>8
<1>10. s = [n \in 1..N |-> st.order[f[n]]]
  BY DEF Retain, UpTo
<1> HIDE DEF rank, N
<1>11. f \in [1..N -> places]
  BY <1>9
<1>12. \A i \in places : f[Cardinality(UpTo(i))] = i /\ Cardinality(UpTo(i)) \in 1..N
  BY <1>2, <1>4, <1>9
<1> HIDE DEF f
<1>13. \A n \in 1..N : s[n] \in Cands \X Ids
  <2> SUFFICES ASSUME NEW n \in 1..N PROVE st.order[f[n]] \in Cands \X Ids
    BY <1>10
  <2>1. f[n] \in 1..Len(st.order)
    BY <1>11
  <2> QED
    BY <2>1, ElementOfSeq DEF Ordered
<1>14. s \in Seq(Cands \X Ids) /\ Len(s) = N
  <2>1. s \in [1..N -> Cands \X Ids]
    BY <1>10, <1>13
  <2> QED
    BY <1>1, <2>1
<1>15. Selects(s, st, places)
  <2>1. \A m, n \in 1..N : f[m] = f[n] => m = n
    BY <1>9
  <2>2. \A i \in places : \E n \in 1..N : f[n] = i
    BY <1>12
  <2> QED
    BY <1>10, <1>11, <1>14, <2>1, <2>2 DEF Selects
<1> QED
  BY <1>14, <1>15 DEF N

\* The new entry's id tells it from every record in the order.
LEMMA FreshIsFresh ==
    ASSUME NEW st, Ordered(st), Len(st.order) <= 2 * MaxEntries, NEW c, MaxEntries \in Nat
    PROVE  /\ FreshId(st, c) \in Ids
           /\ \A i \in 1..Len(st.order) : st.order[i] # <<c, FreshId(st, c)>>
<1> DEFINE L == Len(st.order)
           used == {rec[2] : rec \in {r \in ToSet(st.order) : r[1] = c}}
           all == {st.order[i][2] : i \in 1..L}
           f == [i \in 1..L |-> st.order[i][2]]
<1>1. L \in Nat /\ DOMAIN st.order = 1..L
  BY LenProperties DEF Ordered
<1>2. used \subseteq all
  BY <1>1 DEF ToSet
<1>3. f \in Surjection(1..L, all)
  BY DEF Surjection
<1>4. IsFiniteSet(1..L) /\ Cardinality(1..L) = L
  BY <1>1, FS_Interval
<1>5. IsFiniteSet(all) /\ Cardinality(all) <= L
  <2> HIDE DEF f, all, L
  <2> QED
    BY <1>3, <1>4, FS_Surjection
<1>6. IsFiniteSet(used) /\ Cardinality(used) <= L /\ Cardinality(used) \in Nat
  <2> HIDE DEF all, used, L
  <2>1. IsFiniteSet(used) /\ Cardinality(used) <= Cardinality(all)
    BY <1>2, <1>5, FS_Subset
  <2>2. Cardinality(used) \in Nat /\ Cardinality(all) \in Nat
    BY <1>5, <2>1, FS_CardinalityType
  <2> QED
    BY <1>1, <1>5, <2>1, <2>2
<1>7. Ids \ used # {}
  <2> HIDE DEF used, all, f
  <2>1. IsFiniteSet(Ids) /\ Cardinality(Ids) = 2 * MaxEntries + 1
    BY FS_Interval DEF Ids
  <2>2. SUFFICES ASSUME Ids \subseteq used PROVE FALSE
    OBVIOUS
  <2>3. Cardinality(Ids) <= Cardinality(used)
    BY <1>6, <2>2, FS_Subset
  <2> HIDE DEF L
  <2>4. L <= 2 * MaxEntries
    BY DEF L
  <2> QED
    BY <1>1, <1>6, <2>1, <2>3, <2>4
<1>8. FreshId(st, c) \in Ids \ used
  <2>1. Ids \ used \in SUBSET Nat
    BY DEF Ids
  <2>2. FreshId(st, c) = Min(Ids \ used)
    BY DEF FreshId
  <2> HIDE DEF used
  <2> QED
    BY <1>7, <2>1, <2>2, MinIsLeast
<1>9. ASSUME NEW i \in 1..L, st.order[i] = <<c, FreshId(st, c)>> PROVE FALSE
  <2>1. st.order[i] \in ToSet(st.order)
    BY <1>1 DEF ToSet
  <2>2. st.order[i][1] = c /\ st.order[i][2] = FreshId(st, c)
    BY <1>9
  <2>3. st.order[i][2] \in used
    BY <2>1, <2>2
  <2> HIDE DEF used
  <2> QED
    BY <1>8, <2>2, <2>3
<1> QED
  BY <1>8, <1>9

\* Compaction drops the superseded records only, and there are no more live
\* records than entries.
LEMMA Compacted ==
    ASSUME NEW st, Shape(st), Ordered(st), MaxEntries \in Nat, IsFiniteSet(DOMAIN st.entries),
           Cardinality(DOMAIN st.entries) <= MaxEntries, NEW to, to = Compact(st)
    PROVE  Ordered(to) /\ Roomy(to) /\ to.purge = st.purge
<1>0. Len(st.order) \in Nat /\ DOMAIN st.order = 1..Len(st.order)
  BY LenProperties DEF Ordered
<1>1. CASE ~(Len(st.order) > 2 * MaxEntries)
  <2>1. to = st
    BY <1>1 DEF Compact
  <2>2. Len(st.order) <= 2 * MaxEntries
    BY <1>0, <1>1
  <2> QED
    BY <2>1, <2>2 DEF Roomy
<1>2. CASE Len(st.order) > 2 * MaxEntries
  <2> DEFINE live == {i \in DOMAIN st.order : IsLive(st, st.order[i])}
             s == Retain(st.order, live)
             rec(c) == <<c, st.entries[c].id>>
             g == [i \in live |-> st.order[i][1]]
  <2>1. to.order = s /\ to.entries = st.entries /\ to.purge = st.purge
    <3>1. to = [st EXCEPT !.order = s]
      BY <1>2 DEF Compact
    <3> HIDE DEF s
    <3> QED
      BY <3>1 DEF Shape
  <2>2. live \subseteq 1..Len(st.order)
    BY <1>0
  <2>3. \A i \in live : g[i] \in DOMAIN st.entries /\ st.order[i] = rec(g[i])
    <3> SUFFICES ASSUME NEW i \in live
                 PROVE  g[i] \in DOMAIN st.entries /\ st.order[i] = rec(g[i])
      OBVIOUS
    <3>1. i \in 1..Len(st.order) /\ IsLive(st, st.order[i])
      BY <2>2
    <3>2. PICK c \in DOMAIN st.entries : st.order[i] = rec(c)
      BY <3>1, LiveRecord
    <3>3. g[i] = c
      BY <3>1, <3>2, LiveRecord
    <3> QED
      BY <3>2, <3>3
  <2>4. \A c \in DOMAIN st.entries : \E i \in live :
            st.order[i] = rec(c) /\ \A j \in 1..Len(st.order) : st.order[j] = rec(c) => j = i
    <3> SUFFICES ASSUME NEW c \in DOMAIN st.entries
                 PROVE  \E i \in live : /\ st.order[i] = rec(c)
                                        /\ \A j \in 1..Len(st.order) : st.order[j] = rec(c) => j = i
      OBVIOUS
    <3>1. PICK i \in 1..Len(st.order) :
              st.order[i] = rec(c) /\ \A j \in 1..Len(st.order) : st.order[j] = rec(c) => j = i
      BY DEF Ordered, OneRecord
    <3>2. i \in live
      BY <1>0, <3>1, LiveRecord
    <3> QED
      BY <3>1, <3>2
  <2>5. g \in [live -> DOMAIN st.entries]
    BY <2>3
  <2> HIDE DEF live, g
  <2>6. g \in Injection(live, DOMAIN st.entries)
    <3>1. ASSUME NEW i \in live, NEW j \in live, g[i] = g[j] PROVE i = j
      <4>1. st.order[j] = rec(g[i]) /\ st.order[i] = rec(g[i]) /\ g[i] \in DOMAIN st.entries
        BY <2>3, <3>1
      <4>2. i \in 1..Len(st.order) /\ j \in 1..Len(st.order)
        BY <2>2
      <4> HIDE DEF rec
      <4> QED
        BY <2>4, <4>1, <4>2
    <3> QED
      BY <2>5, <3>1 DEF Injection, IsInjective
  <2>7. IsFiniteSet(live) /\ Cardinality(live) <= Cardinality(DOMAIN st.entries)
    BY <2>6, FS_Injection
  <2>8. s \in Seq(Cands \X Ids) /\ Len(s) = Cardinality(live) /\ Selects(s, st, live)
    BY <2>2, Retained
  <2> HIDE DEF s
  <2>9. PICK f \in [1..Len(s) -> live] :
            /\ \A n \in 1..Len(s) : s[n] = st.order[f[n]]
            /\ \A m, n \in 1..Len(s) : f[m] = f[n] => m = n
            /\ \A i \in live : \E n \in 1..Len(s) : f[n] = i
    BY <2>8 DEF Selects
  <2>10. ASSUME NEW c \in DOMAIN st.entries PROVE OneRecord(to, c)
    <3>1. PICK i \in live :
              st.order[i] = rec(c) /\ \A j \in 1..Len(st.order) : st.order[j] = rec(c) => j = i
      BY <2>4
    <3>2. PICK n \in 1..Len(s) : f[n] = i
      BY <2>9
    <3> HIDE DEF rec
    <3>3. s[n] = rec(c)
      BY <2>9, <3>1, <3>2
    <3>4. ASSUME NEW m \in 1..Len(s), s[m] = rec(c) PROVE m = n
      <4>1. f[m] \in 1..Len(st.order) /\ st.order[f[m]] = rec(c)
        BY <2>2, <2>9, <3>4
      <4>2. f[m] = i
        BY <3>1, <4>1
      <4> QED
        BY <2>9, <3>2, <4>2
    <3> QED
      BY <2>1, <3>3, <3>4 DEF OneRecord, rec
  <2>11. Ordered(to)
    BY <2>1, <2>8, <2>10 DEF Ordered
  <2>12. Len(s) <= 2 * MaxEntries
    <3>1. Cardinality(live) \in Nat /\ Cardinality(DOMAIN st.entries) \in Nat
      BY <2>7, FS_CardinalityType
    <3> QED
      BY <2>7, <2>8, <3>1
  <2> QED
    BY <2>1, <2>11, <2>12 DEF Roomy
<1> QED
  BY <1>1, <1>2

\* A record with a fresh id at the end of the order is the new entry's only one.
LEMMA Grown ==
    ASSUME NEW st, Ordered(st), NEW c \in Cands, NEW id \in Ids,
           \A i \in 1..Len(st.order) : st.order[i] # <<c, id>>,
           NEW to, to.order = Append(st.order, <<c, id>>),
           DOMAIN to.entries = DOMAIN st.entries \cup {c}, to.entries[c].id = id,
           \A d \in DOMAIN st.entries \ {c} : to.entries[d] = st.entries[d]
    PROVE  Ordered(to) /\ Len(to.order) = Len(st.order) + 1
<1> DEFINE L == Len(st.order)
<1>1. L \in Nat /\ <<c, id>> \in Cands \X Ids
  BY LenProperties DEF Ordered
<1>2. /\ to.order \in Seq(Cands \X Ids) /\ Len(to.order) = L + 1
      /\ \A i \in 1..L : to.order[i] = st.order[i]
      /\ to.order[L + 1] = <<c, id>>
  BY <1>1, AppendProperties DEF Ordered
<1> HIDE DEF L
<1>3. 1..Len(to.order) = 1..L \cup {L + 1}
  BY <1>1, <1>2
<1>4. OneRecord(to, c)
  <2>1. L + 1 \in 1..Len(to.order)
    BY <1>3
  <2>2. \A i \in 1..Len(to.order) : to.order[i] = <<c, id>> => i = L + 1
    BY <1>2, <1>3 DEF L
  <2> QED
    BY <1>2, <2>1, <2>2 DEF OneRecord
<1>5. ASSUME NEW d \in DOMAIN st.entries \ {c} PROVE OneRecord(to, d) /\ to.entries[d].id \in Ids
  <2> DEFINE r == <<d, st.entries[d].id>>
  <2>1. to.entries[d] = st.entries[d] /\ r # <<c, id>>
    OBVIOUS
  <2>2. PICK i \in 1..L : st.order[i] = r /\ \A j \in 1..L : st.order[j] = r => j = i
    BY DEF Ordered, OneRecord, L
  <2> HIDE DEF r
  <2>3. i \in 1..Len(to.order) /\ to.order[i] = r
    BY <1>2, <1>3, <2>2
  <2>4. \A j \in 1..Len(to.order) : to.order[j] = r => j = i
    BY <1>2, <1>3, <2>1, <2>2
  <2>5. OneRecord(to, d)
    BY <2>1, <2>3, <2>4 DEF OneRecord, r
  <2> QED
    BY <2>1, <2>5 DEF Ordered
<1> QED
  BY <1>2, <1>4, <1>5 DEF Ordered, L

\* make_room leaves room for one more, whatever of the order it pops.
LEMMA RoomLeft ==
    ASSUME NEW st, Shape(st), Indexed(st), Ordered(st), Roomy(st), MaxEntries \in Nat \ {0},
           NEW to, to = MakeRoom(st)
    PROVE  /\ Ordered(to) /\ Len(to.order) <= 2 * MaxEntries
           /\ IsFiniteSet(DOMAIN to.entries) /\ Cardinality(DOMAIN to.entries) < MaxEntries
           /\ \A i \in 1..Len(to.order) : \E j \in 1..Len(st.order) : to.order[i] = st.order[j]
           /\ to.purge \in {st.purge, NegativeTtl}
<1>0. Len(st.order) \in Nat /\ Cardinality(DOMAIN st.entries) \in Nat
  BY LenProperties, FS_CardinalityType DEF Ordered, Roomy
<1>1. CASE ~Full(st)
  <2>1. to = st /\ Cardinality(DOMAIN st.entries) < MaxEntries
    BY <1>0, <1>1 DEF MakeRoom, Full
  <2> QED
    BY <2>1 DEF Roomy
<1>2. CASE Full(st)
  <2> DEFINE p == Purge(st)
  <2>1. /\ Shape(p) /\ Indexed(p) /\ p.order = st.order /\ p.purge \in {st.purge, NegativeTtl}
        /\ DOMAIN p.entries \subseteq DOMAIN st.entries
        /\ \A c \in DOMAIN p.entries : p.entries[c] = st.entries[c]
    <3>1. CASE st.purge > 0
      BY <3>1 DEF Purge
    <3>2. CASE ~(st.purge > 0)
      <4> DEFINE dead == {c \in DOMAIN st.entries : st.entries[c].stale = 0}
                 r == RemoveEntries(st, dead)
      <4>1. p = [r EXCEPT !.purge = NegativeTtl]
        BY <3>2 DEF Purge
      <4>2. Shrinks(st, r) /\ r.order = st.order
        <5>1. r.order = st.order
          BY DEF RemoveEntries, Shape
        <5> QED
          BY <5>1, Removed
      <4> HIDE DEF dead, r, p
      <4>3. Shrinks(st, p)
        BY <4>1, <4>2, OtherFields
      <4>4. p.order = st.order /\ p.purge = NegativeTtl
        BY <4>1, <4>2 DEF Shrinks, Shape
      <4> QED
        BY <4>3, <4>4 DEF Shrinks
    <3> QED
      BY <3>1, <3>2
  <2>2. to = EvictOldest(p)
    BY <1>2 DEF MakeRoom
  <2> HIDE DEF p
  <2>3. Ordered(p) /\ IsFiniteSet(DOMAIN p.entries)
    <3>1. \A c \in DOMAIN p.entries : p.entries[c].id = st.entries[c].id
      BY <2>1
    <3> QED
      BY <2>1, <3>1, FewerEntries DEF Roomy
  <2>4. /\ Ordered(to)
        /\ IsFiniteSet(DOMAIN to.entries) /\ Cardinality(DOMAIN to.entries) < MaxEntries
        /\ Len(to.order) <= Len(p.order)
        /\ \A i \in 1..Len(to.order) : \E j \in 1..Len(p.order) : to.order[i] = p.order[j]
        /\ to.purge = p.purge
    BY <2>1, <2>2, <2>3, Evicted
  <2>5. Len(to.order) \in Nat
    BY <2>4, LenProperties DEF Ordered
  <2>6. Len(to.order) <= 2 * MaxEntries
    <3>1. Len(to.order) <= Len(st.order) /\ Len(st.order) <= 2 * MaxEntries
      BY <2>1, <2>4 DEF Roomy
    <3> QED
      BY <1>0, <2>5, <3>1
  <2> QED
    BY <2>1, <2>4, <2>6
<1> QED
  BY <1>1, <1>2

\* insert keeps the order and the capacity.
LEMMA Stored ==
    ASSUME NEW st, Shape(st), Indexed(st), Ordered(st), Roomy(st), MaxEntries \in Nat,
           NEW c \in Cands, NEW hits, NEW ttl, NEW to, to = Insert(st, c, hits, ttl)
    PROVE  Ordered(to) /\ Roomy(to) /\ to.purge \in {st.purge, NegativeTtl}
<1>1. CASE MaxEntries = 0
  BY <1>1 DEF Insert
<1>2. CASE MaxEntries # 0
  <2> DEFINE new == c \notin DOMAIN st.entries
             roomy == IF new THEN MakeRoom(st) ELSE st
             id == FreshId(st, c)
             entry == [hits |-> hits, fresh |-> ttl, stale |-> ttl + StaleIfError, id |-> id]
             grown == [roomy EXCEPT
                !.entries = With(@, c, entry),
                !.index = [k \in Keys |-> IF new /\ k \in c THEN @[k] \cup {c} ELSE @[k]],
                !.order = Append(@, <<c, id>>)]
  <2>1. to = Compact(grown)
    BY <1>2 DEF Insert
  <2>2. Shrinks(st, roomy)
    BY RoomMade DEF Shrinks
  <2>3. /\ Ordered(roomy) /\ IsFiniteSet(DOMAIN roomy.entries)
        /\ \A i \in 1..Len(roomy.order) : \E j \in 1..Len(st.order) : roomy.order[i] = st.order[j]
        /\ roomy.purge \in {st.purge, NegativeTtl}
    BY <1>2, RoomLeft DEF Roomy
  <2>4. Cardinality(DOMAIN roomy.entries \cup {c}) <= MaxEntries
    <3>1. CASE new
      <4>1. IsFiniteSet(DOMAIN roomy.entries) /\ Cardinality(DOMAIN roomy.entries) < MaxEntries
        BY <1>2, <3>1, RoomLeft
      <4>2. c \notin DOMAIN roomy.entries
        BY <2>2, <3>1 DEF Shrinks
      <4> HIDE DEF roomy
      <4>3. Cardinality(DOMAIN roomy.entries \cup {c}) = Cardinality(DOMAIN roomy.entries) + 1
        BY <4>1, <4>2, FS_AddElement
      <4>4. Cardinality(DOMAIN roomy.entries) \in Nat
        BY <4>1, FS_CardinalityType
      <4> QED
        BY <4>1, <4>3, <4>4
    <3>2. CASE ~new
      <4>1. DOMAIN roomy.entries \cup {c} = DOMAIN st.entries
        BY <3>2
      <4> QED
        BY <4>1 DEF Roomy
    <3> QED
      BY <3>1, <3>2
  <2>5. id \in Ids /\ \A i \in 1..Len(st.order) : st.order[i] # <<c, id>>
    BY FreshIsFresh DEF Roomy
  <2> HIDE DEF roomy, id, entry, new
  <2>6. /\ Shape(grown)
        /\ grown.entries = With(roomy.entries, c, entry)
        /\ grown.order = Append(roomy.order, <<c, id>>)
        /\ grown.purge = roomy.purge
    BY <2>2 DEF Shrinks, Shape
  <2> HIDE DEF grown
  <2>7. /\ DOMAIN grown.entries = DOMAIN roomy.entries \cup {c} /\ grown.entries[c].id = id
        /\ \A d \in DOMAIN roomy.entries \ {c} : grown.entries[d] = roomy.entries[d]
    BY <2>6 DEF With, entry
  <2>8. \A i \in 1..Len(roomy.order) : roomy.order[i] # <<c, id>>
    BY <2>3, <2>5
  <2>9. Ordered(grown)
    BY <2>3, <2>5, <2>6, <2>7, <2>8, Grown
  <2>10. IsFiniteSet(DOMAIN grown.entries) /\ Cardinality(DOMAIN grown.entries) <= MaxEntries
    <3>1. IsFiniteSet(DOMAIN roomy.entries \cup {c})
      BY <2>3, FS_AddElement
    <3> QED
      BY <2>4, <2>7, <3>1
  <2>11. Ordered(to) /\ Roomy(to) /\ to.purge = grown.purge
    BY <2>1, <2>6, <2>9, <2>10, Compacted
  <2> QED
    BY <2>3, <2>6, <2>11
<1> QED
  BY <1>1, <1>2

-----------------------------------------------------------------------------
(* The order's invariant, along the cache's.                               *)

Windows(st) ==
    /\ \A c \in DOMAIN st.entries :
          st.entries[c].fresh <= LongestTtl /\ st.entries[c].stale <= LongestTtl + StaleIfError
    /\ st.purge \in 0..NegativeTtl

OrderInv ==
    /\ Ordered(cache) /\ Roomy(cache) /\ Windows(cache)
    /\ DOMAIN inflight \subseteq Cands

\* The limits of the configuration are numbers.
LEMMA Limits ==
    /\ MaxEntries \in Nat /\ NegativeTtl \in Nat /\ LongestTtl \in Nat /\ StaleIfError \in Nat
    /\ AgeCap \in Nat
BY CacheAssumption DEF LongestTtl

\* The empty cache, at any time since the last purge.
LEMMA EmptyOrdered ==
    ASSUME NEW st, st.order = <<>>, st.entries = <<>>, st.purge \in 0..NegativeTtl
    PROVE  Ordered(st) /\ Roomy(st) /\ Windows(st)
<1>1. st.order \in Seq(Cands \X Ids) /\ Len(st.order) = 0 /\ DOMAIN st.entries = {}
  OBVIOUS
<1>2. IsFiniteSet(DOMAIN st.entries) /\ Cardinality(DOMAIN st.entries) = 0
  BY <1>1, FS_EmptySet
<1> QED
  BY <1>1, <1>2, Limits DEF Ordered, Roomy, Windows

\* Entries that go, or grow older, take nothing from the others' records.
LEMMA StaysOrdered ==
    ASSUME NEW st, Ordered(st), Roomy(st), Windows(st), NEW to,
           to.order = st.order, to.purge \in 0..NegativeTtl,
           DOMAIN to.entries \subseteq DOMAIN st.entries,
           \A c \in DOMAIN to.entries :
               /\ to.entries[c].id = st.entries[c].id
               /\ to.entries[c].fresh <= LongestTtl
               /\ to.entries[c].stale <= LongestTtl + StaleIfError
    PROVE  Ordered(to) /\ Roomy(to) /\ Windows(to)
<1>1. IsFiniteSet(DOMAIN st.entries) /\ Cardinality(DOMAIN st.entries) <= MaxEntries
  BY DEF Roomy
<1>2. /\ Ordered(to) /\ IsFiniteSet(DOMAIN to.entries)
      /\ Cardinality(DOMAIN to.entries) <= Cardinality(DOMAIN st.entries)
  BY <1>1, FewerEntries
<1>3. Cardinality(DOMAIN to.entries) <= MaxEntries
  <2>1. Cardinality(DOMAIN to.entries) \in Nat /\ Cardinality(DOMAIN st.entries) \in Nat
    BY <1>1, <1>2, FS_CardinalityType
  <2> QED
    BY <1>1, <1>2, <2>1, Limits
<1> QED
  BY <1>2, <1>3 DEF Roomy, Windows

\* The end of a load inserts, removes an entry, or leaves the cache alone.
LEMMA FinishOrdered ==
    ASSUME IndInv, OrderInv, NEW l \in Loads, LoadSucceeds(l) \/ LoadFails(l)
    PROVE  Ordered(cache') /\ Roomy(cache') /\ Windows(cache')
<1>0. /\ Shape(cache) /\ Indexed(cache) /\ load[l].cands \in Cands
      /\ Ordered(cache) /\ Roomy(cache) /\ Windows(cache)
  BY DEF IndInv, Typed, LoadInv, OrderInv, LoadSucceeds, LoadFails
<1>1. PICK r : Finish(l, r)
  BY DEF LoadSucceeds, LoadFails
<1>2. CASE cache' = cache
  BY <1>0, <1>2
<1>3. ASSUME NEW ttl \in Ttls(r), cache' = Insert(cache, load[l].cands, r, ttl)
      PROVE  Ordered(cache') /\ Roomy(cache') /\ Windows(cache')
  <2>1. Ordered(cache') /\ Roomy(cache') /\ cache'.purge \in {cache.purge, NegativeTtl}
    BY <1>0, <1>3, Stored, Limits
  <2>2. cache'.purge \in 0..NegativeTtl
    BY <1>0, <2>1, Limits DEF Windows
  <2>3. ASSUME NEW d \in DOMAIN cache'.entries
        PROVE  /\ cache'.entries[d].fresh <= LongestTtl
               /\ cache'.entries[d].stale <= LongestTtl + StaleIfError
    <3>1. Kept(d) \/ Loaded(d, l)
      BY FinishFacts
    <3>2. CASE Kept(d)
      BY <1>0, <3>2 DEF Windows, Kept
    <3>3. CASE Loaded(d, l)
      <4>1. PICK t \in Ttls(load[l].read) : \E id :
                cache'.entries[d] = NewEntry(load[l].read, t, id)
        BY <3>3 DEF Loaded
      <4>2. cache'.entries[d].fresh = t /\ cache'.entries[d].stale = t + StaleIfError
        BY <4>1 DEF NewEntry
      <4>3. t \in Nat /\ t <= LongestTtl
        BY Constants
      <4> QED
        BY <4>2, <4>3, Limits
    <3> QED
      BY <3>1, <3>2, <3>3
  <2> QED
    BY <2>1, <2>2, <2>3 DEF Windows
<1>4. CASE cache' = RemoveEntries(cache, {load[l].cands})
  <2>1. Shrinks(cache, cache')
    BY <1>0, <1>4, Removed
  <2>2. cache'.order = cache.order /\ cache'.purge = cache.purge
    BY <1>0, <1>4 DEF RemoveEntries, Shape
  <2>3. \A c \in DOMAIN cache'.entries : c \in DOMAIN cache.entries
                                         /\ cache'.entries[c] = cache.entries[c]
    BY <2>1 DEF Shrinks
  <2>4. \A c \in DOMAIN cache'.entries :
               /\ cache'.entries[c].id = cache.entries[c].id
               /\ cache'.entries[c].fresh <= LongestTtl
               /\ cache'.entries[c].stale <= LongestTtl + StaleIfError
    BY <1>0, <2>3 DEF Windows
  <2> QED
    BY <1>0, <2>2, <2>3, <2>4, StaysOrdered DEF Windows
<1> QED
  BY <1>1, <1>2, <1>3, <1>4 DEF Finish

\* Each step keeps the order.
LEMMA OrderStep == ASSUME IndInv, OrderInv, [Next]_vars PROVE OrderInv'
<1>0. /\ Shape(cache) /\ Indexed(cache) /\ inflight \in [DOMAIN inflight -> Loads]
      /\ Ordered(cache) /\ Roomy(cache) /\ Windows(cache) /\ DOMAIN inflight \subseteq Cands
      /\ since \in [Keys -> [Versions -> Nat]]
      /\ \A c \in DOMAIN cache.entries : EntryInv(c)
  BY DEF IndInv, Typed, OrderInv
<1>1. ASSUME Tick PROVE OrderInv'
  <2>1. /\ DOMAIN cache'.entries = DOMAIN cache.entries /\ inflight' = inflight
        /\ \A c \in DOMAIN cache.entries :
              /\ cache'.entries[c].fresh = Less(cache.entries[c].fresh)
              /\ cache'.entries[c].stale = Less(cache.entries[c].stale)
    BY <1>1, TickFacts
  <2>2. /\ cache'.order = cache.order /\ cache'.purge = Less(cache.purge)
        /\ cache'.entries = [c \in DOMAIN cache.entries |-> Aged(cache.entries[c])]
    BY <1>0, <1>1 DEF Tick, Shape
  <2>3. \A c \in DOMAIN cache.entries : cache'.entries[c].id = cache.entries[c].id
    BY <1>0, <2>2 DEF Aged, EntryInv
  <2>4. cache'.purge \in 0..NegativeTtl
    BY <1>0, <2>2, Limits DEF Windows, Less
  <2>5. \A c \in DOMAIN cache'.entries :
              /\ cache'.entries[c].fresh <= LongestTtl
              /\ cache'.entries[c].stale <= LongestTtl + StaleIfError
    <3>1. \A c \in DOMAIN cache.entries :
              /\ cache.entries[c].fresh \in Nat /\ cache.entries[c].stale \in Nat
              /\ cache.entries[c].fresh <= LongestTtl
              /\ cache.entries[c].stale <= LongestTtl + StaleIfError
      BY <1>0 DEF Windows, EntryInv
    <3>2. ASSUME NEW n \in Nat, NEW m \in Nat, n <= m PROVE Less(n) <= m
      BY <3>2 DEF Less
    <3>3. LongestTtl \in Nat /\ LongestTtl + StaleIfError \in Nat
      BY Limits
    <3> QED
      BY <2>1, <3>1, <3>2, <3>3
  <2>6. Ordered(cache') /\ Roomy(cache') /\ Windows(cache')
    BY <1>0, <2>1, <2>2, <2>3, <2>4, <2>5, StaysOrdered
  <2> QED
    BY <1>0, <2>1, <2>6 DEF OrderInv, Ordered, OneRecord, Roomy, Windows
<1>2. ASSUME NEW k \in Keys, Invalidate(k) PROVE OrderInv'
  <2> DEFINE to == RemoveEntries(cache, cache.index[k])
  <2>1. Shrinks(cache, to) /\ to.order = cache.order /\ to.purge = cache.purge
    <3>1. to.order = cache.order /\ to.purge = cache.purge
      BY <1>0 DEF RemoveEntries, Shape
    <3> QED
      BY <1>0, <3>1, Removed
  <2>2. cache' = [to EXCEPT !.index[k] = {}]
    BY <1>2 DEF Invalidate
  <2> HIDE DEF to
  <2>3. cache'.entries = to.entries /\ cache'.order = cache.order /\ cache'.purge = cache.purge
    BY <2>1, <2>2 DEF Shrinks, Shape
  <2>4. \A c \in DOMAIN cache'.entries : c \in DOMAIN cache.entries
                                         /\ cache'.entries[c] = cache.entries[c]
    BY <2>1, <2>3 DEF Shrinks
  <2>5. \A c \in DOMAIN cache'.entries :
               /\ cache'.entries[c].id = cache.entries[c].id
               /\ cache'.entries[c].fresh <= LongestTtl
               /\ cache'.entries[c].stale <= LongestTtl + StaleIfError
    BY <1>0, <2>4 DEF Windows
  <2>6. Ordered(cache') /\ Roomy(cache') /\ Windows(cache')
    BY <1>0, <2>3, <2>4, <2>5, StaysOrdered DEF Windows
  <2>7. DOMAIN inflight' \subseteq Cands /\ since' = since
    BY <1>0, <1>2 DEF Invalidate, Without
  <2> QED
    BY <2>6, <2>7 DEF OrderInv, Ordered, OneRecord, Roomy, Windows
<1>3. ASSUME Clear PROVE OrderInv'
  <2>1. cache'.order = <<>> /\ cache'.entries = <<>> /\ cache'.purge = cache.purge
    BY <1>3 DEF Clear, EmptyCache
  <2>2. Ordered(cache') /\ Roomy(cache') /\ Windows(cache')
    BY <1>0, <2>1, EmptyOrdered DEF Windows
  <2>3. inflight' = <<>> /\ since' = since
    BY <1>3 DEF Clear
  <2>4. DOMAIN inflight' \subseteq Cands
    BY <2>3
  <2> QED
    BY <2>2, <2>3, <2>4 DEF OrderInv, Ordered, OneRecord, Roomy, Windows
<1>4. ASSUME NEW l \in Loads, LoadSucceeds(l) \/ LoadFails(l) PROVE OrderInv'
  <2>1. Ordered(cache') /\ Roomy(cache') /\ Windows(cache')
    BY <1>4, FinishOrdered
  <2>2. DOMAIN inflight' \subseteq Cands /\ since' = since
    BY <1>0, <1>4, FinishFacts
  <2> QED
    BY <2>1, <2>2 DEF OrderInv, Ordered, OneRecord, Roomy, Windows
<1>5. ASSUME NEW p \in Callers, NEW c \in Cands, LookupMiss(p, c) PROVE OrderInv'
  <2>1. cache' = cache /\ since' = since /\ DOMAIN inflight' \subseteq Cands
    BY <1>0, <1>5 DEF LookupMiss, With
  <2> QED
    BY <2>1 DEF OrderInv, Ordered, OneRecord, Roomy, Windows
<1>6. CASE cache' = cache /\ since' = since /\ inflight' = inflight
  BY <1>6 DEF OrderInv, Ordered, OneRecord, Roomy, Windows
<1>7. CASE \/ \E k \in Keys : Change(k)
           \/ \E p \in Callers : CallerGivesUp(p)
           \/ \E p \in Callers : \E c \in Cands :
                 LookupHit(p, c) \/ LookupJoin(p, c) \/ LookupShed(p, c)
           \/ \E l \in Loads : LoadReads(l) \/ LoadSends(l)
           \/ UNCHANGED vars
  <2>1. cache' = cache /\ since' = since /\ inflight' = inflight
    BY <1>7 DEF Change, CallerGivesUp, LookupHit, LookupJoin, LookupShed, LoadReads, LoadSends,
                vars
  <2> QED
    BY <1>6, <2>1
<1> QED
  BY <1>1, <1>2, <1>3, <1>4, <1>5, <1>7 DEF Next, CallerStep, LoadEnds

\* The invariant of the eviction order: each entry has one live record, and
\* nothing passes its limit.
THEOREM OrderInvariant == Spec => []OrderInv
<1>1. Init => OrderInv
  <2> SUFFICES ASSUME Init PROVE OrderInv
    OBVIOUS
  <2>1. cache.order = <<>> /\ cache.entries = <<>> /\ cache.purge = 0 /\ inflight = <<>>
    BY DEF Init, EmptyCache
  <2>2. Ordered(cache) /\ Roomy(cache) /\ Windows(cache)
    <3>1. cache.purge \in 0..NegativeTtl
      BY <2>1, Limits
    <3> QED
      BY <2>1, <3>1, EmptyOrdered
  <2>3. DOMAIN inflight \subseteq Cands
    BY <2>1
  <2> QED
    BY <2>2, <2>3 DEF OrderInv
<1>2. IndInv /\ OrderInv /\ [Next]_vars => OrderInv'
  BY OrderStep
<1> QED
  BY CacheInvariant, <1>1, <1>2, PTL DEF Spec

\* max_entries holds, and the eviction order, which keeps superseded and
\* invalidated records, stays within twice of it (insert, make_room).
THEOREM CapacityIsKept == Spec => []WithinCapacity
<1>1. OrderInv => WithinCapacity
  BY DEF OrderInv, Roomy, WithinCapacity
<1> QED
  BY OrderInvariant, <1>1, PTL

\* Entries, reverse index and eviction order agree: invalidate finds every
\* entry of a key, and make_room can evict each (insert, remove_entry, make_room).
THEOREM ViewsAreConsistent == Spec => []ViewsAgree
<1>1. IndInv /\ OrderInv => IndexExact
  BY DEF IndInv, Typed, Indexed, IndexExact
<1>2. IndInv /\ OrderInv => EveryEntryEvictable
  <2> SUFFICES ASSUME IndInv, OrderInv, NEW c \in DOMAIN cache.entries
               PROVE  Cardinality({i \in 1..Len(cache.order) :
                          cache.order[i][1] = c /\ IsLive(cache, cache.order[i])}) = 1
    BY DEF EveryEntryEvictable
  <2> DEFINE rec(d) == <<d, cache.entries[d].id>>
             P == {i \in 1..Len(cache.order) :
                      cache.order[i][1] = c /\ IsLive(cache, cache.order[i])}
  <2>1. Ordered(cache)
    BY DEF OrderInv
  <2>2. PICK i \in 1..Len(cache.order) :
            cache.order[i] = rec(c) /\ \A j \in 1..Len(cache.order) : cache.order[j] = rec(c) => j = i
    BY <2>1 DEF Ordered, OneRecord
  <2>3. i \in P
    BY <2>1, <2>2, LiveRecord
  <2>4. ASSUME NEW j \in P PROVE j = i
    <3>1. PICK d \in DOMAIN cache.entries : cache.order[j] = rec(d)
      BY <2>1, LiveRecord
    <3>2. d = c
      BY <2>1, <3>1, LiveRecord
    <3> QED
      BY <2>2, <3>1, <3>2
  <2> HIDE DEF P
  <2>5. P = {i}
    BY <2>3, <2>4
  <2>6. Cardinality(P) = 1
    BY <2>5, FS_Singleton
  <2> QED
    BY <2>6 DEF P
<1>3. IndInv /\ OrderInv => TypeOK
  <2> SUFFICES ASSUME IndInv, OrderInv PROVE TypeOK
    OBVIOUS
  <2>1. ASSUME NEW c \in DOMAIN cache.entries
        PROVE  cache.entries[c] \in Entry /\ cache.entries[c].hits \in Hits(c)
    <3> DEFINE e == cache.entries[c]
    <3>1. /\ e.hits \in Hits(c) /\ e.fresh \in Nat /\ e.stale \in Nat /\ c \in Cands
          /\ e = [f \in {"hits", "fresh", "stale", "id"} |-> e[f]]
      BY DEF IndInv, Typed, Indexed, EntryInv
    <3>2. e.id \in Ids /\ e.fresh <= LongestTtl /\ e.stale <= LongestTtl + StaleIfError
      BY DEF OrderInv, Ordered, Windows
    <3> HIDE DEF e
    <3>3. e.hits \in AllHits
      BY <3>1 DEF AllHits
    <3>4. e.fresh \in 0..LongestTtl /\ e.stale \in 0..(LongestTtl + StaleIfError)
      BY <3>1, <3>2, Limits
    <3>5. e = [hits |-> e.hits, fresh |-> e.fresh, stale |-> e.stale, id |-> e.id]
      BY <3>1
    <3>6. e \in Entry
      BY <3>2, <3>3, <3>4, <3>5 DEF Entry
    <3> QED
      BY <3>1, <3>6 DEF e
  <2>2. since \in [Keys -> [Versions -> 0..AgeCap]]
    <3>1. since \in [Keys -> [Versions -> Nat]] /\ \A k \in Keys : \A v \in Versions :
              since[k][v] <= AgeCap
      BY DEF IndInv, Typed
    <3>2. \A k \in Keys : \A v \in Versions : since[k][v] \in 0..AgeCap
      BY <3>1, Limits
    <3>3. \A k \in Keys : since[k] \in [Versions -> 0..AgeCap]
      BY <3>1, <3>2
    <3> QED
      BY <3>1, <3>3
  <2>3. cache.order \in Seq(Cands \X Ids) /\ cache.purge \in 0..NegativeTtl
        /\ DOMAIN inflight \subseteq Cands
    BY DEF OrderInv, Ordered, Windows
  <2> QED
    BY <2>1, <2>2, <2>3
    DEF IndInv, Typed, Indexed, Counted, LoadType, CallerType, TypeOK
<1>4. IndInv /\ OrderInv => ViewsAgree
  BY <1>1, <1>2, <1>3 DEF ViewsAgree
<1> QED
  BY CacheInvariant, OrderInvariant, <1>4, PTL
=============================================================================
