# A verification development for sni_router

sni_router accepts TLS connections, reads the ClientHello without decrypting
anything, looks the server name up in a route store, connects to the backend,
replays the bytes it has read and then copies bytes both ways until the
connection ends. This directory holds TLA+ models of that program, the TLC
runs that check them on small instances, and theorems about them checked by
TLAPS. `PROJECT.json` maps every definition to the source lines it translates.

Paths below are relative to `src/crates/sni_router/src/` (the library) or
`src/crates/sni_router_app/src/` (the binary, written `app:`).

## 1. Inventory

| Component | State | Operations | Why it is hard | What makes it correct |
|---|---|---|---|---|
| Accept loop and `serve` (`delivery/server.rs`) | slot semaphore, rotating index, tracker, tokens | take a slot, accept, back off, shut down in four steps | three selects race shutdown; slots cross tasks; errors | no slot lost; no listener starved; `serve` returns, and returns only when nothing is left |
| Proxy gate (`delivery/gate.rs`) | `closed`, `proxying`, cancellation token | `enter`, `close`, drop of a pass | a connection reaches it exactly when shutdown closes it | every connection is on exactly one side |
| Connection task (`delivery/connection.rs`) | stage, outcome, record | hello, lookup, connect and replay, proxy, drops | every await can be cancelled, time out, fail or panic | exactly one outcome; counters and slots come back on every path |
| Proxy stage (`delivery/proxy.rs`, `delivery/metered.rs`) | both directions, byte counters, activity clock | copy, half-close, idle watchdog, force | two directions interleave; partial writes; a stale deadline | no byte lost before a half-close; totals add up; idle neither early nor late |
| Splice fast path (`delivery/splice.rs`) | process-wide permits, two pipes per connection | reserve, open pipes, splice in and out | setup fails half way; permits shared by all connections | pipes stay in the descriptor budget; permits conserved |
| Route cache (`cache.rs`) | entries, reverse index, eviction order, in-flight slots, running loads | lookup, load, invalidate, clear | loads outlive callers and overlap invalidation | bounded; consistent; no data from before an invalidation; nobody waits for ever |
| DNS resolver (`delivery/resolver.rs`) | cache, in-flight names, permits, rotation counter | resolve, lookup task, store, rotate | blocking calls outlive callers; negative and stale windows overlap | single flight; bounded threads; good answers kept for their window |
| ClientHello reader and parser (`delivery/hello_reader.rs`, `protocol/`) | buffer | read, scan records, parse | any chunking, limits at the boundary | result independent of the chunking; limits exact |
| Routing policy (`routing/`, `lookup/`) | none | candidates, selection | precedence, single-label wildcards | exact beats wildcard, nothing else matches |
| Application (`app:lib.rs`, `app:main.rs`) | installed handlers, pending signals, two tokens, health flag, four tasks | load, bind, run, signals, exit | signals come before their handlers exist; health, router, admin and reload stop in an order no test pins down | probes see the drain; a signal ends the process; everything is joined |
| Route reload (`app:reload.rs`, `app:config/routes.rs`) | route table and its snapshots, the blocking job | SIGHUP, read, replace, lookup | signals coalesce; the file changes under the reader or is bad; a lookup is overtaken | the last file asked for wins; one whole, valid file in force; no torn lookup |
| Admin server (`app:admin.rs`) | slots, `JoinSet`, open connections | acquire, accept, reap, answer, stop, abort | idle clients hold every slot; a slot is held while `accept` waits | slots conserved; every probe is answered or reset |
| Configuration (`app:config/mod.rs`) | none | defaults, range checks | inclusive bounds, 0 as off, order of checks | exactly the valid files are accepted |
| Metrics export (`metrics.rs`, `app:otel_metrics.rs`) | – | – | I/O | – |

How they interact: `serve` owns the accept loop and the gate; the accept loop
spawns a connection task per client, which owns a slot and calls the route
lookup (often the cache around an embedder's store), the resolver, the gate and
the proxy stage. The cache and the resolver run loads on tasks of their own, so
that these outlive their callers. The splice permits are shared by the whole
process. The application runs the router, the admin server, the reload task and
a task that turns health to draining side by side. Shutdown is one token the
application cancels, two the router derives from it (the gate's for handshakes,
the force token for proxied connections), and one for the admin server, which
is cancelled only when the router has returned.

The hazards this code is exposed to are listed in `PROJECT.json` at the line
where each bites, with the properties that would catch it.

## 2. Modules

| Module | Models |
|---|---|
| `GracefulShutdown` | abstract: what `serve` promises about connections and shutdown |
| `ByteRelay` | abstract: what the proxy stage promises about bytes |
| `Router` | `server.rs`, `gate.rs`, `connection.rs` |
| `CachedLookup` | `cache.rs` |
| `Resolver` | `delivery/resolver.rs` |
| `Proxy` | `proxy.rs`, `splice.rs`, `metered.rs` |
| `Routing` | `lookup/types.rs` (names, keys, backends), `lookup/mod.rs`, `lookup/memory.rs`, `select_route`, `app:config/routes.rs` (the table and its errors) |
| `ClientHello` | `protocol/` |
| `Ingress` | `delivery/hello_reader.rs`, `resolve_route`, `connect_and_replay`, the resolver's rotation, over `ClientHello` and `Routing` |
| `Config` | `app:config/mod.rs`, `RouterConfig::default` |
| `AdminServer` | `app:admin.rs` |
| `App` | `app:main.rs`, `app:lib.rs`, `app:reload.rs`, `FileRouteLookup`; composes `AdminServer`, `Config` and, as the router, `GracefulShutdown` |
| `RouterProofs` | theorems about `Router`, and that it implements `GracefulShutdown` |
| `CachedLookupProofs`, `ResolverProofs`, `ProxyProofs`, `IngressProofs`, `AppProofs` | theorems about the module of that name (`AppProofs` also about `AdminServer` and `Config`) |
| `HelloProofs` | over `IngressProofs`: theorems about the verdict of the hello reader and the name it finds |
| `RoutingProofs` | lemmas about `Routing`: which rows and files pass its checks |
| `MCRouter`, `MCCachedLookup`, `MCResolver`, `MCProxy`, `MCIngress`, `MCApp` | instances for TLC |

Definitions whose comment begins with "Mutant" are plausible bugs. They are
used by no specification; `PROJECT.json` pairs each with the property that
detects it.

### Router

The accept loop, `serve` and every connection task are processes that
interleave (the runtime is multi-threaded). A connection has a `stage`: one per
await of `run`, and one per drop that follows (`leaving`: the gate pass,
`closing`: the `ConnectionRecord`, `release`: the slot, `untrack`: the tracker
token). Each stage ends with any result the code tells apart, so the contents
of the hello, the routes and the backends are not needed. `biased` selects are
guards: a stage ends with a result of its own only while its token is not
cancelled. (A poll that began before the cancellation may end after it; such a
step commutes with the cancellation and is taken before it.) `Panics` is a
panic or an abort inside `run`: the same drops follow.

`skipped` is the only history variable: how often a listener with a client
waiting was passed over.

`GracefulShutdown` has three phases and a place and verdict per connection.
`Router` implements it under the mapping at the end of the module: the stages
are grouped into places, and a connection has a verdict once its task has
decided how it ends.

### CachedLookup

Each action is one critical section of the cache's mutex. A load reads the
store at one moment between its start and its end; the store holds a version
per key, odd versions being routes. Deadlines are the ticks that remain. The
purge, eviction, index and order queue are modelled as in the code, including
the superseded records and their compaction (`Retain` is `VecDeque::retain`,
given the places that stay). `next_id` is abstracted to the
smallest id with which the order holds no record for the same candidates: the code
compares ids only for equality. `floor` and `since` are history variables, and
so are two fields of a caller: `by`, the way it was answered (loaded, hit, shed,
or stale after a failed load), and `age`, for how long what it was handed had
been superseded by then.

A waiting caller compares `stale_until` with the time at which it started, keeps a
copy of the entry and is handed it when the load has failed, up to `load_timeout`
later: `cache.rs:58` says that an expired entry may be served for
`stale_if_error`. `OutdatedBounded` states the bound that holds for each way of
being answered.

### Resolver

As the cache: one action per critical section or step of a lookup task.
`stale` is counted below zero so that an overrun can be measured. The system
resolver is external and need not answer in any bounded time; an answer is the
zone's version for that name. What is done with the list of addresses of an
answer (rotation, one attempt after the other) is in `Ingress`.

### Proxy

A direction is a number of bytes sent, held and delivered. The splice path
reads a chunk, drains it in any number of partial writes, and only then reads
again; the portable path is tokio's `copy_bidirectional_with_sizes`, external,
which may read while it still holds bytes. `TryAcquire`, `OpenPipe`,
`OpenPipeFails`, `ClosePipes` and `DropPermit` are separate steps because other
connections' tasks run in between. `quiet` is the age of `Activity.last`,
`armed` the rest of the watchdog's sleep; the watchdog wakes, looks again, and
sleeps on. `still` (history) is the time since a byte moved on either socket.

`ByteRelay` is what this amounts to: two streams per connection, each read at
most a buffer ahead of what was delivered and closed only when everything has
arrived; the connection ends once, as `Finished` only with both streams closed
and as `Error` only with one still open. `StreamOf` maps a direction to its
stream, and permits, pipes, mechanisms and clocks to nothing.

### Routing, ClientHello, Ingress

`Router` leaves open what a hello contains and how a route is found; these
modules have that data. A stage's deadline and the shutdown may end the
connecting at any moment (`ConnectCut`): `upstream_timeout` is one deadline for
the resolver, every address and the replay. A lookup that times out is
`LookupFails`; the reading of the hello may stop for ever after any byte, which is
all its deadline could add.

The record layer is byte-exact: `ScanRecord` is one turn of `scan_records`'
loop, and `ScanRecords` runs it from the buffer's first byte, as the code does
after every read. The body of the message is opaque bytes that stand for a
structure. In it a vector is a sequence whose last item may be `Cut` (a length
that runs past the bytes left, what `Reader` returns `None` for), and the fixed
fields before the extensions are one Boolean, since every fault in them ends in the same
error. A name is a sequence of labels; a label has a length, a lower-case form and a
character class.

`Ingress` has a client's records in its state and reads them in chunks of
any size up to what the buffer has room for. For the properties, `Events` says
without a scan what the records contain and after how many bytes it shows.
After the route the model goes on to the backend: `resolve` fails or answers
with a list of addresses, which is rotated by any value of the process-wide
counter (other connections advance it), the addresses are tried in turn, and
the whole buffer is replayed to the first that answers.

`max_wire_bytes` counts no payload after the message. A ClientHello within both
limits, sent in records whose last one carries further handshake data past
`max_wire_bytes`, is refused as `TooLarge`, although `protocol/mod.rs:111` says
that this means a ClientHello beyond `HelloLimits`. `EarliestEventDecides`
states it as the code has it; `FaultlessAccepted` (a part of `SniExact`) says
of every other faultless hello within the limits that it is not refused.

### Config, AdminServer, App

A config file is a record: whether it can be read and is TOML, the keys it sets,
and its rows. Reading it while it is written in place gives a content of its
own, so the file's content may be anything at any read. `LoadError` has the
checks in the code's order; a path is its text and the two things the code asks
about its characters, plus whether it holds a query.

`App` has one process per task: `main`, `cancel_on_signal`, `drain_watch`, the
reload task and its job in the blocking pool, the admin loop and its
connections. A signal whose handler is not installed kills the process. A SIGINT
handler that cannot be installed makes `ctrl_c()` return an error, which the code
takes for the signal: it shuts down (`CtrlCFails`). A signal with a handler is kept in `pending`, a set, so several before the receipt are one.
The job reads the file in one step and replaces the table in another; a job
that panics leaves the table as a bad file does. A lookup takes a snapshot and then
reads one candidate per step. The router is `GracefulShutdown`, which `Router`
implements (section 4); only what its promise allows is used here.

In `AdminServer` a request arrives whole or never, and `Close` is every end of
a connection's task: done, an error, either timeout, or the abort after the
grace period. `Reap`, the branch of the select that joins an ended task, drops
a slot the loop holds, as the code does.

History variables: `promised` (the file now on disk was asked for by a SIGHUP)
and `era` (the tables in force since a lookup began).

The handler compares `uri().path()` (`UriPath`), the target without its query. A
`health_path` that holds a `?` passes `RawAdmin::validate`, but a request's path
never does, so such an endpoint always answers 404, although
`docs/knowledge/app/config-reload.md:68` says 200 or 503. `ProbesSeeDrain` is
about requests whose path is the configured one.

## 3. Runs

| Run | Instance | Shows |
|---|---|---|
| `router` | 2 clients, 2 listeners, 2 slots | slots, gauge and gate count conserved on every path; order of shutdown; nothing left when `serve` returns; rotation; refinement of `GracefulShutdown`; `IndInv`, which holds the other parts (types, gauge, order), before it is proved; `serve` returns |
| `cache_store` | 3 hosts (two share a wildcard key), 2 entries, 1 load, symmetric hosts | entries, index, order, slots and load count agree through insert, purge, evict, invalidate, clear and compaction |
| `cache_fresh` | 1 host with 2 keys, 2 overlapping loads, TTL 1 ± 1, stale window | nothing from before an invalidation is seen; no answer is older than the windows of its way add up to; entries never go back; waiting callers are answered |
| `cache_ttl` | 1 host, TTL 2 ± 1 | expected violation, finding 1 |
| `resolver_safety` | 2 names, 1 permit, prune threshold 2 | permits follow blocking calls and flights are single; answers never go back; pruning keeps good answers; overrun bounded; waiting callers are answered |
| `resolver_stale` | 1 name | expected violation, finding 2 |
| `proxy_bytes` | 1 connection, 3 bytes each way, pipes of 2, idle timeout 2 | refinement of `ByteRelay` (so no truncation), byte totals, watchdog neither early nor late, stalled connections end |
| `proxy_budget` | 2 connections, 1 permit, no idle timeout | permits conserved, pipes within the descriptor budget; half-close reaches the other side, although nothing else would end the connection |
| `proxy_idle` | 1 connection | expected violation, finding 3 |
| `ingress` | 2 body bytes, 2 records and 16 wire bytes allowed; messages one byte and one record over | verdict independent of the chunking and as early as possible; limits exact; allocation bounded; the right name; the right row; connecting fails only after every address, and the whole hello is replayed |
| `app` | 1 connection, 2 probes, 1 admin slot, 2 later files | a signal ends the process with nothing left behind; the last SIGHUP's file wins; routes never go back; no torn lookup; routes and settings of a whole valid file in force; probes are answered and see the drain; admin slots conserved |
| `app_health` | as `app` | expected violation, finding 4 |

Bounds and why they are enough:

- `Router`: two clients and two slots give two connections on different sides
  of the gate, and a loop that waits for a slot; two listeners are the smallest
  number for which the rotation matters. Nothing else is bounded, and the safety
  results are proved for all values.
- `CachedLookup`: `MaxVersion` bounds changes per key (a change and its
  reversal), `AgeCap` the age told apart (above every bound stated), `Loads` the
  load tasks alive at once (at least `max_inflight_loads`). Two entries for
  three hosts force eviction; a limit of one load makes a lookup shed.
- `Resolver`: `Tasks` bounds lookup tasks alive at once, `MaxVersion` the
  changes of the zone.
- `Proxy`: `MaxBytes` bounds what a peer sends: one more than a pipe holds, so
  that a second chunk and a partial drain occur. With `MaxBytes` traffic is
  finite, which is what `StalledConnectionEnds` is about. Two connections and
  one permit are the fewest that compete. There `MaxBytes` is 0, since neither the
  permits nor the passing on of an end depends on bytes that were delivered before,
  and there is no idle timeout, because a watchdog that ends the connection would
  hide an end that is not passed on.
- `Ingress`: `MCInputs` has every way to cut each message into one to three
  records (so every split of both headers), each also with one record spoilt,
  followed by another or never finished; every `server_name` list of two entries;
  every list of three extensions of six kinds; every route file of three rows
  of seven hostnames. `ReadChunk` is smaller than the limit so that the buffer grows.
  `UsizeRange` = 4 is enough for the rotation's counter to be at, above and
  below the length of every list of addresses.
- `App`: `Budget` = 3 bounds the file's changes, signals, failures of `ctrl_c`
  and connections together: enough for a SIGHUP, a change and another SIGHUP, for
  a lookup, a change and a SIGHUP, and for two probes and a shutdown. A probe asks
  for the health path, by a GET with a query or by another method. `Jobs` has two
  names, so that
  a job nobody waited for could overlap the next. `Files` are one good and one bad
  file. Files with one setting at or past a bound are explored up to `bind`,
  which fails for them because the default address is `Taken`.

Deadlock checking is off in all runs: each system may legitimately stop (all
clients served, a hello read, nobody asks again, all versions used).

Fairness:

- `Router!Fairness`: woken tasks are polled, every handshake await has a
  deadline, the grace timer fires. A proxied connection need not end; only the
  force token obliges it to. Clients and `accept` are free.
- `CachedLookup!Spec`: every load ends (`load_timeout`) and its task sends the
  result. Callers are free.
- `Resolver!Spec`: the same, and the blocking call returns: an assumption about
  the system resolver, which the code does not enforce (see the hazards). A
  permit is granted with strong fairness because tokio's semaphore is first
  come, first served.
- `Proxy!Spec`: time passes and a woken task is polled. Passing on the end of a
  source is fair (`EofStep`), since it waits for no peer. No step that moves
  bytes is fair: peers need not send or read.
- `App!Fairness`: tasks and threads are scheduled, handshakes and admin
  connections have deadlines, and the reload's file read returns, which the code
  does not enforce (see the hazards). Two steps have strong fairness: `accept`
  does not fail for ever while a client waits, and the admin loop sees its
  token, because `tokio::select!` polls its branches in random order. Nothing is
  assumed about clients, answers, signals or the file.

### Findings

1. `cache.rs:19` promises that a change is visible within `ttl`. An entry's
   lifetime starts when its load ends, and jitter can lengthen it, so a route can
   be served for up to `load_timeout + ttl*(1+jitter)` after it changed.
   `OutdatedBounded` states that bound.
2. `delivery/resolver.rs:72` says until when old addresses may be used if
   resolving fails. A failure just before that makes the entry fresh for another
   `NEGATIVE_TTL`, past that point.
3. `delivery/proxy.rs:115` and `metrics.rs:94` say that a connection idles out
   when no bytes have moved or neither side has sent. Only the client's socket is
   watched: bytes that move on the upstream's side alone do not count.
4. `app:admin.rs:61` says that health is flipped so that load balancers stop
   sending connections first, and `app:lib.rs:111` that it turns 503 as soon as
   shutdown starts. The flip is made by a task of its own that waits for the same
   token as the router, so the router may have stopped accepting while a
   probe is still answered 200.

## 4. Proofs

Every safety invariant and action property the passing runs check is also a
theorem, and the theorems hold for all values of the constants: any sets of
connections, callers, keys, names, files and probes (also infinite ones), any
capacities, limits and windows. What they need of the constants is in the named
assumptions of the modules (`RouterAssumption`, `CacheAssumption`,
`ResolverAssumption`, `ProxyAssumption`, `RoutingAssumption`,
`HelloLimitsAssumption`, `IngressAssumption`, `AdminAssumption`,
`AppAssumption`). They say that numbers are numbers, that limits the code never
has at zero are not zero, that lists are lists, that lower-casing twice is
lower-casing once, and that a client sends bytes: records whose payloads are as
long as their headers say, unless the stream ends before (`Sendable`; after a
header with no valid length anything may follow). Each run evaluates the ones of
its modules.

None of the properties is inductive as it stands. Each proof module states an
`IndInv`, shows `Init => IndInv` and `IndInv /\ [Next]_vars => IndInv'` with
one step per action, and derives the properties. `SafeSpec` is the
specification without its fairness, so results about it hold for `Spec`.

**Router** (`RouterProofs`). `IndInv` joins the invariants:
that a counter does not underflow when a task leaves needs its equality with the
number of tasks in the right stages; that nothing is left when `serve` returns
needs these equalities, plus that the accept loop is gone before the gate
closes; starvation needs the potential `skipped + Offset < NumListeners`
(`RotationProgress`); and the sets being counted have to be finite
(`Bookkeeping`) for cardinalities to mean anything. `Moved` says what one
task's move does to the number of tasks in a set of stages, `CountingMove`
applies it to the three counters at once. `RouterSafety`,
`RouterIsQuietWhenReturned` and `ListenersTakeTurns` follow from it.
`RouterImplementsGracefulShutdown` maps each action to an abstract action or a
stutter (`RefinesStep`), using `IndInv` for the capacity and the phases; that nothing
commits once the gate is closed is part of it.

**CachedLookup** (`CachedLookupProofs`). Two invariants. `IndInv` is about
data: what a load has read is in the store's past and has been superseded for
no longer than the load runs (`LoadInv`); the owner of a slot has read nothing
older than the last invalidation or than the entry it will replace (`SlotInv`);
an entry is from after the last invalidation and its windows leave room for its
age (`EntryInv`); whatever a waiting caller may be handed serves it
(`CallerInv`); `Counted` equates the counter with the running loads. `AgeInv`,
over it, says how long what callers and loads hold has been superseded: a
waiting caller's stale copy ages with the load it waits for. From them:
`LoadsStandForEachOther`, `InvalidationIsSeen`, `OutdatedIsBounded`,
`EntriesNeverGoBack`. `OrderInv` is about the three views of the cache: each
entry has exactly one record with its id in the order, and entries and order
are within their limits. The argument goes along `insert`: a new id differs
from every recorded one because the order is shorter than the ids there are
(`FreshIsFresh`); eviction pops a prefix that holds only records of entries
that go, and one that is long enough exists (`Evicted`); compaction keeps the
live records, which are no more than the entries (`Retained`, `Compacted`).
From both invariants: `ViewsAreConsistent` (with the type invariant) and
`CapacityIsKept`.

**Resolver** (`ResolverProofs`). Registrations and active lookups stand for
each other (`Registered`), what a lookup has read is no older than the cache
(`Newer`), a fresh entry is within its stale window or at most
`NegativeTtl` past it (`Sound`), permits follow the blocking calls
(`Permits`). From it: `LookupsStandForEachOther`, `OverrunIsBounded`,
`NoAnswerGoesBack`, `GoodAnswerIsKept`.

**Proxy** (`ProxyProofs`). `Tasks` says which mechanism, pipes and end go with
each place of a task; `FlowInv`, per direction, that nothing is made up, that a
splicing direction reads only into an empty pipe and that only a drained one is
done; `TimersInv` that the quiet time and the rest of the watchdog's sleep never
exceed the timeout; `Permits` that the holders are finitely many and
conserved. From it: `NothingTruncated`, `TotalsAddUp`, `WatchdogIsExact`,
`SpliceBudgetIsKept`. `ProxyImplementsByteRelay` maps each step to a step of the
relay or a stutter (`RelaysStep`): the steps of both mechanisms come down to
three lemmas about one direction (`TakesBytes`, `DeliversBytes`,
`ClosesStream`), and that a direction is done exactly when its far side is shut
(`FlowInv`) decides which end the relay allows (`EndRelays`).

**Ingress** (`IngressProofs`, over `RoutingProofs`). The buffer (`BufferInv`,
with the arithmetic of `reserve` in `ReserveFits`) gives `AllocationIsBounded`.
The addresses tried and those left make up one cyclic order of the answer
(`Follows`; that `rotate_left` yields one is `RotatedIsRotation`), also when the
deadline or the shutdown cuts it (`CutKeeps`), which gives `AddressesAreTried`. The parser's loops are recursive functions of how many
items they have read (`FoundInList`, `FoundInExtensions`, `Scans`), so a fact
about every list is an induction over that number; `UpToInduction` gives it for
a set of numbers, by the least one outside it. Along it, `ListParsed` and
`ExtensionsParsed` say what the parse of a list tells of its host_names, and
`ScanNamesNothing` that the record scan ends with no verdict of the parser's.
This gives `OnlyTheHellosName`, the parts `NameExact` and `NoneMissed` of
`SniExact`, for every hello. `RouteInv` ties the route to the name and the file;
with the valid name, with what a file that loads looks like (`TableErrorOk`) and
with what `select_route` finds (`SelectsFirstCandidate`, `CoversIsCandidate`) it
gives `MostSpecificRowIsChosen`.

**The hello's verdict** (`HelloProofs`). `EarliestEventDecides` compares two
descriptions of a stream: `Events`, which lists what is wrong or complete in the
records of the whole input and at which byte it shows, and the scan, which walks
a prefix of the bytes and sees at most part of a record. `WireLayout` and
`HandshakeLayout` say at which place of the wire and of the handshake stream each
byte of each record is (`JoinedGrows`, `JoinedKeeps`: facts about sequences put
together from parts). `EventsArise` and `EventsThere` turn the set of events into
what one record holds. The loop's invariant is `AtRecord`: after n records the
scan is at the end of the nth, knows up to four bytes of the handshake header,
has the payloads so far, and nothing in these records decides. `RecordTurn`, with
one lemma for the header (`TurnAtHeader`) and one for the payload
(`TurnAtPayload`), shows that a turn of the loop keeps it or ends the scan with
what decides the prefix (`Finished`); `ScanDecides` is the induction over the
records. What is reassembled of a complete hello is the message, and `SoundParses`
shows that the parser accepts every message without a fault. `ReadDecides` puts
them together for one read: the reader has not decided, so nothing was decisive
among the bytes before it, and what is earliest among the bytes after it is the
verdict. So the theorems hold for every stream, every limit and every way the
stream is cut into records and into reads: `EarliestDecides`, and `SniIsExact`
with the third part of `SniExact`, `FaultlessAccepted`: a message without a fault
within the limits completes, and no other event on its wire decides before it
(`OnlyCompletes`), so it is not refused (`NotRefused`).

**App and AdminServer** (`AppProofs`). `AdminInv` (slots add up, nothing is
open before the server starts or after it ends), `HealthInv` (the settings are
a valid file's, so the health path is not the metrics path), `MainInv` (which
task runs at which stage of `main`), `ReloadInv` (one job at most, and only
while it is awaited; what it read lies between the table and the disk, and the
table is a valid file's: `RoutesInForce`),
`LookupInv` (a lookup has read a prefix of its candidates from one snapshot).
`LoadsIfValid` shows that the ordered checks of the configuration accept
exactly the valid files. From it: `AdminSlotsAreConserved`, `DrainIsSeen`,
`NothingIsLeft`, `RoutesOfOneFile`, `ReloadsOnlyGoForward`,
`LookupsAreNotTorn`. The router in it is `GracefulShutdown`, which `Router` was
shown to implement.

Only model-checked:

- all liveness: `ShutdownCompletes`, `WaiterAnswered`
  (cache and resolver), `StalledConnectionEnds`, `HalfClosePropagates`,
  `LastHangupWins`, `ExitsAfterSignal`, `ProbeAnswered`. Fairness and ENABLED
  are out of the prover's reach;
- the parts of `RouteKey` and `Backend` parsing that are folds over labels
  (`NameLen`): the theorems use them as they are defined.

## 5. Not modelled, and plan

Next: an abstract specification for the cache (a lookup returns a value the store
had since the last invalidation), with a refinement.

Left out, because there is no state of this program's own in it: metrics export
(OpenTelemetry and Prometheus; the counters that matter are state of `Router`
and `Proxy`), logging, the TOML and HTTP layers (third-party; a file parses or not,
a request arrives or not), raw system calls (their results are choices),
the variants for platforms without signals or `splice`, test support, examples
and load tests.
