# jetstream-router: formal model

TLA+ specifications of the router in `src/`, the TLC configurations that check them on
small instances, and proofs for instances of every size: the safety of a route and its
refinement, the whole process in front of it and its shutdown, the cursor file, the stream position, the
bounds, counts and alerts of a shard, the routing of events, and the parameters a
configuration yields. Every invariant that a run checks is also proved; liveness is
model-checked only. Definitions carry the names of the code where they can; the source
lines of each are listed in `PROJECT.json` under `map`.

## The system

One process reads one WebSocket and fans events out to routes.

| Component | State | Operations | Correct when |
|---|---|---|---|
| route (`internal/route/route.go`) | a bounded channel, a pool of workers, counters | `Offer`, the worker loop, `process` with retries and a recover boundary, `Drain` | every event offered is shed and counted, or handled once within its retry budget; a wedged route delays nobody; nothing is sent on a closed channel |
| cursor (`internal/jetstream/cursor.go`) | `latest`, `commited`, the cursor file and its temporary file | `Load`, `Advance`, `Commit` | the file is readable, never ahead of what was consumed, never moves back, and catches up |
| ingestor (`internal/jetstream/ingest.go`) | connection state, the attempt counter, `connected` | `Run`, `connectAndRead`, `subscribeURL`, `refreshLag`, `maintenanceLoop` | no event is skipped silently; a dead connection is noticed; readiness follows lag |
| shard state (`internal/handler/state.go`, `shard.go`) | a sliding window, a dedup set, an alert throttle | `observe` under the lock of the shard | bounded; duplicates are not counted; counts are right; alerts are spaced |
| routing (`internal/routing/routing.go`) | the table, split in two passes | `New`, `Route`, `Routes`, `Collections` | every key has a route that exists; rules that pin an operation win |
| config (`internal/config/config.go`) | the settings, once per process | `Default`, `Load`, `Validate`, `withDefaults` | whatever is accepted runs with the parameters the rest relies on |
| main (`cmd/router/main.go`) | routes, context | `run`, `buildRoutes`, `ingestConfig`, `Dispatch` | one route delays or costs another nothing; stop reading, then drain, then commit, inside the grace period |
| event, obs, the handlers | counters, health, a log throttle | decoding, metrics, matching | see "Not modelled" |

How they meet: the ingest goroutine decodes a frame and calls `Dispatch`, which
resolves the key and calls `Offer` on the route, synchronously; then it advances
the cursor, accepted or not. Workers receive from the channel of their route and
call its handler; the stateful handlers share shards under a mutex. A maintenance
goroutine commits the cursor and publishes lag and readiness; it reads `latest`,
`connected` and nothing else of the read loop. SIGTERM cancels one context that
the ingest goroutine, the maintenance goroutine and all workers hold; `main` waits
for the ingest goroutine only, drains the routes and commits the cursor again.

What is hard here: an event crosses three kinds of goroutine; the same signal
stops readers, retries and waiting offers at different places; two goroutines run
`Commit` on one temporary file; a reconnect replays what was counted and must not
skip what was not; a health signal must not depend on what it watches; every
structure has a cap at which it forgets; the drains share one grace period and have
a timeout each; a configuration file is decoded over defaults that show through.
`PROJECT.json` lists the hazards one by
one with their lines and the properties that cover them.

## Modules

| Module | What it is |
|---|---|
| `Route` | one route, all its goroutines: the ingest goroutine inside `Offer`, each worker, `main` in its drain |
| `RouteLedger` | the abstract specification of a route: each event new, accepted, refused, withdrawn, settled or abandoned, or the business of another route; `Route` implements it, and so does every route of `Pipeline` |
| `RouteProofs`, `RouteRefinement` | the theorems about `Route`; that it implements `RouteLedger` |
| `Pipeline`, `PipelineProofs` | the whole process: the reader, several routes, the signal, the drains, the final commit, the grace period |
| `Cursor` | the cursor, its file system, one or two goroutines in `Commit`, crashes, failing calls |
| `DurableCursor` | the abstract specification of the cursor file |
| `CursorProofs` | the theorems about `Cursor` |
| `Ingest`, `IngestProofs` | the ingest and the maintenance goroutine, the server, the network, time |
| `Shard`, `ShardProofs` | one shard of aggregation state with workers that overtake each other, sheds and replays |
| `Routing`, `RoutingProofs` | the routing table, the routes built from it, the server filter, the dispatcher: operators and actions; the theorems about them, for the specification in `Config` |
| `Config`, `ConfigProofs` | extends `Routing` by the file, its loading, validation and defaults, and gives the specification of both |
| `MC*` | instances for TLC, one module per component, one `.cfg` per run |

`Pipeline` composes the reader, the routes and `main`. Beyond it the components are
composed through what they promise. `Ingest` treats `Dispatch` as a call that may
take any time; that it returns is `OfferReturns` of `Route`. `Route` and `Pipeline`
end their reader when `Run` returns; that it does is `RunReturns` of `Ingest`.
`Shard` takes from `Ingest` that events arrive in stream order except for replays by
at most the rewind, and from `Route` that events may be shed and that the workers of
a pool run concurrently. `DurableCursor` is what a restart may rely on.
`BuiltAsAssumed` of `Config` is what `Route` and `Shard` assume of their constants;
`CommitedIsDurable` of `Cursor` is why `Ingest` lets a process inherit the position of
the one before it after an ordered shutdown.

### Route

`reader` is the ingest goroutine: `idle` (reading a frame), `select` (in `Offer`),
`sent` and `gauge` (after the send, before the counter and before the depth gauge),
`returned`. A worker is at `receive`, `call` (in the handler), `backoff`, `gauge` or
`exited`. A handler call may end in success, a permanent error, a panic, a
transient error, or not at all. Counters are the sets of events they were
incremented for, so that a property can say which event was miscounted. `Offer`
and the counters after it are separate steps because workers run in between; the
single steps are the channel operations and the atomic metric updates of the code.
The block policy's timer only wins on a full buffer: a sender that waits is handed
the slot by the receive that frees it, and the offer is assumed to reach its select
before the timer it just set has expired.

### Pipeline

An offer, a settled event and the final commit are one step each; `Route` and `Cursor`
have the steps inside them. The stream is a sequence of destinations. Routes have a
policy, a buffer and a pool of their own, and one reader offers to all of them. Only
`Read` looks at the context, so a frame that has arrived may be dispatched after the
signal. After the signal `main` waits for the reader, drains the routes one after the other in any
order (the code ranges over a map) with the whole `shutdown_timeout` for each, commits,
and stops the admin server.

A block route sheds when its timer fires, and only on a full buffer: the receive that
frees a slot hands it to the offer that waits. Left out is a timer, two seconds by
default, that expires between `NewTimer` and the `select` below it.

`RoutesKeepLedgers` says that each route of the process is a `RouteLedger` of its own.
The fate of an event gives its status in the ledger of the route it resolves to
(`InLedger`); in those of the others it is elsewhere. So what is proved of one route in
detail and what is proved of all of them together meet in one specification.

The clock starts with the signal and advances only while everybody waits: the workers
for handlers that hang (`WorkersWait`), `main` for a drain or the admin server
(`DrainWaits`, `AdminWaits`). What is not waiting is taken to cost no time, so that
what the properties say of the grace period is about waiting alone. A hang may end; a
slow handler is one that hangs for a while, and `slow` records its route. `Kill` is the
SIGKILL at the end of the grace period.

### Cursor

Every system call of `Commit` is a step on a small file system of names and inodes:
opening truncates, an open file keeps its inode through a rename. A crash takes the
memory and leaves the files; there is no `fsync` in the code, and loss of power is
not modelled. `Load` is modelled although `main` never calls it, so that the file is
checked for what it is written for; that it is not called is a finding, which
`ingest_cold_start` shows.

### Ingest

Positions are times. At each instant of the clock the server publishes an event that
decodes, one that does not, or none. Server and process share the clock. `Subscribe`
and `BeginDial` are `subscribeURL` and the top of `Run`; a dial takes time up to its
timeout; the server then starts at the cursor (exclusive or inclusive), at the oldest
event it retains, or at the live tip. The file and `Commit` are left to `Cursor`; what
appears here is `inherited`, the position that an ordered shutdown left in the file for
the process that follows (`Replaced`), or none if it was killed (`Killed`).

`attempt` counts failures as `Run` does, up to `MaxShift`, beyond which it makes no
difference. The delay of a backoff is any up to `LongestDelay`, which stands for the
jitter, and ends at `until`. Dial and backoff follow the clock; the other timers may
fire whenever they are set. `SetReady` stores a flag and a text; the flag is modelled.
A frame that decodes is taken to have a time; one without is dispatched and not
advanced to. `excused` records the positions inside a gap the code counted, `outrun`
those that a connection skipped because its dial took longer than the rewind and what the
server retains beyond the window (`Outrun`), `held` that the last connection lasted longer
than `HealthyFor`. Like `dispatched` they begin anew with each process.

### Shard

The window, the dedup set and the throttle table. `observe` is one step because it runs
under the lock; the order of observes is free among the workers that hold an event. What
the stream holds is chosen when it is first read.

Whatever `observe` counts is numbered, and the log `counted` says which event each
number is. The structures of the code are ordered by insertion: stamps are appended, an
entry that is touched moves to the front of the recency list, a record is pushed to the
front of the dedup list. The model keeps the numbers in their place and reads the order
off them: `window[s]` is the set of the occurrences that are stamps of `s`, its greatest
one (`Touched`) the place of `s` in the recency list, and `dedup[r]` the place of `r`.
`Recent` is what an eviction leaves, `Trim` the loop that stops at the first stamp that
is not stale, and `At` the time behind a number. No element of a sequence is moved or
removed, so the proofs need no induction over sequences.

### Routing and Config

A JSON object is a function on the keys it mentions. Decoding it over a struct keeps
the other fields (`OverStruct`), decoding an array over a slice does so element by
element (`OverSlice`), and a map entry starts from a zero value (`OverMap`); unknown
keys are errors at every level (`Malformed`). What decodes is validated (`Invalid`),
and refused or split into the two passes of the table; then the routes are built, with
`WithDefaults` for the route and `Shards` for its handler, and events are dispatched.

The two lists of a `Router` are the table and the positions that went into each
(`opRules`, `collRules`): a pass that walks its list in configured order returns the rule
at the least position that matches (`Matching`).

Every table up to the bound comes from some file, invalid ones included. A glob is the
set of collections it matches. `kind`, collection and operation are matched as in the
code; `identity` stands for the kinds without a collection.

## Runs

Passing runs; `PROJECT.json` has a mutant of the code for every property, which the
same run must catch.

| Run | Question | Properties |
|---|---|---|
| `route_drop` | is every event accounted for in every interleaving, and does the drop policy implement the ledger? | `TypeOK OnePlace NothingLost RetryBudget NoSendOnClosed DrainComplete LedgerSpec` |
| `route_block` | is the invariant of the proofs true under the block policy, does a hanging handler hold up the stream or the shutdown, and does every buffered event leave when none hangs? | `IInv OfferReturns ShutdownCompletes EventsSettle` |
| `pipeline_shutdown` | what does a slow route cost the others, while running and in the shutdown, what does the final commit cover, and does each route keep its ledger? | `TypeOK FinalCommitReached CommitCoversSettled HealthyRouteLosesNothing HealthyRouteServed RoutesKeepLedgers` |
| `cursor_crash` | is the file what a restart needs, wherever the process dies? | `TypeOK CommitedIsDurable DurableSpec` |
| `cursor_both` | can two committers put the file ahead, and does it catch up after faults? | `NeverAhead FileCatchesUp` |
| `ingest_stream` | is anything behind the cursor skipped silently but by a slow dial, does a connection that held reset the backoff, is a dead connection noticed, does readiness follow lag and connection when dispatch hangs, and does `Run` return after the signal? | `TypeOK SilentGapNeedsSlowDial CursorIsNewestDispatched PromptRedial HalfOpenIsRecycled LagFailsReadiness DeadUpstreamFailsReadiness RunReturns` |
| `shard_bounded` | caps, duplicates, alerts and counts with two workers, replays and sheds | `TypeOK DuplicateBeyondCap AlertSpacing CountIsExact` |
| `config_tables` | is every key routed to a route that exists, deletes first, and does what runs have the parameters it needs? | `TypeOK UnknownUnreachable OrderImmaterial DeletesDiverted BuiltAsAssumed` |

Runs that end in a violation; each checks one statement of a comment, quoted in
`PROJECT.json` under `findings`.

| Run | What the code does instead |
|---|---|
| `cursor_truncated` | the final commit of `main` and a commit of the maintenance loop share one temporary file: one truncates what the other renames into place |
| `ingest_cold_start` | `Load` is never called; after an ordered shutdown that left a position in the file, the new process starts at the live tip and skips what was published since |
| `ingest_slow_dial` | the age of the position is judged before the dial; a dial of fifteen seconds outlasts the rewind, the server has dropped the position meanwhile, and the gap is not counted |
| `config_written` | the file is decoded over the default table: a rule that leaves a field out inherits what the default rule at its position pins |

Three more findings are about comments that a passing run contradicts, each with a property
that says what holds instead: that `Advance` is called for malformed frames
(`CursorIsNewestDispatched`), that the grace period is long enough for the ordered drain
(`FinalCommitReached`), and that a derived filter cannot drift out of sync with the table
(`TypeOK` of `Routing`).

What the properties do not say is as much part of the result:

- `DrainComplete` says that what is drained is gone from buffer and workers, not that
  it was settled: the signal cuts a retry backoff short (`AbandonRetry`).
- `NothingLost` and the ledger's `Withdraw` allow the offer of the block policy that the
  signal cancels, which no counter records.
- `SilentGapNeedsSlowDial` leaves out what `ingest_slow_dial` shows: a position is judged
  before the dial and used after it. The code allows a dial 20 seconds and rewinds 5 by
  default, and its comment calls the window the approximate retention; a window that is
  set 15 seconds short of the retention closes the gap. With `ReplayWindow` 0 nothing is
  judged, and nothing is claimed.
- `RestartOpensNoGap` is about an ordered shutdown with a position in the file. Of the
  restart itself nothing holds: with a disk that outlives the pod as without one, the
  new process has no position. If it took the one in the file, the same instance has no
  violation. README and manifest of the repository accept a start from live, for a pod
  whose disk does not outlive it.
- `CountIsExact` is about events observed in order, while the subjects that occurred
  within the window fit under the cap. When workers overtake each other, stamps are
  appended in the order of the lock, the trim stops at the first one that is not stale,
  and counts come out wrong. One live subject more than the cap evicts stamps that still
  count; TLC finds the miscount when that condition is left out.
- `DuplicateBeyondCap` needs neither an order nor a dedup window of a certain width: the
  window is measured in event time, and an event that is replayed has the time it had.
  Only the cap makes the shard forget it. What the width decides is when a second event
  about the same record counts, which no document bounds.
- `DeadUpstreamFailsReadiness` says how it ends: `refreshLag` may check `connected`, lose
  the processor, and set ready after `Run` has disconnected, and the process is then ready
  without a connection until the next failed dial.
- `FinalCommitReached` bounds the drains by the grace period. With the deployed values,
  25 seconds of 40, one slow route does not cost the final commit; two can, and in
  `pipeline_shutdown` a state with a kill in the second drain is reached, although the
  comment in the manifest calls the grace period long enough.
- `TypeOK` of `Routing` says that the filter holds collections, no globs. It does not say
  that whatever the table routes passes the filter: with `derive`, a rule without operation
  that spells out a collection is enough for the server to withhold what a glob, a rule
  for an operation or the fallback would have routed.
- `HealthyRouteLosesNothing` is about events in the buffers. What the final commit covers
  of a route whose drain expired is lost to it (`CommitCoversSettled`).
- `BuiltAsAssumed` covers what `withDefaults` and `Validate` look at. A `policy` that is
  neither of the two is accepted and acts as drop, in the models too; a partial entry for
  a route replaces the default entry, its block policy included; durations are not
  checked, and a negative `backoff_max` or `commit_every` panics.
- `gauge` is modelled with its two steps, read and store; an overtaken value stays until
  the next event, so nothing beyond its range is claimed.

### Bounds

- Route: four events over a buffer of two and two workers fill both, shed, and leave one
  event behind another in the buffer; two attempts give a retry and an exhaustion.
  `route_block` has one worker, so that a hanging call and a full buffer leave two offers
  that must come back. The proofs cover every size.
- Pipeline: two drop routes and a block route, a slot and a worker each; four events fill
  a route and reach another behind it, or make all three slow. A unit of the clock is
  13 seconds, drains and the admin server rounded up, the grace period down: two of
  three drains use it up. The proofs cover every size.
- Cursor: three or four positions, one or two faults and two process ends let a commit
  fail, a crash fall into it and a later one repair it. `CHECK_DEADLOCK FALSE`: once
  positions and stops are used up the model has nothing left to do.
- Ingest: a unit of the clock of `ingest_stream` and `ingest_slow_dial` is the rewind, 5
  seconds; a dial takes up to four units, as in the code, and window and retention agree.
  Both are cut down to a unit, so that a position can be retained, rewound, lapse, and age
  past the window during a dial within a clock that runs from 2 to 6; a delay of up to
  three differs from the first step of two; one restart shows that nothing is carried over.
  The dials of `ingest_cold_start` are no longer than the rewind and its window is three
  units, so that no gap has another cause than the restart. `SilentGapNeedsSlowDial`,
  `CursorIsNewestDispatched` and `PromptRedial` are proved for every value.
- Shard: four events over three subjects against a cap of two, two workers, one
  shed and one reconnect: the cap is exceeded in all three structures, a duplicate can
  arrive beyond it, and an eviction can hit a subject that is live or one that is not.
  `CHECK_DEADLOCK FALSE`: the stream ends. The proofs cover every size.
- Config: all tables of up to two rules over two collections and a glob, over two default
  rules, and files with partial, misspelled and out-of-range blocks. Two rules show every
  precedence between two classes of rules and every position of a default.

### Fairness

The Go scheduler runs every goroutine that can run, set timers fire, a `select` with a
ready case proceeds: weak fairness per step of a goroutine. A handler gets none in
`SpecWedged`; `EventsSettle` assumes that each of its calls returns
(`HandlersReturn`). The clock, the server, the network, the signal, and read errors
other than the idle timeout are never assumed. `ReadinessSpec` of `Ingest` assumes
nothing of `Dispatch`; `RunReturns` assumes that it returns (`DispatchReturns`), which
is `OfferReturns` of `Route`; both let the clock run during a backoff, which is a
timer. `FairSpec` of `Pipeline` has frames that arrive, waits that time out, workers
that receive and handlers that do not hang return; a hang need not end, and
`HealthyRouteServed` only asks that those of the route in question do. `FairSpec` of
`Cursor` assumes that the maintenance loop ticks on; faults are bounded there, which
stands for a disk that works again eventually.

## Proofs

### Route

`RouteProofs` proves the safety of a route for every number of events, every buffer
and retry budget, every policy and every finite pool of workers, from
`RouteAssumption`, which is what `withDefaults` establishes (`BuiltAsAssumed`). It says
nothing of the policy: any value but "block" is drop.

The properties are not inductive one by one: that no event is in two places needs that
what is queued was offered before; that none is lost needs that a worker in a backoff
has attempts left; that nobody sends on a closed channel needs that only `Drain` closes
it. `IInv` is their conjunction with `TypeOK` and four parts that say what a program
counter means (`ReaderInv`, `WorkerInv`), that what happened to an event happened after
it was offered (`Past`), and who closes and leaves the channel (`DrainInv`).

The argument has two layers. For each action a lemma `...Moves` says how the sets
`Offering`, `Queued`, `Held`, `Settled`, `dropped` and `Lost` change, and a lemma
`...IInv` derives `IInv'` from that. `StepIInv` collects them, `RouteInvariant`
concludes `Spec => []IInv`, and `RouteTypeCorrect`, `RouteOnePlace`,
`RouteNothingLost`, `RouteRetryBudget`, `RouteNoSendOnClosed` and `RouteDrainComplete`
read off their properties. `route_block` checks `IInv` with TLC.

`RouteRefinement` proves `Spec => LedgerSpec`. The status of an event is which of the
disjoint sets it is in (`StatusMeans`); the lemmas `...Moves` say which event changes
sets, so each action is one step of the ledger or none. That the ledger's bounds on
acceptance and refusal hold is a counting argument (`InFlightCount`): queued events are at
most the length of the channel, held events are the image of the workers. The theorem
covers every policy; TLC checks the ledger of a route alone under the drop policy, and that
of a block route in `pipeline_shutdown`.

### Pipeline

From `PipelineAssumption`, in which the drain timeout and the grace period are
positive (`Validate` does not check the former). `Places` says that an accepted event
is in the buffer or with a worker of its own route, `Phases` what `main` has done by
each program counter, `Clock` that no drain is older than its timeout. `Budget` is the
key to `FinalCommitReached`: the clock only advances during a drain of a route that is
slow, so the time since the signal is at most one timeout for each slow route that was
drained, plus the drain under way. The other two follow from `Phases` and the last
part of `Clock`: the reader has returned, so a drain that does not expire leaves its
route empty for good; and when the clock first advances everybody waits, so a route in
which nothing hangs has nothing left.

`PipelineKeepsLedgers` proves `Spec => RoutesKeepLedgers`, the refinement for every
number of routes at once. It needs one more invariant: by `Accounts` the events up to the
cursor are exactly those with a fate, only accepted events are buffered or held, and none
twice. With `Places` it makes the accepted events of a route those in its buffer and with
its workers (`InRouteCount`), so a full buffer is a full ledger and a free slot a free
place; and the event offered is the first new one of its route, whatever lies between them
for others (`OfferedInTurn`). One event changes its fate per step: a step in the ledger of
its route (`Becomes`), none in the others (`OthersStutter`).

### Cursor

`CursorNeverAhead` holds for any set of committers: every position on its way to the
file, in a buffer, an inode or a program counter, was read from `latest`, which only
grows (`AheadInv`). With one committer (`OneCommitter`), `Writing` says what the
temporary file holds at each step of `Commit`, and with `AheadInv` it is inductive. It
gives `CommitedIsDurable`, and the refinement: `Advance` consumes, the rename
persists, a crash loses the position, `Load` resumes, and all other steps stutter.
`cursor_truncated` shows that one committer is needed.

### Ingest

`IngestInv` (`TypeOK` and what `run`, `conn`, `dispatched` and `held` mean) gives
`CursorIsNewestDispatched` and `PromptRedial`. `SilentGapNeedsSlowDial` follows from
`GapInv`, which adds `Bridged`: whatever lies between the cursor and the next frame of the
connection was dispatched, is being dispatched, does not decode, or is in `excused` or
`outrun`. A dial that neither lapsed nor was outrun connects no later than one behind the
cursor, because it ends before the server forgets the position; one that lapsed records
what it skips; `ReadFrame` and `ReadMalformed` skip nothing that decodes; `HandleFrame`
takes the cursor to the end of the bridge; a new process has no cursor and nothing behind
it. No assumption relates the dial timeout, the rewind, the window and the retention: what
such a relation would rule out is the content of `outrun`.

### Shard

For every stream, number of subjects and workers, cap, width and threshold. `TypeOK` is
inductive; what it needs is a counting lemma, that an eviction leaves fewer keys than
the cap (`RecentFew`).

`ShardAlertSpacing` rests on `ThrottleInv`: every alert since the throttle last dropped
its table is at most as late as the entry of its subject.

`ShardDuplicateBeyondCap` rests on `OwnRecord` and `Remembers`: what one of the last
`MaxKeys` occurrences recorded is still there, or was recorded anew, later and at no
earlier a time. An eviction spares it because the records that are newer have different
occurrences, of which fewer than `MaxKeys` have followed (`TouchedSince`); a refresh only
happens to a stale record, so times grow.

`ShardCountIsExact` rests on `StreamOrdered`, `OwnStamps` and `Missing`: in order, an
occurrence that is no longer among the stamps of its subject is stale, or more than
`MaxKeys` subjects have occurred since. Trim and sweep remove what is stale, because
times ascend with the occurrences; a subject that the cap evicts has `MaxKeys - 1` others
in front of it in the recency list, and the newcomer makes one more
(`EvictedBehindCap`). When the live subjects fit, nothing live is missing.

### Routing

For every set of files, defaults, collections, globs and handlers, and tables of any
length. `RoutingInv` says that the file is one of those the assumption types, that the
router is the table split (`RouterCurrent`), that the routes built are those it can
produce (`AllBuilt`), and that an event was offered to the route of its key
(`EventRouted`). `UnknownUnreachable` is then a lemma about the operators: `Route` yields
one of `Routes` (`RouteAmongRoutes`). `OrderImmaterial` compares first matches: a
rearrangement that keeps the order within a pass takes the first match of the pass to
the first match (`FirstKept`). `DeletesDiverted` needs no more than that the operation
pass is asked first.

### Config

`ConfigBuildsAsAssumed` discharges what `RouteAssumption` and `Shard` ask of their
constants, for every set of files: numbers stay numbers through the decoding
(`EntriesNumbers`), every route the table can produce has an entry once `Validate` is
passed (`Validated`), and `WithDefaults` and `Shards` agree on the workers
(`DefaultsPositive`). `ConfigAssumption` says that what fits into a number is one, and
that rules, fallbacks and flags in files and defaults are of their types.

### Only model-checked

All liveness: `OfferReturns`, `ShutdownCompletes`, `EventsSettle`, `HealthyRouteServed`,
`FileCatchesUp`, `HalfOpenIsRecycled`, `LagFailsReadiness`, `DeadUpstreamFailsReadiness`
and `RunReturns` need `ENABLED`, which the prover does not handle. That the positions of
`Matching` and the numbers of `Recent` and `Trim` describe what the loops of the code
return is a matter of reading, not of proof; the loops would be recursive definitions.

## Not modelled

- Parsing: frames, records and URLs, and the bytes of the configuration. A frame
  decodes or not; so does a file.
- The distribution of the jitter; the length of a retry backoff in `process`, and the
  overflow of its shift beyond thirty attempts.
- Which shard a key hashes to (shards share nothing), and the 32-bit index of a hash.
- The content, retraction and default handlers, which keep no shared state but for the
  default handler's log throttle. That one has no lock and one worker by default; with
  more its effect is when a log line is written.
- The HTTP server, the metrics registry, logging; of the deployment only the grace period.
- Loss of power, and clocks that differ between server and process.

## Plan

1. `DefaultRoute`: the throttle without a lock under more than one worker.
2. The two committers of `Cursor` inside `Pipeline`, so that a commit of the maintenance
   loop and the final one meet during the drains.
3. Durations with their width in the backoff of `process`.
