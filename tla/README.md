# A verification project for ModelPointer

ModelPointer is an LLM gateway: it authenticates a client, checks its rate
limits, chooses an upstream for the model it asks for, relays the answer, and
retries elsewhere when the upstream fails. This directory holds TLA+ models of
the parts of it that are concurrent, stateful or hard to test, the TLC runs
that check them and the TLAPS proofs about them. `PROJECT.json` maps every
definition to the lines of the source it models.

Run `tlc -config X.cfg MC_Y.tla` for a model, and `tlapm M.tla` for a module of
proofs.

## 1. Inventory

| Component | Source | State it keeps | Operations | Model |
| --- | --- | --- | --- | --- |
| Circuit breaker | `core/src/upstream/circuit_breaker.rs` | four atomics: state, two counters, time of the last change | `can_execute`, `record_success`, `record_failure`, `reset`, `force_open` | `Breaker`, `CircuitBreaker`, `CircuitBreakerHistory` |
| In-process rate limiter | `server/src/rate_limit_memory.rs` | two maps of mutex-protected deques, a cleanup task | `check_rpm`, `check_tpm`, `record_tokens`, `cleanup_stale` | `MemoryRateLimiter` |
| Upstream group | `core/src/upstream/node.rs`, `routing.rs` | bindings, their breakers and running weights | `select_with_min_priority`, `select_swrr`, `select_weighted_hash` | `UpstreamGroup` |
| Request path | `server/src/server.rs`, `server/src/router.rs`, `core/src/upstream/retry.rs`, `core/src/rate_limit.rs` | the locals of handlers and stream tasks | limit checks, retry loop, relay, token charging, access log | `Gateway` |
| Registry | `core/src/upstream/registry.rs` | one snapshot of groups and providers, swapped atomically | `reload_all`, `register`, `select_with_min_priority`, `find_by_provider_id`, `find_for_responses`, limits, capacity | `Registry` |
| File configuration | `server/src/file_config.rs`, `server/src/db/route_store.rs` | none | a YAML file, or rows, to groups | `FileConfig`, `RouteStore` |
| Hot reload | `server/src/server.rs`, `server/src/db/*` | `last_mod` or `last_version`, what is applied | first load, poll, forced reload, for routes, API keys, quotas | `ConfigSync` |
| SSE line buffer and parsers | `server/src/router.rs` | bytes of an unfinished line | `push`, `flush`, usage and finish reason | `SseParser` |
| Stream tasks | `server/src/router.rs` | line buffer, relay channel, a `LogSink` | read a chunk, parse, send, end | `StreamRelay` |
| Shutdown | `server/src/server.rs` | none | signal, grace period, flush | `StreamRelay` |
| Access log writer | `server/src/log_sink.rs` | bounded channel, batch | `try_send`, flush by size and by time, `shutdown` | `AccessLog` (partitions not) |
| Redis limiter | `server/src/rate_limit_redis.rs` | sorted sets on a server that gateways share | three Lua scripts | `SlidingWindow`, `RedisRateLimiter` |
| Key commands | `server/src/key_cmd.rs` | `auth.yaml` | generate, disable, enable | not modelled |
| Middleware, CLI, observability, headers, TLS | rest | none that decides anything | | not modelled |

How they interact. A handler runs `check_rate_limits` against the limiter, then
the retry loop. Each attempt asks the *current* registry snapshot for an
upstream; the choice consults (and may move) the breakers of the candidates,
and the outcome is reported to the breaker of the chosen one, in whatever state
it is by then and whether or not its snapshot is still current. A streamed
success leaves the loop and is finished by a spawned task, which outlives the
handler, hands the body to the connection through a bounded channel and a
record to the access log through another; a shutdown waits until nobody holds
that other one. Pollers replace snapshots underneath all of that, and a request reads the
registry several times, each time the snapshot of that moment. Breakers are shared
without locks; a limiter's window is behind a map lock and a mutex that are
never held together; the running weights are behind one mutex that is taken
only after the candidates have been tested.

What is hard, and therefore what the properties are for, is in `hazards` of
`PROJECT.json`, at the line where it bites. In short: the gap between a load
and an unconditional swap (breaker), between a map and a mutex (limiter),
between availability tests and the pick (group), between a check and the charge
it was made for, between attempts and reports (request path), between two reads of the registry,
between the clock that stamps a script and the moment it is run (Redis), between
lines and the chunks they come in (streams), and between a
stamp and the content it stands for (hot reload).

What makes each component correct:

- *breaker*: no counted outcome is lost; non-overlapping calls behave like the
  sequential object; only a check that read the clock's last stamp too early
  probes an open breaker before its timeout;
- *limiter*: the RPM limit is hard, the TPM limit is overshot by what is in
  flight only, cleanup forgets nothing that counts; with Redis the same is true
  of several gateways, up to what their clocks and the network leave open;
- *group*: tiers are respected under concurrent changes, traffic is shared
  without drift or starvation, a hashed key keeps its upstream;
- *registry and file*: nobody is refused that could be served all along, whoever
  is sent was held to limits that a route gives the model, outcomes reach no breaker but their own;
- *request path*: one access record, one report per POST, tokens charged once
  and where they were used, denials cost nobody else, spillover holds through
  retries, streams are not retried, every request ends;
- *hot reload*: what the poller believes it has loaded is loaded; the last edit
  wins in the end;
- *streams and log*: what is read out of a body does not depend on how the
  network cuts it, a truncated body never looks complete, accepted records are
  stored once, and a shutdown loses none of them and ends.

## 2. Modules

| Module | What it is |
| --- | --- |
| `Breaker` | one breaker as a value, each method its effect in one step |
| `CircuitBreaker` | the same, one atomic access per step, any number of threads |
| `CircuitBreakerHistory` | adds the call that runs alone, and who opened the breaker, each for one property |
| `CircuitBreakerProofs` | theorems about `CircuitBreaker` and its solo calls |
| `MemoryRateLimiter`, `MemoryRateLimiterProofs` | limiter and cleanup task; theorems |
| `SlidingWindow` | what a rate limiter promises: the abstract specification |
| `RedisRateLimiter`, `RedisRateLimiterProofs` | gateways that share sorted sets in Redis, which implement it; theorems |
| `UpstreamGroup`, `UpstreamGroupProofs` | selection in a group of tiers, `EXTENDS Breaker`; theorems |
| `Gateway`, `GatewayProofs` | request path over breakers and registry, `EXTENDS Breaker`; theorems |
| `FileConfig`, `RouteStore` | from `routes.yaml`, or from rows, to groups, as operators |
| `Registry`, `RegistryProofs` | snapshots, reloads, and the requests that read them; `EXTENDS FileConfig`; theorems |
| `ConfigSync`, `ConfigSyncProofs` | one configuration resource and its poller; theorems |
| `SseParser` | line buffer and parsers, as operators |
| `AccessLog` | log channel and writer task |
| `StreamRelay`, `StreamRelayProofs` | stream tasks, clients and shutdown, `EXTENDS SseParser, AccessLog`; theorems |
| `MC_*` | constants, symmetry, views and constraints for TLC |

The layers fit as follows. `CircuitBreaker` is checked to implement the
method-level `Breaker` whenever calls do not overlap (`SoloCallsAreAtomic`) and
to lose nothing when they do. `UpstreamGroup` and `Gateway` use `Breaker`'s
atomic methods; in `Registry`, which follows bindings through reloads, only
whether a breaker refuses is kept. `Gateway` lets a selection return any available binding of the
right tier; `UpstreamGroup` says which one round robin or hashing takes, and
what may happen between test and pick. `Gateway` lets the limiter answer either
way; `MemoryRateLimiter` and `RedisRateLimiter` say when it answers which.
`Gateway`'s `Reload` is the moment at which `ConfigSync` applies the routes, and
`Registry` says what then becomes of the groups, the names and the providers. `StreamRelay` opens up what is
one step, `StreamEnds`, in `Gateway`: there the tokens of a stream are found or
not, here it is said when, and `records` there counts what `EmitAccessLog` here
sends.

### Breaker, CircuitBreaker, CircuitBreakerHistory

State: `state`, `failures` (`consecutive_failures`), `successes`, `lastChange`
(`last_state_change_ms`), and per thread the next access (`pc`), the method
(`op`) and the value last loaded (`local`). A thread runs `can_execute`; admitted,
it is "inflight" and later calls `record_success` or `record_failure` or is
dropped. `reset` and `force_open` belong to operators. Interleavings are of
sequentially consistent accesses: reorderings that weaker hardware allows
between a release store and a later acquire load of another atomic are not
modelled. The u32 counters stop at a cap above both thresholds, which no
comparison can tell from a larger value. `total_*`, `last_failure_time_ms`,
`window_duration` (which no code reads) and the gauges are left out. History:
the only call that has run (`solo`); while the breaker is open, the thread that
opened it with the times that could be stored for that (`opened`), and the checks
that have read the stored time before that thread has stored its own (`stale`).

### MemoryRateLimiter

State: `entry` (bucket to window object), `deque`, `mutex`, one record per
caller with the window it cloned, and the cleaner's pass. `GetOrInsert` is the
critical section of the map, `Lock` takes the mutex, `CheckRpm`, `CheckTpm`,
`RecordTokens` are the critical sections behind it, `Cleanup` is one entry of
`retain` with its `try_lock`. History: the admissions counted in the map's
window (`granted`), those counted in an orphan (`stray`), and how many callers
a cleanup caught (`caught`). The clock is assumed not to run backwards.

### SlidingWindow, RedisRateLimiter

`SlidingWindow` knows no scripts: units are counted in a bucket at a moment, a
caller asks and is let through or denied. Clocks may be off by `Slack`, so
units younger than `Window - Slack` surely count, those older than
`Window + Slack` surely do not, and in between either answer is right. A limiter
that cannot tell lets the caller through, as the code does when Redis fails.

`RedisRateLimiter` has per bucket the sorted set (`zset`) and its expiry, and
per caller where it is in its call. `BeginCheck` and `BeginRecord` read the
clock of the caller's gateway, which is ahead of the slowest one by up to
`Skew`. `RunRpm`, `RunTpmCheck` and `RunTpmRecord` are the scripts, which Redis
(external) runs one at a time, in any order, each within `MaxDelay` of its stamp;
the reply may be `lost`, and a script that is not run at all is `Fails`. A key
that has expired is empty to the next script (`Stored`). History: every unit
ever added (`log`), to which the abstract `used` is mapped, with
`Slack = Skew + MaxDelay`. Redis is assumed to keep what it is given: a restart
that loses data starts the windows anew.

### UpstreamGroup

A caller tests the bindings of a tier one at a time (`TestAvailable`, which may
move an open breaker to half-open), then picks under `swrr_lock`
(`PickSwrr`) or by the lowest score of its key (`PickHash`), or goes on to the
next tier. `strategy` is the routing strategy of the group, fixed when it is
built. The hash itself, blake3 and a logarithm, is the constant `Score`: any
order of the bindings for each key. (The code hashes the key with the base URL
alone. Two bindings with one base URL, say two accounts with one provider, thus
have scores in inverse ratio of their weights for every key, and the heavier
one is chosen always, although `routing.rs:113` speaks of "respecting weight
ratios".) Time is the age of each breaker's last change. `steady` is history:
what was available at every moment since the selection began. Bindings that
are unhealthy, disabled or of another runtime are not in `Enabled`.

### Gateway

One record per request. `Check` is one of the six checks of
`check_rate_limits` with either answer, `Select` one `select_with_min_priority`
or `find_by_provider_id`, `Headers`, `ReadBody`, `BodyError`, `ConnectError`,
`StreamEnds` the upstream's side, `RecordTokens` one bucket of
`RateLimitCtx::record_tokens`. The four `route_*` handlers are the same program
but for the search (`endpoint` "pinned" is `/v1/responses`) and for
`/v1/embeddings` never streaming; the map points each action at one of them.
`HangUp` is external: when a client disconnects, hyper drops the handler's
future at its current await. `Reload` marks every upstream in use as `old`, whose
breaker nobody looks at any more. History counts records, reports owed,
bindings reached, windows that counted the request and buckets charged.

### FileConfig, RouteStore, Registry

`FileConfig` translates what a parsed `routes.yaml` means: providers and regions
that resolve or fail the load, one group per protocol section of each route, its
tiers, weights, capacity and the limits of the route. `RouteStore` does the same
for the rows of the database, whose groups come in any order since they pass
through a hash map; a protocol it does not know is taken for OpenAI. `Registry` keeps the snapshot: groups, an index by name and
protocol in which the last claim of a name wins, and a map of providers that
takes the first binding of each credential. `Reload` replaces all of it; a
binding is known by the snapshot it belongs to, so that who holds one of an
older snapshot keeps it. A request reads limits (`ReadLimits`), capacity
(`ReadCapacity`) and an upstream (`SelectTiered`; `LookInOpenAi` and
`LookInAnthropic`; `FindStored`) from the snapshot of each moment. A `Report` of a
failure may open the breaker, one of a success leaves it as it is. History: what
was loaded last and from where (`loaded`, `source`), per request the file it read
its limits from (`ruled`) and the bindings that could have served it at every
moment since it came (`held`).

### ConfigSync

Init chooses the source (file or database) and the resource. The routes of the
database are three tables read by three queries without a transaction, all
else is one read. `Edit` is external: an administrator changes any tables and
normally the stamp (modification time, version). `LoadTable` and `LoadFails`
serve first loads and polls alike, `FirstStamp` is the file poller's first look,
`Poll` a tick. `missed` is history and marks the two ways in which a file's
change is lost (section 4). That the API key of the database may also be
looked up per request (`realtime`) needs no poller and is not modelled.

### SseParser, AccessLog, StreamRelay

A body is a sequence of parts: each line is one or more parts and a newline, so
that chunks may end before, inside and after it, and a part may begin inside a
multi-byte character (`inside`). A span that begins or ends there is no UTF-8, and
the parsers read nothing of it (`NotUtf8`). `Receive` takes any number of
parts and runs `Push` on them, which keeps the unfinished tail up to `MaxCarry`;
`Send` waits for room in the channel to the client, `SendFails` finds it
closed, `Finish` flushes the buffer and emits the record. Chat and messages
differ in the names of JSON fields only and share a reader; the Responses API has
one of its own, which remembers the event line. A client takes what is in the
channel when it likes, or never. `Disconnect` is external: a connection that
ends drops the channel's receiver, and the handler if it has not answered yet.
`Served` is the end of `serve()`, by the last connection or the grace period;
`Close` (external, axum_server) then ends the connections that are left.
`SinksDropped` is the condition on which `recv()` says None to the writer. The
flush timer may fire at any moment. Breakers and token windows are in `Gateway`,
not here; of the database it is left open which inserts fail.

## 3. Runs

| Run | Checks | Bounds | Shows |
| --- | --- | --- | --- |
| `breaker` | `TypeOK`, `NoLostOpening`, `NoLostClosing`, `NoLostProbeFailure`, `ProbesWait`, `SoloCallsAreAtomic` | 3 threads, 1 of them an operator, both thresholds 2, timeout 1, clock 3 | see below |
| `limiter` | `TypeOK`, `HardLimit`, `StraysWereCaught`, `SoftLimit` | 2 callers, an RPM and a TPM bucket of limit 2, 4 window objects, window 2, clock 4, responses of 1 or 2 tokens | see below |
| `redis` | `TypeOK`, `HardLimit`, `KeepsPromise` | 2 callers on gateways whose clocks differ by 1, an RPM bucket of limit 1 and a TPM bucket of limit 2, window 3, expiry 3 longer, delays up to 1, responses of 1 or 2 tokens, 3 members, clock 6 | see below |
| `group` | `TypeOK`, `Balanced`, `TierPreference`, `StickyKeys` | 2 callers, round robin or hashing with 2 keys that each prefer another binding, 2 primaries of weights 1 and 3, a fallback that is enabled and one that is not; a failure opens a breaker | see below |
| `group_fair` | `Smooth`, `NoStarvation` | 1 caller, round robin, 1 tier of 3 bindings of weights 1, 3 and 3 | see below |
| `gateway` | `TypeOK`, `OneRecord`, `OneReportPerPost`, `ChargedWhereServed`, `DenialSparesShared`, `SpilloverHolds`, `NeverResentAfterSuccess`, `EveryRequestEnds` | 2 requests, 2 bindings (primary, fallback), 2 attempts, 1 reload to either of 2 groups | see below |
| `registry` | `TypeOK`, `RegisterAgrees`, `NobodyIsMissed`, `HeldToItsLimits`, `OutcomesStayApart` | 2 requests for any of 5 targets, 2 reloads of any of 4 files (two of which fail to load) and a database | see below |
| `registry_stored` | `StoredIsFoundAgain` (violated) | as `registry` | finding 3 |
| `config_sync` | `TypeOK`, `SeenIsApplied`, `EventuallyCurrent` | 2 edits, silent ones allowed, forced reload after 3 polls | see below |
| `config_files` | `FilesAreFollowed` (violated) | 2 edits, no silent ones | finding 1 |
| `relay` | `TypeOK`, `AnyCutReadsTheSame`, `ClientIsTold`, `RecordsAreKept`, `ShutdownEnds` | 2 streams, one with any of 3 bodies of up to 6 parts; relay and log channel of 1, batches of 2, a buffer of 2 parts | see below |
| `relay_flat` | `FlatEventsAreRead` (violated) | the same with a flat Responses event | finding 2 |

Why the bounds are enough. Races between accesses are pairwise: two threads in
the gap and a third (an operator, or the thread that started the probe) to move
the breaker on show every order of accesses around it; thresholds of 2 make
"one short" and "reached" different, and a clock of 3 with a timeout of 1 lets a
timeout pass twice. In the limiter two callers and the cleaner are enough to
have one orphaned window in use while another one is in the map, and windows
are reused when nothing refers to them. In `redis` the slack, 2, is below the
window, 3, so that the promise means something, and the clock, 6, passes window
and slack together; the expiry outlasts the slack, so that it does not hide what the
range of a script keeps; the third member meets two others of any age. In the
gateway two requests share breakers with a threshold of 1, so one failure of
one request moves the other's choice; two attempts make a first, a retry and a
last one; a single reload separates old from new. In `registry` the first
reload fills the empty registry and the second changes it under a request; the
files move a model from one protocol to another, disable a primary, reorder
routes and let two of them claim one name, with limits that differ; the database
spells a protocol in capitals and has one that is unknown. In `ConfigSync` two edits are needed for a torn
read followed by a change, and the forced reload fires within the bound.
In `relay` a body has a line that outgrows the buffer before the line that
matters and a character inside of both, an event of two lines, a missing last
newline, or a line that is no UTF-8, in every division into chunks, those inside
of a character included; channels of 1 are full as soon as they are
in use, and two records are a full batch or one and a half.
Weights of 1, 3 and 3 make cycles of seven choices with
ties in them. The theorems of section 5 remove the bounds for what
they cover. The views leave out what no step and no checked property reads: the
locals of a call that is over, admissions too old to share a window with a later
one, the successes counted by a closed breaker. `SYMMETRY` is
used for threads and requests in runs of safety properties only; the clock's
bound is part of the guard of `Tick`, and runs with bounded clocks or reloads,
requests that are all over, or a server that refused to start do stop, which is
why deadlock is not checked there.

What the passing runs say:

- *breaker*. A closed breaker is never left at its failure threshold, a
  half-open one never at its success threshold nor with a failure on record,
  unless some call still running is about to act on it. The first test of this
  design that comes to mind, a load followed by an unconditional swap, is
  harmless because each such swap is to a state some counted outcome asked for,
  and whoever publishes closed or half-open zeroes the counters behind it. An
  open breaker lets nobody through before its timeout but a check that read the
  time of the last change before the opening thread had stored it; and the timeout
  counts from the opening, or from a change whose thread had read the clock and
  was overtaken before it stored the time (`ProbesWait`). Both are needed: without
  either clause TLC has a counterexample.
- *limiter*. Of the admissions counted in the map, any `limit + 1` span a full
  window, across evictions, cleanups and changes of window object; the
  admissions that escape are at most the callers a cleanup caught; tokens
  exceed the limit by at most what the requests in flight may add.
- *redis*. Gateways whose clocks differ, whose scripts arrive late and in any
  order, are lost, or lose their reply, behave as one sliding window: whoever is
  let through had room by the units surely in the window, whoever is denied was
  up against units that may all still count, and nobody is counted unless it was
  let through (`KeepsPromise`, a refinement of `SlidingWindow`). Hence no stretch
  of a window less the slack holds more counted requests than the limit; of the
  full window this is not true, which is what the slack is for.
- *group*. Running weights cancel out and stay within the greatest weight times
  the number of competitors, though each call has candidates of its own; nobody is sent to a lower tier
  while an eligible binding of a higher one was available throughout its
  selection; a binding that is a candidate infinitely often wins infinitely
  often. The last needs no fairness: it compares two sets of steps. With
  hashing, a key leaves a binding that it scores lower with only if that was
  unavailable at some moment of the selection.
- *gateway*. Exactly one access record for each request but those that hung up
  or named no provider; one report per POST but for a hang-up; tokens charged
  once, the primary tier's bucket only for what the primary tier served;
  denials touch no shared window; a spilled request stays spilled through
  retries and reloads; nothing is sent again once it is being relayed. A request
  that has been called can always take a step until it is over, and every step
  takes it further in an order in which it cannot go on for ever
  (`EveryRequestEnds`): it ends as soon as ready tasks are polled, timers fire,
  and the HTTP client's timeout (`app_context.rs`) gives up silent upstreams.
- *registry*. What `reload_all` stores is what registering the groups one by one
  leaves. A request is refused only if at some moment since it came nobody
  available could serve it, reloads in between or not; one exception is in the
  property, a `POST /v1/responses` that looks at two groups and is overtaken by
  a reload that moves its provider from the second to the first. It then misses
  only those who are, in the snapshot of its second look, in the group it had
  already seen. A request that is sent was held to limits that some route gives its
  name in the file they were read from, under any alias and protocol and whatever
  was reloaded since; that it had no limits at all, where a route states some,
  takes a reload between the look at the limits and the choice of an upstream. Reports on stored
  responses touch no breaker that routes models, reports on models touch no
  other, and a report that comes after a reload touches no current breaker.
- *config_sync*. A poller that holds the current stamp has the current content
  applied, torn reads included, since the version is read before the rows. With
  the database the last edit is applied in the end, even when it moved no
  version. Fairness: weak for the first look, strong for a poll that reads the
  stamp and for each table's read (`interval` ticks for ever; a query that is
  repeated for ever does not fail for ever).
- *relay*. For a body in valid UTF-8 whose telling lines fit the buffer, name at
  most one finish reason and, in the Responses API, carry their type
  themselves, the tokens and reason found are those of its lines, or of those that
  were received, wherever chunks end. One thing must not be (`Legible`): a
  multi-byte character so far into a line that the buffer may drop what it holds
  in the middle of it; section 4 says why. (With several reasons, as of several
  choices, the first of a chunk and the last of all chunks is logged.) A client whose
  response ends normally has all of the body. Each finished request's record is
  stored once unless the channel was full or its batch failed, through the last
  flush. A shutdown ends under weak fairness of the tasks (upstreams answer or
  time out), of the writer, and of the server's own steps; clients may stop
  taking anything at any time, and no signal need come.

## 4. Where code and documents disagree

1. `config_files`: `README.md:331` says that files are monitored and reloaded
   automatically. An edit between the first load and the spawned task's first
   look at the modification time is never loaded, nor is one whose load fails
   once, because the new time has been noted before.
2. `relay_flat`: a test (`router.rs:2828`) asks that tokens be counted for
   DashScope's flat `response.completed`, whose type stands in its event line
   only. `SseLineBuffer` hands over the lines of each chunk by themselves and
   `parse_responses_sse_chunk` starts each time without an event type, so a
   chunk that ends between the two lines loses tokens and status.
3. `registry_stored`: `README.md:277` has a client find a stored response by
   naming the provider that created it. The map of providers takes the first
   binding of each credential, whatever its protocol, while the object was
   created at the provider's openai endpoint: with the example routes the
   request goes to another URL of the same provider.

Lesser ones, seen while modelling and not run: the state of a breaker is swapped
to open before the time of the change is stored (`circuit_breaker.rs:275`,
`:279`), so a call in between times the breaker by an older change (`ProbesWait`
says that no other call may); the comment
at `rate_limit_memory.rs:82` allows one extra request per cleanup and key, where
every caller that holds a clone of the dropped window may be admitted in it
(`StraysWereCaught` has the bound that does hold); `README.md:153` sends
requests over the primary tier's capacity to the fallback tier, which
`/v1/responses`, whose client has pinned its provider, does not do.

A line longer than `MAX_CARRY` can cost more than itself. `push` clears the buffer
at whatever byte it has reached (`router.rs:463`). If that is inside a multi-byte
character, the next span begins with the rest of the character, `from_utf8`
rejects all of it, and a usage line in it is lost, although the body is UTF-8 and
the usage line is short. To see it, let the character of the long line in
`MC_StreamRelay` begin later (`Long == Data(4, {4}, ...)`) and drop the second
conjunct of `Legible`: TLC cuts the body after part 3 and `AnyCutReadsTheSame` fails.
The run keeps to bodies in which no character stands where that can happen.

The registry indexes groups by the parsed protocol, the store makes groups by the
spelling of it (`route_store.rs:168`, `:206`). A database with two spellings of one
protocol, or an unknown one, which counts as OpenAI, thus has two groups of one
name, and the one that the hash map yields last is used, the other one never.

## 5. Proofs

TLAPS proves, for every value of the constants that satisfies the modules'
assumptions (in `Breaker`, `CircuitBreaker`, `MemoryRateLimiter`,
`RedisRateLimiter`, `UpstreamGroup`, `Gateway`, `Registry`, `ConfigSync`,
`SseParser`, `AccessLog` and `StreamRelay`):

| Module | Theorem | `Spec` implies |
| --- | --- | --- |
| `CircuitBreakerProofs` | `TypeCorrect` | `[]TypeOK` |
| | `NothingLost`, `ClosingIsNotLost`, `ProbeFailureIsNotLost` | `[]NoLostOpening`, `[]NoLostClosing`, `[]NoLostProbeFailure` |
| | `ProbesWaitHolds` | `ProbesWait` (of `HSpec`) |
| | `RestIsSettled` | `[]RestsBelowThresholds` |
| | `SoloCallsAreAtomicHolds` | `SoloCallsAreAtomic` (of `HSpec`) |
| `MemoryRateLimiterProofs` | `LimiterTypeCorrect`, `HardLimitHolds` | `[]TypeOK`, `[]HardLimit` |
| | `StraysWereCaughtHolds`, `SoftLimitHolds` | `[]StraysWereCaught`, `[]SoftLimit` |
| `RedisRateLimiterProofs` | `TypeCorrect`, `HardLimitHolds` | `[]TypeOK`, `[]HardLimit` |
| | `PromiseKept` | `KeepsPromise`, that is `SlidingWindow!Spec` |
| `UpstreamGroupProofs` | `TypeCorrect`, `BalancedHolds` | `[]TypeOK`, `[]Balanced` |
| | `TierPreferenceHolds`, `StickyKeysHolds` | `[]TierPreference`, `[]StickyKeys` |
| | `SmoothHolds` | `[]Smooth` |
| `GatewayProofs` | `TypeCorrect`, `OneRecordHolds`, `OneReportHolds` | `[]TypeOK`, `[]OneRecord`, `[]OneReportPerPost` |
| | `ChargesHold`, `DenialHolds`, `SpilloverStays` | `[]ChargedWhereServed`, `[]DenialSparesShared`, `[]SpilloverHolds` |
| | `NeverResent`, `EveryStepGoesOnHolds` | `NeverResentAfterSuccess`, `EveryStepGoesOn` |
| `RegistryProofs` | `TypeCorrect`, `RegisterAgreesHolds` | `[]TypeOK`, `[]RegisterAgrees` |
| | `NobodyIsMissedHolds`, `HeldToItsLimitsHolds` | `[]NobodyIsMissed`, `[]HeldToItsLimits` |
| | `OutcomesStayApartHolds` | `OutcomesStayApart` |
| `ConfigSyncProofs` | `TypeCorrect`, `SeenIsAppliedHolds` | `[]TypeOK`, `[]SeenIsApplied` |
| `StreamRelayProofs` | `TypeCorrect` | `[]TypeOK` |
| | `ClientIsToldHolds`, `RecordsAreKeptHolds` | `[]ClientIsTold`, `[]RecordsAreKept` |
| | `AnyCutReadsTheSameHolds` | `[]AnyCutReadsTheSame` |

*Breaker.* `NothingLost` is inductive together with `ControlOK` (which method a
thread can be in at each access) and with the general form `Covered`, whose
clauses name, for each state the breaker may be in, the running call that
answers for its counters. A step of thread `t` either leaves the witness of a
clause alone or is the witness' own step, and then it has done what the clause
was waiting for. `RestIsSettled` is the same read between calls. The solo calls need
an invariant of their own, `SoloInv`: while a call runs alone, the four atomics
are, at each of its accesses, what the breaker was before the call with the part
of `Breaker`'s method done that lies behind it (`Underway`), so that at its end
they are what the method makes of it in one step, and so is the answer.
`ProbesWait` rests on `OpenedInv`: while the breaker is open, no time that is
stored, about to be stored, or was read by a check that is not stale, is older
than the oldest of `opened.times`; the one exception is the stored time, as long as
the thread that opened the breaker is `Stamping`. What happened before the
opening plays no part in it.

*Limiter.* `HardLimit` alone is not inductive: it speaks of all admissions ever
counted, the code sees only what is left in a deque. The invariant
`HardLimitInv` adds that distinct buckets have distinct windows
(`WindowsApart`), that only TPM windows receive recorded tokens
(`RecordersOnTpm`), that a pass's cutoff lies a window back or more
(`CutoffIsPast`), and `HistoryFits`: the deque in the map is the tail of
`granted`, and everything before that tail is older than any cutoff used. An
admission then finds fewer than `limit` entries in the deque, hence the
admission `limit` places back is among those evicted, hence old enough.
`StrayInv` counts in `caught` not only the stray admissions but also the callers
that hold a window outside the map and may still add one: a caller leaves that
set in the step in which it is granted. `SoftInv` does the same for tokens.
What is live in the deque and what the callers at work may still record, each
at most the dearest response, together stay below the limit and that much for
every caller: who is let through finds less than the limit, and who records has
stopped owing it. Sums over a deque are a recursive function; the facts about
its prefixes and its concatenations are proved by the least number that would
refute them, as below.

*Redis.* The script of a call sees what is stored, the promise speaks of all
that was ever counted. `Faithful` is the link: what is no longer stored is too
old to count for anybody, by whichever clock it was stamped and by whichever it
was thrown out, and what is stored grows old before its key expires. Each step
of the implementation then is one of `SlidingWindow`, or leaves its variables
alone; the hard limit is the inductive `WithinLimit` on top of it.

*Group.* `TierPreference` needs to know, of a caller that is still choosing,
that it has passed over nothing available (`NoneOverlooked`) and keeps to its
tier (`InItsTier`): a binding that was steady and has been tested has passed.
`Balanced` is a sum over a finite set of any size. What such a sum does when
terms change is proved by `SubsetInduction`: a least counterexample among
the subsets of one finite set, which needs no predicate as a parameter.
`Smooth` is a bound on each running weight, and not inductive: the winner pays
for all the candidates. The invariant is `Spread`, a bound on the sum of *every*
set of bindings: `t` of `n` of them are ahead by at most the greatest weight
times `t * (n - t)` together. A set that has the winner in it gives away at least
what it gains; one that has not is no further ahead of its bound than the
winner alone allows, since the winner was the largest of the candidates and the
bound is concave in `t`. With sets of one, and of all but one, it is `Smooth`.
An earlier form of `Smooth`, with the total weight of the group for its bound,
passed its run and is false in general: with weights 1, 1, 1 and 10 and
candidates that come and go a binding gets 15 ahead, in a group of weight 13.
`StickyKeys` adds `Settled`: whoever picks has tested all of its tier.

*Gateway.* The requests meet only in the group and its breakers, which no
property looks at; so the invariant is `RequestInv` of each request and a
step of one leaves the others' part alone (lemma `OneRequest`). Its parts
say what the fields mean at each place of the program: `Placed`, the number of
records (`Recorded`), the report owed (`Reported`), what the checks have
counted so far (`Checked`), where a spilled request has been (`Spilled`), and
that each bucket due is charged or still owed (`Owed`). `EveryStepGoesOnHolds`
is the half of `EveryRequestEnds` that has no `ENABLED` in it, and says besides
that each step lowers `Left`, a number of the steps that a request may still take
at most: an attempt counts for more than all that can happen within one.

*Registry.* What could serve a request is looked up in the snapshot of the
moment, so `RegistryInv` ties `held` to the snapshot and to the open breakers
(`HeldIsThere`) and, of a request between its two look-ups, says that what
it has seen is not what it was waiting for (`NothingLeftBehind`): if nothing is
found, nothing was held, save what a reload has since moved to the group it saw
first (`NotMissed`). `LoadInv` adds where the snapshot came from, and that
the limits a request has read are those of its name for as long as no reload
came in between (`LimitsRead`). Whatever a group of that snapshot has, it has from a
route that claims the name (`IndexedGroup`), so limits that were read from a group
are a route's; and a request that goes to a group under the snapshot in which it
looked for limits has found that group, or the one before it. `Ruled` keeps both
once they are so: no later step changes what was read, nor from which file. The configuration itself, files and databases
alike, is any that `FileConfig` and `RouteStore` translate; that `RegisterAgrees`
takes no induction, as it is about each group and those before it.

*ConfigSync.* Edits are numbered and a number is new when it is given
(`Bounded`), so a stamp or a table that has moved on never looks as it did
before; and the version is read before the rows, so rows read under a version
that still is the present one are the present rows (`LoadedIsCurrent`).

*StreamRelay.* The client's share of the body, the chunks in the channel and
the one to be sent follow one another in the body: there are places (`cut`, one per
chunk) at which the body was divided, and only an error, the last thing sent,
ends it early (`Told`). Each step adds a cut at the end or takes one from the
front. Of the log, that no record is twice in a sequence nor in two of them,
and that together they hold the finished requests (`LogOK`); that nothing is
sent once the writer has seen its channel closed (`Stopped`) makes the exit clean.
`AnyCutReadsTheSame` compares two readers: that of the body in one piece, and
those of the spans that `Push` hands over, one after another. `BufferReads` is the
invariant: after `n` parts the buffer holds what has come of the line it is in,
or, if more came than `MaxCarry`, what came after some of it was dropped; and it has
found what the first reader has by then. Within a span the two go `SideBySide`: their
texts differ only if the line outgrew the buffer, and then neither text tells
anything, being no whole line or one too long to count (`UnfinishedTellsNothing`); their events may differ,
which does not matter where data lines carry their type. `SpanRead` takes them
along a span part by part. That it is read at all, and not rejected, is where
`Legible` comes in: a span ends with a newline, and begins after one or where the
buffer was dropped, more than `MaxCarry` parts into a line (`ParseIs`). Where a
chunk ends plays no other role.

*Assumptions.* Constants are as the code has them: weights from 1 to 255, two
priorities, limits from zero on, thresholds of at least 1. Three that are less
obvious: the tokens of one response have a largest number (a `u32`); routes come
as a sequence from a file and as a finite set from the database; in a body
the first part of a line follows a newline, a newline the last part of one, and no
line begins inside a character (`InLines`), which is what lines of UTF-8 are. The
rest of a line that was dropped is assumed not to look like a line of its own, with
a `data:` in front (`Fragment`).

*Induction over data.* The theorems of the library that take a predicate cannot be
instantiated, so each use forms the set of numbers, or of subsets, for which a
statement holds and takes a least one outside of it (`NumberInduction`,
`SubsetInduction`, from a well-founded order). That is enough for recursive functions,
which is why sums over a deque and the readers of a body are written as such,
and for the sum over a set, a fold of the community modules.

What stays with TLC. Liveness (`ShutdownEnds`, `EventuallyCurrent`,
`NoStarvation`) and `ENABLED` (the first half of `EveryRequestEnds`) are out of the
prover's reach. The three properties that the code violates (section 4) have their
counterexamples. Every other property of the runs is a theorem.


## 6. Not modelled

- *Key commands* (`key_cmd.rs`): one process per command, which reads, changes
  and writes `auth.yaml` once. Two at the same time lose one another's changes;
  there is no state of the gateway in it, and its side of the file, an edit at
  any moment, is in `ConfigSync`.
- *Middleware*, *header utilities*, *command line, TLS and set-up*: pure or run
  once; nothing in them decides about a later step.
- *Observability*: written, never read by the program.
- *Database pool*, and `core/src/storage/model_route_store.rs`, which no code of
  the server calls.
- *Access log partitions* and the clean-up of old rows (PostgreSQL and a timer):
  statements to the database, of which the program keeps nothing.
- *Quotas and API keys*: their loading is in `ConfigSync`. Look-ups read an
  immutable map; the optional look-up of a key per request is one query.
- *Clocks*: one that is set back under the in-process limiter, which sorts its
  deques by the order of arrival; and a Redis that forgets.
- *Weak memory*: see `CircuitBreaker`.
