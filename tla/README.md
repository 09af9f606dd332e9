# Praxis in TLA+

Praxis is a proxy: it accepts HTTP (and TCP) connections, runs each request
through a configurable pipeline of filters, selects an upstream endpoint, sends
the request there, retries or hedges it when the policy says so, and runs the
pipeline again, backwards, on the response.  This directory holds TLA+ models of
the parts of Praxis whose correctness depends on interleavings, on the order in
which callbacks arrive, and on what one path of the code leaves behind for
another; TLC configurations that check them on small instances; and TLAPS proofs
that hold for every instance.  Every safety property of the passing runs but one
(`ResponsesMatch`) is also a theorem.

Paths below are relative to the repository root.  `PROJECT.json` maps every
definition to the lines it models.

## 1. Inventory

### Parts and how they interact

| Part | State it keeps | Operations | Model |
|---|---|---|---|
| Circuit breaker, `crates/core/src/circuit.rs` | per peer: state, generation, failure streak, two instants, in-flight count; a concurrent map of breakers | `precheck`, `try_acquire`, `record_success`, `record_failure`, `release`, `evict_idle` | `CircuitBreaker` |
| Retry budget, `crates/core/src/retry.rs` | per cluster: tokens, `last_refill_ms`, `active_requests`, all atomics | `enter`, `leave`, `try_admit_retry` | `RetryBudget` |
| Upstream attempts, `crates/protocol/src/http/pingora/handler/` | the per-request context: upstream, saved upstream, attempted endpoints, retry count, status, response phase flag | Pingora's hooks from `upstream_peer` to `logging` | `UpstreamAttempts` |
| Load balancer filter, `crates/filter/src/builtins/http/traffic_management/load_balancer/` | in-flight counter of each endpoint, shared by all requests | select on request and on retry, release on response | in `UpstreamAttempts` and `HedgeRace` |
| Filter pipeline, `crates/filter/src/pipeline/` and its drivers in the handlers | execution marks, branch counters, filter results, body-done marks | request phase, response phase, body hooks, pre-read, logging cleanup | `FilterPipeline` |
| Hedged requests, `crates/core/src/hedge.rs`, `.../request_filter/hedge.rs` | per race: attempts, copies, failures, deadline; per route: requests and hedges, atomics | start, admit, join, timer, cancel, deliver | `HedgeRace` |
| Circuit breaker filter, `.../traffic_management/circuit_breaker/mod.rs` | one breaker per cluster and generation, tokens of requests, an open gauge and its owner | acquire in `on_request`, settle in `on_response`, publish, drop | `CircuitFilter` |
| Sub-request client, `crates/core/src/subrequest/` | a semaphore of connections; per call a permit, a circuit token, a session | buffered, hedged, streaming and URL sub-requests | `SubRequest` |
| TCP proxy, `crates/protocol/src/tcp/`, `crates/filter/src/{pipeline/tcp.rs,builtins/tcp/}` | permits of two limits, claims, a gauge, in-flight counters per generation | accept, peek, connect filters, dial, forward, disconnect filters, shutdown | `TcpProxy` |
| Endpoint health, `crates/core/src/health.rs`, `crates/protocol/src/http/pingora/health/` | two streak counters and a flag per endpoint; a registry per generation; gauges | probe and passive results, carry-over on reload | `HotReload` |
| Hot reload, `crates/server/src/reload.rs` | pipelines per listener, metadata stores, the probes' token | build, carry over, swap, respawn probes | `HotReload` |
| Config watcher, `crates/server/src/watcher.rs` | content hash, backoff, pending change, channel of notices | debounce, read, reload, retry later | `ConfigWatcher`, abstractly `ConfigSync` |
| Sticky sessions, `.../sticky_sessions/store.rs` | map, eviction queue with generations | put, get, sweep | `SessionStore` |
| Rate limiting, `.../rate_limit/` | buckets per address, an approximate entry counter | acquire, evict, hard cap | `RateLimit` |
| Descriptor admission, `crates/core/src/fd*` | pending, connected and sampled counts | claim, connect, drop, sample | `FdAdmission` |
| Overload monitor, egress pool, key-value stores, hyper backend, TLS reload, SSE decoder, balancing algorithms | see `PROJECT.json`, `components` | | not modelled yet |
| Configuration, logging, admin, formatting filters | none that is shared | | not modelled |

A request meets these parts in this order.  The handler builds a filter context
and runs the request phase of the pipeline (for a pipeline that needs the whole
body, after a pre-read that already runs body hooks).  The load balancer is one
of the filters; it picks an endpoint, raises its in-flight counter and enters
the cluster's retry state.  The handler dials, Pingora forwards the body through
the body hooks, and the attempt ends by an answer, a reset, a failed connection,
a status that the policy retries, or the client's departure.  Each of these ends
is a different hook; those that may retry ask the retry budget, record the
endpoint as tried and clear the upstream so that the next attempt selects
another one.  A final response runs the pipeline in reverse, where the load
balancer gives the counter back; when no response came, the logging hook runs
that phase as a cleanup.  The logging hook also tells passive health how the
endpoint did.  A hedging route replaces the single attempt by a race of several.
Sub-requests (authorization calls, iterative routing) go through the circuit
breaker of their peer.  A TCP connection has a shorter way: limits, an SNI peek,
connect filters, a dial, forwarding, disconnect filters.  Beside the traffic, the
config watcher turns file changes into reloads; a reload builds a new generation
of pipelines and health registry and swaps it in listener by listener, while
requests that loaded the old generation keep it to their end.

### What is hard

* *Counters shared by all requests and returned on many paths.*  Every early
  return, rejection, retry and cleanup must return exactly what was taken.
* *State that belongs to an attempt but lives on the request.*  Statuses, saved
  upstreams and marks of one attempt are read while judging the next.
* *Lock-free updates.*  Retry budget, hedge budget and descriptor counts are read
  and exchanged in several atomic steps; breaker, limiter and sessions act on a
  clock reading or a lookup that is old when it is used.
* *Two-phase sweeps.*  Candidates for eviction are collected, then removed; maps
  and the counters or queues that bound them change in different steps.
* *Two generations at once.*  During and after a reload old pipelines, probes and
  breakers live on beside new ones and write to the same gauges.
* *Events that are not repeated.*  A file change is announced once, and has to
  survive failed builds, debouncing and backoff.
* *Interpreters with jumps.*  Branches skip, re-enter, nest and terminate; the
  response phase has to undo whatever really happened.
* *Cancellation.*  A task may be dropped at any await, and before its first poll.
* *Timers.*  A probe that outlives its timeout, a hedge timer racing an answer.

`PROJECT.json`, `hazards`, lists 40 of them at the lines where they bite, each
with the properties that would catch it, or why none does.

## 2. Modules

| Module | Models | Size of one step |
|---|---|---|
| `CircuitBreaker` | breakers of all peers, the registry map, clients, the idle sweep, the clock | one critical section of a breaker's mutex |
| `UpstreamAttempts` | requests between selection and logging, endpoint and cluster counters | one Pingora hook |
| `RetryBudget` | one cluster's bucket and the requests racing on it | one atomic operation |
| `FilterPipeline` | one request's way through one pipeline | one filter call or one branch decision |
| `HedgeRace` | the races of one route, their attempts, the shared budget | one atomic operation or one await of a driver |
| `CircuitFilter` | one cluster's breakers over the generations, the requests through them, gauge and owner | one read, critical section or publication |
| `SubRequest` | the sub-requests of several tasks, the semaphore, the tokens | the code between two awaits |
| `TcpProxy` | the connections of one listener group, its accept loop, reload and shutdown | the code between two awaits |
| `SessionStore` | the session map, the eviction queue, request threads | one shard-locked or mutex-locked operation |
| `RateLimit` | buckets, entry counter, eviction passes, request threads | one operation on a shard or atomic |
| `FdAdmission` | claims, charges, samples, requests and samplers | one atomic operation |
| `ConfigWatcher` | the two files, notices, the watcher's loop, the clock | one file read or one step of the loop |
| `ConfigSync` | what the watcher promises: adoptions of texts that were on disk | one adoption |
| `HotReload` | generations, listener slots, registries, probers, requests, gauges | one step of `reload_pipelines`, one registry or gauge write |

Seven modules hold the theorems: `CircuitBreakerProofs` (breaker, breaker filter
and sub-requests), `UpstreamAttemptsProofs`, `HedgeRaceProofs`, `PipelineProofs`
(the HTTP pipeline and the TCP proxy), `StoresProofs` (retry budget, descriptor
admission, sessions, rate limiter), `ConfigWatcherProofs` and `HotReloadProofs`.
`Counting` holds what several of them need of finite sets (section 4).  `Totals`
defines the sum of a function over a finite set as a number of units, in which
form the provers can reason about it.

The `MC*` modules give symmetries, the pipelines used by TLC and the outcomes a
policy retries.  The `.cfg` files give constants their values; each names one
question.  `MCCircuitBreaker`, `MCFilterPipeline` and `MCStores` put several
modules side by side: a variable `focus`, chosen initially, says which of them a
behaviour exercises, and the others stay as they began.  They share no variable,
so this is the union of their behaviours and not their product; a property of one
is trivially true where another has the focus.

The modules are separate where the code couples them loosely.
`UpstreamAttempts` lets the retry budget refuse at any time, which covers every
behaviour of `RetryBudget`; `FilterPipeline` lets any filter pass, reject,
answer or fail, which covers the load balancer; `HedgeRace` and
`UpstreamAttempts` share the in-flight counter idea but not a variable, because
a request is either hedged or attempted singly and the counter is only ever
incremented and decremented by the holder.  `SubRequest` lets the breaker refuse
or grant at any time, which covers `CircuitBreaker`; `CircuitFilter` has the
breaker's own transitions, because the gauge depends on them.  `ConfigWatcher`
takes a reload as one swap that may fail; what happens inside is `HotReload`.

### CircuitBreaker

`breakers[p]` is `CircuitInner`, `present` the keys of the map.  `TryAcquire`,
`RecordSuccess`, `RecordFailure`, `ReleaseToken` and `IsIdle` are functions from
a breaker to a breaker, one per method.  The actions put them into the critical
sections: `Lookup` and `AcquireExisting` are the two halves of `try_acquire` on
an existing entry (clock read, then mutex), `AcquireEntry` the insertion under
the shard's write lock, `Fail` and `FailLocked` the halves of `record_failure`.
A client that holds the shard's read lock keeps writers away (`Readers`).
`Collect`, `RemoveIf` and `SweepEnd` are `evict_idle`.  Two history variables
serve the properties: `barred` (end of the last recovery window) and `outdated`
(clients whose request predates the last opening or probe).  An evicted entry
keeps a blank record so that `breakers` stays a total function.  The lock-free
mirror of the state is left out: every critical section that changes the state
stores it before it ends, and `precheck` reads it only to skip the mutex when
the breaker is closed.

### UpstreamAttempts

`req[r]` is the part of `PingoraRequestCtx` that survives from hook to hook,
with Option fields as sets of at most one endpoint, followed by history fields.
`load` and `active` are the shared counters, decremented with saturation as in
the code.  Which hook comes next is the environment's choice, inside what
Pingora does: a retry is dialled again unless Pingora's own cap is reached
(`GiveUp`, external).  The Pingora replay buffer (`Truncated`) is external too.
Four constants say what a deployment can meet: body filters, interim responses,
response filters that reject (or whose rejection, or the balancer's own response
condition, keeps the phase from reaching the balancer), terminal responses.

`Groups` are the inner strategies of the cluster's strategy, each with the
endpoints it selects from: one for a simple strategy, one per zone, tier or
subset of a composite, and the empty one for a strategy that may find nothing.
`load` has a counter for each endpoint of each group (`Slots`).  A selection
comes from any one group, counts there, and falls back to tried endpoints when
all of *that group's* were tried (`strategy.rs:97`), although another group may
have untried ones; a release goes to every group that has the endpoint
(`zone_aware.rs:104`), so where groups overlap the counters are approximate, as
the comment there says.  Which endpoint and which group a selection comes from is
any candidate, so health, weights and hashes only narrow it.  The deadline and
the retry budget are refusals that can come at any time.  Left out: header
rewriting, TLS parameters of the peer, tracing, metrics.

### RetryBudget

`th[t]` holds the local variables of `try_admit_retry` and of the loops it
calls; each load, compare-exchange and store is an action.  A second has
`Second` clock units.  A spurious failure of `compare_exchange_weak` repeats its
loop, which is a stuttering step.  `minted`, `wins` and `admitted` are history.
The percentage is a whole number.

### FilterPipeline

`idx` walks the main path; `stack` holds one frame per branch evaluation in
progress (host, branch, position in the chain).  `SkipByConditions`, `RunFilter`
and the `Rejoin...` actions are the iterations of `execute_http_request` and
`evaluate_branches`; the response phase is computed in one step because nothing
interleaves with it that it reads.  `results` remembers *who* published a match,
under the type name the code uses as key, and whether that happened in an
earlier pass; so a property can tell a fresh result of the host from anything
else found under its key.  `upstream` is who selected and which address: the code
compares the `Arc`s and not what they hold, so another selection of the same
address is another upstream.  The response phase leaves out any filters with
response conditions that the header does not meet, the same filters in the
response body hooks, which look at a snapshot of the header; those passed over
are remembered in `bypassed`, and `ResponsesMatch` asks `on_response` of every
executed filter that is not among them.  `WellBuilt` are the checks of `build_branch.rs`, and
that no filter lies in its own branches: a `PipelineFilter` owns its branches,
they own their filters, so the tree is one by construction.  `Subtree[f]` is the
least set that holds `f` and the branches of its members, written without
recursion so that it can be proved about.

### HedgeRace

`race[r]` is `HedgeRace` with the locals of `drive`; `task[r][e]` the attempt's
tokio task.  `AdmitCheck` and `AdmitExchange` are the halves of `try_admit`;
between them other races move.  `Reap` is the runtime dropping an aborted task,
at any later time.  A panic is the result `miss` with the endpoint recovered
from the task identifier (`JoinedName`).

### CircuitFilter

`breaker[g]` is the cluster's breaker of generation `g`, with the transitions of
`CircuitBreaker` taken by `INSTANCE`; `stage[g]` its life from the claim of the
gauge through `built` and `current` to `gone`.  `Before`, `Operate`, `After` and
`Publish` are the four steps of each instrumented operation.  `Discard` is a
reload that fails after its filters were built.  A request keeps its generation
until it leaves, so a breaker is dropped only when none does.  A token is kept in
the request's filter state and has no `Drop`.  It is settled by `on_response`
(`Before` with an outcome, or `ReleaseUnreached`) if that runs.  It does not run
when another response filter rejects first (`pipeline/http.rs:293`, with
`response_phase_done` already set) or a response condition skips it
(`LeaveUnsettled`); and a second `on_request` of a re-entered filter writes its
token over the first one (`circuit_breaker/mod.rs:292`; the second disjunct of
`Before`, and `Operate`).  `lost[g]` counts the tokens of generation `g` that
nobody can settle any more; `in_flight` never comes down for them, and what
recovers a lost probe is the half-open timeout.  The model lets a request whose
second acquisition was rejected be settled in any way the first token allows,
which is more than the code does.  One cluster and
one listener; the clock is read together with the mutex, since `CircuitBreaker`
already covers reading it earlier.

### SubRequest

`exchange[t]` is one call with what it holds; each `pc` is an await.  `Start` to
`Read` are `open_exchange_inner`; `collect` and what follows are the buffered
body, `stream` and what follows `SubResponseBody`.  `Abandon` drops the future at
any await, `DropBody` the stream, which then disposes of its session in a task of
its own (`detached`).  `late` says whether the call's deadline has passed.
Verdicts and the addresses a request was sent to are history.  Left out: sizes
(a chunk is within the limit or beyond it), counts of interim responses (any
number, or too many), deadlines too large to represent, the pool behind the
connector.

### TcpProxy

`tcp[s]` is one connection; its `pc` is the await it stands at and `gen` the
pipeline generation it pinned.  `ConnectFilter` runs one filter of the chain,
`DisconnectFilter` one in reverse; after a rejection the disconnect filters run
only if an upstream is set, and then all of them, as in the code.  `Chain` lists what each filter
is, `FailsOpen` those with failure mode open.  `saw` is whether the connection's
receiver has consumed the flip of the shutdown.  One listener group; the strategy
picks any endpoint; a handshake holds nothing that is counted; panics are left
out; Pingora's accept loop is taken to behave like the hyper one.

### SessionStore, RateLimit, FdAdmission

Each thread's `job`, `call`, `request` or `sampler` holds the locals between two
atomic steps.  `SessionStore` keeps of time whether an entry has expired and
whether it was used since it was queued; `lock` is the queue's mutex, which the
eviction holds while it looks at the map, and which a `put` that found the map
full waits for without looking at its size again (`LockQueue`).  `put` finds no
entry and sweeps in one step, and `evict_one` reads the clock with the mutex
instead of just before; neither reading is used by anything else.
`RateLimit` reads the clock once per request, at its start.  A new bucket is
inserted and then counted, with its shard locked meanwhile but the counter read
by everyone else (`InsertBucket`, `CountBucket`); an eviction pass goes through
the map shard by shard, one client to a shard, and subtracts at the end what it
removed (`RetainShard`, `EndRetain`, `SubtractEvicted`).  So the counter is
approximate, as `rate_limit/mod.rs:109` says, and `CapHolds` says by how much.
The claim of a pass and its look at the soft cap are one step.  `window` is an observer that starts to count one
client's admissions at any moment; when a pass evicts the client's bucket, `from`
becomes that pass's reading of the clock, and requests that read the clock
earlier are no longer counted (section 4 says why).  `FdAdmission` models what requests open
(at most `Cost` each) beside the three counters that estimate it.

### ConfigWatcher and ConfigSync

A document is the sequence of its writings, `disk.doc` the last one, and
`text[d]` is what writing `d` says: `EditDoc` may write an earlier text again.  A
hash is the pair of texts it was taken of, so it does not tell two writings of
one text apart (`SameText`).  `ReadMain`, `HashDoc` and `LoadDoc`
are the three reads of one attempt, with edits in between.  `notices` are what
the kernel has still to deliver, `queue` the bounded channel.  `ArmTimer` and
`Decide` are the two clock reads of an iteration; `ReadsApart` says whether time
may pass between an iteration's `Decide` and the next one's `ArmTimer`.
`ConfigSync` is the abstract specification: adoption of a loadable pair of texts,
each on disk at some moment since the previous adoption.  The mapping is by name
(`disk`, `served`, and the history variable `held`).

`PutBack` is the one order of edits that the code strands: the document is hashed
in one text and loaded in the next, and then put back to the first.  The
unchanged-content check finds the recorded hash and skips the reload
(`watcher.rs:342`), and the second text is served until the next edit.  `InSync`
and `Converges` say that it is the only one.

### HotReload

`gen` numbers the builds; `conf[g]`, `reg[g]` and `prober[g]` belong to build
`g`, `slot[l]` is what listener `l` serves.  `phase` walks `reload_pipelines`:
fallible steps, carry-over endpoint by endpoint, swap listener by listener, two
metadata stores, cancellation, gauge seeding, new probes.  A request keeps the
generation it loaded; it may fare otherwise than the probes, and it may end
without an observation (`EndUnobserved`: the client left, or no upstream was
contacted).  Counting the endpoints, writing the healthy gauge and writing the
total are three steps, so old and new probers, passive observations and the
reload overwrite each other's pairs half-way.  `sick` is
which endpoints really fail, `steady` those known down since the reload began
with no success since.

## 3. Runs

Passing runs:

| Run | Instance | Distinct states | What it shows |
|---|---|---|---|
| `circuit` | registry: 1 peer, 3 clients, threshold 2, window 2, probe timeout 1, time to 4; filter: 2 requests, 2 generations, 1 lost token, time to 1; client: 2 tasks, 4 kinds of call, 2 addresses, 1 permit | 577,161 | `SlotsMatchTokens`, `SingleProbe`, `WindowHonoured`, `OutdatedOutcomesIgnored`; `FilterSound`; `HoldingsReturned`, `VerdictFits`, `NoResend` |
| `attempts` | 1 request, 3 endpoints, a strategy over two of them inside one over all, 2 retries, everything a deployment can meet | 61,706 | `ObservedWasDialed`, `ReplaySafe`, `AlternateFirst` |
| `accounting` | 2 requests, 2 endpoints, a strategy that may find none, 1 retry, the four deployment constants off | 1,792,921 | `CountersExact` |
| `pipeline` | HTTP: 4 main filters, 5 branches at two depths, one per rejoin kind, request and response conditions, streamed and pre-read bodies; TCP: 3 connections, router, balancer and guard, 2 permits, 1 reload, shutdown | 304,879 | `ResponsesMatch`, `BodyAfterRequest`, `TerminalFailsClosed`, `FiresOnOwnResult`, `RequestPhaseEnds`; `ConnectionsAccounted`, `ShutdownDrains` |
| `hedge` | 2 races, 2 endpoints, fan-out 2, limit of 3 attempts, a budget of half the requests | 424,904 | `CopiesBudgeted`, `LostOnlyWhenSpent`, `FailureFaithful`, `SlotsExact`, `HaltIsFinal`, `RaceEnds` |
| `stores` | budget: 2 retrying threads and one that enters and leaves, rate 2, 3 units a second, time to 4; sessions: 3 keys, 2 threads, 1 entry, LRU; limiter: 3 addresses, 2 threads, hard cap 1, time to 3; descriptors: 3 requests, 2 samplers, room for 2 | 1,323,144 | `BudgetExact`; `EveryEntryEvictable`, `StoreBounded`, `RefreshedSurvives`; `LimiterSound`; `NeverOvercommitted` |
| `watcher` | 2 edits of either file, 2 texts of the document, main texts that load, do not parse or cannot be read, a channel of 1, backoff to 2 | 359,720 | `InSync`, `Converges`, `ImplementsSync` |
| `reload` | 2 listeners, 1 endpoint, 4 configurations, 1 reload that may be refused and tried again, 1 request, 2 failures or recoveries | 1,055,019 | `GenerationsAgree`, `KnownDownCarried`, `HealthConverges`, `GaugeCatchesUp` |

Type invariants are a conjunct of the first invariant of each part.

Why the bounds are enough for the question:

* `circuit`: three clients are the fewest for a stale token, a probe that timed
  out and the probe that replaced it; four ticks hold one recovery window, one
  probe timeout and a window after that.  Breakers of different peers share only
  the sweep, so one peer is enough for TLC; the proofs cover any number.
* `attempts`: three endpoints and two retries exhaust the untried endpoints and
  can return to a tried one; a group inside another is tried out while the other
  has an endpoint left, and its counters overlap; a body of two chunks with a
  limit of one overflows the replay buffer.
* `accounting`: two requests are the fewest for one to release the other's slot.
* `circuit`, filter and client: two generations are the fewest for a token that
  outlives its pipeline; two calls on one permit make each wait for the other's
  disposal, two addresses are the fewest for a resend.
* `stores`: a clock unit of a third of a second makes `Rate` tokens accrue at
  intervals that do not divide evenly, so rounding and remainder matter; two
  refillers are the fewest for a lost exchange.  Caps of one entry with two
  threads overshoot at once; three keys let a victim return under a new
  generation while its old occurrence is still queued.  Three descriptor
  requests with room for two, and two samplers, let a charge be absorbed by the
  sample that missed it.
* `watcher`: two edits are the fewest for one to arrive between two reads of the
  attempt that the other caused, and for a document to be changed and put back; a backoff of two windows of different length
  makes a change wait inside a window that another change began.
* `reload`: two listeners are the fewest for a half-done swap; checks with
  different thresholds let probes and traffic disagree; one completed reload
  (`MaxGen = 2`, with the first generation numbered 1) has probers and a request
  of two generations alive at once.  The two safety properties are proved for any
  number of reloads; the two liveness properties are checked over one.
* `pipeline`: the tree has a sibling pair, a nested jump, a terminal chain and a
  backward jump with limit two, so marks of an earlier pass survive a re-entry
  and are judged by the next one.
* `pipeline`, TCP: three connections on two permits contend; one reload gives two
  generations of counters.
* `hedge`: two races on a budget that admits one copy contend for the last
  admission; a third attempt finds no endpoint left.

`CHECK_DEADLOCK FALSE` appears where the system may stop: in `UpstreamAttempts`
requests finish and are not replaced, `ConfigWatcher` stops at a shutdown,
`HotReload` and the violation run of `CircuitFilter` come to rest at their
bounds.  The other models go on for ever or stutter at the end by an explicit
step.

Fairness.  Each assumption is weak fairness of something the runtime or the code
itself bounds:

* `FilterPipeline`, the request step: a request is one task, its hooks return,
  and a woken task is polled.
* `HedgeRace`, each driver and each attempt: a woken task is polled, every
  exchange has a deadline of its own (`exchange_timeout`), a sleep ends.
* `TcpProxy`, the accept loop's reaction to the shutdown and every await of a
  connection except forwarding: the peek, the dial and the handshake have
  timeouts; forwarding is only counted on to end by a shutdown.  The one
  exception is the write of the peeked bytes (`tcp/proxy.rs:438`), which has no
  timeout: the model assumes that it returns, and `ShutdownDrains` would not hold
  for an upstream that accepts and never takes one peek buffer.
* `ConfigWatcher`: the thread runs, notices are delivered, time passes, and the
  transient cause of failed builds ends.
* `HotReload`: probers, requests and the reload itself run.  Edits, failures and
  arrivals are not fair and are bounded.

None assumes that an attempt succeeds, that an admission is granted, or that a
client stays.  The other modules state safety only.

Runs that end in a violation, each contradicting a sentence of the repository:

| Run | Property | What the code does |
|---|---|---|
| `reject_leak` | `LoadDrains` | `response_phase_done` is set before the response filters run (`handler/response_filter.rs:88`).  A filter behind the load balancer that rejects the response stops the phase before the balancer's `on_response`, and the cleanup in `logging` then believes it ran: the in-flight counter stays raised. |
| `hedge_unpolled` | `SlotsExact` | The guard that releases a load slot is created inside the attempt's future (`request_filter/hedge.rs:428`); a task aborted before its first poll has none. |
| `lost_retry` | `DeferredRetried` | `backoff_remaining` answers None both for "nothing to wait for" and for "the window just ended" (`watcher.rs:164`).  An event is deferred inside the window, the window ends before the next iteration reads the clock, and the select is entered with a pending change and no timer (`watcher.rs:238`): it waits for an unrelated event. |
| `open_gauge` | `NoStaleSeries` | Publishing does not ask who owns the gauge (`circuit_breaker/mod.rs:107`).  A generation that is built and discarded takes the ownership away from the live one; when that trips and its cluster is removed, nobody clears the gauge. |

The same formulas with the hazard's precondition absent are what the passing
runs check: `SlotsExact` when every aborted task has been polled once (`hedge`,
`UnpolledAborts = FALSE`), `Converges` when no time passes between the two clock
reads (`watcher`, `ReadsApart = FALSE`), `CountersExact` without rejecting
response filters (`accounting`).

### Disagreements described and not run

The `accounting` run keeps `BodyFilters`, `Interims`, `ResponseRejects` and
`Terminals` at FALSE because `CountersExact` does not hold with them.
The model reproduces each of these when its constant is set:

* *Body hooks write an upstream back* (`handler/body_util.rs:191`).  The context
  for body hooks is rebuilt from the upstream saved for retries and written
  back, so an upstream cleared for reselection reappears and is released again,
  or instead of the endpoint really held.
* *Interim responses release too* (`load_balancer/mod.rs:485`).  The response
  phase runs for a 1xx as for the final response and `lb.selected` is not
  cleared, so the counter is released once for each.
* *Terminal responses leave twice* (`terminal_responses.rs:121`).  The fields
  written back after a terminal response do not include the released flag of the
  retry state, so `logging` leaves `active_requests` a second time; the counter
  saturates at zero but may take another request's place.

`CircuitFilter` needs no such constant, because `FilterSound` counts what is lost:

* *A circuit token can stay unsettled.*  The rejecting response filter of
  `reject_leak` also stops the phase before the circuit breaker's `on_response`
  (`handler/response_filter.rs:88`, `pipeline/http.rs:293`), a response condition
  skips it, and a re-entered filter writes over its first token
  (`circuit_breaker/mod.rs:292`).  Each leaves `in_flight` raised for the
  breaker's life.

The model also refutes these formulas, which stand in the modules beside the
properties that hold; a run for each would add nothing to the schedule:

* `FailureEarned` (`UpstreamAttempts`): `upstream_response_status` is not cleared
  between attempts (`handler/response_filter.rs:67`), so a client that leaves
  during the second attempt is judged by the first one's 5xx, against the second
  endpoint.  `handler/health_util.rs:113` says of a request the client ended that
  neither passive health nor the circuit breaker may count it.
* `ObservedWasDialed` (`UpstreamAttempts`) with body filters and a reselector that
  finds no endpoint (`{}` among `Groups`): the upstream that the body hooks wrote
  back is dialed instead (`handler/upstream_peer.rs:174`) and
  `selected_endpoint_index` still names the endpoint of the attempt before
  (against `:227`, "it must name the endpoint that actually served the request").
* `InSync` (`ConfigWatcher`) without its exception `PutBack`: an edit that puts a
  document back to the text hashed for a reload that loaded another one is
  skipped as unchanged (`watcher.rs:342`), and the other text is served until the
  next edit.
* `OnlyExecutedRespond` (`FilterPipeline`): a body filter that rejects during the
  pre-read ends the request before any filter is marked, and the response phase
  takes "not marked" for "executed" (`pipeline/http.rs:283`, against
  `docs/architecture/pipeline-concepts.md:85`).
* `TerminalSelectsItself` (`FilterPipeline`): `upstream_before` is read once
  before all branches of a host (`pipeline/http.rs:218`), so the selection of a
  sibling that rejoins lets a terminal branch forward that selected nothing
  (against `docs/filters/branch-chains.md:195`).
* `FiresOnOwnResult` (`FilterPipeline`) with two hosts of one type: results are
  keyed by type name and stay while a chain runs (`pipeline/evaluate.rs:102`), so
  a nested host fires on the outer host's result.  The passing run has distinct
  types.
* `ClearedStayCleared` (`HotReload`): a prober or a request of the old generation
  that has counted and not yet written publishes after the gauges of a removed
  check were cleared (`http/pingora/metrics.rs:904`), and no prober is left to
  correct it.
* `ConnectionsAccounted` (`TcpProxy`) in an ambiguous chain: when the SNI router
  can name an endpoint of the balancer, a rejection between the two releases a
  slot that another connection holds; a route set after the balancer hides the
  slot from `on_disconnect`.  The property therefore asks for an `Unambiguous`
  chain, which the configuration checks do not.

* `WindowBound` (`RateLimit`) if the requests that read the clock before an
  eviction pass did were counted as well: each request reads the clock once, at
  its start (`rate_limit/limiter.rs:156`), and one that was held up since before
  the pass is charged to a new, full bucket.  With four threads, a burst of one
  and room for eviction a client gets nine admissions where its burst, the time
  that passed and one for each thread make eight.

Three more concern no property here:

* `circuit.rs:98`, and `docs/filters/http/traffic_management/circuit_breaker.md:21`
  after it, say that a probe which outlives
  `half_open_timeout` resets the breaker to Open.  The code (`circuit.rs:191`)
  issues another probe in a new generation and stays half-open; `SingleProbe` and
  `WindowHonoured` are about what the code does.
* `with_body.rs:412`: a status retry that the policy granted (count raised,
  token spent, endpoint released) is refused afterwards when the replay buffer
  was truncated.  The request ends correctly; the token is spent for nothing.
* `pipeline/http.rs:280` and `:757`: `body_done_indices` is shared by the two
  body directions and cleared when the response phase begins.  An upload that
  overlaps the response marks a filter as done for the response body, and an
  interim response revives a filter that was done with the request body.

## 4. Proofs

Each theorem is for every value of the constants that satisfies the named
assumption of the component's module, which TLC evaluates in the runs.

| Theorem | Statement | Assumed of the constants |
|---|---|---|
| `CircuitBreakerProofs!TypeCorrect` | `Spec => []TypeOK` | `CircuitConfig`: finitely many clients, a threshold above zero, natural windows and timeouts |
| `CircuitBreakerProofs!SlotsCorrect` | `Spec => []SlotsMatchTokens` | |
| `CircuitBreakerProofs!ProbesCorrect` | `Spec => []SingleProbe` | |
| `CircuitBreakerProofs!WindowCorrect` | `Spec => WindowHonoured` | |
| `CircuitBreakerProofs!OutdatedCorrect` | `Spec => OutdatedOutcomesIgnored` | |
| `UpstreamAttemptsProofs!ObservationsCorrect` | `Spec => []ObservedWasDialed`, if `{} \notin Groups` | `AttemptsConfig`: finitely many requests, some endpoint, any groups of endpoints, a body limit within Pingora's buffer, a policy that retries named outcomes only |
| `UpstreamAttemptsProofs!ReplaysCorrect` | `Spec => ReplaySafe` | |
| `UpstreamAttemptsProofs!AlternatesCorrect` | `Spec => AlternateFirst` | |
| `UpstreamAttemptsProofs!CountersCorrect` | `Spec => []CountersExact`, if `Plain` | |
| `CircuitBreakerProofs!FilterCorrect` | `FilterSpec => []FilterSound` | `FilterConfig`: finitely many requests, thresholds and windows above zero |
| `CircuitBreakerProofs!HoldingsCorrect` | `SubSpec => []HoldingsReturned` | `SubRequestConfig`: finitely many tasks, at least one dial and one connection |
| `CircuitBreakerProofs!VerdictsCorrect` | `SubSpec => []VerdictFits` | |
| `CircuitBreakerProofs!NoResendCorrect` | `SubSpec => []NoResend` | |
| `HedgeRaceProofs!CopiesAreBudgeted` | `Spec => []CopiesBudgeted` | `HedgeConfig`: finitely many races and endpoints, a policy that `validate` accepts |
| `HedgeRaceProofs!LosesOnlyWhenSpent` | `Spec => []LostOnlyWhenSpent` | |
| `HedgeRaceProofs!FailsFaithfully` | `Spec => []FailureFaithful` | |
| `HedgeRaceProofs!HaltsAreFinal` | `Spec => HaltIsFinal` | |
| `HedgeRaceProofs!SlotsAreExact` | `Spec => []SlotsExact`, if `~UnpolledAborts` | |
| `PipelineProofs!ConnectionsCorrect` | `TcpSpec => []ConnectionsAccounted` | `TcpConfig`: finitely many connections and endpoints, any chain of the three filters |
| `PipelineProofs!BodyCorrect` | `Spec => []BodyAfterRequest` | `BuildChecks`: a pipeline that `build_branch.rs` accepts |
| `PipelineProofs!TerminalCorrect` | `Spec => TerminalFailsClosed` | |
| `PipelineProofs!FiresCorrect` | `Spec => FiresOnOwnResult`, if `DistinctTypes` | |
| `StoresProofs!BudgetCorrect` | `Spec => []BudgetExact` | `BudgetConfig`: finitely many requests, a rate above zero, a percentage |
| `StoresProofs!AdmissionCorrect` | `FdSpec => []NeverOvercommitted` | `FdBounds`: finitely many requests, a cost above zero, a baseline within the threshold |
| `StoresProofs!ClaimsCorrect` | `FdSpec => []ClaimsBalanced` | |
| `StoresProofs!EvictionCorrect` | `StoreSpec => []EveryEntryEvictable` | `StoreBounds`: finitely many threads, a bound above zero |
| `StoresProofs!BoundsCorrect` | `StoreSpec => []StoreBounded` | |
| `StoresProofs!RefreshCorrect` | `StoreSpec => RefreshedSurvives` | |
| `StoresProofs!LimiterCorrect` | `LimitSpec => []LimiterSound` | `LimitBounds`: finitely many threads, burst, interval and hard cap above zero |
| `StoresProofs!TypesCorrect` | `StoresSpec => []StoresTypeOK` | all four |
| `ConfigWatcherProofs!NoEditStranded` | `Spec => []InSync` | `WatcherBounds`: a channel, a cap of the backoff that the failure count reaches |
| `ConfigWatcherProofs!WatcherImplementsSync` | `Spec => ImplementsSync` | |
| `HotReloadProofs!GenerationsCorrect` | `Spec => []GenerationsAgree` | `ReloadConstants`: finitely many configs and endpoints, natural thresholds |
| `HotReloadProofs!CarryOverCorrect` | `Spec => KnownDownCarried` | |

The bounds that a module has for TLC (`MaxClock`, `MaxEdits`, `MaxGen`, `MaxBody`
and so on) are constants of the proofs too: the theorems hold for each of them.
Every inductive invariant was an invariant of the component's run before it was
proved; for `FdInv`, whose ranks are any naturals, with as many ranks as there are
requests.

### Circuit breaker

Two inductive invariants carry the five theorems.

`SlotInv` is `TypeOK`, `ReadersPresent` and `SlotsMatchTokens`.
`SlotsMatchTokens` alone is not inductive: `FailLocked` settles a token against
an entry it looked up earlier, and only because a client between its clock read
and its mutex keeps the entry in the map (`ReadersPresent`, the shard's read
lock) is that entry still there.  The lemmas `HoldersGain`, `HoldersLose` and
`HoldersKeep` say how the set of token holders changes by a client's step, and
`AcquireKeepsSlots` and `SettleKeepsSlots` do the arithmetic once for all the
actions that acquire or settle.

`ProbeInv` adds `TokensNotAhead` (no token is of a generation the breaker has not
reached), `SingleProbe`, `OutdatedStale` (a token that is out of date has an
older generation, or the breaker is open) and `WindowKept` (an open breaker's
`opened_at` and `barred` agree, a breaker that is not open has a window in the
past, a missing entry is blank, timestamps are not in the future).  `SingleProbe`
needs `TokensNotAhead`: a new probe is alone only if its generation is new.
`WindowKept` is where the sweep matters: removing an entry blanks it, which is
harmless only because `is_idle` exempts a breaker inside its window.  A
timestamp read before the mutex is at most the clock, so a window measured with
it does not end early.

### Upstream attempts

`AttemptsInv` says of every request's context that it is `Good`, the conjunction
of three parts.  `Route` relates the fields that name an endpoint: the selected
one waits in `upstream` until the first attempt, then `index` names the one last
dialed, and `saved` does too until a configured retry clears it; what a selected
request has tried is exactly `attempted_endpoints`.  `ObservedWasDialed` needs
it because passive health reads `index` and not the peer, and `AlternateFirst`
because the exclusion reads `attempted_endpoints` and not the history.
`Commitment` says that nothing is committed before the streaming phase and that a
request on its way back from a retry decision may be replayed; the decision and
the attempt are separate hooks, so `ReplaySafe` is about a check that is one step
old when it is used.  `Observation` is what passive health was told.  A lemma for
each hook says what it makes of a good context; `HookStep` puts them together.
These three theorems hold with all four deployment constants free and for every
composition of strategies; `ObservationsCorrect` alone asks that the reselector
always finds an endpoint, without which it is false (section 3).  What
`AlternateFirst` promises is what each inner strategy promises: that nothing tried
is selected while that strategy has something untried.

`CountersCorrect` has a hypothesis, `Plain`: no request-body filters, no interim
responses, no response filter that rejects, no request filter that answers by
itself.  It is needed: with any one of the four allowed, and for body filters a
body that the policy still replays, TLC refutes `CountersExact` (run
`reject_leak`, and the first list of disagreements in section 3).  The
inductive invariant `LedgerInv` adds `Ledger`: once an attempt was made the
upstream is in `saved` only, and the three flags that decide which hook releases
(`state`, `phase_done`, `released`) follow from whether the request was selected
and answered.  Where two inner strategies count one endpoint a release may take
from a counter that the request did not raise, so there `LoadExact` says only that
no counter exceeds what is held, and equality under `DisjointGroups`; the excess
is impossible because every release reaches every counter of its endpoint.  A
hook then either keeps what its request holds, takes one
endpoint or gives one back (`KeepStep`, `TakeStep`, `GiveStep`), and
`CountersStep` derives the counters from that.  The decrements saturate in the
code, so giving back is a subtraction only because what is held was counted
(`HeldCounted`).

### Circuit breaker filter

`FilterSound` has `in_flight` equal to the requests that owe a settlement and the
tokens that are lost.  `FilterInv` adds `VisitsSane`: a request holds a pipeline
that was installed, so a breaker that is still being built or was discarded has no
request to settle, and a settling operation carries its token.  An acquisition
carries one too on re-entry, and if it is granted that one moves from the owed to
the lost.  The breaker's own transitions are those of `CircuitBreaker`,
taken by `INSTANCE`; of them the proof needs their types and what each does to
`in_flight`.

### Hedging

A step changes one race and its tasks, so `HedgeInv` is a condition `Well` on each
race, the counters the races share and, for an admission between its check and
its exchange, that what it saw was under the cap (`AdmitsUnder`).  `Ongoing` says
what the attempts that were joined left behind: after an oversized answer there
is no room for another attempt (`HaltIsFinal`), after a 5xx there is a failure to
return (`FailureFaithful`).  `Ended` carries that to the delivery.
`CopiesCharged` counts pairs of a race and a copy, one for each unit of `hedges`.

`SlotsAreExact` has the hypothesis `~UnpolledAborts`, that a task is polled once
before it is aborted.  Without it the statement is false: that is run
`hedge_unpolled`.

### Sub-requests

`SubInv` has a part for each call and one for the shared counters.  `Holds`
determines permit and token from the await the call stands at; `Standing` says
how its token was settled and which error it is about to return; `Fits` is
`VerdictFits` of one call; `Sending` that what was sent went to the current
address and that only an unsent call falls back.  `Counted` is the sum:
available permits, permits of detached disposals and permits of calls make
`max_connections`.  `HoldingsReturned` alone is not inductive, because a
cancellation at an await returns what the await's code holds and not what the
counters say is missing.

### TCP proxy

`TcpInv` says what a connection holds at each await, and that the two
semaphores, the claims, the gauge and the in-flight counters are the numbers of
connections that hold one.  The slots need `PastBalancer` (the balancer's
`on_connect` ran and its `on_disconnect` did not, told from the position in the
chain) and, for `Unambiguous` chains, `OwnUpstream`: an upstream that is one of
the balancer's endpoints was chosen by the balancer of that connection's
generation, which is what `on_disconnect` takes for granted.

### HTTP pipeline

`EvalInv` describes the stack of branch evaluations for every tree of filters.
`Nested`: each host lies under every host below it on the stack.  As no filter
lies under itself, a filter whose turn comes in a chain is none of the hosts
(`TurnBelow`), so its run makes no host's result stale.  `Backed`: every result
in the map, and in a snapshot, was published by the latest run of one of the
hosts on the stack up to that point; `Own` says the same of results held since the pre-read.  A
branch that fires on a result therefore fires on a fresh result of a host with
the type name of its own host, and that is its own host if type names are
distinct.  `DistinctTypes` is a hypothesis and not an assumption because the code
accepts pipelines without it, in which a nested host does fire on the outer
host's result (section 3).

`SelectedBelow` says that while an evaluation is in progress the upstream is the
one there was when the outermost host had run, or was selected under that host;
`TerminalCorrect` follows, because only an outermost rejoin forwards.
`MarksInv` says that the marks are exactly the filters that ran, in every pass,
and that a streamed request has its marks from the beginning.

### Retry budget

`BudgetInv` adds to `BudgetExact` the number of active requests and that a local
reading of the clock is not in the future.  `BudgetExact` counts what is minted:
tokens, admissions and what is owed by requests between the exchange of
`last_refill_ms` and the addition of their tokens never exceed the initial floor
and what the rate allows for the time accounted for, and each refill accounts for
less than one clock unit more than it accrued.  What is owed is a sum over
requests, a `Total`.

### Descriptor admission

`NeverOvercommitted` is about requests that count each other with stale readings,
and the proof puts them into an order: a claim's rank is the turn in which it was
made.  `FdInv` says that ranks exist such that those that contend up to the rank
`M` of the last admission fit the threshold together, and that a request beyond
`M` which has read the charges will foresee all contenders up to its own rank,
whichever sample it reads next (`Foreseen`).  `Covered` is needed for the
samples: what is open shows in a sample or in the charges, also while a sampler
has published and not yet absorbed.

### Sessions

`StoreInv`: a generation dates one occurrence, in the queue or in the hands of the
thread about to queue it (`Dated`); the thread that evicts holds the mutex
(`Mutex`); every binding has its occurrence in the queue or in a thread's hands
(`Findable`); entries and threads past the capacity check together pass the bound
by less than one per thread (`Overshoot`).

### Rate limiter

`LimitCredit` is the part of `LimitInv` that bounds the admissions, by a potential:
what the client got and what its bucket can still give (`Promise`) never exceed
the burst and the time since the window opened.  A bucket that is evicted can
give `Burst` again; that is no more than it had only for requests that read the
clock after the pass did, because `maybe_evict` judges idleness at the pass's own
reading.  An earlier form of `WindowBound` counted all requests and allowed one
admission more for each thread.  TLC found no counterexample with two threads;
the proof failed at the eviction step, and four threads refute it.  Hence
`window.from`.

`LimitCounts` relates the approximate counter to the map: it lags by the buckets
that are inserted and not yet counted and leads by those that passes have removed
and not yet subtracted.  That a subtraction never wraps (`NeverWraps`) needs
`LimitLocks`: a bucket that is not yet counted is in the map, behind the lock of
its shard and its own thread's only, so no pass can have removed it, and what the
passes owe is within the count.  `LimitRoom` is the hard cap: threads past the check are
counted beside the map, each check saw the counter below the cap.

`StoresApart` connects the four with the composed model of the run: each
behaviour of `StoresSpec` satisfies the specification of each part, so what is
proved of the parts holds of what TLC explores.

### Config watcher

`WatcherInv` adds to `InSync` what is known in the middle of an attempt.
`NothingMissed`: with no notice in the kernel or the channel, the files are as
the running attempt read them so far, since an edit after a read leaves a notice
behind.  `TextsOrdered`: what was hashed, loaded and served is never a newer writing than
the disk's, in the order of the reads, which is why a document edited between its
hash and its load is taken for unchanged only when it is put back.  `ReadWasHeld` ties the reads to
the texts on disk since the last swap; from it `SwapAdopts` shows that a swap is
an adoption of `ConfigSync`, and the other steps are edits or stutters.

### Hot reload

`ReloadInv` follows `reload_pipelines` stage by stage: `Stage` relates the build
number, the probed generation and the running config, `MetaStage` which metadata
store has been written, `SlotStage` which listeners serve which generation.
`SteadyDown` and `CarriedDown` say that an endpoint down since the reload began
is down in the old registry and, once it was carried over, in the new one.  The
second is needed because requests through listeners that were swapped write to
the new registry before the reload is over.

### Counting

`Counting` has `CountStep` (two sets that differ in one element at most),
`CountPart`, `CountStrict`, `CountFibre`, the rules for `Total` (its type, order,
zero, and what moving one summand does), `LargestExists` and `UnionFinite`.  The
last two are
inductions over a finite set.  The library's induction theorems take an operator
and are out of reach, so they are proved from a least counterexample: the strict
subset ordering of a finite set is well founded, so a set of counterexamples that
is not empty has a minimal one, and taking one element away from that one
contradicts it.

### Model-checked only

* `RequestPhaseEnds`, `RaceEnds`, `ShutdownDrains`, `Converges`,
  `HealthConverges`, `GaugeCatchesUp`: liveness under fairness is beyond the
  prover.
* `ResponsesMatch` of `FilterPipeline`: the response phase selects from
  `UnwindOrder`, the flattening of a tree of branches by a recursive function.
  What it contains and in which order, for every tree, needs an induction over
  the depth with an operator as its hypothesis, and `SelectSeq` and `FlattenSeq`
  are defined by recursions the provers cannot unfold for every input.
  `TypeOK` of that module, a conjunct of it, bounds `branch_iterations` by a sum
  over branches, with the same difficulty.

No module uses `RECURSIVE`, so that none is closed to later proofs.

## 5. Not modelled

Whole parts:

* *Configuration* (the largest part of the code), header rewriting, trace context,
  gRPC messages, access logs: parsing, validation and formatting without state
  that two steps share.  The validations other modules rely on are their
  assumptions.
* *Filters that transform one request* (authentication, CORS, policy, guardrails,
  JSON and so on): for the pipeline a filter is what it may decide, and
  `FilterPipeline` leaves that open.
* *Process start-up and admin endpoints*: input and output, no protocol.
* *TLS handshakes and HTTP framing*: in libraries.
* *Floating-point smoothing* of the overload monitor: out of TLC's reach.
* *The hyper backend*, the egress connection pool, key-value stores, TLS
  certificate reload, the iterative router, SSE framing and the balancing
  algorithms: could be modelled, see the plan.

The share of the implementation that the models cover is small for this reason:
most of the lines are configuration, validation, filters of the second kind and
their tests, and the models keep to the code whose steps interleave.

Inside the parts that are modelled:

* *Pipeline*: request-head hooks, bodies after the upstream is selected or bound,
  request-body hooks inside branches, body size limits.
* *Watcher*: an edit of the document between its loading and its first hash, a
  document that a reload refers to for the first time (the code does not watch
  it), a watcher that cannot be set up (`watcher.rs:143`, which ends the loop
  before it begins) or a referenced directory that cannot be watched
  (`watcher.rs:528`), hash collisions.  `ReadsApart` is
  FALSE in the passing run, where the case is `lost_retry`'s.
* *Reload*: what makes a change need a restart; the order of clusters.
* *Rate limiter*: fractional tokens, the global bucket.
* *Sub-requests*: overflowing deadlines; sizes; the await of name resolution before
  anything is held (`client.rs:210`).
* *TCP*: grouping of listeners, name resolution and the private-address check,
  byte counts, SNI parsing, panics.
* *HTTP inbound admission*: only the TCP side of the connection limits is
  modelled.

## 6. Plan

Modelled so far, in the order of what most paths cross and tests reach least:
circuit breaker, attempts and their accounting, retry budget, pipeline, hedging;
then the breaker filter, sub-requests, sessions, limiter, descriptors, watcher,
reload with health, and the TCP proxy.  Next:

1. `ResponsesMatch` as a theorem, by a response phase that walks the tree with a
   stack of its own, one hook a step, as the request phase does.
2. The egress pool behind `SubRequest`; TLS certificate reload beside
   `ConfigWatcher`; the overload monitor's run counters; slow start across
   reloads in `HotReload`.
3. The remaining pipeline phases; the hyper backend's exchange.
4. Pure operators against reference definitions: weighted round robin, priority
   overflow, Maglev table, SSE framing.

Abstract specifications still worth stating: a token bucket with one atomic
acquire that `RetryBudget` implements, and a counting semaphore per endpoint that
the in-flight counters of `UpstreamAttempts`, `HedgeRace` and `TcpProxy`
implement.
