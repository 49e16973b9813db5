# A TLA+ model of Airlock

Airlock is a gateway and a sidecar that take personal data out of the text a
large language model sees and put it back into what the model answers.  This
directory holds TLA+ modules that model its stateful parts, TLC configurations
that check them on small instances, and TLAPS proofs of the results that matter
most.  `PROJECT.json` lists, for every definition that models code, the lines it
models; for every run, what it shows; and the hazards the properties are for.

## 1. The system: inventory

"State" is what survives a call; "correct when" is what the models state.

### 1.1 Anonymisation (`src/pii/anonymize`)

| Component | State | Operations | Hard behaviour | Correct when |
|---|---|---|---|---|
| Session vault (`vault.go`) | two-way map entity <-> placeholder, a counter per type, one RWMutex | `PlaceholderFor` (read lock, then write lock), `Resolve`, `ScanLeak`, `Purge` | two goroutines miss the same entity; `Purge` empties an object others still hold | one placeholder per entity and one entity per placeholder; what was handed out restores; the leak scan knows every value handed out |
| Vault registry (`vault.go`) | shards of maps (tenant, session) -> vault, a lock each | `Get`, `Drop`, `PurgeTenant`, `PurgeAll`, janitor | expiry inside `Get`, per-shard capacity, erasure shard by shard while requests run | no cross-tenant or cross-session hit, bounded shards, no live vault evicted, erased vaults unreachable |
| Token stores (`tokenstore.go`, `tokenrecord.go`, `tokencrypto.go`) | a table, a distributed key-value store, or two maps | `Issue`, `Resolve`, `Clear` | SELECT/INSERT race between replicas, lost answers, expiry, key rotation | one live token per identity, an issued token resolves at once, a token never changes meaning |
| Redactor (`redactor.go`, `strategy.go`, `matrix*.go`, `generalize.go`) | none of its own | `RedactTo`, `Unredact`, one strategy per entity type | detector failure (fail-open or fail-closed), overlap, unknown placeholders in the answer | nothing leaves unredacted unless fail-open was chosen; a phantom placeholder is kept, never guessed |

### 1.2 Detection and verification (`src/pii/detect`, `src/pii/verify`, `src/nerclient`, `src/analyzer`)

| Component | State | Operations | Hard behaviour | Correct when |
|---|---|---|---|---|
| Cascade and tiered detectors | counters only | `Detect` over rules, dictionary, remote model | a layer fails, the deadline of a layer, degraded versus skipped | a layer's failure is an error or a counted degradation, never silently "no entity" |
| Scanner, Aho-Corasick, prefilter, patterns, validators, language packs | none | pure functions on text | offsets, overlap resolution, checksum edges | resolved spans are disjoint and sorted; the automaton finds what a naive search finds |
| Evidence pipeline (`pii/verify`) | none | verifiers score candidates | order of verifiers, a verifier that errs | a verdict is a function of the evidence |
| Remote NER client (`nerclient`, `detect/remote.go`) and the Python analyzer | connection, language router | `DetectContext`, health | timeouts, retries, rune/byte offsets | offsets map back to the same characters |

### 1.3 Documents and streams (`src/pii/document`, `src/internal/proxy/sse.go`)

| Component | State | Operations | Hard behaviour | Correct when |
|---|---|---|---|---|
| Stream restorer (`document.go`) | a hold-back buffer, buffered tool calls | `Feed`, `Flush`, tool-call assembly | a placeholder cut anywhere by chunk borders, end of stream, interleaved tool calls | the concatenation of what is released equals restoring the whole text at once |
| Document sanitizer | none | walk the JSON fields of a request | unknown fields, nested tool arguments | every text field is visited |

### 1.4 The gateway (`src/internal/*`, `src/gpuload`, `src/cmd/airlock-gateway`)

| Component | State | Operations | Hard behaviour | Correct when |
|---|---|---|---|---|
| Proxy handler (`internal/proxy`) | per request | authenticate, limit, choose candidates, redact, dispatch with failover, restore, settle | failover to a backend of another trust class, a stream cut after bytes were sent, settlement after failure | a body goes in clear only to a self-hosted backend; the reservation is settled exactly once |
| Routing policy and circuit breaker (`internal/routing`) | failures, state, half-open permits per backend | `Allow`, `RecordSuccess`, `RecordFailure`, `Order`, budget fallback | permits taken and never given back, late results after a trip | an open breaker is probed again; at most two half-open probes |
| Rate limiter (`internal/ratelimit`) | sliding window buckets, reservations | `Reserve`, `Commit`, `Release`, `Sweep` | concurrent reservations, a sweep racing a long stream, window edge | reservations and usage never admit above the limit; nothing leaks |
| GPU load and admission (`gpuload`) | last sample, last preemption, pressure | `Admit`, `Update`, probe loop | a counter since boot, restarts of the backend, failed samples | requests are refused for a preemption that happened, and a backend that just swapped is not called calm |
| Prefix affinity (`internal/affinity`) | consistent-hash ring, load counters | `Pick`, `Acquire`, `Release` | total and loads read one by one, and changed in separate steps | no counter drifts; no request goes to a full replica while another has room all through its `Pick` |
| Lifecycle (`internal/lifecycle`) | phase, in-flight tracker, snapshot file | `Enter`/`Leave`, `Shutdown`, `Persist`, `Load` | a request admitted while closing, drain timeout, crash while saving | the snapshot is taken after the last request or after the drain deadline; a crash leaves the old or the new file |
| CPU limit monitor (`internal/cpulimit`) | last cgroup reading, GOMAXPROCS | poll | quota edges, file races | GOMAXPROCS follows the quota |
| Config, identity, credentials | loaded values, a cache of secrets | parse, validate, resolve; fetch, strip, inject | two validators and a sort; a secret replaced while it is fetched | a request is routed as the file says; only the backend's own credential leaves |

### 1.5 The sidecar, audit, telemetry

| Component | State | Operations | Hard behaviour | Correct when |
|---|---|---|---|---|
| Sidecar server (`src/sidecar`) | vault registry, token store, stream restorers keyed by tenant and session | `/v1/redact`, `/v1/restore`, stream restore, session end, tenant erase, reaper | a stream that keeps an old vault, two streams of one session, erasure in three places | a restored text belongs to the session; an erased tenant is erased everywhere or the call fails |
| Audit recorder and sinks (`src/pii/audit`) | bounded queue, the worker's batch, a file | `Emit`, `Flush`, `Close` | a full queue, a sink failure, close while recording | an event is delivered or counted as dropped or failed |
| Telemetry firewall, OTel processor | counters | walk a payload, redact in place | a failure in the middle of a payload, places and spellings | no value that is to be redacted leaves whole, unless forwarding on errors was chosen |

### 1.6 How they interact

* A gateway request holds one vault from redaction to the last restored byte;
  the sidecar fetches the vault again for each call.  Both share the registry
  with the janitor and with tenant erasure.
* `Tokenize` strategies call the token store from inside `RedactTo`; `Unredact`
  asks the vault first and the store for tokens.
* The handler asks, in order: lifecycle (accepting?), limiter (reserve), routing
  (candidates, breakers), admission and affinity (first target), redactor,
  dispatch with failover, stream restorer, limiter (commit).
* Shutdown closes the lifecycle gate, waits for the tracker, and persists what
  the budgets have spent and the limiter's use of the configured subjects.

## 2. How the models are put together

There is one module per component, and an abstract specification where a
component promises something that can be said without its mechanism
(`Pseudonyms`, `TokenContract`, and as reference definitions inside a module:
`Greedy` in `Overlaps`, `Standard` in `CheckDigits`, `Direct` in `ChunkedScan`,
`First` in `RoutingRules`).  `Gateway` extends `Breaker`, `Detection` and
`ChunkedScan` extend `Overlaps`, `SessionTexts` puts conversations on top of
`VaultRegistry`.

Components that do not share state while they run are checked as alternatives of
one run: a variable chosen in the initial state (`part`, `service`) says which
one the behaviour is of, the others keep their initial state, and the state
spaces add up instead of multiplying.  The run modules are `MCSessionVault` (the
way of one request, its answer and what is reported of it), `MCServices` (what
surrounds requests), `MCErasure` (the SQL token store and the sidecar) and
`MCTokenDrivers` (the two other token stores).  `SessionParts` is the half of
`MCSessionVault` (vault, scanner, stream, NER, audit) that `SessionVaultProofs`
needs, on its own so that the proofs are not about the names of the other half.

| Modules | Abstract | Proofs |
|---|---|---|
| `SessionVault`, `VaultRegistry`, `SessionTexts` | `Pseudonyms` | `SessionVaultProofs`, `VaultRegistryProofs` |
| `SqlTokens`, `SidecarStreams` | `TokenContract` (of the first) | `SqlTokensProofs` (of the run `MCErasure`) |
| `CacheTokens`, `MemoryTokens` | `TokenContract` | `TokenDriversProofs` |
| `Breaker`, `Gateway` | | `GatewayProofs` |
| `SseScanner`, `StreamRestore`, `RemoteNer`, `Audit` | | `SessionVaultProofs` (of the parts in `SessionParts`), and for the run `RunProofs` |
| `AhoCorasick`, `Overlaps`, `Detection`, `ChunkedScan` | | `PathProofs` (of the run `MCSessionVault`) |
| `Documents`, `Matrix`, `Telemetry` | | `RunProofs` (of the same run, on top of `PathProofs` and `SessionVaultProofs`) |
| `CheckDigits` | | |
| `Limiter`, `Lifecycle`, `RoutingRules`, `Admission`, `Affinity`, `Credentials`, `CpuLimit` | | `ServicesProofs` (of the run `MCServices`) |

A component that is an alternative of a run has its invariants in its own module
and its proofs where the run instantiates it: the proofs are about the names with
the prefix of the instance (`Siem!Next`, `Gpu!IInv`), first for the specification
of the component alone and then, by one theorem, for that of the run.

Of the safety properties of the runs one part is left without a proof: the check
digits in `NothingVanishes`, whose sums are folds over the digits of a number.

## 3. The modules and the code

Every definition that stands for code has its lines in `PROJECT.json`, "map".
An action is what the code does under one lock, in one statement, or between
two points where another goroutine can be seen.

### 3.1 Vaults

* `Pseudonyms` is what a vault promises: a one-to-one table, ordinals dense per
  type, emptied by a purge.
* `SessionVault` is `SessionVault` of `vault.go`: `forward` and `reverse` are the
  two Go maps, `counters` the ordinals.  `PlaceholderFor` is two steps, because
  it looks under the read lock and allocates under the write lock, where it
  looks again.  `Resolve`, `ScanLeak` read; `Purge` is one step.
* `VaultRegistry` is the sharded registry: `slot` is the registered object of a
  session, `left` its remaining time.  `Get` is three actions (`GetExisting`,
  `GetNew` with the lazy expiry and the eviction of the expired, `GetRefused`),
  the janitor is `Collect` for one shard at a time (each is locked in turn),
  `PurgeTenant` and `PurgeAll` are `BeginErase`, one `EraseShard` per shard,
  `EndErase`.  A request keeps the object it got (`held`), also after it is no
  longer registered.
* `SessionTexts` adds what outlives a vault: the placeholders in texts already
  sent.

### 3.2 Token stores

* `TokenContract`: an identity has at most one live token, a token's meaning
  never changes, tokens appear by issuing and disappear by expiry or erasure.
* `SqlTokens`: `rows` is the table.  `Issue` is SELECT, INSERT, second SELECT;
  each may fail, the INSERT also after it was committed.
* `CacheTokens`: records with data key versions, sealed expiry in whole seconds
  and a store that may drop a key late (external, by its documented contract).
* `MemoryTokens`: two maps and a time read before the lock.

### 3.3 The text of a request

* `Documents` (`pii/document`): a document is the set of its leaves, each with
  the path to it; `Rules` are the two lists of paths, `Touched` what the walk of
  one rule reaches (`walkDeep`: a key at any depth), `Apply` one rule, `Fails`
  the first error.  `times` counts the transformations of a leaf;
  `SoFar` (in the proofs) says of it what holds between two rules.
* `Overlaps` (`detector.go`): `ResolveOverlaps` as the code does it, a sweep that
  opens and closes connected components and a greedy choice in each.
* `Detection`: from what can be found in a text to what is replaced in it.
  `Fast` is the registry, `Model`, `ModelFails`, `WithoutModel`, `Untriggered`,
  `OffsetsDiffer` and `TooLate` what becomes of the slow layer, `Evidence` the
  validation and `ResolveByEvidence`, `Redact` or `Block` the end in the
  redactor.  The five assemblies are those the programs and presets build.  The
  words that the verifiers look for are a choice of verdict and span.
* `ChunkedScan` (`scanner.go`): `Scan` is one chunk, in any order, `Merge` puts
  the results together; three recognizers stand for the kinds of context a
  pattern looks at.
* `AhoCorasick` (`ahocorasick.go`): `Insert`, then one `Link` per node in the
  order of the queue, then one `Step` per byte of the text.  A node is the string
  it stands for.
* `CheckDigits` (`validators.go`, `validators_eu.go`, `packs/yaml.go`): a
  character is a number; a number is issued by the arithmetic of its standard
  (`Standard`, in closed form), written with a separator, a typing error or two
  neighbours swapped, and then `Valid` decides, with the digit-by-digit loops of
  the code.  Of the table of IBAN lengths there are three countries.
* `RemoteNer` (`detect/remote.go`): `Look` (cache), `CircuitOpen`, `Call`, the
  answer or the failure, `RecordFailure`/`RecordSuccess`, `Put`: the cache, the
  breaker and the call are under different locks or none.
* `Matrix` (`matrix.go`, `matrix_yaml.go`, `strategy.go`, `generalize.go`):
  `LoadMatrix` builds the flows or refuses, `Redact` applies the strategy of a
  flow to a value.  Values are what the strategies tell apart: dates of three
  precisions, names in the ontology or not, short and long ones.

### 3.4 The answer

* `SseScanner` (`proxy/sse.go`): one `Line` at a time, `End` of the input;
  `WriteEvent` is what the client gets.  `Scanned` is what its buffer stands for:
  the data lines behind the last blank one, unless a comment was among them.
* `StreamRestore` (`document.go`, `redactor.go`, `handler.go`): texts are atoms,
  a placeholder three of them: the half of its literal, the other half, the rest.
  Brackets, backticks and blanks are atoms too: `Unredact` takes the wrappers of a
  placeholder that is there in one piece with it (`Wrapped`), and leaves a wrapper
  that is alone.  `HoldPoint` looks at the last `Window` atoms
  (`maxPlaceholderLen`); where these begin inside a rune, `ToUpper` makes three
  bytes of each byte that is left of it and the hold point comes out too far right
  (`Shifts`).  `Frame` and `FrameFails` feed a frame
  (`SafePrefix` and `HoldPoint` are the hold-back), `Fragment`, `Finish`,
  `BlockStop` are the tool calls behind the barrier, `Done` is the `[DONE]` event
  with its flush in any order of the map, `Ends` the end without it.  `Buffers`
  says what a buffer holds against what was released, `Barrier` which fragments
  wait behind which call; the run checks both along with the properties they
  carry.  `torn` and `half` remember the paths where a wrapped placeholder, or half a
  literal, was emitted in two pieces.

### 3.5 The gateway

* `Breaker` is `routing/breaker.go`, one action per method, with
  `refreshLocked` inside each; the recovery time is an action (`Cool`).
* `Gateway` is the way of a request through `ServeHTTP`: `Resolve` (tier and
  budget), `TakeBackend`/`SkipCritical`/`SkipDenied` (`collectFrom`, one backend
  per step: the breakers are locked one by one), `Relax` (the second round with
  critical backends), `Rank`, `Cover` or `Refuse`, `Answered`, `Failover` and the
  other outcomes of `dispatch`, `Settle`.  Inputs here: which tier the routing
  gives (`RoutingRules`), which backends are under pressure (`Admission`), the
  order of affinity (`Affinity`), whether the limiter and the redactor agree.
  The chain is linear, each tier falls back to the next, as the gateway builds
  it; a redactor is configured.
* `RoutingRules` (`internal/config`, `cmd/airlock-gateway/config.go`,
  `routing/policy.go`, `internal/identity`): `Validate` (with the defaults),
  `Build` (the second set of checks in `NewPolicy`), `Exchange` and `TakeNext`
  (the insertion sort), `Exhaust`, `Handle` (headers, `Resolve`, `ApplyBudget`).
* `Limiter` is `ratelimit/window.go` for one subject.  `held` is the pointer a
  handler keeps, `live` the ids in the map: after a sweep they differ, and the
  late `Commit` is `SettleLate`.  `now` is the clock in ticks, `Span` ticks a
  bucket; the epoch is a window before the start, so that the zero bucket is an
  old one, as in the code.  `Offset` is the misalignment of `Truncate` (year 1)
  against the slots (1970): 0 for windows of whole minutes.
* `Lifecycle` (`internal/lifecycle`, `main.go`): a request passes the gate
  (`Arrive`), is counted (`Enter`), charged (`Charge`), counted down
  (`Uncounted`) and may close the channel (`SignalZero`), in separate steps.  The
  process that stops is `Advance`, `Look`, `Deadline`, `ResetZero`, `LookAgain`,
  `Check`, `Collect`, `Write`, `Rename`, `Exit`; `Kill` may come between any two;
  `Started` is the next process reading the file.
* `Admission` (`gpuload`): a backend that preempts and reboots, `ProbeOne` and
  `ProbeFails`, the verdict requests read.
* `Affinity` (`affinity/prefix.go`): `Begin` reads the total, each `Look` one load
  on the walk along the ring, and gives up (`GivesUp`) or takes the replica; of
  `Acquire` and of `Release` the load and the total are steps of their own
  (`AcquireLoad`, `AcquireTotal`, `ReleaseLoad`, `ReleaseTotal`).  The lock that all
  of them take is a read lock and keeps none of them out.  Of a request in `Pick`
  the model remembers which replicas had room ever since the total was read.
* `Credentials` (`internal/credential`): `Fetch` and `Store` of the cache with
  nothing held in between, `Strip`, `Injected`, `Verify`; the operator's `Rotate`
  and `Unmount`.
* `CpuLimit` (`internal/cpulimit`): the limit at start, the kernel's `Period`,
  the monitor's `Sample` with failed and blank readings.

### 3.6 Sidecar, audit, telemetry

* `SidecarStreams` (`sidecar/server.go`): a call begins, gets its vault
  (`Scoped`), its restorer (`Enter`, under `streamMu`) and feeds it (`Feed`,
  without a lock); `EndSession` and `EndStream`, `Expire` (the registry's
  janitor), `Reap`, and the erasure in its three steps.  Contents are told apart
  by session and by being older than the erasure.  `IInv` says to which session
  each object belongs (`Owned`) and what an erasure has gone through (`Reached`).
* `Audit` (`pii/audit`): `Emit` into the queue, the worker's `Receive`, `Flush`,
  `StartDrain`, `Drained`, `Leave`; `Deliver` may be refused.
* `Telemetry` (`pii/telemetry`, `otelprocessor`): `Build` a policy or refuse it,
  `Resource` and `TenantFor`, then one `Field` at a time; `Places` is the list of
  places both walkers name, `Spelt` the spellings.

## 4. What the runs check

`CHECK_DEADLOCK FALSE` in all runs: clocks, tokens, lines and calls are bounded
and the model stops at the bound, a document is at its end when it is through,
and the gateway may stop because nobody sends a request.  That something must
happen is stated by the liveness properties instead.

| Run | Instance | Why it is enough | What it shows |
|---|---|---|---|
| `session_vault`, vault | 2 types x 2 values, 3 goroutines | two race for one entity while the third takes another or purges; types and values only meet pairwise | `RoundTrip`, `ScanCatchesIssued`, `IInv`, `ImplementsPseudonyms` |
| document | every pair of leaves of the corpus of the project's tests, and of what those bodies hold beside them; requests and answers | two rules that reach one leaf, and a leaf none reaches, need one leaf; the first error needs two | `TransformedOnce`: prose once, nothing else, in a body that is passed on |
| scanner | every answer of up to five lines of all forms | an event of several lines, comments within and before it, an end in the middle | `EventsWhole` |
| stream | two paths, the text of one of two placeholders with a word between, a token before one, one in brackets, one in backticks with a blank and a bracket that is no wrapper, or a placeholder broken off, cut at every place; a searched end of four atoms; tool calls of both forms; the token store may fail at any frame | a cut in each piece of a placeholder, next to another one or not, behind and before each wrapper; buffers longer than the searched end; a barrier that is released while another call is open | `RestoredSoFar`, `CallsComplete`, up to the first failure of the store |
| detection | texts of three places with up to three things to find, five assemblies, a strategy for each kind | overlap of three spans in a chain is the smallest case a component can go wrong in | `NothingVanishes`: each is replaced, or was rejected, or lost to one that overlaps it |
| chunks | every text of eight places that begins with a space, chunks of four, margin three, window one | a value on either edge of a chunk, in two chunks, with its context in the other | the same, against the scan of the whole text |
| roster | up to three terms of up to three bytes over two letters, texts of five | terms that are suffixes and infixes of each other, links two levels deep | the same, against a search at each place |
| numbers | nine kinds of number, 44 bodies, every check character, every place mistyped, separated or swapped | the arithmetic is linear in one character, so each place and each digit once is what a bug must show in | what is issued passes, a slip does not (except swaps that the standards themselves do not see) |
| matrix | every configuration of one or two flows, every kind of value | flows meet only in the table | no value leaves as it came, except as 5.2 says |
| ner | two requests, two texts, a cache of one answer, threshold 2 | the late report of a call begun before the breaker opened or was reset | `OpenForCause` |
| audit | five events, a queue and a batch of two | the queue full, a batch on its way, the rest at the close | `AuditAccounted` |
| telemetry | two resources of two tenants, a value at every place, in each spelling, behind another one | failures before, at and after a value; numbers cut by the bound on values | `NothingVanishes`, last part: nothing that is to be redacted leaves whole |
| `registry` | 2 tenants with one session id, 2 requests, 3 objects, 2 shards of which one is used, room for 1 vault, TTL 1 | the capacity of a shard, expiry, erasure over several shards, reuse of an address while a request still holds it | isolation, no live vault evicted or emptied, erasure reaches what it found, what expired is collected |
| `texts_session` | 1 session, 2 values, TTL 1 | the smallest conversation that outlives its vault | finding, see 5 |
| `sql_race`, rows | 2 tenants, 2 callers, 3 tokens, TTL 1, clock to 2 | two callers race, one loses and holds an orphan token, a third follows an expiry or erasure | convergence, issued tokens resolve, implements `TokenContract` |
| streams | 2 tenants with one session name, 3 calls, two at a time, one erasure | a call in flight over an end of the session, over each step of an erasure and over the reaper | `StreamsApart`, with the inductive invariant it follows from |
| `sql_expiry` | 1 caller, TTL 1, clock to 3 | no race is needed | finding |
| `token_drivers` | cache: 2 replicas on two key versions, TTL 3 ticks, second = 2 ticks, a store 1 tick late, clock to 6; memory: 2 callers, 3 tokens | expiry off the second border, rotation in both directions, a lost answer | `IssuedResolves`, `RetentionBound`, `RotationOpens`, both implement `TokenContract`; `TablesKept`, the inductive invariants of both |
| `gateway` | a paid backend and a self-hosted one, threshold 2, 2 half-open permits, 2 requests, budget 1, cost up to 1 | two requests are what the permits and the budget race need; two tiers are one fallback | body in clear stays inside, bounded overspending, every request ends |
| `gateway_mixed` | a self-hosted backend before a vendor's in one tier | one failover | finding |
| `gateway_probe` | the same chain as `gateway`, threshold 1 | two requests use up both permits | finding |
| `services`, limiter | 3 buckets of 2 ticks, quota 3, 2 of 3 requests at a time, reservations of 1 or 2 for 7 ticks (a window is 6), usage up to 1 above, a clock to 13, over more than one turn of the ring | a bucket is reused, a reservation outlives the window, is swept and settled late, refunds meet a rotated bucket | exact balance of the buckets; what the window holds and what is reserved in it fit the quota on admission (`QuotaKept`); abandoned quota comes back |
| lifecycle | 2 requests, 1 poll interval, 2 processes, spending up to 2 | one request before and one behind the gate; a kill in each step and a process after it | `BudgetKept`, `Stops` |
| gpu | four seconds, three swaps, a window of two | the counter falls, stands and rises over a reboot and over a failed probe | `ReadingsBacked` |
| affinity | two replicas, one with two virtual nodes, three requests, factor 5/4 | a replica at its bound beside a free one, and a load or the total that moves between two reads of `Pick` | `Spread`, first part |
| routing | three rules of two priorities, and one rule with every slip in targets, rules and budgets; six requests | a rule that must not move past an equal one needs three | `Spread`, second part: routed as the file says |
| credentials, cpu | two requests, one rotation or removal; quotas to three CPUs, four periods | the older secret stored last; a reading that is blank or lower than the last | `ReadingsBacked` |
| `limiter_long` | as `services`, reservations outlive the window | one long stream and one new one | finding |
| `streams_halves` | as the stream part, a searched end of eight atoms | one chunk | finding |

What a component is configured with, or may be sent, is a constant: the runs give
it a value in the `.cfg` or by a definition of the MC module (the texts and calls an
upstream streams, and the payloads of the telemetry, in `MCSessionVault`; the ring,
the files and the headers in `MCServices`; the rotation in `MCTokenDrivers`), and the
theorems hold for all values that the assumptions of section 6 allow.

Bounds in the guards: `MaxTime` (the clocks), `MaxCost` (one answer), `MaxLines`,
`MaxEvents`, `MaxCalls`, `MaxSpent`, `MaxRuns`, `MaxCount`, `MaxPeriods`,
`MaxVersion`, the sets of tokens and addresses.  Symmetry is used in
`token_drivers`, which has no liveness property.

Fairness: `registry` assumes that time passes and that the janitor runs
(`StartJanitor` sweeps all shards on a ticker); `gateway` that a goroutine which
serves a request goes on with it (connecting and the response headers have
timeouts, `transport.go`; that a stream once begun ends is the backend's or the
client's doing and is assumed); `services` that the limiter's janitor runs
(`Freed`) and that the goroutine which shuts the process down goes on
(`Stops`: its waits have a deadline, so nothing is assumed of the requests it
waits for).  Nothing is assumed of the clients.

## 5. Where the code and its words part

### 5.1 Shown by runs

1. `texts_session` - the TTL of a vault counts from its creation and is never
   renewed; the rebuilt vault starts at ordinal 0, so a long conversation gets a
   placeholder twice, for two values (`vault.go:291` against `vault.go:29`).
2. `sql_expiry` - an expired row is invisible to SELECT but still holds the
   UNIQUE key: its value can never be tokenized again (`tokenstore.go:1046`
   against `:125`).
3. `gateway_mixed` - redaction is decided for the first candidate, failover goes
   to any: a body in clear can reach a vendor (`handler.go:258` against the
   README's promise).  It needs a self-hosted backend ahead of an outside one.
4. `gateway_probe` - half-open permits are taken while candidates are collected
   and not given back by requests that never try the backend: a recovered
   backend stays shut out until a restart (`handler.go:690` against
   `routing_test.go:197`).
5. `limiter_long` - with the default limits a stream that outlives the window is
   no longer counted, yet charges all it reserved when it ends: the window can
   be oversold (`window.go:239` against `window.go:218`).  `services` shows
   what the quota does hold for, reservations that outlive the window included:
   what is committed and reserved in the window (`QuotaKept`).
6. `streams_halves` - the hold-back looks at the last complete literal only: half
   a literal behind a complete placeholder is emitted and its rest passes as
   plain text (`redactor.go:526` against `:421`).

`Purge` also empties a vault in place under a request that is redacting, so that
one text can hold one placeholder for two values (`vault.go:119` against `:65`);
`RegisteredReadable` is about vaults that are still registered.  `Limiter` shows,
with `Offset` 1 instead of 0, that a window whose sixtieth does not divide the
distance from year 1 to 1970 loses charged tokens: `Balance` fails at the second
admission.

### 5.2 Met while modelling, and excepted in the properties

Each of these is what the code does and what the module does; the property that
would fail says what it excepts.

* Streams: when the token store fails, the frame goes out as it came although
  its text is in the buffer, and is delivered twice; an end without `[DONE]`
  flushes nothing; the flush puts the rests of all paths in one frame, in the
  order of a map; when two Anthropic calls are held at the end, one frame is
  released; invalid JSON in arguments is returned as it is, where a comment
  promises the text fallback (`document.go:436`, `:981`).
* Wrappers: a placeholder in brackets or backticks is restored with them
  (`redactor.go:43`), but the opening one is never held back: cut behind it or
  inside the placeholder, the client reads "(Zhang)" where restoring the whole text
  gives "Zhang".  `eval/stream_test.go:15` says that feeding and flushing gives the
  same bytes wherever the text is cut; its texts have no wrappers.  `RestoredSoFar`
  wants the same atoms but for wrappers and blanks on a path where that happened
  (`torn`), and the same text on all others.
* The searched end: the hold-back looks at the last 64 bytes, which may begin
  inside a rune of a word; `ToUpper` then makes three bytes of each stray one, the
  place found is behind the marker's beginning, and half a literal is emitted.
  `RestoredSoFar` excepts such paths as those of `streams_halves`.
* Lines: a comment line within an event replaces the data lines before it.
* Lifecycle: a request that passed the gate before it closed may be counted after
  the count was zero and is missing from the snapshot; the zero signal can be
  stale (`tracker.go:104`); the limiter's use is saved but never read, and
  budgets are dropped with a snapshot older than an hour.
* GPU: after a failed first probe the first sample takes the counter since boot
  for a new preemption; the check of `StaleAfter` is never reached.
* Affinity: members that are not eligible count as seen, so the walk may give up
  while a free one is left.  A replica that fills, or gets room, while `Pick` reads
  may be taken, or passed over, by what was read before.
* Routing: a configuration with a premium tier only is accepted although requests
  of unknown tasks, and those of an exhausted budget, then have no backend;
  `PreferTargets`, the weights and `DowngradedFrom` are read by nobody; `*` does
  not match an application name with a slash; a tier without backends in the
  header is passed over in silence.
* Detection: the longest of spans that partly overlap is kept and the rest of the
  others stays in clear; two assemblies resolve overlaps before the evidence,
  which `preset.go` warns against; an answer of the NER service that was begun
  before the breaker opened closes it; a failing open layer reports nothing.
* Chunks: a run of digits cut by a chunk's edge can match as a shorter entity
  (`scanner_test.go:22` says the results are byte-identical); only tests use it.
* Matrix: a bare year at the granularity of a year, and a term whose hypernym
  only respells it, leave as they came.
* Telemetry: exemplars of OTLP/JSON are looked for under `attributes`, but OTLP
  names them `filteredAttributes` (`otlp.go:152`): their labels are not redacted
  (`src/README.md:664`).  A value cut at `MaxValueBytes` leaves half a number.  In
  forward mode a batch that failed in the middle is sent as it is by then.
* Audit: an event queued after the worker has left is neither delivered nor
  counted; the sidecar counts dropped events as emitted.
* Sidecar: chunks of one session share a restorer that has no lock, and it keeps
  the vault of its first chunk; a failure of the token store in an erasure leaves
  the stream buffers; a call in flight can bring an erased vault back.

## 6. What is proved

TLAPS checks, for every value of the constants that the named assumptions allow:

| Module | Theorems | Argument |
|---|---|---|
| `SessionVaultProofs`, vault | `VaultInvariant`, `VaultAgreement`, `VaultRoundTrip`, `VaultScanCatchesIssued`, `VaultOrdinalsDense`, `VaultRefinesPseudonyms` | the two maps are inverse, and every ordinal below a counter is taken; the latter is what makes the next ordinal new |
| scanner | `ScannerEventsWhole` | blank lines cut the answer into events; the buffer is the data lines behind the last blank, so what `WriteEvent` puts out is all lines of its event or, behind a comment, of the rest of it |
| stream | `StreamRestoredSoFar` | a cut that tears no wrapped placeholder and lies outside every literal commutes with restoring (`UnredactCut`), and one that tears a wrapper does so for what is left without wrappers and blanks (`ShownCut`); `SafePrefix` cuts outside every literal wherever the run does not count half of one as emitted (`HoldPointHolds`, `SafePrefixHolds`); so each frame adds to what was restored what it makes whole (`PathRestored`), and the flush puts each path's rest out once, in whatever order (`OrderOnce`) |
| | `StreamCallsComplete` | what waits behind the barrier is exactly what was read and not given, and a call that is complete has nothing waiting |
| NER | `NerOpenForCause` | the failures counted never exceed those that happened in a row; the cache evicts before it adds |
| audit | `SinkAccounted` | the events ever queued are those in the queue, in the batch, delivered or counted: sequences and a sum that each step changes in two places |
| `VaultRegistryProofs` | `RegistryInvariant`, `RegistryTenantIsolation`, `RegistryShardCapacity`, `RegistryEraseUnregisters`, `RegistryOnlyExpiredEvicted`, `RegistryKeepsReadable` | an object belongs to one session from its creation until it is garbage, also after it lost its slot: without `held` in the invariant an address could be reused under a request |
| `SqlTokensProofs` | `SqlInvariant`, `SqlIssuedResolves`, `SqlConverge`, `SqlRefinesContract` | one row per identity and per token; a token drawn and not yet inserted belongs to one caller, which is why an INSERT that failed after the commit does no harm |
| sidecar | `SidecarInvariant`, `SidecarStreamsApart`, `ErasureStreamsApart` (the run's: the token store beside the sidecar) | a vault, a restorer, an entry of `streamers` and a call belong to one session from when they are made: that is why feeding a restorer without a lock crosses no session; redactions and chunks add only what is new, so each part an erasure has gone through stays clean while the later parts run |
| `TokenDriversProofs`, cache | `CacheInvariant`, `CacheRetentionBound`, `CacheRotationOpens`, `CacheIssuedResolves`, `CacheRefinesContract` (for `OneEpochInUse`) | a token names epoch and identity, so a record found is of the identity asked for; its expiry was stamped before it was stored and cut to a whole second, hence never above its birth plus the TTL |
| memory | `MemoryInvariant`, `MemoryRefinesContract`, `DriversTablesKept` | an entry that one map has lost is out of date in the other; a drawn token is one caller's until it is stored |
| `GatewayProofs` | `GatewayInvariant`, `GatewayClearStaysHome` (for chains that never lead from inside to outside, `HomeLast`), `GatewayBudgetOvershoot` | what a request deals with is of its tier or below; spent plus what requests in flight may still cost stays below the limit plus one answer each |
| `ServicesProofs`, limiter | `LimiterInvariant` | `inflight` is the cardinality of the map |
| | `LimiterBalance` (for `Offset % Span = 0`) | every bucket of the window is the sum of what was committed and is reserved in its span; a bucket that leaves the window is reset before it is used again |
| | `LimiterQuotaKept` (for `Offset % Span = 0`) | the buckets summed on admission are, by the balance, at least what was committed and what is reserved in the window that the admission leaves; a bucket of the window is reset before it is used again |
| lifecycle | `ProcessInvariant`, `ServicesBudgetKept` | the counter is the number of requests inside, each step of the stop fixes what snapshot and file must hold, and after the check only requests that were counted late can still spend |
| gpu, cpu, credentials | `GpuCriticalForCause`, `CpuThrottlingBacked`, `SecretsNoForeignCredential`, `ServicesReadingsBacked` | between two samples the counter stands above the last one exactly if the backend swapped where a sample can see it; a baseline is a reading that was taken; a secret was in its file when the reading began, less than a second before it is stored |
| affinity, routing | `RingSpread`, `RoutingAsConfigured`, `ServicesSpread` | a load is the number of requests between its two steps, the total likewise, whoever reads them in between; of a replica that had room all through a `Pick`, the walk has either not come to its place or taken it, so a `Pick` that gives up, with all eligible, leaves none behind; the insertion sort keeps a permutation that is sorted before the outer index and stable, and the first rule in it that matches is the first of least priority |
| `PathProofs`, roster | `RosterInvariant`, `RosterFindsEveryTerm` (for a finite alphabet: bytes are 256) | a failure link is the longest proper suffix in the trie, a dictionary link the longest that is a term; the queue of `buildLinks` holds the nodes level by level, so a node's links are made when all shorter ones have theirs; after a text the automaton is at its longest suffix in the trie, of which every term that ends there is a suffix |
| overlaps | `ResolveIsGreedy` | taking the best first has exactly one result on a finite set, whatever strict order says what is best; no span reaches from one component of the sweep into the next, so the choices within the components are together the one over the whole text |
| detection | `DetectInvariant`, `DetectNothingVanishes`, `DetectEntersApart` | step by step, what was found is in what the step hands on, or was judged, or lost to a span that overlaps it and stays; evidence hands on spans that do not overlap, so `RedactTo` never refuses them |
| chunks | `ChunksInvariant`, `ChunksFindAll` (for `ScanAssumption`) | each match of the whole text lies in some chunk with all that is looked at beside it; what a chunk finds beyond those touches its edge, and of what is merged nothing that touches no edge can drop a match; a chunk's entities are those of its stretch, in whatever order the workers end |
| `RunProofs`, document | `DocumentOnceEach`, `RunTransformedOnce` | no two rules end at one path, so two rules that reach one leaf are one rule; between rules, a leaf has been transformed exactly once if a rule already applied reaches it; each leaf of the corpus is taken along the one rule that could reach it |
| matrix | `MatrixNoneAsIs` | what validation accepts consists of strategies that were built, each with a fallback that cannot fail; each changes the value, or keeps what its granularity says |
| telemetry | `TelemetryNothingWhole` (for `TelemetryAssumption`) | a value behind the walk is clean, one before it is as it came, unless redaction has failed; a text that is cut at a rune and has its one number replaced has none; a place that the walk leaves out is an exemplar's |
| the run | `RunNothingVanishes`, `RunEventsWhole`, `RunRestoredSoFar`, `RunCallsComplete`, `RunOpenForCause`, `RunAuditAccounted` | a behaviour of the path is one of its part; the theorems above, for each part but the check digits |

What is assumed of the constants, beside their types: the placeholder of "no
entity" is none (`VaultAssumption`); the hash maps to a shard and the sets of
tenants and sessions are finite (`RegistryAssumption`); the nil token is no token
(`SqlAssumption`); there is a tenant and a value, the TTL is positive and each
caller has a version and an epoch (`CacheAssumption`); requests are finitely many
(`GatewayAssumption`, `LimiterAssumption`, `ServicesAssumption`); a replica has a
place on the ring, as `NewRing` gives each (`ServicesAssumption`); a file has the
three sections with fields of their types (`ConfigsAssumption`); the breaker and the
cache of the NER client have room for one, as `NewRemoteModel` sees to
(`NerAssumption`); a stream has finitely many paths and calls, its texts are of the
model's atoms, one path is the body, and the searched end is longer than a marker
(`StreamAssumption`); the limiter's clock runs for a window at least
(`LimiterAssumption`); the margin of the
chunks is narrower than a chunk and as wide as the context looked at, as
`NewChunkedScanner` and its comment ask, and an alphabet is finite (`ScanAssumption`);
a payload is a batch whose values stand in the fields that OTLP has, texts of whole
runes with one number at most in each (`TelemetryAssumption`).  The theorems of the path that
are about one component state what they use of these themselves.

Some theorems have a condition that the code leaves to its configuration; where it
fails, a run or section 5 shows what happens: `HomeLast` (`gateway_mixed`),
`Offset % Span = 0` (end of 5.1), and replicas of one epoch at a time: with two epochs in use one
identity has two tokens, which is what a rotation of the epoch is for.

How the proofs go on where a definition recurses: a recursive function is
taken as the function that CHOOSE picks, with the lemma that one with its equation
exists and that two of them agree (`Agree`, `AddsAgree`); induction is a minimal counterexample
(`LeastNatural`, and `MinimalSubset` for finite sets); a fold over a set is related
to the sum without one element in the same way.  This is why modules with proofs
use recursive functions and folds, never a RECURSIVE operator.

Only model-checked:

* everything under fairness (`ExpiredCollected`, `Finishes`, `Freed`, `Stops`):
  liveness and ENABLED are out of the prover's reach;
* the check digits in `NothingVanishes` (`CheckDigits.IssuedRecognised`): each check
  is a fold over the digits, an induction over data; the run enumerates every kind,
  check character and place.

## 7. What is not modelled, and why

`PROJECT.json` gives a line per component.

* Regular expressions of the patterns, the word lists of the verifiers and the
  language packs, byte and rune offsets (`nerclient/offsets.go`): functions of
  text character by character.  What they find, and the verdicts, are choices.
* The asynchronous tier of `TieredDetector` and `BatchDetector`: no caller outside
  the tests.
* Of a streamed text: what a rune of four bytes, or another letter whose upper case
  has another length, does to a hold point (a word is an atom that shifts it by one,
  and that no letter, digit or underscore begins); frames that cut inside an atom.
* The Python analyzer: a service without state round NLP models; its answers and
  failures are inputs.
* Of the configuration: the sections that do not bear on routing, YAML, the
  printed schema; of the programs: command lines, the dry run, measurement.
* The sidecar's handlers that keep nothing, file sinks (a write under a lock),
  listing and logging.
* All of a request in one state: the parts are checked apart, and what one gives
  another is a choice over what the other can give.
* Cryptography is modelled by its use: a digest is its value and a random token
  one that was never drawn.
