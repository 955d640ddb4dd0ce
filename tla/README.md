# Atlas-MCP in TLA+

Specifications, model-checking runs and machine-checked proofs of the program in
`src/atlas_mcp`: an MCP server that takes tool calls from language-model agents
through a pipeline of gates, caches and reliability wrappers, and the support
copilot that is its first client. Paths below are relative to the repository.

`PROJECT.json` holds the same facts for tools: components, runs, the lines each
definition models, hazards, findings and theorems.

## The system

On HTTP a request first passes three middlewares, on stdio it finds the context of
the process; `tools/list` is answered from the registry, a tool call enters
`AtlasServer.dispatch` (`server.py:100`):

    authenticate, bind the tenant, bind the context
    find the tool, validate, scopes, policy, HTTP allowlist      synchronous
    rate limiter                                  await (Redis)
    approval gate, for destructive tools          in-process
    cache get_or_compute, for cacheable tools     awaits (Redis)
      ATBA timeout( circuit breaker( retry( backend ) ) )
    metrics and audit, in a `finally`

Everything runs on one asyncio loop per replica: what stands between two awaits is
atomic, and every await is a point where other calls run, where the ATBA timeout
may cancel the call, and where the client may. Replicas share Redis: the token
buckets, the L2 cache and its stampede locks.

| Component | State | Operations | What is hard | What makes it correct |
|---|---|---|---|---|
| Circuit breaker (`reliability/circuit_breaker.py`) | state, opened_at, failure deque, half-open flag, trips; one per tool | `call`: check, admit, probe, success, failure | calls admitted in one state end in another; cancellation under a probe; failures older than the window | no lock-out, nothing admitted while open, one probe at a time, trips only on recent failures |
| ATBA (`reliability/atba.py`) | latency samples per tool, budget of the turn | `begin`, `timeout_for`, `call_with_budget` | a timeout cancels at any await and counts no failure; cut calls are samples too | a turn keeps its budget, its calls their shares; a slow backend is not cut off for good |
| Retry (`reliability/retry.py`) | attempt number | `with_retry` | repeating what was already applied | bounded attempts; never a write twice |
| Two-tier cache (`cache/manager.py`, `cache/l1.py`) | L1 per replica (LRU, TTL), L2, one lock per key | `get`, `set`, `delete`, `get_or_compute`, invalidations | stampedes over replicas; lock holders that are slow, cancelled or dead; invalidation against a store under way; promotion of old entries | bounded staleness, one computation at a time, no waiter hangs |
| Rate limiter (`ratelimit/limiter.py`) | tokens and last_ms per (tenant, tool); client and script hash | `acquire`, `consume`, `_ensure` | time is read before the atomic step and on other replicas; first calls meet in the lazy set-up | never more than burst and refill; exact retry-after; only calls that meet the first one's set-up fail |
| Approval gate (`governance/approval.py`) | one record per (tenant, tool, arguments), TTL | `enforce`, `approve`, `deny` | decisions, retries, expiry and restarts in any order | nothing destructive without a fresh approval of exactly that call |
| Dispatch pipeline (`server.py`) | the call's position, attempts, status for the audit | `dispatch`, `_run_observed`, `_execute_reliably` | errors, timeouts and cancellations at every await, composed with all the above | writes at most once, one outcome audited, breaker and calls agree |
| Support copilot (`agents/`) | iteration, findings, draft, verdict, counters | `answer`: plan, retrieve, synthesize, critique, revise | the model may answer anything; any request may fail | bounded cost, the verdict is of the draft returned, an end |
| Agent memory (`agents/memory.py`) | list per session in Redis | `append`, `history` | three Redis steps per append | trimmed to the latest turns |
| Tool registry (`tools/registry.py`) | name to tool, whether discovered | `register`, `unregister`, `discover`, `list_visible` | discovery that fails half way, and is run again; tools that go between list and call | list and dispatch agree; served only when complete |
| Policy, tenant, allowlist, scopes (`auth/`, `governance/`, `context.py`) | rules read at start; the context of the request | `check`, the middlewares | a context made in three places; wildcards that stand for some names only; the same rule written twice | no call for another tenant; default deny |
| Composed and workflow tools (`tools/composed`, `tools/workflow`) | none | fan-out over other tools | some of the parts fail; cancelled siblings | a partial answer says it is one |
| Atomic tools, clients (`tools/atomic`, `tools/clients`) | lazily made connections | `run` | two first calls | error classification |
| Errors, validation, audit, metrics, transports | little or none | | errors classified in every tool by itself | retryable where a retry can help |

Interactions: dispatch calls every gate and wrapper in the order above; the cache
calls back into dispatch's `_compute`; the breaker runs the retry loop, which runs
the tool; the ATBA timeout cancels breaker, retry and tool together; the copilot
reaches dispatch through HTTP. Rate limiter, cache and (as documented, not as
built) approvals meet in Redis.

## Modules

| Module | Models | State and actions against the code |
|---|---|---|
| `CircuitBreaker` | one `CircuitBreaker` and the calls in flight in it | The variables are the object's fields, plus per call slot the branch of `call()` it is suspended in (`phase`) and when it was admitted. `Admit`, `AdmitProbe` and `Reject` are the code up to `await fn(...)`, each with the transition and the pruning of `_check_transitions`; `CallSucceeds`, `CallFails` and `CallEndsUncounted` the code after it, with `_on_success`, `_on_failure` and the `finally`. |
| `Breaker` | what a breaker promises the backend behind it, abstractly | No counts, no flag, no deque: a state, when it opened, the calls running. `CircuitBreaker` implements it with `running` as the calls in flight (`ImplementsBreaker`). |
| `CircuitBreakerProofs` | theorems about it, and that it implements `Breaker` | |
| `TwoTierCache` | `CacheManager` for one key: an L1 per replica, L2, the stampede lock, callers of `get_or_compute` | One action per L2 operation, which is where callers suspend. `Abort`, `AbortAfterAcquire` and `Crash` are failures at these points. A value is its age since the start of the computation that made it. |
| `TwoTierCacheProofs` | theorems about it | |
| `TokenBucket` | `RateLimiter.acquire` and the consume step of both backends | `Allow` and `Refuse` are the step; it is given a stamp up to `Lag` ticks old. `Expire` is Redis dropping an idle key. |
| `Limiter` | `RateLimiter.acquire` over `RedisTokenBucket`: concurrent calls of one server over the bucket of `TokenBucket` | `Acquire` is the call up to its await, with the stamp it took; `Loaded`/`LoadFails` end the load of `_ensure`, `Consume`/`NoScript` the `evalsha`; `cold` remembers that a call was sent while the first one was loading. `Elsewhere` is another replica, `RedisRestart` loses the script. |
| `LimiterProofs` | theorems about `TokenBucket`, that `Limiter` implements it, and what follows for `Limiter` | |
| `Atba` | the ATBA for one tool: latencies, the turn's budget, concurrent calls | `Start` allocates the timeout (`TimeoutFor`) and counts the call; the p95 is the least sample with more than `index` samples not above it, which is the one at `index` of the sorted list; `Answer`, `Fail` and `TimeOut` end it and record its duration (`End`). |
| `AtbaProofs` | theorems about it | |
| `Tools` | what each built-in tool declares, and the error it makes of each failure of its backend | Definitions only: `Builtin`, `Errors`. |
| `Policy` | the decisions on a call that need no state: policy rules, allowlist, the two copies of the scope rule, bounds of arguments | Definitions only: `Matching`, `HostAllowed`, `HasScope`, `ScopesSatisfied`, `Bounded`. |
| `Approvals` | `ApprovalGate` over its in-process store | `Hold`, `LetsThrough` are `enforce`; `Decide` is `approve`/`deny`. A specification of its own, which `Gateway` implements. |
| `Gateway` | one request at a time through middlewares, handlers and gates, over the registry and the approvals, which change meanwhile | `request.at` is the stage; `Gates` lists the checks of `dispatch` in their order, and the first that refuses answers. What comes after the gates is the error it may answer with. |
| `GatewayProofs` | theorems about `Approvals` and `Gateway` | |
| `Dispatch` | concurrent dispatches of one tool, composed with `CircuitBreaker` (`B == INSTANCE`) | `at` is the await a dispatch stands at. The breaker's steps are conjuncts of the dispatch's. The approval record is a variable, `Decide` is `approve`/`deny`; the cache is reduced to whether it holds the result, and a computation to what may hold a lock: `Leave` is the way out of `get_or_compute`, past the release in its `finally`. `last` is the outcome and the audited status. |
| `DispatchProofs` | theorems about it, and that it drives its breaker as `CircuitBreaker` says | |
| `Copilot` | one `SupportCopilot.answer` | `at` is the await of the run; every completion is any answer the code distinguishes. |
| `CopilotProofs` | theorems about it | |
| `FanOut` | one execution of `customer.build_context` or `hybrid_search`, with the retry loop around it | A task per part and attempt; `PartAnswers`, `PartFails`, `PartCancelled` end one, `GatherAll` and `GatherFirst` are what `asyncio.gather` makes of it with and without `return_exceptions`. `Fusions` is the reciprocal rank fusion, exact in fractions. |
| `FanOutProofs` | theorems about it | |
| `MC...` | instances for TLC: symmetry sets, the home replicas of callers | |

Definitions named `Mutant...` (or `Impatient...`, `Patient...`, `Endless...`) stand
beside a definition and change it the way a plausible bug would; no specification
uses them. Each property of a passing run is violated when its mutant takes the
place of the definition, so none holds vacuously.

### Abstractions

- Time is discrete. `CircuitBreaker` and `TokenBucket` have a clock that stops at
  `MaxTime`; `TwoTierCache` counts TTLs down and needs no bound.
- Breaker: one tool; any number of call slots, each reused after its call. A call
  ends at the latest at its ATBA timeout, a constant, which in the code changes with
  the p95 but is fixed for a call when it starts.
- Cache: one key. Other keys appear as the spontaneous `Evict`. An L2 operation
  takes less than a tick (25 ms). An L2 failure is an `Abort`. InMemoryL2 and RedisL2
  differ in one place, the lock under a prefix invalidation; `InvalidateL2` allows both.
- Token bucket: tokens in a unit that makes refill and cost whole; floating point is
  left out. `IdleExpiry` is Redis's `EXPIRE 3600`, and `ExpiryAssumption` says that a
  bucket left alone that long would have been full: true of every quota in the
  repository (they refill in a minute), for a lag below an hour.
- Limiter: one pair, one server in detail; another replica only uses the bucket and
  loads the script. A call is not under way for longer than `Lag`.
- ATBA: one tool; ticks of a second, fractions rounded down; timers are exact. The
  latency of a call is chosen when it starts. One turn at a time: another one's calls
  are calls outside of a turn. `TotalBudget >= ExpectedCalls * MinTimeout` holds of the
  defaults (30 s, 5 calls, 0.5 s).
- Gateway: one request at a time: requests share the registry and the approvals, and both
  change at every stage. What a token says is a part of the bearer, whether
  arguments fit a schema a part of the message. Names with wildcards are cut into the
  parts that patterns tell apart. `policy_default_deny` and `require_tenant` are true, and so is `stateless_mode`
  (`config.py:24`, `transport/http.py:48`): each request has a session and so a context of its own; with
  sessions that last, `BindContext` would not hold. The
  tools' names, scopes and flags are those of the code.
- Dispatch: the checks before the rate limiter are one refusal, since `Gateway` has
  them. The approval TTL is
  an expiry at any moment. `warm` stands for the cache, with invalidation and expiry as
  `Cool`; the stampede lock is in `TwoTierCache`, and here a read that computes has one to release or not, as it happens. An attempt's effect may happen at
  any time while the attempt is in flight; an effect after it was given up is the same
  to every observer. The settings `rate_limit_enabled`, `cache_enabled`,
  `audit_enabled` and `destructive_tool_requires_approval` have their default, true.
  `audit.record` writes to a local file and is taken to succeed: an exception of it in the
  `finally` would take the place of the outcome. An effect is a request that the adapter sends:
  the retries of botocore below `s3_client` are not seen (and are not the pipeline's).
- Copilot: drafts are numbered, findings counted by origin.
- Fan-out: a part is one task, whatever it awaits in turn. A part's end and gather's reaction are one step. Scores are fractions
  instead of floats; documents are ids, payloads and previews are left out.

## Runs

| Run | Shows | Bounds |
|---|---|---|
| `circuit_breaker` | the breaker's safety and that it implements `Breaker`, three concurrent calls | Threshold 2, Recovery 2, Window 2, CallTimeout 1, clock to 9: trip, recovery, probe, re-trip and a second recovery fit, and failures fall out of the window |
| `breaker_probe_overlap` | violation of `SingleProbe` when calls outlast the recovery time | CallTimeout 3, Recovery 1 |
| `two_tier_cache` | staleness, exclusion, and that an undisturbed stampede has one computation at a time | two callers on one replica and one on another: L1 is shared by two and not by the third; L1Ttl 1, L2Ttl 2, LockTtl 3, MaxWaits 2, MaxCompute 1 |
| `cache_calls_end` | every `get_or_compute` ends | one caller per replica, same times |
| `cache_staleness` | violation of `StalenessWithinL2Ttl` | as `two_tier_cache` |
| `token_bucket` | accounting, retry-after, and which calls the set-up of the script fails (`Limiter.cfg`) | two calls at once; burst 6, refill 2, cost 3, expiry 4, lag 1, clock to 9: drained, refilled, expired and refilled again; `MaxRegress` 2 bounds how far stamps go back in all |
| `adaptive_timeout` | the budget of a turn, the shares of its calls, and recovery from a backend that turned slow | two calls, three of a turn of two expected; a window of 3 samples, of which 2 make an estimate: the answer of 5 s exceeds what the first samples allow, and the p95 moves both ways. `Percentile` 50 moves with so few samples as 95 does with twenty |
| `dispatch` | the pipeline's properties and the refinement `DrivesBreaker` | two dispatches, two attempts, Threshold 2, Recovery 2, CallTimeout 1, clock to 4: two failures trip the breaker, and the probe after recovery is reached |
| `dispatch_http_write` | violation of `NoDuplicateWrite` | as `dispatch` |
| `fan_out` | partial results, tasks left behind, the fused order | three documents, answers of up to three, the best two returned, two attempts: every pair of answers, with duplicates, and a part of the first attempt that outlives the second |
| `copilot` | budgets, verdicts, termination | four iterations, two findings per `done` |
| `gateway` | list against call, tenants, discovery, approvals | two tenants; an agent, an admin, an impersonator, a token with an unknown key, and stdio; messages that each gate refuses or lets pass; a plugin that takes a built-in name and one with a scope of its own; a clock of two ticks and a TTL of 0, so that a record expires between any two steps |

The relations that matter in the bounds are those of the defaults: calls shorter than
the recovery time (10 s and 30 s) in `circuit_breaker`; computations shorter than the
waiters' patience (1 s) and that shorter than the lock's TTL (5 s) in
`two_tier_cache`. The opposite is either a violation run or outside the property: a
computation of more than 5 s outlives its lock, and `LockedComputesExclude` does not
promise anything of it, nor of a lock that an invalidation deleted: two findings. And
`StampedeCollapses` says one computation at a time, not one computation: a caller whose
read missed before the holder stored, and who takes the lock after it was released, computes again.

Symmetry is used for call slots (`CallSymmetry`) and for the two callers of a replica
(`CallerSymmetry`), in safety runs only. `copilot` and `fan_out` are the only runs in which the system
may stop: one answer, one execution.

`TenantBound` speaks of requests with a valid token: on stdio there is no token, and the
tenant is the process's. `ListAgreesWithCalls` makes two exceptions, which the code
has: a tool that was unregistered since, and scopes that do not begin with
"tool:", for which the two copies of the scope rule differ.
`AnswersResume` assumes that from some point on no turn is begun and no call fails early:
refusals by an open breaker and the small shares of a turn are samples too, and keep
the estimate low. `OnlyFirstCallsRaise` names the calls that the code fails in the cold
start, and says nothing after a failed load or a restart of Redis, from which the code does not
recover: both are findings. `ListAgreesWithCalls` compares with lists for the same scopes, which
are all that the list depends on besides the registry.

### Fairness

- `TwoTierCache`: weak fairness of each caller's next step (Redis answers; a compute
  ends at its timeout; a sleep is over), of the second half of an invalidation, and
  time goes on unless all callers are at rest. None of starting a call, failing,
  crashing, evicting or invalidating is fair. `asyncio` runs what is ready, which is what the code
  relies on; aborted and crashed callers are allowed for ever.
- `Copilot`: weak fairness of its next step: completions time out after 60 s and
  requests after 30 s (`agents/base.py:59`, `agents/mcp_client.py:69`), so each ends
  or raises. These are timeouts of one network operation (a connect, a read), not of the whole
  call: that a peer does not keep a call alive by trickling its answer is assumed.
- `Atba`: weak fairness of time, of each call's end (a backend answers after its
  latency, or the timer fires) and of starting a call: agents go on calling, without which there is
  no answer to wait for. Nobody is obliged to begin or end a turn or to fail.
- The other modules state safety only.

## Proofs

All for every value of the constants (number of calls, thresholds, times, quotas), from
the `ASSUME`s of the modules, which say only that constants are naturals of a
sensible range; `ExpiryAssumption` is the one with content.

`CircuitBreakerProofs`. `IInv` is the inductive invariant: the type invariant,
the three safety invariants, and what they need: counted failures and start times are not in the future, a call in flight is not older
than `CallTimeout`, what is in flight in an open or half-open breaker started no later than it
opened, the flag has a probe behind it. `OpenAdmitsNothing` is not inductive alone:
when a half-open breaker opens again, the calls in flight must be known to have
started by now. From it:

- `TypeCorrect`, `BreakerNeverLocksOut`, `OpenBreakerAdmitsNothing`,
  `DequeBelowThreshold`: the invariants of the run.
- `TripsAreRecent`: the action property `TripSpansWindow`. The deque may hold failures
  that left the window, but only by what a call in flight can last.
- `ProbeAlone`: under `CallTimeout < Recovery`, `ProbeRunsAlone`. Its strengthening
  `ShortCallInv` says that calls of before the trip have ended by the time a
  breaker is half-open; this is where the assumption is used, and the run
  `breaker_probe_overlap` shows it is needed.

- `BreakerImplemented`: under `CallTimeout < Recovery`, `CircuitBreaker` implements `Breaker`. Every
  step is a step of `Breaker` or leaves it alone (`StepSimulates`), from `ShortCallInv`: a probe finds the
  backend idle.

`DispatchProofs`. `IInv` is the type invariant of the breaker inside (`B!TypeOK`), what the
position of a call says of its counters (`CallsInv`), and that a stored approval is a given
consent (`ConsentInv`). `WriteAtMostOnce` is not inductive alone: it needs `Counted`, that
an attempt which has not landed has applied nothing yet, and `OneAttempt`, that a
destructive dispatch never stands at the back-off. `Audited` needs `Told`, that a dispatch
which releases its lock carries an end that fits.

- `TypeCorrect`, `WritesHappenOnce`, `SlotsAreReturned`: the invariants of the run.
- `ConsentBeforeWrites`, `EndsAreAudited`, `FailuresCountedOnce`: its action properties.
  The lemma `Moves` names, for each change of a call's position, the one action that makes it;
  `PruneShortens` shows that pruning never makes the deque longer.
- `BreakerDriven`: every step is one of `CircuitBreaker` or leaves the breaker alone. The
  prover cannot use a theorem of another module through `B == INSTANCE`, so the theorems of
  `CircuitBreakerProofs` are not repeated for `B`: that they hold of the breaker in
  the pipeline is these two modules read together.

`TwoTierCacheProofs`. `AgesInv` has the types and the ages: an entry still served will not
be older than its bound when it expires, and the value a call carries is as young as the
computation or the L2 entry it came from.

- `TypeCorrect`, `StalenessBounded`: for any replicas, callers, TTLs and faults.
- `LockExcludes`: under `MaxCompute < LockTtl`, `LockedComputesExclude`. `LockInv` says that
  the lock's remaining time and the age of its holder's computation add up to the TTL.
- `StampedeComputesOnce`: under `MaxCompute < LockTtl` and `MaxCompute < MaxWaits`,
  `StampedeCollapses`: one computation at a time. `CalmInv` says that while nothing disturbs, each waiter has a
  computation under way that began before it first slept, or an L2 entry that lasts until it looks.

The code does not enforce the two hypotheses: the lock lives 5 s and waiters give up after
1 s (40 times 25 ms), while a computation may last as long as its ATBA timeout. They say
of which tools the two properties hold: those that answer within a second.

`LimiterProofs`, about the bucket first:

- `TypeCorrect`; `EveryTokenAccounted`: what was admitted and what is left comes from
  the burst, the refill and what backward stamps refill twice. The invariant
  says more while the bucket is absent: the time since the last use pays for the full
  bucket it comes back with. Here `ExpiryAssumption` is used.
- `QuotaExact`: with `Lag = 0` nothing goes backwards and the quota is exact.
- `RetryAfterIsExact`: rests on `CeilDivExact`, the two bounds of a division rounded up.

and about the limiter:

- `LimiterImplementsBucket`: every step of `Limiter` is a step of `TokenBucket` or leaves the
  bucket alone. Its invariant `StampInv` says that a call under way carries a stamp that `TokenBucket`
  allows when it reaches the script, however long it loaded. `LimiterAccounted`,
  `LimiterBucketTyped` and `LimiterRetryAfterExact` follow.
- `FirstCallsAloneRaise`: `OnlyFirstCallsRaise`, for any number of calls in the cold start. It
  needs `LoadInv`: a limiter without a client loads nothing, and one with a client is loading or
  has the script, until a load fails or Redis restarts.

`AtbaProofs`. `DeadlinesInv` speaks of where the calls of the turn will have ended, which
no later call can change, instead of where they are: each deadline is within the budget or the smallest timeout, and
within the shares of the calls made so far. A new call gets its deadline from what the
earlier ones used (`NewDeadline`): with b used by k of E calls and a timeout of at most
(B - b) / (E - k), E(b + t) <= B(k + 1) (`ShareArithmetic`). The other case, the
smallest timeout, is where `TotalBudget >= ExpectedCalls * MinTimeout` is needed.

- `TurnsStayInBudget`, `SharesAreKept`: for any latencies, window, percentile and number
  of calls, overlapping or not.

`GatewayProofs`:

- `ApprovalsAreFresh`, of `Approvals` alone: `ConsentInv` relates every stored approval
  to the last decision and its time; freshness itself is not inductive, since it says nothing of when a record expires.
- `ServerUsesGate`: every step of `Gateway` is one of `Approvals` or leaves it alone, so that
  the above holds of the server.
- `TenantIsBound`: `RequestInv` collects what each stage has established for the next
  (a token found valid, a tenant that is its own or impersonated). It rests on
  `AdminDoesNotImpersonate`: no built-in tool declares the impersonation scope.
- `DestructiveNeedsApproval`: from both, and `GatewayAssumption`, which says that `Keys`
  has every destructive call that can be made.
- `DiscoveryIsComplete`: with `RegistryInv`, that only known tools are registered.
- `ListAndCallsAgree`: under `NamesAreTools`, that a name stands for one tool with its
  scopes. `ListedInv` says what the last list tells of a tool, `CallInv` what an answer
  tells of its tool; `RefusalsAreTrue` and `PassingIsAllowed` are the two lemmas on the gates.
  The registry refuses a name that is taken, but not one that was freed: with a tool
  unregistered and another registered under its name with other scopes, the answer to a call is
  about another tool than the list was.

`FanOutProofs`. `TasksInv` says what the tasks of each attempt may be while `gather` awaits
them, is cancelled or has returned; `ListsInv` that a fused list is one of two answers.

- `TypeCorrect`, `ContextIsPartial`, `ContextIsTidy`, `StragglersAreSiblings`: for any number of attempts.
- `FusionIsOrdered`: for answers of any length, any number of results and any constant of
  the fusion. A document before another in both answers scores higher, because each of its last
  positions is smaller.

`CopilotProofs`: `TypeCorrect`, `BudgetHolds` (an invariant that pays for each
completion by the position in the run), `VerdictOfDraft` and
`ShortCircuitsAreFree`, for any number of iterations.

Two proofs need an induction: that a list has a last position of a document (`FanOutProofs`) and
that a window of samples has a largest one (`AtbaProofs`). They go through least elements
(`LeastElement`, from the library's `WFMin` and the well-foundedness of `<`), since the induction theorems
themselves take an operator as a parameter, which the prover cannot instantiate.

The inductive invariants were checked by TLC on the runs' instances before they were proved.

Every safety property of the passing runs is proved. Only model-checked are `CallsEnd`,
`AnswerEnds` and `AnswersResume` (liveness: fairness and ENABLED are out of the prover's
reach) and what the three violation runs refute. That the p95 is the entry of a sorted
list at the index was compared with `SortSeq` by TLC, for lists of up to five numbers below five.
Nothing in the modules uses a RECURSIVE operator.

## Findings

Where the code does not do what the repository says of it; details and lines are in
`PROJECT.json`.

1. A second probe can run beside the first (`breaker_probe_overlap`).
2. `http.fetch` writes are retried (`dispatch_http_write`).
3. Promotion extends staleness beyond the L2 TTL (`cache_staleness`).
4. Without a run:
   - calls that end in no ToolError are audited as ok, refused calls not at all;
   - a prefix invalidation on Redis deletes stampede locks;
   - a computation that outlasts its lock lets others in, and frees the next holder's lock at its end;
   - who misses just before the holder stores, and locks after it released, computes again;
   - a failed part of `hybrid_search` leaves the other one running;
   - old stamps refill time twice (`TokenBucket` accounts for it, and `QuotaExact` needs `Lag = 0`);
   - calls that meet the first one's script load raise (`NoScript`, `cold`);
   - a limiter whose script load failed, or whose Redis restarted, raises from then on (`NoScript`);
   - nothing starts the turn's time budget; cut calls are samples, so timeouts grow without bound;
   - approvals are per replica, and calls that wait for one burn quota;
   - failures are counted in a window, not consecutively;
   - refused connections and drivers' timeouts are not retryable, unreadable vector answers are (`Tools`);
   - the shipped policy names scopes where the server passes tool names, so but for `server.ping` no rule of it matches;
     of a rule's conditions only the first counts;
   - an admin is listed tools with scopes of their own that it may not call;
   - a token with an unknown key ends in an internal error instead of a 401;
   - discovery that failed half way cannot be repeated;
   - the Postgres client makes two pools and sets the tenant with a statement that has no effect;
   - the copilot's client takes error results for values; a short-circuited answer counts as approved;
   - `/readyz` does not look at Redis.

## Not modelled

- The verification of tokens, MCP sessions and streams, tracing and metrics exporters,
  the requests of the backend adapters, reading of configuration: I/O and library calls
  whose behaviour is not in this repository. What depends on their outcome is
  modelled with every outcome.
- Validators of single fields (SQL, URLs, identifiers): tests of one string; a
  message fits its schema or not.
- Agent memory: nothing in the program uses it.
- The Postgres pool: both first queries start before either awaits, so there is one
  outcome, told as a finding.
- Counters (metrics, cache hits) and the capability document: nothing depends on them.
- LRU order of L1: `Evict` at any moment allows all that it can do to one key.

## Plan

Order: what protects backends and data first. Done: all the modules above, and theorems
for every safety property of their runs.

1. `TwoTierCache` implementing a specification of what callers may be served, checked and
   proved.
2. The theorems of `CircuitBreakerProofs` for the breaker in the pipeline, and those of
   `Approvals` for the record of `Dispatch`.
3. `FanOut` behind the cache: partial contexts are cached.
4. With a history of when the breaker first opened, a bound on how long late
   failures keep it shut.
