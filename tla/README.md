# TLA+ models of 1ai-osint

1ai-osint collects open-source intelligence about a target (an e-mail address, a
user name, a domain, a phone number): a scan engine fans a target out to some
ninety source adapters and modules, feeds the identifiers it finds back as new
targets, and writes reports. Around the engine stand a web API with background
jobs, compliance gates with an audit trail, outbound rate limiting, monitoring
of watched targets, a fleet of worker nodes, and an AI client.

The directory holds TLA+ modules that model the parts of that program whose
correctness depends on order, interleaving, failure or time, the TLC
configurations that check them, and TLAPS proofs. Line numbers below and in
`PROJECT.json` refer to the repository's files.

## 1. Inventory

| Component | Source | State it keeps | Operations | Hard behaviour | Correct when |
|---|---|---|---|---|---|
| API job service | `src/api/app.py` | `_JOBS`, `state/jobs/jobs.json`, asyncio tasks | create, run, save, load, file a case run | eviction racing the task's start, crash between store and disk, failing saves, a clock stepped back | an accepted job ends once, and what a client was shown and the disk holds is not taken back |
| Terms-of-service guard | `core/tos_guard.py`, `core/rate_limiter.py` | one token bucket per source in memory and in a shared file | `tos_allows`, load, batched flush | stale copies of other sources' buckets, lost batches, corrupt file | no source is queried beyond its ceiling, or throttled below it |
| Outbound rate limiter | `core/rate_limiter.py` | one bucket, sleeping callers | `acquire`, `acquire_async`, `wait` | callers interleaved at the sleep | overdraft and waits are bounded |
| Inbound request limiter | `core/rate_limiter.py`, `api/app.py` | a bucket per client | `allow` | threads and the loop on one unlocked bucket | grants are bounded, Retry-After is true |
| Source gate and audit trail | `deep_scan/source_adapter.py`, `free_intel_adapter.py`, `core/compliance.py` | append-only audit file | gates, query, record, purge | cancellation while the query is out, purge rewriting the file | trail and report agree; no entry is lost before its time |
| Scan engine | `deep_scan/engine.py`, `deep_scraper.py`, `handle_verifier.py` | identifiers, scanned pairs, findings, visited pages | iterations, retries with back-off, pivots, crawl, phases after the loop | concurrency under a semaphore, retry against time-outs, truncated batches, pages in circles | everything trusted is scanned once, nothing found is lost |
| Identity graph, correlation | `identity_tracking/{identity_graph,zkit_engine,correlation}.py` | a graph of values | ingest, components, entities | order of results, loops | components are those of the records |
| Provider searches | `data_leaks/aggregator.py`, `people_finder/search.py` | threads of the executor | gather, merge | providers that never answer, given-up searches | every answer is reported under its source |
| Agent loop | `deep_scan/agent_loop.py` | planned steps and their results | plan, primaries, batches of alternates | alternates keyed to exceptions | failures are made up for, no more |
| OmniRoute client | `ai/omniroute_client.py` | none between calls | request with retry and fallback | arguments used up by an attempt | the chosen model, a bounded wait |
| Plugin system | `plugin/{registry,hooks,base}.py` | registered plugins | register, dispatch | a hook that raises or is cancelled | every listener is heard |
| Response cache | `core/cache.py` | files with expiry | get, set, delete, prune | processes without a lock, death in a write | entries are whole, fresh ones stay |
| Case manager | `investigations/case_manager.py` | run directories, `latest` | `save_run` | runs that overlap or fail | `latest` is a whole run |
| Database | `core/database.py` | SQLite rows, one connection | `save_scan`, queries | interleaved statements, no rollback | what is saved is whole and durable |
| Monitoring | `modules/monitoring/*` | watchlist file, alert history | add, remove, due, compare, alert | whole-file writes, suppression against failed delivery | the list survives, changes are announced once |
| Web pages | `web/routes/*`, `web/app.py`, `web/auth.py` | two caches | read scans and reports | caches upon caches, half-written files | pages catch up with the files |
| AI orchestrator | `ai/orchestrator.py` | none | stages of prompts | | |
| SSRF guard, browser client | `core/ssrf_guard.py`, `core/cloak_client.py` | none / one session | resolve, fetch | | |
| Node fleet | `modules/node/*` | tables in PostgreSQL | register, claim, report | left out, see section 8 | |
| Sources, extractors, exports, CLI, front end, tools | the rest | none that outlives a call | parse, format | pure I/O and formatting | |

How they interact: the API (or the CLI) starts a scan in the engine. The engine
verifies the handles it derives from a name, runs modules under a semaphore, among
them the agent loop and the provider searches, and feeds what they find back as
targets. Source modules pass through the source gate, which asks the consent flag, the
access tier and the terms-of-service guard in that order, queries, and records the
outcome in the audit trail. After the loop the engine runs external tools, crawls the
profiles, has the AI client write a dossier, correlates identities and removes
duplicates. The finished report goes back to the job store and, for jobs with a case,
to the case manager; the web pages read the scan files. The database is a library of
its own: `core/__init__.py` exports it to callers of the package, and only a health check
and the tests call it in the repository. Monitoring compares the report of a watched
target with the one before and hands the changes to the alerters.

What can go wrong in each, at its line, and the property that would notice is listed
under "hazards" in `PROJECT.json`.

## 2. The modules

In the order in which they matter to somebody who runs the program. A scan that loses
its result, or reports less than it found, is the worst the program can do; querying a
source more often than it allows, or without a trace in the audit trail, is next.

| Module | Models | Abstract specification | Checked in | Proofs |
|---|---|---|---|---|
| `JobService` | the job store of the API, its file, its tasks, crashes | `JobLedger` | `MCJobService`, `MCEnds` | `JobServiceProofs` |
| `TosGuard` | rate ceilings of sources in a shared file | a ceiling per source (`ceiling`) | `MCStores`, `MCTosGuard` | `TosGuardProofs` |
| `DeepScan` | the loop of the scan over iterations, and what it gives to external tools | | `MCDeepScan` | `DeepScanProofs` |
| `ModuleScan` | the concurrent pairs of one iteration, gates, audit trail | `PairPool`, which is how `DeepScan` sees a pair | `MCDeepScan`, `MCModuleScan` | `ModuleScanProofs` |
| `ScanReport` | the findings in the phases after the loop | | `MCDeepScan` | `DeepScanProofs` |
| `IdentityGraph` | correlation of the scan results | the components of the records | `MCEnds` | `IdentityGraphProofs` |
| `OutboundLimiter`, `RequestLimiter` | callers that sleep for a token; clients that are refused | | `MCStores`, `MCOutboundLimiter` | `OutboundLimiterProofs` |
| `ScanStore` | `save_scan` on one connection | all or nothing of a scan | `MCStores` | `StoresProofs` |
| `ResponseCache` | get, set, delete, prune of several processes | | `MCStores` | `StoresProofs` |
| `AuditTrail`, `CaseRuns`, `Watchlist`, `ChangeAlerts`, `WebScans` | the other stores, alerts, and what pages show | | `MCStores` | `StoresProofs` |
| `AgentLoop`, `OmniRoute`, `PluginDispatch`, `DeepScraper`, `HandleCheck`, `ProviderSearch` | what is awaited inside a scan | | `MCEnds`; `AgentLoop` also by itself | `EndsProofs` |
| `Scans`, `Stores`, `Ends` | several of these in one behaviour | | | |
| `Subsequences` | what a comprehension with a condition makes of a list | | | |

Compositions: `ModuleScan` implements `PairPool`, and the pairs of `DeepScan` are those
of a `PairPool`; the gate of `ModuleScan` is the answer of `TosGuard`, which may be
either at any time; `HandleCheck` decides which pivots `DeepScan` doubts; `DeepScan`
hands its findings to `ScanReport`; `CaseRuns` is what `JobService` sees as one step
(`FileCaseRun`), and `ResponseCache` what `DeepScraper` sees as a page that may be there.

`Scans` (the loop, the pairs of an iteration and the report), `Stores` (with the guard and
both limiters, which keep buckets) and `Ends` each put several modules in one specification.
Their parts share no variable, so a variable `part` chooses the one that a behaviour is
about and the others stand still: interleaving them would multiply the states and show
nothing more. Each EXTENDS one module and INSTANCEs the others; all constants stay
parameters, so that the runs (`MCDeepScan`, `MCStores`, `MCEnds`, which only give them
values) and the theorems speak of the same definitions. `MCModuleScan`, `MCTosGuard` and
`MCOutboundLimiter` give one module its values, for what only a violation needs. The
properties of an instance are conjunctions, one for each component, of the type invariant
and the named invariants of its module. A theorem about one part takes the assumption on
that part's constants and no other.

`Subsequences` gives the places that a test lets through by their enumeration, as a set of
one, where `SelectSeq` gives them by recursion, about which the prover could say nothing.
`MCStores` checks that the two are the same.

## 3. The modules and the code

Comments call a definition a *faulty variant* when it is not used by the
specification: it is a plausible mistake in the definition below it, and is put
in that one's place to see that a property notices (`PROJECT.json`, "mutants").

### JobService, JobLedger — `src/api/app.py`

`store` is `_JOBS` and `file` is `jobs.json`, both functions on the ids they hold;
`runner` is how far the asyncio task of a job has come. Handlers run to their next
await on one event loop, so a handler is a step, but `_save_jobs` and
`CaseManager.save_run` are steps of their own (`loop`, `finishing`): the process may
die between the two, and each may raise. Everything a record holds besides status,
creation time and whether there is a result is left out.

| Action | Code |
|---|---|
| `CreateScan` | `create_scan` / `_create_job` 191-227: insert, evict the oldest, schedule the task |
| `StartJob` | `_run_job` 308-322, with the record made anew when it was evicted |
| `ScanSucceeds`, `ScanRaises` | 323-346, 359-370; `engine.scan` is one await |
| `SaveJobs`, `SaveJobsFails` | `_save_jobs` 128-145: temporary file and `os.replace`, or a swallowed exception |
| `FileCaseRun`, `FileCaseRunRaises` | 347-370 |
| `Restart` | the process dies anywhere; `_load_jobs` 105-127 in the next one |
| `ClockMoves` | `datetime.now` advances or is stepped back |

`JobLedger` is what somebody who polls a job is promised: the order of statuses,
that a job is completed or failed once, and that a crash gives back exactly what was
durable.

### TosGuard — `src/core/tos_guard.py`, `src/core/rate_limiter.py`

Every source has a limiter with a copy of the *whole* state file of its own
(`state`), read when the limiter is made and written back as a whole, at most once
a second. `ceiling` is not in the code: it is what a source could still be sent if
its bucket were kept perfectly. `Allow` and `Throttle` are `tos_allows` with all it
calls; `FlushFails` and `CrashInFlush` are the two ways in which `write_text` leaves
a truncated file; `Restart` forgets what was not written, since nothing calls
`close`. A tick is half a second at a rate of one request per second: a token costs
two units and a write is due after two ticks. The clock is never stepped forward;
that would refill buckets as the passing of time does.

### DeepScan — `src/modules/deep_scan/engine.py`

`_scan_impl` from the detection of the target to the end of the loop. `Start` is what comes
before phase 1, with its pivots of which any may be doubted, `PairEnds` is the end of one
module on one target, with any findings, `EndIteration` is the extraction of identifiers and
the head of the loop (`NextTargets`). A value stands for the lower-cased form by which the
engine compares; that a URL of a profile counts as its handle, and that modules get a target
as it was first spelt, is left out; `Addresses` are the values that `_get_new_targets`
passes over, URLs from which no handle can be read. Which targets `_cap_targets` prefers
depends on spelling and is a free choice here; which identifiers go in when the report is
nearly full is too. That pivots are fewer than the targets of an iteration is an assumption,
true of all profiles of `scan_profiles.py`. What comes after the loop does not feed back
into it. `RunTools` is what `_run_external_tools_phase` picks for its tools: the first few
user names and domains, whatever their confidence, or the handle made of the name when there
is no user name at all (`Slug`). What the tools find is the subject of `ScanReport`, as are
the findings of the loop; its scan results are that of `IdentityGraph`.

### ModuleScan, PairPool — `engine.py`, `source_adapter.py`, `free_intel_adapter.py`,
`core/compliance.py`

`_run_module_scan` for all pairs of one iteration: `at` is where a coroutine is,
waiting for the semaphore, inside its attempt, pausing (without its permit), or
returned. `Block`, `Throttle`, `GateRaises` and `Query` are the gates of
`run_source_scan` up to its await, `Answer` is what follows it, `AnswerUnreadable` an
exception while leaks are parsed, outside the `try`; ordinary modules have
`CallModule`, `ModuleFinds`, `ModuleFailsForNow` and `ModuleFailsForGood`. `TimesOut`
is `wait_for`. `Records` is `record_audit`, which may fail silently. `PairPool` is a
pair as the loop sees it: open, then settled once.

### OutboundLimiter — `src/core/rate_limiter.py`

`acquire_async` and `wait` as callers meet them: `TakeNow`, or `FallAsleep` for as
long as the token takes to accrue, then `WakeTask`, which takes the token whether or
not it is there, or `WakeThread`, which takes nothing. `Cancel` is a time-out around
the caller. The bucket is refilled on every tick rather than when it is looked at;
`LazyRefill` in the proofs shows that this is the same.

### RequestLimiter — `src/core/rate_limiter.py` 170-197

`allow` by its reads and writes of `_buckets` (`Begin`, `Read`, `Refill`, `Grant`,
`Refuse`), since endpoints that are plain functions run in threads of their own and
nothing locks the bucket. `granted`, `overlaps` and `refused` are not in the code: they
count what the client was granted, the calls that began while another was under way, and
when it was last refused. The unlocked bucket does lose takings; `GrantsBounded` says how
many: a token for each call that overlapped another.

### ScanReport — `deep_scan/engine.py` 246-492, 806-849

`ExternalTools`, `StartProfiles` with a `Verify` per profile in any order, `FilterProfiles`,
`Enrich`, `Dedup`; any of them may raise (`PhaseRaises`), in which case the scan reports
what it has. `ExternalTools` adds what the tools found; to whom they were sent is `RunTools`
of `DeepScan`. A finding is a record of what the phases look at: module, value, location,
URL, whether it is a profile, severity, confidence and tags. `Confirmed` are the places that
pass the filter of profiles, `Firsts` those where an entity comes up first, which `Merged`
makes stand for all. `collected` is not in the code: all that was ever found.

### IdentityGraph — `engine.py` 480-493, `identity_tracking/*`

`AddRecord` is one turn of `build_graph`, with its exception when a record has one value
twice; `NextModule` goes to the next key of `module_results`, of which `Kept` is the last
result; `Seed` and `Visit` are the search for components, popping any node of the list;
`Resolve` takes the components whose score reaches the threshold. A score is modelled by
what makes it reach it: two modules, or two values.

### AgentLoop — `deep_scan/agent_loop.py` 200-355

`Plan` decides which sources are allowed, `StartPrimary` and `EndPrimary` are the first
`gather`, `Onwards` the batches of alternates, `Answer`, `FailsQuietly` and `Raise` the end
of a source. `FailsQuietly` is a source that its adapter did not ask, because it is blocked
or throttled, or whose exception it swallowed (`source_adapter.py` 102-165): it returns
None, and the loop sets `ok` as for a source that answered. The status `mute` tells the two
apart where the code does not.

### OmniRoute — `src/ai/omniroute_client.py` 71-168

`chat` and `async_chat` have one control flow: `Enter` an endpoint with the arguments of the
call, of which the first request takes the model away (`Send`, `kwargs.pop`), so that a
retry asks for the default; `Answers`, `FailsForNow` (sleep, doubled), `FailsForGood` (on to
the next endpoint, or the error), `Wake`.

### PluginDispatch — `src/plugin/{registry,hooks}.py`

`Register` drops a plugin whose name is taken. `dispatch` starts all hooks at once,
`dispatch_ordered` one after the other; `HookRaises` is passed over, `HookCancels` is a
`CancelledError`, which no `except Exception` catches and which breaks off the dispatch.

### DeepScraper — `deep_scan/deep_scraper.py` 322-529

`calls` is the stack of nested `scrape`, one per crawl. `Enter` returns at once for a
page that was visited, is blocked, or is in the cache; `PageArrives` stores it and takes
its links, `RequestFails` tries again or gives up, `RequestBreaks` is any other
exception, `FollowLink` and `AllFollowed` are the loop over links. `asked` and `picked`
are not in the code.

### HandleCheck — `deep_scan/handle_verifier.py`, `engine.py` 194-203

A check waits for its permit (`Send`), asks all platforms at once (`Probed`), and returns
its confidence (`Verified`) or raises and is dropped (`CheckRaises`); `Judge` is what the
scan takes as doubted.

### ProviderSearch — `data_leaks/aggregator.py`, `people_finder/search.py`

`Begin` submits a query per provider, `TakeThread` is the executor (external), `Reply`
a provider's answer, `Collect` the `gather` with the merging of what came, `GiveUp` the
time-out of the engine, which drops queries that have no thread and cannot stop those
that have one.

### ResponseCache — `src/core/cache.py`

A step is a system call that others can see: `SetStart`, `SetSync`, `SetReplace` (or
`SetFails`) of a set, `GetExpired` and then `UnlinkExpired` of a get, `PruneStart`,
`PruneLook`, `PruneUnlink` and `PruneTemps` of a prune; `Dies` ends a process between any
two. `hasty` and `wronged` are not in the code: they record a set that failed although it
was quick, and an entry that was unlinked before its time.

### AuditTrail — `core/compliance.py` 300-379

`Record` appends a line, `RecordTorn` half a line, which the next append goes on with;
a purge is `PurgeReads`, then `PurgeReplaces` or `PurgeFails`, and may overlap with
appends and with another purge. `recorded` and `raced` are not in the code.

### CaseRuns — `investigations/case_manager.py` 57-77

`Begin` makes the directory of the second, `Truncate` and `Write` each file and then
`latest`, `Fail` ends the run anywhere.

### ScanStore — `core/database.py` 143-196

`WriteScan`, `WriteFinding`, `WriteBreach`: one statement each, with an await after it;
`Commit` commits what anybody has written, `Raises` leaves it in the transaction,
`Crash` loses it.

### Watchlist, ChangeAlerts — `modules/monitoring/*`

A session loads the index once (`Load`) and writes its whole copy after every `Add`,
`Remove`, `MarkScanned` or `Clear`, during which it may die (`End`). `promised` is what
the last session was told is saved, `upset` that sessions overlapped or one died in a
save. `Scan` is a re-scan with the events `detect_changes` makes of it; `Suppress` and
`Deliver` are `send` of one channel, which remembers an event before it delivers it.

### WebScans — `web/routes/{_loader,reports,dashboard}.py`

`OpenDashboard` and `OpenReports` with both caches; `WriteFile` writes the scan file in
place, so that it may be read half written. Ages stand for the clock.

## 4. The runs

| Run | Instance | Shows |
|---|---|---|
| `jobs` | 3 jobs, 2 with a case, 2 slots, 2 times; 350 k states up to the symmetry of the two case jobs | no ghost runs, the cap, no forgotten save, cases agree with their jobs, outcomes are final, and all of it implements `JobLedger`, under crashes at any step, failing saves and filings and a clock that is stepped back |
| `jobs_results` (violation) | as `jobs` | a job evicted before its task began is saved without id and dropped at the next restart, result and all |
| `tos_restart` (violation) | no failures of disk or clock | a token taken since the last write is granted again after a restart |
| `deep` | loop: a name, 2 pivots, 4 more values with an address among them, one under 2 types, 3 modules, room for 6 identifiers, 3 targets an iteration, 4 iterations; pairs: a module, 2 sources, a refused source, 2 permits, 3 attempts; report: up to 3 of 6 findings and one of a tool | bounds, no pair in two iterations, coverage at exhaustion, doubted handles; every pair is settled once and its coroutine returns, audit trail and report agree; every finding accounted for, once |
| `deep_tools` (violation) | the same | the external tools are given a handle that was denied |
| `deep_filter` (violation) | the same | a finding of another module is dropped because its URL came up before |
| `agent_fallback` (violation) | 6 sources of which 5 may be asked, waves of 2 | a source that failed inside its adapter is replaced by none |
| `module_scan_audit` (violation) | the pairs of `deep` | a query that is timed out, or answered by what cannot be parsed, leaves no entry |
| `limiter_wait` (violation) | a thread | `wait` takes no token when it had to sleep |
| `ends` | 8 parts: 3 jobs and 2 slots; 128 inputs of 2 or 3 results; 6 sources, waves of 2; 2 endpoints, 3 retries; 4 plugins, 2 of a name; 2 crawls of 6 pages that meet on two of them, one of which fails, with a link to a blocked one, depth 2; 2 handles on 3 platforms, 1 permit; 2 searches, 2 providers, 2 threads; 148 k states | whatever is begun ends, and has by then done what it is for: identities are the components of the records, alternates stand in, calls keep their terms, listeners are heard, crawls are orderly, doubt is founded, providers are accounted for |
| `zkit_lost` (violation) | the same as `ends` | of several scan results of one module only the last is correlated |
| `stores` | 10 parts: 3 tasks saving 2 scans that share a finding; 2 processes on a cache; 3 entries and 2 purges; 3 runs of 2 files; 2 sessions, 2 targets; 3 snapshots; a scan file and two caches; 2 sources with a burst of a token, 3 times, a restart, a step back; an outbound bucket of 2½ tokens with 2 coroutines and a thread, and an inbound one of 1½ with the loop and a thread, 5 ticks, 2 overlaps; 610 k states up to the symmetry of the sources | what is kept is whole, durable until its time, and found again; excess is at most a burst per restart, and no source is throttled without reason; overdraft and waits are bounded; grants are bounded, a token for each overlap, and Retry-After is true |

The bounds are chosen so that what is rare in the program is common here. Two slots for
three jobs make every creation after the second evict, also a job whose task has not begun;
the comparison of creation times needs no more than two of them. Two sources are enough for
one to overwrite the other's bucket, and a burst of one token for a bucket to be full, empty
and, once the clock is set back, in debt (in `tos_restart` a token takes two ticks, so
that a bucket is also partly full). Three targets an iteration are fewer than there are
values, so batches are cut; six identifiers are fewer than there are, so the report gets
full; four iterations are enough for a value that was cut to come up again after one that
was not. Two permits for four pairs make a pair wait while others pause. Three callers are
enough for one to come in between two that sleep. Three results of two modules are enough
for one to be replaced and for its place to be kept; records of up to two values link any
two of three values through the third. Five sources after the primaries make more than one
batch. Two retries and a depth of two on pages that link in circles reach a page again by a
longer and by a shorter way. The second crawl begins at a page that the first reaches; the
two share a page that fails, and a page with a link to a blocked one. A cache entry that
lives one tick, and temporary files that count as abandoned after two, make each expire
while another process is between two of its calls; four ticks are a renewal, its expiry and
a prune after it. Two purges overlap in every order. Three snapshots have a change of every
kind, also one that is undone.

Deadlock is checked in `jobs`, whose service never stops. The other systems do: a scan that
is over (`Scans`), clocks at their bounds and writers that have ended (`Stores`), and what
was begun and has ended (`Ends`).

## 5. Fairness

`deep` assumes weak fairness of the next step of the pairs as a whole: the loop goes on, an
attempt that hangs is ended by `wait_for`, and a pause is a timer; the steps of all
pairs are finite in number, so no pair needs a fairness of its own.

`ends` assumes for each part what the code's scheduling gives it (`AllFairness`). The
correlation is sequential code and goes on. The event loop runs whatever is ready
(`LoopStep`), and the task of each job goes on, since every module in a scan is under a
time-out (`RunnerStep`). A source of the agent loop answers, returns nothing, raises or is
timed out; a request of the AI client is answered or times out, and a sleep ends; a hook
ends; each crawl goes on, as each of its requests has a time-out; likewise each probe of a
handle. Providers are *not* assumed to answer: of a search only its own end is fair
(`EndStep`), by its `gather` or by the engine's time-out. Requests, crashes, evictions and
dispatches are not assumed to happen. `AwaitedEnds` says that again and again nothing is
under way; as a job, a crawl or a search ends once and a dispatch has to end before the next
begins, that is the end of each of them.

All other properties are safety properties and assume nothing.

## 6. The proofs

All are for any values of the constants under the assumptions the modules name
(`JobAssumption`, `ScanAssumption`, `GraphAssumption`, ...): finite sets of callers, pairs
or identifiers, positive caps and bounds. Those of a module that runs as a part of another
are definitions (`PairAssumption`, `GuardAssumption`, `LimiterAssumption`, ...) and stand
before `PROVE` in its theorems; the MC modules ASSUME them of the values they give. Each
module has an invariant `IInv` that is inductive, stated in the module itself as a
conjunction of named parts, proved for the initial states and then action by action; the
theorems follow from it. Every invariant and every action property that a passing run checks
is the subject of a theorem.

- `JobServiceProofs`: what a task's progress says of its job's status in memory
  (`StoreFollowsRunner`) and on disk, which may be behind (`FileFollowsRunner`,
  `FileBehindStore`). Without the last, an outcome on disk might be taken back by the
  next save, and `DurableOutcome` is no invariant of a state but of the step that
  saves. `ServiceImplementsLedger` maps every action to one of `JobLedger` or to a
  stutter.
- `TosGuardProofs`: every copy of a bucket, on disk or in memory, is at least as full
  as the true allowance while the clock only advances (`CopiesGenerous`), and the one
  a source is answered from exceeds it by at most a burst per restart
  (`OwnCopyBounded`). The first gives `ThrottlesWithReason`, the second
  `ExcessBounded`; that the second needs no assumption on the file is why stale and
  truncated files do no worse.
- `DeepScanProofs`: a pair that was launched is running or marked
  (`LaunchedOrScanned`), the batch leaves out no relevant pair (`BatchComplete`), and
  so what is seen is covered (`SeenCovered`); at exhaustion everything trusted is seen, but
for addresses. `DoubtedNeverScanned` is about the loop; the tools after it are the
violation `deep_tools`.
  `FindingsAreSettled` is about the report: until the profiles are filtered all that was
  found is there (`AllThere`), and from then on each finding is there, was denied, or
  another that is there points to its page (`Standing`). The filter keeps the first
  finding of a page that was not denied: there is a least place, as the order of places
  is well-founded. What de-duplication keeps is the first about its entity, with the
  greatest severity of them, which exists as severities are bounded.
- `ModuleScanProofs`: before it returns a pair leaves nothing
  (`PairLeavesOneOutcome`), and a source enters its outcome with its last attempt
  (`SourceLeavesOneEntry`).
- `OutboundLimiterProofs`: when a sleeper is due there is enough for all that are due
  by then to overdraw the bucket by no more than allowed (`ProvidedFor`). That is what
  makes `DebtBounded` inductive: a caller that falls asleep is due when a whole token is
  there, whatever the debt, and one that takes a token while others sleep is not among
  those that sleep. `RequestsBounded` is about the inbound limiter: what was granted and
  what the bucket is worth by now (`Worth`) exceed a burst and what has accrued by no more
  than the calls under way can still give back (`Under`) and a token for each overlap. A
  call that overlaps none knows the bucket as it is (`AloneKnows`), and so what it takes
  is gone; one that overlaps pays for what it puts back with its own overlap. A refusal
  leaves in the bucket what it saw (`RefusalCounts`), so that a second refusal a token's
  time later would have had a token to give.
- `IdentityGraphProofs`: the graph is that of the records gone through
  (`GraphOfRecords`), the sources of a node are the modules that told it
  (`SourcesOfRecords`), and the search is sound (`SearchSound`): finished components are
  closed and apart, and whatever closed set has a part of a component has all of it. The
  last is quantified over all sets of nodes, which takes the place of an induction over
  paths: a component is connected because no closed set divides it.
- `StoresProofs`, one theorem for each store:
  - `ScansKept`: the connection sees all that a task has written so far and all of a saved
    scan (`SavesInView`), so that any commit takes it to the disk, and a row of a scan was
    written by a save of it (`RowsOfStarted`).
  - `CacheKeeps`: a set under way has its temporary file or has taken too long
    (`TempsOfSets`), and what a get or a prune is about to unlink was seen expired
    (`SeenExpired`).
  - `TrailKeeps`: lines are of recorded or torn entries and spoil one at most
    (`LinesSound`), and what was recorded before a purge began is among the lines it has
    kept, or has expired (`PurgesKeepUnexpired`). What a purge keeps is a `Selections` of
    the lines: each that is kept has a place, and no other has.
  - `LatestWhole`: a run that has its directory to itself has written every file before
    the one it is at (`WrittenSoFar`), and only one that has written all is named by
    `latest` (`LatestHasFiles`).
  - `ListSurvives`: sessions follow one another (`OneAtATime`), so what the last was told
    is what the next loads.
  - `AlertsTellChanges`: the events are those of the two snapshots (`EventsOfScan`), and a
    channel remembers the tries of the window as they were (`RecentIsTried`). That an event
    of the same type and values is the same event holds where the values tell the field.
  - `PagesCatchUp`: what was read after the file's last change is what it holds
    (`LoadedIsCurrent`), and so is what was made of it a time to live later
    (`MadeIsCurrent`).
- `EndsProofs`, one theorem for each of what is awaited:
  - `CrawlsInOrder`: the stack of a crawl is a way from its root over links that were
    picked (`IsWay`), whose pages are visited once, so it is no deeper than it is long; a
    page is asked for in the one call that entered it (`AskedInCall`); and a link that was
    picked has an answer, is on the stack, or is yet to be followed by a page of the stack
    (`NothingForgotten`).
  - `AlternatesSuffice`: the sources that were started are those up to a rank
    (`StartedInOrder`), and what is owed is what failed in the first wave less the
    alternates that answered, before the batch that is out (`OwedIsMissing`). Failed means
    raised or timed out.
  - `ProvidersCounted`: a query waits for a thread, has one or has its answer, and waits
    only while its search does (`OnePlace`), so that what a given-up search leaves behind
    holds threads and nothing else.
  - `HandlesDoubted`: a result is that of its probes, which have all come in
    (`ResultsOfProbes`).
  - `ListenersHeard`: a dispatch is of all that list the hook (`CallsAreListeners`), each
    once, as no two plugins of one name are registered (`NamesDiffer`).
  - `CallKeeps`: an endpoint that was not asked yet is about to be asked for the model of
    the call, and one that was asked for the default (`FirstIsOverride`); the delay, doubled
    as often as it still may be, is the longest there is, and bounds what was slept
    (`SleptSoFar`).

Only model-checked: liveness (`AwaitedEnds`, `EveryPairReturns`), which is beyond the
prover, and the properties that are violated. That `Selections` is `SelectSeq`
is checked for short sequences only, since a proof of it would be an induction over data.

## 7. What the checks found

Each is a run that must end in a violation, and an entry under "findings" with the
line of the documentation it contradicts.

- A job evicted before its task starts is put back without an id and lost at the next
  restart, result included (`app.py` 318).
- Rate limits do not survive an orderly restart (`rate_limiter.py` 51). The theorems say
  how bad that gets: a burst per restart, and nothing without a restart.
- Not every executed query is audited (`source_adapter.py` 155).
- `wait` takes no token after its sleep (`rate_limiter.py` 139).
- A handle that was checked and denied is kept out of the loop, but given to Sherlock after
  it (`engine.py` 357, against the comment at 190).
- Of two findings with one URL the second is dropped, whatever it is and whichever module
  found it, although only duplicate profiles should be (`engine.py` 473, against 395 and
  470). `FindingsSettled` says how much is kept: another finding that points to the page.
- The agent loop tries no alternate for a source that failed or was throttled inside its
  adapter, which is where sources fail (`agent_loop.py` 346, against 7 and 244).
  `AlternatesStandIn` is about those that raise or time out.
- The correlation keeps one result per module, so what only an earlier result of the
  module links stays apart (`engine.py` 489).

Some properties hold with a reservation that the code earned and their comments name:

- an audit entry appended during a purge may be lost (`RecordedUntilExpired`);
- a half of a scan may be committed by another scan (`ScansAreKept`);
- two runs of a case in one second may be mixed (`LatestIsWhole`);
- sessions of a watchlist that overlap lose each other's changes (`ListSurvivesSessions`);
- a lost attribute is announced by no event (`EventsExplainScan`);
- two events of one type with the same values are one to a channel also when they are about
  different fields, as two risk fields that change alike: the second is suppressed and was
  never tried, where `alerter.py` 28 speaks of an identical event (`SilenceEnds`);
- the model a caller chooses is asked for in the first request to each endpoint and in no
  retry, although `omniroute_client.py` 146 and 204 offer it for the call: the first attempt
  takes it out of the arguments (77, 113). `OverrideOncePerEndpoint` says exactly that;
- a crawl goes one level deeper than `deep_scraper.py` 121-122 says ("1 = no recursion"): the
  depth begins at 0 and links are followed while it is less than `max_depth` (406).
  `WithinDepth` bounds it by the depth the code reaches.

## 8. What is not modelled

- Parsing, formatting and rendering: sources, extractors, exports, command line, front
  end, the prompts of the AI modules, severities and texts of briefings. They keep nothing
  from one call to the next, and make up most of the source lines.
- `ai/orchestrator.py`: a straight line of stages without a branch or state; its calls of
  the model are those of `OmniRoute`. `mcp_bridge`: its sources run one after the other.
- The address checks of the SSRF guard are arithmetic (their verdict is the constant
  `Blocked` of `DeepScraper`); the browser client and `breach_router.py` are called by
  nothing in the program, as is `learn` of the providers, without which
  `_filter_false_positives` passes everything and is left out.
- The node fleet and the tools for keys and wallets, which coordinate scanners for leaked
  keys through an external database: no part of the investigation core.
- The PostgreSQL backend of `core/database.py`, and its tables other than those of
  `save_scan`, which are written by one statement and a commit; `clear` and `reset`
  operations that only tests call; the discovery of plugin modules, which is import
  machinery.
- Of what is modelled, the content of findings and records, the spelling of identifiers
  and the text of errors. Two spellings of one value may therefore be scanned twice in one
  iteration in the program (`engine.py` 799) and not in `DeepScan`; a job that was queued
  when the process died stays queued (`app.py` 124, a hazard without a property); and
  `list_jobs` reads `_JOBS` from a thread (`app.py` 283), which has no effect on the state.
