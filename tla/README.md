# Verification of vllm-semantic-cache-ext

TLA+ models of the semantic offloading extension for vLLM, the TLC runs that
check them on small instances, and TLAPS proofs of their main safety properties
for every instance.  Paths are relative to the repository root; line numbers
without a file are of `semantic_offload/connector.py`.

## 1. The system

The package extends vLLM's KV-cache offloading.  KV blocks of finished chunks
are stored from the GPU to a CPU tier; queries captured from one attention layer
score the stored blocks by relevance; the scores drive eviction from the CPU
tier and a speculative *prefetch*: while a request is preempted, its most
relevant blocks are loaded back into GPU blocks *borrowed* from the pool, and
when it is re-admitted they are *spliced* (copied GPU to GPU) into the blocks it
was officially given.

| Component | State it keeps | Operations | What makes it correct |
|---|---|---|---|
| Prefetch and splice scheduler (`connector.py` 327-1024) | `_preempted_pending`, `_prefetched`, `_prefetch_reserved_blocks`, `_pending_splice_releases`, `_reset_prefetch_releases`, the job ids it puts into the base class's `_jobs` and `transfer_jobs` | queue preempted, retry / reserve, splice on admission, finish, update_connector_output (countdowns, orphan sweep), reset_cache, build_connector_meta | no GPU block is lost, freed twice, or freed while a worker writes or reads it; the budget counter is exact; the base class's assertions hold; the content spliced in is the right one; nothing waits for ever |
| Prefetch and splice on the workers (`connector.py` 1030-1222, `worker.py` 742-826) | pending splices and their events, submitted transfers | bind metadata (flush, splice, load), asynchronous completion, one-time report | each completion is reported exactly once; order of accesses to one block |
| vLLM scheduler, block pool, base connector (external) | request status, block tables, free list, `_jobs`, `_req_status` | preempt, admit, store, flush, complete | modelled only as far as the code here relies on it |
| Query capture (`query_capture.py`) | module-level `_active_handle`, `_runner_patch`; per handle `_runner`, `_active_executions`, `_execution_threads`, `_closing`, `_closed`; context-local `_current_handle`, `_current_layout` | install, wrapped `execute_model` and `prepare_inputs`, probe dispatch, close | one owner of the patched class; the methods come back; no execution of a closed handle; a query is paired with the layout of its own step |
| CPU-tier manager (`manager.py`, over vLLM's CPU manager) | blocks with their reference counts, `relevance_ema`, `_pending_evicted_keys` | prepare_store, complete_store, prepare_load, complete_load, drain_evicted_keys, update_relevance, apply_relevance_updates, reset_cache | a key is evicted only while idle and only for needed room; every eviction is announced; no score of a key that is gone; composed updates equal sequential ones |
| Eviction policy (`policy.py`) | LRU order, grace, chain links both ways, session history and ages per key | insert, remove, touch, evict, clear | what leaves is forgotten everywhere; the two chain maps are inverse; no key is evicted to spare one with a weaker claim |
| Worker summaries and score stack (`worker.py` 233-740) | `_pending_job_blocks`, durable summaries, the incremental stack with its index and pending changes | receive layouts and evicted keys, submit_store, prune, capture, reset | the stack equals one rebuilt from the summaries; the summaries follow the CPU tier |
| Score metadata (`SemanticWorkerMetadata`, 160-324) | scores, composed updates, head and worker counts per step | build, aggregate, complete_scores | nothing lost or counted twice, in whatever order the workers report; never a refusal in a running group |
| Store layout (`store_layout.py`) | none | `build_store_job_layout` | every key gets its own blocks, in order |
| Harness: server lifecycle and needle cases (`harness/server.py`, `needle_workload.py`, and `benchmarks/run_latency_suite.py`, which runs them) | the server process, byte counters, polls of the settle loop | launch, poll, time out, shut down; next case, distract, drain, recall, classify, beside other streams in `mixed` | no case measures another's server; every server ends; a verdict is about the recall |
| Harness: adaptive splice probe (`run_adaptive_probe_live.py`, `adaptive_splice_probe.py`) | a watcher thread and a request per tag, the server's log | open the log, post, read a line, time out | a splice is reported only for a request that was spliced, and missed only where no watcher could read it |
| Spec and configuration (`spec.py`, `policy.py` settings, `validate_parallel_scoring`) | configuration | | start-ups that cannot score correctly are refused |
| Summary index, version compatibility, debug counters | configuration or none | | no protocol of their own |
| Harness workloads, metrics and policies, other benchmarks, experiments, scripts | files | generate prompts, parse metrics, plot | drivers around the system |

How they interact: the scheduler half and the worker half of the connector talk
only through per-step metadata (downwards) and worker outputs (upwards, merged
over the tensor-parallel workers); the connector reads the manager's scores to
choose what to prefetch; the manager's evicted keys ride down in the metadata
and remove worker summaries; query capture calls back into the worker for each
sampled step; GPU blocks are shared, through the block pool, with vLLM's own
allocation.

What is hard here:

- *ownership of GPU blocks across asynchronous work*: a load or a copy outlives
  the step that submitted it, completes on different workers in different steps,
  and the request may be aborted or the cache reset in between;
- *piggy-backing on another class's bookkeeping*: the prefetch is registered in
  the base connector's `_jobs` and `transfer_jobs`, so it must satisfy the
  assertions and unconditional removals made there for loads and stores;
- *limits*: a budget shared by requests that reserve in one step, a pool that
  both the budget and real requests draw from;
- *one truth in three places*: the CPU tier, the policy's metadata and every
  worker's summaries are about the same keys, and the workers hear of stores,
  evictions and resets steps later;
- *incremental bookkeeping*: a stack kept up to date by pending inserts and
  removals, two chain maps that must stay inverse, composed averages, means of
  means;
- *condition variables and class patching* in query capture: several threads,
  several engines in one process, other packages patching the same class;
- *deadlines* in the harness: servers that die, hang or answer late, counters that
  move after the request that moved them, logs read under a timeout.

The hazards, each at its line and with the property that guards against it, are
listed in `PROJECT.json`.

## 2. The modules

| Module | What it is |
|---|---|
| `SemanticConnector` | scheduler and workers of the prefetch, with the parts of vLLM they rely on |
| `PrefetchLoans` | abstract specification: what the prefetch promises the block pool |
| `MCSemanticConnector` | small instances of `SemanticConnector` |
| `SemanticConnectorProofs` | type correctness of `SemanticConnector`, and the transfer jobs: registration, receipts, flushes, retry queue |
| `SemanticConnectorBlockProofs` | the blocks: one owner, quarantines, the budget counter, and that `SemanticConnector` implements `PrefetchLoans` |
| `SemanticConnectorContentProofs` | what the blocks hold: requests find their content, stores are not overwritten |
| `QueryCapture`, `MCQueryCapture` | the query-capture lifecycle and its instance |
| `QueryCaptureProofs` | its type correctness, executions, layouts, ownership and methods |
| `OffloadTier` | abstract specification: what the CPU tier promises the connector and the workers |
| `CpuTier`, `MCCpuTier` | the manager over the semantic policy, and its instance |
| `CpuTierProofs` | its order, metadata, chain maps and ranking, and that it implements `OffloadTier` |
| `WorkerSummaries` | the worker's summaries and score stack, as operators on a worker's state |
| `SummarySync` | composition: `OffloadTier`, the connector's metadata, and a worker |
| `SummarySyncProofs` | the stack, and that the summaries follow the tier |
| `ScorePipeline`, `MCScorePipeline` | a step's scores, from the workers through aggregation to the relevance of the keys |
| `ScorePipelineProofs` | folds and sums over finite sets; aggregation and the composed average |
| `Harness` | server lifecycle, needle case and splice probe of the measurement harness |
| `HarnessProofs` | its servers, verdicts and splice reports |

How they compose: `SemanticConnector` stands for itself, and `PrefetchLoans` is its
contract with the block pool.  `OffloadTier` is the contract between the CPU tier
and everybody else: `CpuTier` implements it, and `SummarySync` runs a worker
(`WorkerSummaries`) against it, so what is shown of the worker holds of any
eviction policy that keeps the contract.  `ScorePipeline` produces the relevance
that `CpuTier` ranks by; there a level is anything a step may leave.

Definitions whose comment begins with *Faulty* are not used by any
specification.  Each is what a plausible mistake in the code would make of the
definition next to it, and `PROJECT.json` ("mutants") says which property breaks
when it takes that definition's place.

### SemanticConnector

One engine step is `BeginStep` (schedule: `Preempt`, `AdmitNormally`,
`AdmitSpliced`), `BeginBuild` (queue, then for each request of `todo`
`StopRetrying`, `RetryLater` or `Reserve`), `Send`, each worker's `Bind`,
`TransferDone`, `SpliceDone` and `Report`, and `UpdateOutput`.  Between passes
come `Finish` and `ResetCache`.

| Variable | Code |
|---|---|
| `preemptedPending`, `prefetched`, `reserved` | `_preempted_pending`, `_prefetched`, `_prefetch_reserved_blocks` |
| `spliceReleases`, `resetReleases` | `_pending_splice_releases`, `_reset_prefetch_releases` |
| `todo` | what is left of the loop in `_retry_pending_prefetches` (439-460) |
| `jobs`, `transferJobs`, `reqStatus` | the base class's `_jobs`, `req_status.transfer_jobs`, `_req_status` |
| `allocated`, `flush` | `_current_batch_allocated_block_ids`, `jobs_to_flush` |
| `copies`, `copyStage`, `stage`, `wpc` | the splices and transfers each worker has been given and how far it is |
| `gpu` | the key whose KV a block holds on each worker |
| `status`, `table`, `external`, `free`, `preemptedNow`, `phase` | vLLM's request status, block tables, positions to fill from the CPU tier, free list, `preempted_req_ids`, place in the step |

Decisions worth knowing:

- The engine is synchronous, with one step in flight.  Requests finish between
  steps or after all workers have reported and before `UpdateOutput`
  (`BetweenPasses`); the cache is reset only between steps, so there is never an
  unsent splice or load at that moment (the branches for these in `reset_cache`
  have nothing to do).
- The device progresses only while the workers execute.  Nothing observes it
  elsewhere before the next `Report`, so no behaviour is lost.
- Accesses to one block happen in the order of issue: transfers wait for an
  earlier copy into their blocks, a copy waits for one that lags behind, stores
  wait on the model stream (`worker.py` 755-758).  Nothing orders a copy or a
  load after a *store* from the block except the flush list, and that is the
  property `NoStoreOverwritten`.
- Which keys are scored and resident in the CPU tier is not known here: a
  reservation may take any keys of the request's chain in any order.  A chain may
  name a key twice.  The locally cached prefix is any length of `LocalPrefixes`.
- Blocks returned to the pool forget their content.
- One KV-cache group, one block per chunk.  A budget of zero stands for the
  disabled prefetch.  `next_stored_chunk_idx`, `being_loaded` and
  `complete_load` are not modelled: no property is about which chunk is stored
  next or about CPU-side reference counts.
- The code's job and splice ids come from counters that never run out; here an id
  is used again once nothing names it any more (`FreshJobs`, `FreshSplices`).
  With one request the same states are reached whether there are two job ids or
  three, so this bound does not bind.  One new store per request and step.

### PrefetchLoans

Three variables: the free blocks, the lent blocks, and the blocks some worker is
filling or reading for a loan.  A borrowing takes free blocks within the budget;
an exchange lets the pool and the requests swap blocks and ends loans whose
blocks nobody touches.  `SemanticConnector` implements it with
`lent <- OnLoan` and `busy <- BusyLoans`: every release path (stale prefetch,
acknowledged splice, finished request, orphan sweep, reset and its countdown)
must be a legal end of a loan.

### QueryCapture

One action per region under `_lifecycle_condition`: `Install`, `BeginExecution`
or `RefuseExecution`, `EndExecution`, `Close`, `Wake`.  Looking a method up and
entering it (`CallExecute`, `PrepareInputs`) happen without the lock, so a thread
may be entering a wrapper that close() is removing.  `ReplacePrepare` and
`ReplaceExecute` are other packages that patch the same methods, each once; their
methods do not call through.  `waiting` and `notified` are the condition variable:
a closer that waits runs again only after a notification.  The two method
assignments of install and of unpatch, done under the lock, are one step.
Executions do not nest within a thread.  A batch is known modulo two, enough to
tell a step from the one before it.  `MaxProbes` bounds the attention calls of
the probe layer in one step.

### OffloadTier and CpuTier

| Variable | Code |
|---|---|
| `ref` | the blocks of the composed policy and their `ref_cnt`: -1 while a store fills them, 0 idle, n while n loads read them |
| `evictable`, `older` | `_lru.evictable_blocks` as a set and its order as a relation |
| `pendingEvicted` | `_pending_evicted_keys` |
| `ema` | `relevance_ema` of the configured method |
| `graceLeft` | `_grace_expiry - _insert_count`, while positive |
| `chainSuccessor`, `chainPredecessors` | the maps of the same names |
| `lastTouchReq`, `sessionProven`, `staleness` | `_last_touch_req_id`, `_session_proven`, `_touch_seq - _last_touch_seq` |

The actions are the manager's operations: `Touch`, `PrepareStore` (with its
eviction), `CompleteStore`, `FailStore`, `PrepareLoad`, `CompleteLoad`,
`UpdateRelevance`, `DrainEvictedKeys`, `ResetCache`.  Scores are counted in
`1/Unit`; in the run `Unit` is a multiple of every denominator that occurs, so that
rounding never decides a comparison.  The proofs need of it only that it is even.  `alpha` is its default, one half.  What a
relevance update makes of the old average is `ScorePipeline`'s subject, so here
any level may result.  A request stores, loads and scores stretches of its chain;
a chain names no key twice (prefix hashes differ along a prompt).  Keys are
touched resident or not, as the code does it; metadata that a touch leaves for a
key that never becomes resident stays, and no property says otherwise.
`complete_store(success=False)` is never called by today's vLLM; it is modelled
as the fault the manager is written for.

`OffloadTier` keeps `ref`, `ema` and `pendingEvicted` only; which keys a step is
about is read off the step.

### WorkerSummaries and SummarySync

The worker is a record: `jobBlocks` (`_pending_job_blocks`), `durable`
(`durable_summaries`, in insertion order), `stackKeys`, `stackRows` and `index`
(`_stack_cache_keys`, `_stack_cache`, `_stack_cache_index`), `insert`, `remove` and
`dirty`.  Of a row it is kept whether it shows the summary last built for its key.
`MarkInserted`, `MarkRemoved`, `DropRows`, `AppendRows`, `ReceiveEvictedKeys`,
`Prune`, `SubmitStore` and `CaptureQueries` are the methods of those names or of
the code in their maps.

`SummarySync` says when they happen: `Store` while a step is built,
`BuildConnectorMeta` (layouts, evicted keys, reset flag), `BindConnectorMetadata`
up to `MaxLag` steps behind, `Submit` in the step that brought a job or later,
`Capture`, `CompleteStore` (or its failure), `ResetCache` between steps.  All
workers run the same code on the same metadata; one stands for all.

### ScorePipeline

One engine step: each worker's `Capture` scores some requests of the batch against
the summaries it has, `Report` builds its metadata and aggregates it with what is
there, `UpdateConnectorOutput` applies what is complete.  Start-up refuses some
deployments (`Accepts`).  A ranked list is the function it sorts; averages are
exact fractions, so equality of `ema` with what the observations say one by one is
exact.  Scores are counted in a unit fine enough for a mean over any of the workers
to be a whole number (`ScoresAssumption`): the code's means are floating point, and
rounding is not what the properties are about.  Each worker holds the same number of KV heads, its share or a replica.

### Harness

| Variable | Code |
|---|---|
| `server` | the process of each cell's server |
| `underway`, `counters`, `others` | external: the server's asynchronous stores, `kv_offload_load_bytes_total` and `kv_offload_store_bytes_total` by transfers, and whose requests it serves beside the case's |
| `cell`, `pc`, `cases` | the cells launched, the driver's place, the needle cases of the cell |
| `polls`, `prev` | the loop of `_drain_store_counter` and its last snapshot |
| `outcome` | `needle_outcome`, or the tag that the probe reports |
| `watcher`, `request`, `unread` | per tag: `watch_for_splice` in its thread, the posted request, the lines about it between the watcher's position and the end of the log |
| `recall`, `inFlight`, `baseline`, `disturbed`, `spliced` | history: what the recall moved, the stores under way at the last poll, how the polls ended, whether others moved bytes meanwhile, what the watcher was doing when a request was spliced |

`LaunchServer`, `PollReady`, `ReadyTimeout`, `Shutdown` and `Terminated` are
`launch_server` and `ServerHandle.shutdown`; a server becomes ready, crashes,
ignores SIGTERM, and may answer on the port whenever it is up.

A cell of `run_latency_suite.py` uses one server for case after case (`NextCase`,
`EndCell`).  A case is `Distract`, `BeginDrain`, `DrainStoreCounter`, `Recall`,
`Measure`.  Stores complete asynchronously and outlast the case that caused them; a
request is answered after its loads.  `Distract` may load as well as store: a probe
of the needle can hit the CPU tier.  A case that fails (`CaseFails`) gives up a
request that the server may still be at, and the next case begins on the same
server.  In `mixed` other streams load and store on the same counters at any time
(`OtherTraffic`), until they end (`OthersEnd`).

The probe is `BeginProbe`, `OpenLog`, `PostTagged`, `LogSplice`, `ReadLine`,
`WatchTimeout`, `EndProbe`.  `BeginProbe` only submits the watchers to the
executor.  Each opens the log and goes to its end when its thread runs
(`adaptive_splice_probe.py` 40-41), and nothing orders that before the requests,
which are posted by other threads of the same executor.  What is logged before is
lost to the watcher; see the third remark under Findings.  The library function
`run_adaptive_probe()`, which nothing in the repository calls, posts its request
and watches only after the answer: one of the orders modelled, and one in which
every splice is lost.

## 3. The runs

| Run | Instance | States | What it shows |
|---|---|---|---|
| `prefetch_two_requests` | two chains with a common first key, three blocks, budget 1, one worker | 187,093 | block accounting, quarantines, budget, the base class's assertions, content of running requests, stores never overwritten |
| `prefetch_two_workers` | one chain, two workers, four blocks, budget 2 | 597,271 | workers completing in different steps; the loan contract is implemented |
| `prefetch_liveness` | one chain of two keys, three blocks, budget 1, one block may be cached locally; fair | 22,683 | quarantines end, orphans are swept, preempted requests return |
| `prefetch_short_prompt` | a chain next to a prompt without a full chunk | 71,514 | the retry queue names only requests that still wait |
| `full_cover_splice` | one chain; fair | violation | see finding 1 |
| `reservation_starves` | a chain as long as the pool; fair | violation | see finding 2 |
| `capture_two_engines` | two engines, three threads, one of them closing, one runner, one probe; fair | 482,048 | ownership, restored methods, executions, layouts; every close() returns |
| `capture_two_closers` | three threads, two closing, two handles | violation | see finding 3 |
| `cpu_tier` | four keys, chains a-b-c and a-d, three blocks, four policies | 281,305 | order, metadata and chain maps follow the blocks; evictions are fair; the tier keeps its contract |
| `summary_sync` | three keys, two blocks, two jobs, metadata one step behind; fair | 194,366 | stack, summaries and tier agree; evicted keys are forgotten |
| `score_pipeline` | three keys, two requests, one to three workers, seven deployments | 516,078 | aggregation is exact in any order; updates average what was observed |
| `harness` | two cells of two cases, two polls, two stores under way at once and two transfers beside the recalls', two tags; fair | 366,601 | cells do not mix; verdicts; what the probe reports; every server ends |

Why these bounds.  The interesting events of the connector need: two requests
whose reservations compete (budget 1, three blocks: one request's reservation
takes what the other needs); two workers for split acknowledgements; a prefetch
of two blocks of which a splice uses one (budget 2); a chain longer than one key
so that rank order and chain order differ; a local prefix, so that a plan does not
start at the beginning.  Every action, and every disjunct of the next-state
relations, is taken in some passing run.  Blocks and workers are symmetric (only
in runs without liveness).  For query capture: two engines so that one can own
the class while another tries to, and three threads so that a step, a second step
and a close overlap and a wake-up finds others still inside.  A second runner, and
one of another config that install must refuse, are covered by the proofs only.

For the tier: three blocks for four keys, so that a store of two keys evicts two;
chains that fork after their first key, so that the successor of `a` changes hands
and `a` is shared between sessions; and one policy of each kind, because bonuses
that could mask each other are best seen alone (`ConfigAssumption` allows any, and
the proofs cover them).  One load of a key at a time and one undrained notice:
both only cut counters.  For the summaries: two blocks for three keys so that
stores evict; two jobs so that the store of a key overlaps its eviction and its
next store; one step of lag; one job where stores fail.  The workers' cap needs
fewer blocks than summaries, which happens after failed stores.  For the scores:
three workers so that a mean of means can go wrong, pools that share one key
pairwise, relevances unknown, known and mixed.  For the harness: two cells are one
stale server; two cases are one that inherits the stores, the counters and the
given-up requests of another; two polls are an early and an exhausted settle loop;
two transfers are one that completes between two polls and one that completes
after them; two tags are one that is spliced while the other is not.

`cpu_tier`, `summary_sync` and the connector's and the capture's runs check for
deadlock; a step of `score_pipeline` and the cells of `harness` come to an end.

Fairness.  `SchedulerStep` is weakly fair: the engine loop calls it over and
over.  A worker's `Bind` and `Report` are weakly fair: they are straight-line
code of the step.  A transfer and a copy are strongly fair, because the device
finishes what it is given and its progress is cut to the "execute" phase here.
Admission of a request is strongly fair: the core admits a request that it is able
to serve again and again.  Preemption, finishing, resetting and starting stores
are never forced.  For query capture only `EndExecution` (a model step returns or
raises) and `Wake` (a notified thread gets the lock) are weakly fair; nobody has
to start a step or to close.  `SummarySync`: the engine keeps building steps and
the worker keeps receiving them; stores, submissions, captures and resets are never
forced.  `Harness`: the driver and its watchers are sequential code with deadlines,
a posted request ends or times out, the streams of `mixed` are subprocesses with a
timeout, and what a SIGKILL hits ends.  That the driver is weakly fair means that
nobody interrupts it (section 6).  A server is never forced to become ready, to
exit, or to obey a SIGTERM.

### Findings

1. **A splice that covers the whole load plan is never reported as received**
   (845, run `full_cover_splice`).  No load job is registered when nothing
   remains to load, splices are reported only through `completed_splices`, and the
   request was admitted with tokens to be loaded asynchronously: nothing wakes it.
   The comment at 1139-1143 says that the splice substitutes for the load path
   entirely, and 142-149 that `finished_recving` is how a waiting request hears of
   its load.  In `prefetch_two_requests` the same request stays "loading" safely:
   this is a liveness matter only.
2. **The reservation can starve the request it is for** (484, run
   `reservation_starves`).  The budget is a fraction of the pool and ignores what
   waiting requests need.  A completed prefetch is kept until its request moves,
   so a preempted request that needs more than the pool less the reserved blocks is
   never re-admitted.  98-102 says the bound is there so that preemptions cannot
   starve real scheduling.  `prefetch_liveness` shows that with enough blocks for
   the request beside a full budget the request does return.
3. **Two closers** (`query_capture.py` 119, run `capture_two_closers`).
   close() does not look at `_closed` again after waiting.  If another thread closes
   the handle and a new engine installs itself in between, the woken closer tears
   down the new installation and leaves the class marked as owned.  Line 67 says a
   handle owns the single supported installation.

Three remarks, without a run of their own:

- *The settle loop cannot tell a settled counter from a stalled one.*  It stops when
  two reads of the store counter agree (`needle_workload.py` 388).  A store that
  takes longer than `settle_s` leaves the counter still while it is under way, and
  when it completes during the recall, a case whose recall moved nothing is a
  "miss" instead of "not_pressured".  The docstring says that polling "until the
  counter is stable across two reads removes that contamination" (366-371);
  `run_latency_suite.py` 490-491 says that the default "may settle too early and
  contaminate the recall-isolated delta".  The history variable `baseline` is
  "stalled" in that case.  If `VerdictAttributed` admitted "stalled" next to
  "settled", TLC would refute it with one case and one store; `VerdictAttributed`
  holds without it.
- *In `mixed` a verdict may be another stream's.*  The docstring of
  `run_mixed_case` says so of the rows' deltas (294-301) but not of
  `needle_outcome`, which is read off the same counters: there only the first
  clause of `VerdictAttributed`, that a load is never overlooked, can be relied on.
- *A splice can be logged before its watcher listens.*  `run_adaptive_probe_live.py`
  posts a tagged request without waiting for its watcher to have opened the log
  (171-190), and then reports "NO SPLICE observed ... (a real negative result, not
  a probe bug" (253-255).  In practice a thread opens a file well before a request
  is preempted and resumed, but nothing in the code makes it so.
  `SpliceReported` says exactly which splices can be missed.

## 4. The proofs

Everything below is proved for all values of the constants, under the assumptions
stated in the modules: `OffloadKeys` maps each request to a finite chain, the
budget and local prefixes are natural numbers, requests, blocks, jobs, splices and
workers are finite sets, there is at least one worker, and `None` is not a key,
job, prefetch, release, sequence of keys, ranked list, average or update; the keys
of the CPU tier are a finite set, its chains name no key twice, its policies are
any that `Config` can describe, and `Unit` is even; the deployments are any that
`Deployment` can describe, scores are multiples of the numbers of workers, and a
worker that scores has some summary; a tag is none of the verdicts.

| Theorem | States | Rests on |
|---|---|---|
| `SemanticConnectorProofs!TypeCorrect` | `TypeOK` | `TypeInv` |
| `SemanticConnectorProofs!RegisteredCorrect` | `JobsStayRegistered` | `TypeInv`, `JobInv` |
| `SemanticConnectorProofs!ReceiptsCorrect` | `ReceiptsUnderstood` | the same |
| `SemanticConnectorProofs!FlushesCorrect` | `FlushesOnlyStores` | the same |
| `SemanticConnectorProofs!PendingCorrect` | `PendingArePreempted` | the same |
| `SemanticConnectorBlockProofs!OwnersCorrect` | `OneOwner` | those and `BlockInv` |
| `SemanticConnectorBlockProofs!LoadsCorrect` | `LoadsQuarantined` | the same |
| `SemanticConnectorBlockProofs!SplicesCorrect` | `SplicesQuarantined` | the same |
| `SemanticConnectorBlockProofs!ReservedCorrect` | `ReservedExact` | all three |
| `SemanticConnectorBlockProofs!LoansImplemented` | `ImplementsLoans`, the refinement | all three and `ReservedExact` |
| `SemanticConnectorBlockProofs!LoansCorrect` | `LoansSafe`, for the abstract specification | `LoanTypeOK` |
| `SemanticConnectorBlockProofs!LoansKept` | `LoansSafe`, for the connector | `LoansCorrect`, `LoansImplemented` |
| `SemanticConnectorContentProofs!ContentCorrect` | `ContentReady` | all three and `ContentInv` |
| `SemanticConnectorContentProofs!OverwritesCorrect` | `NoStoreOverwritten` | those and `FencesFit` |
| `QueryCaptureProofs!TypeCorrect` | `TypeOK` | `StepsInv` |
| `QueryCaptureProofs!ExecutionsCorrect` | `ExecutionsOwned` | `StepsInv` |
| `QueryCaptureProofs!LayoutsCorrect` | `LayoutOfThisStep` | `StepsInv` |
| `QueryCaptureProofs!OwnershipCorrect` | `InstallationOwned` if at most one thread closes | `StepsInv`, `OwnerInv` |
| `QueryCaptureProofs!MethodsCorrect` | `MethodsRestored` if at most one thread closes | the same |
| `CpuTierProofs!TypeCorrect` | `TypeOK` | `TierInv` |
| `CpuTierProofs!OrderCorrect` | `EvictableAreIdle` | the same |
| `CpuTierProofs!MetadataCorrect` | `MetadataResident` | the same |
| `CpuTierProofs!LinksCorrect` | `ChainMapsAgree` | the same |
| `CpuTierProofs!RemovalForgets` | `ForgottenOnRemoval` | the same |
| `CpuTierProofs!TierImplements` | `ImplementsTier`, the refinement | the same |
| `CpuTierProofs!EvictionsCorrect` | `EvictsDominated` | the same |
| `CpuTierProofs!ProtectionCorrect` | `ProtectedOutlast` | the same |
| `SummarySyncProofs!StackCorrect` | `StackConsistent` | `SyncInv` |
| `SummarySyncProofs!SummariesCorrect` | `SummariesBacked` | the same |
| `SummarySyncProofs!ReadyCorrect` | `ReadyKeysSummarised` | the same |
| `ScorePipelineProofs!NeverRefusedHolds` | `NeverRefused` | `PipelineInv` |
| `ScorePipelineProofs!AggregationCorrect` | `AggregatesExactly` | the same |
| `ScorePipelineProofs!RelevanceCorrect` | `AppliedAsObserved` | the same |
| `HarnessProofs!ServersCorrect` | `OnlyOwnServer` | `ServersInv` |
| `HarnessProofs!VerdictsCorrect` | `VerdictAttributed` | `CaseInv` |
| `HarnessProofs!ReportsCorrect` | `SpliceReported` | `ProbeInv` |

The argument for the connector is in five layers, each an inductive invariant
relative to those below: types, jobs, blocks, content and fences.

`TypeInv` is `TypeOK` with two facts that typing needs.  `TypeOK` says that a
tracked job waits for between one and all workers; that a completion never takes
it below one without ending it holds because the number is *exactly* the number of
workers that have still to report (`JobsCounted`), and an untracked job has no
worker left.  `TransferDone` reads a job's moves, which is meaningful only because
a worker never moves data for an untracked job.  Building a store job indexes a
request's table by its chain, so a running request must have one block per key
(`RequestShape`).

`JobInv` explains why the base class's expectations hold of a job it did not start
itself.  A load finds its request waiting only because the request has no other
tracked load (`OneLoad`); this is so because admission is deferred until
`transfer_jobs` is empty, which means something only if every tracked job is there
and everything there is tracked (`JobsFit`, `OwnJobs`).  The flush list meets only
stores because a prefetch is started only for requests queued in an earlier pass
(`Places`).

`BlockInv` is the accounting.  `Partition` says that pool, tables, prefetches,
splice quarantines and reset quarantines split the blocks; it is what `OneOwner`
says, pairwise.  It is preserved only because a request without a turn has no
table (`TablesEmpty`), because two prefetches with one job cannot both be handed to
one reset countdown (`PrefetchFits`), and because a job with a countdown is named by
no prefetch (`ResetFits`).  `LoadFits` says that a tracked prefetch job has its
blocks in its request's prefetch or in a countdown, and a load in its request's
table; `SplicesFit` that a quarantine waits for exactly the workers that have not
acknowledged and holds every source.  From these the two quarantine theorems follow
at once.

The refinement needs to know what is lent.  By `Partition` the loans are exactly
the blocks that are neither free nor in a table (`LoansAreTheRest`), so a step of
the connector is seen by the contract through `free` and the tables alone: it is
either a reservation or a *swap*, in which requests give some blocks and take
others and some loans end.  One lemma per action says which swap it is; that
ended loans are idle is what the quarantine theorems say (`BusyHeld`).  The budget
counter is a sum over prefetches, splices and resets of the sizes of their
blocks; the same partition makes those blocks disjoint, so the sum is the size of
their union (`PairsCounted`), and one action after another changes both alike.

`ContentInv` follows a key to the position that expects it.  `ContentComes` says
that each such position is being loaded, is in place, or will be copied from a
block that holds its key; `ContentReady` is what remains of it when the request
runs, since the request then has no load left.  It is preserved because nothing
else writes there: a block being filled or copied into belongs to the job or splice
that does so (`BlockInv`), a splice not yet issued goes into positions that no load
fills (`SentFit`), different positions have different blocks (`TablesFit`), and no
transfer or copy writes two keys into one block (`MovesFit`, `CopiesFit`).  What
is copied is right because a prefetch holds what its job loaded (`PrefetchesHold`,
`LoadedFit`), also after a reset has emptied the index.  `PhasesFit` orders the
step: flushes name stores only, and no worker has begun before the metadata is
built.

`FencesFit` says what makes a write safe from a store that still reads: until the
metadata is built, the blocks of every load and splice of the step are among those
handed out in it; from then on every store that reads one of them is in the flush
list.  The list is taken from the tracked jobs as they are at that moment, so the
proof shows that no store of such a block is started between (`JobsSame`,
`FenceKept`): a store reads the table of a running request, and the blocks being
filled are nobody else's.

For the CPU tier, `TierInv` is the conjunction of `TypeOK`, `EvictableAreIdle`,
`MetadataResident` and `ChainMapsAgree`; together they are inductive.  Eviction is
the crux: victims come from the LRU order, so they are idle only because the order
holds exactly the idle blocks; the order stays total under moves of whole
stretches because a stretch names no key twice; and capacity holds because the
number of victims is exactly the room that is missing.  `ForgottenOnRemoval` uses
the inverse maps: what a removal clears on one side it must find on the other.
For the refinement each action maps to the contract's action on the keys that the
step changes; `Touch` is a stutter.

What eviction spares is a matter of arithmetic.  The score of a candidate is a
bonus (`Grace`, `Linkage`, `Proven`) plus a claim from relevance and recency.  A
claim is between 0 and `Unit` (`ClaimBounds`), since the relevance is a share of
the span of the candidates' averages and recency a share of their number, and it is
monotone in both, because integer division is monotone in the dividend and, for the
session bonus that decays, antitone in the divisor (`DivMonotone`, `DivAntitone`).
So a candidate that is dominated on every count never scores more
(`DominatedGoesFirst`), and as each bonus exceeds `Unit`, one with a bonus beats all
without (`BonusedGoesLast`).  `Unit` must be even, or half of it would be rounded.

For the summaries, the scheduler and the worker are never in step: layouts, notices
of eviction and resets travel in the metadata.  The proof puts what the worker has
not acted on into one line of packets, `Line`: packet 0 is what it took and has not
submitted, then the metadata under way, last what the next metadata is being
gathered from.  An action moves packets along the line or changes one end of it, so
the invariants are stated by position.  `JobsPlaced` and `StoresApart` say that a
job stands in one place and stores keys of its own; `LayoutsLive` that a layout
names what its job stores unless a reset stands behind it; `NoLateNotice` that no
notice stands behind a layout that names its key.  This is what could go wrong: the
notice of an earlier eviction would make the worker forget the summary of a newer
store.  It does not, because a layout on the line is that of a store under way, and
a key that is evicted is in no such store.  `SummariesBacked` looks only at the two
ends.  `ViewsFit` gives for each packet between them a set of keys, all that the
worker may know after it: each fits into the capacity, so that the cap never prunes
what is still needed, and the last is resident.
`ReadyKept`, `SubmittedKept` and `UnderwayKept` follow the summary of a key from the
layout that announces it to the store that makes the key ready, with nothing behind
it that would drop it.  They hold until a store's summary is lost (`lossy`).
`StackConsistent` needs of the line nothing at all: `WorkerSound` is inductive
under the worker's methods, the incremental update because rows that are dropped
and rows that are appended are told apart by `insert` and `remove`.

For the scores, `AsReported` says what the metadata means after any number of
reports: of each request the joint list of the workers that have captured it
(`Joint`), their number and their heads.  `FirstGathered` and `NextGathered`
show that aggregating one more worker extends it.  With the mean this is a fact
about division: the mean so far, times the number of workers, is their sum, because
scores are multiples of the numbers of workers (`SumDivisible`).  That a complete
list is what the whole group says is then a matter of counting
(`CompleteIsWhole`); a worker alone skips the gathering (`AloneIsWhole`).
`AppliedAsObserved` compares a composed update with observations one by one:
`ApplyCompose` is the polynomial identity for one step, and `ComposedAsObserved`
carries it through the requests of the step.  Both the sum and the composed update
are folds over finite sets, so the proof first shows that a fold exists and is
unique (`FoldExists`, `FoldUnique`).

For the harness, `OldServersGone` says that the server of every earlier cell has
exited or is under SIGKILL, and so has the driver's own when it is between cells.
`CountersFit` relates the counters to the polls.  Others only ever add to the
counters, so a load of the recall shows whatever they do.  If they keep still, what
was under way at a poll is counted or under way ever after; so if it was nothing,
or if the counter stands still although nothing stalled, nothing is under way when
the recall begins, and what moves after that is the recall's.  It holds from any
counters a case begins with, hence for any number of cases on a server.  `Watched`
is the point of the probe: a request was spliced while its watcher read the log if
and only if the watcher has seen it or a line that tells of it is still unread;
`Reported` adds that without a hit every watcher has come to its deadline.

For query capture, `StepsInv` counts the threads inside each wrapper
(`_active_executions` is their number and `_execution_threads` their set) and
follows a layout through a step.  `OwnerInv` adds that an open handle that was
installed is the active one and is the patch on the class, and what lies under the
patch.  It is inductive only under `OneCloser`; finding 3 is the counterexample
without it.

Each strengthened invariant was also model-checked on the instances above.

### What is only model-checked

Liveness: `QuarantinesEnd`, `OrphansReturned`, `PreemptedReadmitted`,
`CloseReturns`, `EvictedForgotten`, `ServersEnd`.  The proof system does not handle
ENABLED, hence no fairness.  Every safety property that a run checks and that holds
is also a theorem.

A word on induction.  The library's induction theorems take an operator as a
parameter, which the provers here cannot instantiate.  Where the data is a finite
set, the proofs go through a set instead: the subsets that have a property, and a
least one among those that have not (`IsWellFoundedOn` and `WFMin` on the naturals,
then `SmallestSubset` and `ByLast`).  Sequences are handled by their positions and
need no induction.

## 5. The plan

| Module | State | Proofs |
|---|---|---|
| `SemanticConnector`, `PrefetchLoans` | done | types, jobs, blocks, budget, refinement, content, fences |
| `QueryCapture` | done | done |
| `OffloadTier`, `CpuTier` | done | invariants, action property, refinement, ranking |
| `WorkerSummaries`, `SummarySync` | done | done |
| `ScorePipeline` | done | done |
| `Harness` | done | done |
| `StoreLayout` | not begun: the splitting of source blocks (`store_layout.py`) against a reference definition, over all inputs up to a bound | bounds of the layout |

Left among the proofs: that `SummarySync` takes only steps of `OffloadTier` holds by
construction and is not stated; liveness is out of reach.

## 6. Not modelled

- Tensor arithmetic: summaries, per-key scores and softmax are choices.
- `index.py`, `_vllm_compat.py`, `_debug.py`: no state that decisions depend on
  after construction.  `top_relevant_keys` is called without the configured
  method (490), so another method than the default would find no scores and
  prefetch nothing; which keys a reservation takes is open in the model, so no
  property sees it.
- The splitting of a store job's source blocks among its keys
  (`store_layout.py`, `_build_store_jobs`); `SummarySync` knows that a layout names
  each key of its job once, or is missing.
- The legacy per-block summaries of the worker, `next_stored_chunk_idx`, and the
  order of CUDA streams beyond what is said under `SemanticConnector`.
- Values of `alpha` other than the default.
- Pipeline parallelism and asynchronous scheduling in `SemanticConnector`: the
  model has tensor-parallel workers and one step in flight.  `SummarySync` lets
  metadata lag.
- An interrupted driver.  `launch_server` polls without a `finally`, and
  `run_latency_suite.py` registers a cell's handle for its SIGTERM handler only when
  `launch_server` has returned, so a driver that is interrupted or killed during a
  launch orphans its server on the port.  `docs/cache-policy-issues.md` CP-006
  records this as open; `_kill_cell` of `run_grid_sweep.py` then relies on `fuser` to
  find the server, where there is one.  `OnlyOwnServer`, its theorem and
  `ServersEnd` are about one driver that runs to its end.
- Child processes of a server that outlive it, and the wording and parsing of
  prompts, answers, metrics pages and log lines in the harness; needle cases
  without metrics, which have no verdict.  The recall's counters are read as soon as
  it is answered, without a second settle loop, so a store of its own may be missed
  and `VerdictAttributed` promises stores in one direction only.
- Experiments, the other benchmarks, workload generators, shell scripts: drivers and
  analysis, no part of the running system.

A remark for a reader of the code.  The comment at `policy.py` 291-293 says that
a key in its grace outranks any key without; with chain or session bonuses switched
on a key can have more from those (`ProtectedOutlast` therefore compares keys with
some bonus to keys with none).
