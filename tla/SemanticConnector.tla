---------------------------- MODULE SemanticConnector ----------------------------
(***************************************************************************)
(* The GPU-block lifecycle of the semantic prefetch in                     *)
(* semantic_offload/connector.py and worker.py.                            *)
(*                                                                         *)
(* A preempted request is queued; on a later scheduler step the connector  *)
(* borrows blocks from the GPU pool and starts a CPU->GPU load of the      *)
(* request's most relevant keys (a prefetch).  When the request is         *)
(* re-admitted, prefetched blocks are spliced (copied GPU->GPU) into the   *)
(* blocks it was given, and the borrowed blocks stay quarantined until     *)
(* every worker reports the copy.  Requests may finish and the cache may   *)
(* be reset at any point in between.                                       *)
(*                                                                         *)
(* The scheduler's step is synchronous: allocations, then                  *)
(* build_connector_meta, then the workers, then update_connector_output.   *)
(* What the vLLM base classes do is modelled from how this code relies on  *)
(* it, and marked external in PROJECT.json.                                *)
(***************************************************************************)
EXTENDS Integers, FiniteSets, Sequences, Functions

CONSTANTS
    Requests,       \* request ids
    Keys,           \* OffloadKeys
    Blocks,         \* GPU block ids (the null block 0 is never handed out)
    Workers,        \* tensor-parallel workers
    JobIds,         \* job ids; one is used again only when nothing names it
    SpliceIds,      \* splice ids, likewise
    OffloadKeys,    \* [Requests -> Seq(Keys)]: group_states[0].offload_keys
    Budget,         \* int(num_gpu_blocks * prefetch_budget_fraction)
    LocalPrefixes,  \* how many leading blocks the GPU prefix cache may hold
    None

ASSUME ChainsAssumption == OffloadKeys \in [Requests -> Seq(Keys)]
ASSUME BudgetAssumption == Budget \in Nat
ASSUME FiniteAssumption ==
    /\ IsFiniteSet(Blocks) /\ IsFiniteSet(JobIds) /\ IsFiniteSet(SpliceIds)
    /\ IsFiniteSet(Requests)
    /\ IsFiniteSet(Workers) /\ Workers # {}
ASSUME PrefixesAssumption == LocalPrefixes \subseteq Nat

VARIABLES
    \* --- vLLM's scheduler
    phase,              \* "idle" -> "schedule" -> "build" -> "execute"
    status,             \* per request
    table,              \* per request: the blocks officially allocated to it
    external,           \* per request: the positions to fill from the CPU tier
    free,               \* gpu_block_pool's free blocks
    preemptedNow,       \* scheduler_output.preempted_req_ids
    \* --- the base connector's scheduler
    reqStatus,          \* _req_status
    jobs,               \* _jobs, with the TransferJob each one tracks
    transferJobs,       \* req_status.transfer_jobs
    allocated,          \* _current_batch_allocated_block_ids
    flush,              \* jobs_to_flush of the metadata in flight
    \* --- the semantic connector's scheduler
    preemptedPending,   \* _preempted_pending
    todo,               \* what _retry_pending_prefetches has yet to visit
    prefetched,         \* _prefetched
    reserved,           \* _prefetch_reserved_blocks
    spliceReleases,     \* _pending_splice_releases
    resetReleases,      \* _reset_prefetch_releases
    copies,             \* the copies each splice id stands for
    \* --- the workers
    wpc,                \* progress of each worker through the step
    stage,              \* per worker and job: how far the transfer is
    copyStage,          \* per worker and splice: how far the copy is
    gpu                 \* per worker and block: the key whose KV it holds

coreVars  == <<phase, status, table, external, free, preemptedNow>>
baseVars  == <<reqStatus, jobs, transferJobs, allocated, flush>>
semVars   == <<preemptedPending, todo, prefetched, reserved, spliceReleases,
               resetReleases, copies>>
workVars  == <<wpc, stage, copyStage, gpu>>
vars == <<coreVars, baseVars, semVars, workVars>>

---------------------------------------------------------------------------
NumWorkers == Cardinality(Workers)

Move    == [key : Keys, block : Blocks]     \* one block of a transfer
Copy    == [src : Blocks, dst : Blocks]     \* one block of a splice
JobKind == {"load", "prefetch", "store"}
Job     == [kind : JobKind, req : Requests, moves : SUBSET Move,
            pending : 1 .. NumWorkers]
PrefetchState == [job : JobIds, keys : Seq(Keys), blocks : Seq(Blocks)]
Release == [blocks : SUBSET Blocks, remaining : 1 .. NumWorkers]

\* None is what the code's None is: no key, job, prefetch or release.
ASSUME NoneAssumption ==
    /\ None \notin Keys /\ None \notin Job
    /\ None \notin PrefetchState /\ None \notin Release

Live(j)      == jobs[j] # None
JobBlocks(j) == {m.block : m \in jobs[j].moves}
PrefetchBlocks(r) ==
    IF prefetched[r] = None THEN {} ELSE Range(prefetched[r].blocks)

\* Faulty: releases without looking at the prefetch job.
SettledIgnoringJob(r) == prefetched[r] # None
\* A prefetch that no worker is still loading: its blocks may go back at once.
Settled(r) == prefetched[r] # None /\ ~Live(prefetched[r].job)

Sources(s)      == {c.src : c \in copies[s]}
Destinations(s) == {c.dst : c \in copies[s]}

\* Ids nothing names any more; the code's counters never run out.
FreshJobs == {j \in JobIds :
                /\ ~Live(j)
                /\ \A r \in Requests : prefetched[r] # None => prefetched[r].job # j}
FreshSplices == {s \in SpliceIds :
                   /\ spliceReleases[s] = None
                   /\ \A w \in Workers : copyStage[w][s] = "none"}
Pick(S) == CHOOSE x \in S : TRUE

\* Faulty: a prefetch on the load_jobs channel; a job missing from
\* transfer_jobs; handed-out blocks missing from the store-flush fence.
NewJobOneChannel(kind, r, moves) ==
    [kind |-> IF kind = "prefetch" THEN "load" ELSE kind, req |-> r, moves |-> moves,
     pending |-> NumWorkers]
RegisterNot(r, j) == transferJobs
HandOutNot(S)     == allocated
\* Bookkeeping of a new transfer: its job, its place in transfer_jobs, the
\* blocks this batch handed out, and its dispatch to every worker.
NewJob(kind, r, moves) ==
    [kind |-> kind, req |-> r, moves |-> moves, pending |-> NumWorkers]
Register(r, j)    == [transferJobs EXCEPT ![r] = @ \cup {j}]
HandOut(S)        == allocated \cup S
Dispatch(j)       == [w \in Workers |-> [stage[w] EXCEPT ![j] = "sent"]]

\* A freed block holds nothing anyone may rely on.
Forget(contents, S) ==
    [w \in Workers |-> [b \in Blocks |-> IF b \in S THEN None ELSE contents[w][b]]]

Init ==
    /\ phase = "idle"
    /\ status = [r \in Requests |-> "waiting"]
    /\ table = [r \in Requests |-> <<>>]
    /\ external = [r \in Requests |-> {}]
    /\ free = Blocks
    /\ preemptedNow = {}
    /\ reqStatus = {}
    /\ jobs = [j \in JobIds |-> None]
    /\ transferJobs = [r \in Requests |-> {}]
    /\ allocated = {}
    /\ flush = {}
    /\ preemptedPending = {}
    /\ todo = {}
    /\ prefetched = [r \in Requests |-> None]
    /\ reserved = 0
    /\ spliceReleases = [s \in SpliceIds |-> None]
    /\ resetReleases = [j \in JobIds |-> None]
    /\ copies = [s \in SpliceIds |-> {}]
    /\ wpc = [w \in Workers |-> "ready"]
    /\ stage = [w \in Workers |-> [j \in JobIds |-> "none"]]
    /\ copyStage = [w \in Workers |-> [s \in SpliceIds |-> "none"]]
    /\ gpu = [w \in Workers |-> [b \in Blocks |-> None]]

---------------------------------------------------------------------------
(***************************************************************************)
(* schedule(): preemptions and admissions.                                 *)
(***************************************************************************)

BeginStep ==
    /\ phase = "idle"
    /\ phase' = "schedule"
    /\ UNCHANGED <<status, table, external, free, preemptedNow, baseVars, semVars, workVars>>

\* A running request loses its blocks at once; the connector hears of it
\* through preempted_req_ids when the metadata is built.
Preempt(r) ==
    /\ phase = "schedule"
    /\ status[r] = "running"
    /\ status' = [status EXCEPT ![r] = "preempted"]
    /\ table' = [table EXCEPT ![r] = <<>>]
    /\ external' = [external EXCEPT ![r] = {}]
    /\ free' = free \cup Range(table[r])
    /\ gpu' = Forget(gpu, Range(table[r]))
    /\ preemptedNow' = preemptedNow \cup {r}
    /\ UNCHANGED <<phase, baseVars, semVars, wpc, stage, copyStage>>

\* get_num_new_matched_tokens defers a request with transfers in flight.
CanAdmit(r) ==
    /\ phase = "schedule"
    /\ status[r] \in {"waiting", "preempted"}
    /\ r \notin preemptedNow
    /\ transferJobs[r] = {}

Positions(r) == 1 .. Len(OffloadKeys[r])
NewTables(r) == Injection(Positions(r), free)

\* The positions to load: after the locally cached prefix, up to the last hit.
LoadPlans(r) == {(lo + 1) .. hi : lo \in LocalPrefixes, hi \in 0 .. Len(OffloadKeys[r])}

\* How many entries of s up to i, among positions P, carry the key of entry i.
Nth(s, P, i) == Cardinality({k \in P : k <= i /\ s[k] = s[i]})

\* Faulty: matches prefetched blocks to destinations by position.
SpliceEntriesByPosition(r, plan, i) ==
    {m \in DOMAIN prefetched[r].keys : m = Cardinality({k \in plan : k <= i})}
\* The prefetched entry spliced into position i: the n-th prefetched block of
\* a key serves the n-th position that needs this key (bucket.pop(0)).
SpliceEntries(r, plan, i) ==
    LET pf == prefetched[r]
    IN {m \in DOMAIN pf.keys :
          /\ pf.keys[m] = OffloadKeys[r][i]
          /\ Nth(pf.keys, DOMAIN pf.keys, m) = Nth(OffloadKeys[r], plan, i)}

Spliced(r, plan) == {i \in plan : SpliceEntries(r, plan, i) # {}}

\* _try_splice_prefetch declines when there is nothing to load, no prefetch,
\* a prefetch still loading, or one that covers none of the plan.
CanSplice(r, plan) ==
    /\ Settled(r)
    /\ Spliced(r, plan) # {}

MovesInto(r, t, P) == {[key |-> OffloadKeys[r][i], block |-> t[i]] : i \in P}

\* Register a load of the positions P of r in _jobs and transfer_jobs.
StartLoad(r, t, P) ==
    IF P = {}
    THEN UNCHANGED <<jobs, transferJobs, stage>>
    ELSE /\ FreshJobs # {}
         /\ LET j == Pick(FreshJobs) IN
              /\ jobs' = [jobs EXCEPT ![j] = NewJob("load", r, MovesInto(r, t, P))]
              /\ transferJobs' = Register(r, j)
              /\ stage' = Dispatch(j)

\* Faulty: leaves the request in the retry queue.
UnqueuedNot(r) == preemptedPending
\* A request that is admitted or finished is not retried any more.
Unqueued(r) == preemptedPending \ {r}

\* What admission changes whichever way the content arrives.
Admitted(r, t, plan) ==
    /\ status' = [status EXCEPT ![r] = IF plan = {} THEN "running" ELSE "loading"]
    /\ table' = [table EXCEPT ![r] = t]
    /\ external' = [external EXCEPT ![r] = plan]
    /\ reqStatus' = reqStatus \cup {r}
    /\ preemptedPending' = Unqueued(r)
    /\ prefetched' = [prefetched EXCEPT ![r] = None]
    /\ allocated' = HandOut({t[i] : i \in plan})
    /\ UNCHANGED <<phase, preemptedNow, flush, todo, resetReleases, wpc>>

\* No splice: a prefetch left over is stale and its blocks go back at once.
AdmitNormally(r) ==
    /\ CanAdmit(r)
    /\ \E t \in NewTables(r), plan \in LoadPlans(r) :
         /\ ~CanSplice(r, plan)
         /\ free' = (free \ Range(t)) \cup PrefetchBlocks(r)
         /\ reserved' = reserved - Cardinality(PrefetchBlocks(r))
         /\ gpu' = Forget(gpu, PrefetchBlocks(r))
         /\ StartLoad(r, t, plan)
         /\ Admitted(r, t, plan)
    /\ UNCHANGED <<spliceReleases, copies, copyStage>>

SpliceCopies(r, t, plan) ==
    UNION {{[src |-> prefetched[r].blocks[m], dst |-> t[i]] :
               m \in SpliceEntries(r, plan, i)} : i \in plan}

\* What stays reserved for a splice: the whole prefetch it detaches.
Quarantine(r) ==
    [blocks |-> PrefetchBlocks(r), remaining |-> NumWorkers]

\* The prefetched part of the plan is copied, the rest loaded.  The borrowed
\* blocks, used or not, stay quarantined until every worker has acknowledged.
AdmitSpliced(r) ==
    /\ CanAdmit(r)
    /\ FreshSplices # {}
    /\ \E t \in NewTables(r), plan \in LoadPlans(r) :
         /\ CanSplice(r, plan)
         /\ LET s == Pick(FreshSplices) IN
              /\ copies' = [copies EXCEPT ![s] = SpliceCopies(r, t, plan)]
              /\ copyStage' = [w \in Workers |-> [copyStage[w] EXCEPT ![s] = "sent"]]
              /\ spliceReleases' = [spliceReleases EXCEPT ![s] =
                    Quarantine(r)]
         /\ free' = free \ Range(t)
         /\ StartLoad(r, t, plan \ Spliced(r, plan))
         /\ Admitted(r, t, plan)
    /\ UNCHANGED <<reserved, gpu>>

---------------------------------------------------------------------------
(***************************************************************************)
(* build_connector_meta(): queue this step's preemptions, retry the        *)
(* pending prefetches one by one, then send.                               *)
(***************************************************************************)

\* _queue_preempted; a budget of 0 stands for a disabled prefetch.
Queued == IF Budget = 0 THEN preemptedPending ELSE preemptedPending \cup preemptedNow
\* Faulty: retries the requests preempted this very step too.
RetriedAtOnce == Queued
\* _retry_pending_prefetches leaves out the requests preempted this step.
Retried == Queued \ preemptedNow

BeginBuild ==
    /\ phase = "schedule"
    /\ phase' = "build"
    /\ preemptedPending' = Queued
    /\ todo' = Retried
    /\ UNCHANGED <<status, table, external, free, preemptedNow, baseVars, prefetched, reserved,
                   spliceReleases, resetReleases, copies, workVars>>

NothingToRetry(r) ==
    \/ prefetched[r] # None
    \/ r \notin reqStatus
    \/ OffloadKeys[r] = <<>>

StopRetrying(r) ==
    /\ phase = "build" /\ r \in todo
    /\ NothingToRetry(r)
    /\ todo' = todo \ {r}
    /\ preemptedPending' = preemptedPending \ {r}
    /\ UNCHANGED <<coreVars, baseVars, prefetched, reserved, spliceReleases,
                   resetReleases, copies, workVars>>

\* No budget, no scored resident key or no free block: try again next step.
\* Which keys are scored and resident is the CPU tier's affair: any may be.
RetryLater(r) ==
    /\ phase = "build" /\ r \in todo
    /\ ~NothingToRetry(r)
    /\ todo' = todo \ {r}
    /\ UNCHANGED <<coreVars, baseVars, preemptedPending, prefetched, reserved,
                   spliceReleases, resetReleases, copies, workVars>>

\* Faulty: the whole budget for every reservation.
RemainingBudgetEach == Budget
RemainingBudget == Budget - reserved

\* Move the free blocks ids to r's prefetch, and load into them the keys of its
\* chain at the positions rank, in relevance order.
Borrow(r, n, rank, ids) ==
    LET j    == Pick(FreshJobs)
        keys == [i \in 1 .. n |-> OffloadKeys[r][rank[i]]]
    IN /\ free' = free \ Range(ids)
       /\ allocated' = HandOut(Range(ids))
       /\ jobs' = [jobs EXCEPT ![j] = NewJob("prefetch", r,
                      {[key |-> keys[i], block |-> ids[i]] : i \in 1 .. n})]
       /\ stage' = Dispatch(j)
       /\ transferJobs' = Register(r, j)
       /\ reserved' = reserved + n
       /\ prefetched' = [prefetched EXCEPT ![r] =
            [job |-> j, keys |-> keys, blocks |-> ids]]

\* Within the budget, prefetch the n most relevant resident keys: any n keys,
\* in any order.
Reserve(r) ==
    /\ phase = "build" /\ r \in todo
    /\ ~NothingToRetry(r)
    /\ FreshJobs # {}
    /\ \E n \in 1 .. Len(OffloadKeys[r]) :
         /\ n <= RemainingBudget
         /\ \E rank \in Injection(1 .. n, Positions(r)), ids \in Injection(1 .. n, free) :
              Borrow(r, n, rank, ids)
    /\ todo' = todo \ {r}
    /\ preemptedPending' = preemptedPending \ {r}
    /\ UNCHANGED <<phase, status, table, external, preemptedNow, reqStatus, flush,
                   spliceReleases, resetReleases, copies, wpc, copyStage, gpu>>

\* The base class flushes the stores of requests preempted this step and
\* those reading a block that was handed out this step; it may start a store
\* of one running request (bound: one new store per step, one per request).
Send ==
    /\ phase = "build" /\ todo = {}
    /\ phase' = "execute"
    /\ flush' = {j \in JobIds :
                   /\ Live(j) /\ jobs[j].kind = "store"
                   /\ \/ jobs[j].req \in preemptedNow
                      \/ JobBlocks(j) \cap allocated # {}}
    /\ allocated' = {}
    /\ preemptedNow' = {}
    /\ \/ UNCHANGED <<jobs, transferJobs, stage>>
       \/ \E r \in Requests :
            /\ status[r] = "running"
            /\ transferJobs[r] = {}
            /\ FreshJobs # {}
            /\ LET j == Pick(FreshJobs) IN
                 /\ jobs' = [jobs EXCEPT ![j] =
                                NewJob("store", r, MovesInto(r, table[r], Positions(r)))]
                 /\ stage' = Dispatch(j)
                 /\ transferJobs' = Register(r, j)
    /\ UNCHANGED <<status, table, external, free, reqStatus, semVars, wpc, copyStage, gpu>>

---------------------------------------------------------------------------
(***************************************************************************)
(* A worker's share of the step.  Transfers and copies run on the device   *)
(* and may outlive the step that submitted them.  Nothing looks at the     *)
(* device before the next Report, so letting it progress only while the    *)
(* workers execute loses no behaviour.                                     *)
(***************************************************************************)

\* start_kv_transfers(): flushes are waited for, then transfers are submitted.
StartKvTransfers(w) ==
    [j \in JobIds |->
        IF j \in flush /\ stage[w][j] \in {"sent", "moving"} THEN "done"
        ELSE IF stage[w][j] = "sent" THEN "moving"
        ELSE stage[w][j]]

\* bind_connector_metadata() issues the splices, then the transfers start.
Bind(w) ==
    /\ phase = "execute"
    /\ wpc[w] = "ready"
    \* copies run in the order issued, so one waits for an earlier one into its blocks
    /\ \A s, t \in SpliceIds :
         copyStage[w][s] = "copying" /\ copyStage[w][t] = "sent"
         => Destinations(s) \cap Destinations(t) = {}
    /\ wpc' = [wpc EXCEPT ![w] = "bound"]
    /\ stage' = [stage EXCEPT ![w] = StartKvTransfers(w)]
    /\ copyStage' = [copyStage EXCEPT ![w] = [s \in SpliceIds |->
          IF copyStage[w][s] = "sent" THEN "copying" ELSE copyStage[w][s]]]
    /\ UNCHANGED <<coreVars, baseVars, semVars, gpu>>

\* A transfer of worker w ends.  Accesses to one block happen in the order in
\* which they were issued: a transfer waits for an earlier copy into its
\* blocks (stores wait on the model stream, worker.py 755-758).
TransferDone(w, j) ==
    /\ phase = "execute"
    /\ stage[w][j] = "moving"
    /\ \A s \in SpliceIds :
         copyStage[w][s] = "copying" => Destinations(s) \cap JobBlocks(j) = {}
    /\ stage' = [stage EXCEPT ![w][j] = "done"]
    /\ gpu' = IF jobs[j].kind = "store" THEN gpu
              ELSE [gpu EXCEPT ![w] = [b \in Blocks |->
                      IF \E m \in jobs[j].moves : m.block = b
                      THEN (CHOOSE m \in jobs[j].moves : m.block = b).key
                      ELSE gpu[w][b]]]
    /\ UNCHANGED <<coreVars, baseVars, semVars, wpc, copyStage>>

\* The copy of splice s has executed on worker w and its event has fired.
SpliceDone(w, s) ==
    /\ phase = "execute"
    /\ copyStage[w][s] = "copying"
    /\ copyStage' = [copyStage EXCEPT ![w][s] = "done"]
    /\ gpu' = [gpu EXCEPT ![w] = [b \in Blocks |->
                  IF b \in Destinations(s)
                  THEN gpu[w][(CHOOSE c \in copies[s] : c.dst = b).src]
                  ELSE gpu[w][b]]]
    /\ UNCHANGED <<coreVars, baseVars, semVars, wpc, stage>>

\* get_finished and pop_completed_splices: what is complete by now is in the
\* worker's output, once.
Report(w) ==
    /\ phase = "execute"
    /\ wpc[w] = "bound"
    /\ wpc' = [wpc EXCEPT ![w] = "reported"]
    /\ stage' = [stage EXCEPT ![w] = [j \in JobIds |->
          IF stage[w][j] = "done" THEN "reported" ELSE stage[w][j]]]
    /\ copyStage' = [copyStage EXCEPT ![w] = [s \in SpliceIds |->
          IF copyStage[w][s] = "done" THEN "reported" ELSE copyStage[w][s]]]
    /\ UNCHANGED <<coreVars, baseVars, semVars, gpu>>

---------------------------------------------------------------------------
(***************************************************************************)
(* update_connector_output(): count the completions of all workers.        *)
(***************************************************************************)

JobReports(j)    == Cardinality({w \in Workers : stage[w][j] = "reported"})
SpliceReports(s) == Cardinality({w \in Workers : copyStage[w][s] = "reported"})

\* Faulty: forgets the prefetch jobs.
CompletedLoadsAndStores ==
    {j \in JobIds : /\ Live(j) /\ jobs[j].pending <= JobReports(j)
                    /\ jobs[j].kind # "prefetch"}
CompletedJobs == {j \in JobIds : Live(j) /\ jobs[j].pending <= JobReports(j)}
\* Requests whose load is complete: finished_recving.
Received == {jobs[j].req : j \in {k \in CompletedJobs : jobs[k].kind = "load"}}

\* Faulty: releases at the first acknowledgement; waits for one too many.
AckedSplicesAtFirst == {s \in SpliceIds : /\ spliceReleases[s] # None
                                          /\ SpliceReports(s) > 0}
AckedSplicesLate == {s \in SpliceIds : /\ spliceReleases[s] # None
                                       /\ spliceReleases[s].remaining < SpliceReports(s)}
AckedSplices == {s \in SpliceIds : /\ spliceReleases[s] # None
                                   /\ spliceReleases[s].remaining <= SpliceReports(s)}
AckedResets == {j \in JobIds : /\ resetReleases[j] # None
                               /\ resetReleases[j].remaining <= JobReports(j)}
\* Faulty: frees the blocks but keeps the entry (no del).
CountDownKeeps(releases, id, count, acked) ==
    IF releases[id] = None THEN None
    ELSE [releases[id] EXCEPT !.remaining = @ - count]
CountDown(releases, id, count, acked) ==
    IF releases[id] = None \/ id \in acked THEN None
    ELSE [releases[id] EXCEPT !.remaining = @ - count]

\* Faulty: sweeps as soon as the request finished; never sweeps.
OrphansTooEarly(present) ==
    {r \in Requests : prefetched[r] # None /\ status[r] = "finished"}
OrphansNever(present) == {}
\* A prefetch whose request is gone, transfers and all, is an orphan.
Orphans(present) == {r \in Requests : prefetched[r] # None /\ r \notin present}

\* The blocks of all the loans that end here, and their number, loan by loan.
ReturnedBlocks(orphans) ==
    UNION ({spliceReleases[s].blocks : s \in AckedSplices}
           \cup {resetReleases[j].blocks : j \in AckedResets}
           \cup {PrefetchBlocks(r) : r \in orphans})
ReturnedCount(orphans) ==
    Cardinality({p \in AckedSplices \X Blocks : p[2] \in spliceReleases[p[1]].blocks})
    + Cardinality({p \in AckedResets \X Blocks : p[2] \in resetReleases[p[1]].blocks})
    + Cardinality({p \in orphans \X Blocks : p[2] \in PrefetchBlocks(p[1])})

UpdateOutput ==
    /\ phase = "execute"
    /\ \A w \in Workers : wpc[w] = "reported"
    /\ phase' = "idle"
    /\ wpc' = [w \in Workers |-> "ready"]
    /\ flush' = {}
    \* the base class: jobs, their requests, and what the core makes of them
    /\ jobs' = [j \in JobIds |->
          IF Live(j) /\ j \notin CompletedJobs
          THEN [jobs[j] EXCEPT !.pending = @ - JobReports(j)] ELSE None]
    /\ transferJobs' = [r \in Requests |-> transferJobs[r] \ CompletedJobs]
    /\ reqStatus' = {r \in reqStatus : status[r] = "finished" => transferJobs'[r] # {}}
    /\ status' = [r \in Requests |->
          IF r \in Received /\ status[r] = "loading" THEN "running" ELSE status[r]]
    /\ LET closed   == {r \in Received : status[r] = "finished"}
           orphans  == Orphans(reqStatus')
           returned == ReturnedBlocks(orphans)
           vacated  == UNION {Range(table[r]) : r \in closed}
       IN /\ table' = [r \in Requests |-> IF r \in closed THEN <<>> ELSE table[r]]
          /\ external' = [r \in Requests |-> IF r \in closed THEN {} ELSE external[r]]
          \* the semantic connector: countdowns, then the orphan sweep
          /\ free' = free \cup returned \cup vacated
          /\ gpu' = Forget(gpu, returned \cup vacated)
          /\ reserved' = reserved - ReturnedCount(orphans)
          /\ prefetched' = [r \in Requests |->
                IF r \in orphans THEN None ELSE prefetched[r]]
    /\ spliceReleases' = [s \in SpliceIds |->
          CountDown(spliceReleases, s, SpliceReports(s), AckedSplices)]
    /\ resetReleases' = [j \in JobIds |->
          CountDown(resetReleases, j, JobReports(j), AckedResets)]
    /\ stage' = [w \in Workers |-> [j \in JobIds |->
          IF stage[w][j] = "reported" THEN "none" ELSE stage[w][j]]]
    /\ copyStage' = [w \in Workers |-> [s \in SpliceIds |->
          IF copyStage[w][s] = "reported" THEN "none" ELSE copyStage[w][s]]]
    /\ copies' = [s \in SpliceIds |->
          IF \A w \in Workers : copyStage'[w][s] = "none" THEN {} ELSE copies[s]]
    /\ UNCHANGED <<preemptedNow, allocated, preemptedPending, todo>>

---------------------------------------------------------------------------
(***************************************************************************)
(* Between scheduling passes: a request finishes or is aborted, or the     *)
(* cache is reset.                                                         *)
(***************************************************************************)

\* The engine finishes requests between steps and, when the outputs of a step
\* are in, just before update_connector_output.
BetweenPasses ==
    \/ phase = "idle"
    \/ phase = "execute" /\ \A w \in Workers : wpc[w] = "reported"

\* request_finished.  A prefetch still loading is left to the orphan sweep.
\* The core keeps the blocks of a request that waits for a load until the
\* load is received.
Finish(r) ==
    /\ BetweenPasses
    /\ status[r] # "finished"
    /\ status' = [status EXCEPT ![r] = "finished"]
    /\ preemptedPending' = Unqueued(r)
    /\ reqStatus' = IF transferJobs[r] = {} THEN reqStatus \ {r} ELSE reqStatus
    /\ LET returned == IF Settled(r) THEN PrefetchBlocks(r) ELSE {}
           vacated  == IF status[r] = "loading" THEN {} ELSE Range(table[r])
       IN /\ prefetched' = IF Settled(r) THEN [prefetched EXCEPT ![r] = None] ELSE prefetched
          /\ reserved' = reserved - Cardinality(returned)
          /\ table' = IF status[r] = "loading" THEN table ELSE [table EXCEPT ![r] = <<>>]
          /\ external' = IF status[r] = "loading" THEN external
                         ELSE [external EXCEPT ![r] = {}]
          /\ free' = free \cup returned \cup vacated
          /\ gpu' = Forget(gpu, returned \cup vacated)
    /\ UNCHANGED <<phase, preemptedNow, jobs, transferJobs, allocated, flush, todo,
                   spliceReleases, resetReleases, copies, wpc, stage, copyStage>>

\* reset_cache.  A prefetch still loading moves to a countdown of its own.
\* (Splices and loads not yet sent exist only inside a scheduling pass.)
ResetCache ==
    /\ phase = "idle"
    /\ LET settled  == {r \in Requests : Settled(r)}
           loading  == {r \in Requests \ settled : prefetched[r] # None}
           returned == UNION {PrefetchBlocks(r) : r \in settled}
       IN /\ resetReleases' = [j \in JobIds |->
                IF \E r \in loading : prefetched[r].job = j
                THEN [blocks |-> PrefetchBlocks(jobs[j].req),
                      remaining |-> jobs[j].pending]
                ELSE resetReleases[j]]
          /\ free' = free \cup returned
          /\ gpu' = Forget(gpu, returned)
          /\ reserved' = reserved
                - Cardinality({p \in settled \X Blocks : p[2] \in PrefetchBlocks(p[1])})
    /\ prefetched' = [r \in Requests |-> None]
    /\ preemptedPending' = {}
    /\ UNCHANGED <<phase, status, table, external, preemptedNow, baseVars, todo,
                   spliceReleases, copies, wpc, stage, copyStage>>

---------------------------------------------------------------------------
SchedulerStep ==
    \/ BeginStep
    \/ BeginBuild
    \/ Send
    \/ UpdateOutput
    \/ \E r \in Requests : StopRetrying(r) \/ RetryLater(r) \/ Reserve(r)

WorkerStep ==
    \E w \in Workers :
        \/ Bind(w)
        \/ Report(w)
        \/ \E j \in JobIds : TransferDone(w, j)
        \/ \E s \in SpliceIds : SpliceDone(w, s)

Next ==
    \/ SchedulerStep
    \/ WorkerStep
    \/ \E r \in Requests : \/ Preempt(r)
                           \/ AdmitNormally(r)
                           \/ AdmitSpliced(r)
                           \/ Finish(r)
    \/ ResetCache

Spec == Init /\ [][Next]_vars

\* The engine loop keeps stepping and every worker does its part; the device
\* completes what it is given (its progress is cut to "execute" here, hence
\* strong fairness); a request the pool can serve again and again is admitted.
Fairness ==
    /\ WF_vars(SchedulerStep)
    /\ \A w \in Workers :
         /\ WF_vars(Bind(w)) /\ WF_vars(Report(w))
         /\ \A j \in JobIds : SF_vars(TransferDone(w, j))
         /\ \A s \in SpliceIds : SF_vars(SpliceDone(w, s))
    /\ \A r \in Requests : SF_vars(AdmitNormally(r) \/ AdmitSpliced(r))

FairSpec == Spec /\ Fairness

---------------------------------------------------------------------------
TypeOK ==
    /\ phase \in {"idle", "schedule", "build", "execute"}
    /\ status \in [Requests -> {"waiting", "running", "loading", "preempted", "finished"}]
    /\ table \in [Requests -> Seq(Blocks)]
    /\ external \in [Requests -> SUBSET Nat]
    /\ free \in SUBSET Blocks
    /\ preemptedNow \in SUBSET Requests
    /\ reqStatus \in SUBSET Requests
    /\ jobs \in [JobIds -> Job \cup {None}]
    /\ transferJobs \in [Requests -> SUBSET JobIds]
    /\ allocated \in SUBSET Blocks
    /\ flush \in SUBSET JobIds
    /\ preemptedPending \in SUBSET Requests
    /\ todo \in SUBSET Requests
    /\ prefetched \in [Requests -> PrefetchState \cup {None}]
    /\ reserved \in Int
    /\ spliceReleases \in [SpliceIds -> Release \cup {None}]
    /\ resetReleases \in [JobIds -> Release \cup {None}]
    /\ copies \in [SpliceIds -> SUBSET Copy]
    /\ wpc \in [Workers -> {"ready", "bound", "reported"}]
    /\ stage \in [Workers -> [JobIds -> {"none", "sent", "moving", "done", "reported"}]]
    /\ copyStage \in [Workers ->
                        [SpliceIds -> {"none", "sent", "copying", "done", "reported"}]]
    /\ gpu \in [Workers -> [Blocks -> Keys \cup {None}]]

---------------------------------------------------------------------------
(***************************************************************************)
(* Safety.                                                                 *)
(***************************************************************************)

\* Worker w may still write the blocks of load j, or read those of store j.
InTransfer(w, j) == stage[w][j] \in {"sent", "moving"}
\* Worker w may still read the sources of splice s.
InCopy(w, s) == copyStage[w][s] \in {"sent", "copying"}

\* Who holds block b: the pool, a request, or one of the three kinds of loan
\* (prefetch, splice quarantine, reset quarantine).
OwnersOf(b) ==
    {h \in {<<"pool", None>>} : b \in free}
    \cup {h \in {"table"} \X Requests : b \in Range(table[h[2]])}
    \cup {h \in {"prefetch"} \X Requests : b \in PrefetchBlocks(h[2])}
    \cup {h \in {"splice"} \X SpliceIds :
            spliceReleases[h[2]] # None /\ b \in spliceReleases[h[2]].blocks}
    \cup {h \in {"reset"} \X JobIds :
            resetReleases[h[2]] # None /\ b \in resetReleases[h[2]].blocks}

\* No block is ever lost or returned to the pool twice: each has exactly one
\* holder, across release, stale release, splice detach, orphan sweep and
\* reset (connector.py 569-584, 634-677, 769-775, 958-976).
OneOwner == \A b \in Blocks : \E h \in OwnersOf(b) : OwnersOf(b) = {h}

\* While any worker may still write a prefetched block, the block is neither
\* free nor a request's; a request's own load writes only its own blocks
\* (request_finished 586-609, orphan sweep 663-677, reset 960-967).
LoadsQuarantined ==
    \A w \in Workers, j \in JobIds :
        InTransfer(w, j) /\ jobs[j].kind # "store" =>
            /\ JobBlocks(j) \cap free = {}
            /\ \A r \in Requests : JobBlocks(j) \cap Range(table[r]) # {} =>
                  jobs[j].kind = "load" /\ jobs[j].req = r

\* While any worker may still read the source of a splice, the source is in
\* no one else's hands (_pending_splice_releases, 650-661 and 769-775).
SplicesQuarantined ==
    \A w \in Workers, s \in SpliceIds :
        InCopy(w, s) =>
            \A b \in Sources(s) : OwnersOf(b) = {<<"splice", s>>}

\* The budget counter is exactly the number of blocks on loan, and the loans
\* never exceed prefetch_budget_fraction of the pool (480-487, 559).
OnLoan == {b \in Blocks : \E h \in OwnersOf(b) : h[1] \in {"prefetch", "splice", "reset"}}
ReservedExact ==
    /\ reserved = Cardinality(OnLoan)
    /\ reserved <= Budget

\* The base class asserts that every transfer it flushes for a request
\* preempted this step is a store (on_request_preempted's docstring,
\* 393-405): no prefetch is ever registered for such a request.
FlushesOnlyStores ==
    phase = "build" =>
        \A r \in preemptedNow : \A j \in transferJobs[r] : jobs[j].kind = "store"

\* A completed normal load wakes its request through finished_recving, which
\* the core understands only for a waiting or a finished request (142-156).
ReceiptsUnderstood ==
    \A j \in JobIds : Live(j) /\ jobs[j].kind = "load" =>
        status[jobs[j].req] \in {"loading", "finished"}

\* A tracked job stays registered with its request, and the request's status
\* stays, until every worker has completed it: the completion loop removes
\* it from both unconditionally (issues log entry #26, 534-551).
JobsStayRegistered ==
    \A j \in JobIds : Live(j) =>
        /\ j \in transferJobs[jobs[j].req]
        /\ jobs[j].req \in reqStatus

\* The retry queue names only requests that still wait, preempted and with no
\* prefetch of their own: no prefetch is started for a request that is running
\* again or gone (84-93, 349-372, 586-609).
PendingArePreempted ==
    \A r \in preemptedPending \cup todo :
        status[r] = "preempted" /\ prefetched[r] = None

\* Fix C (509-521): a worker never issues a write (a load, a prefetch or a
\* splice) into a block that a store submitted earlier is still reading.
NoStoreOverwritten ==
    [][\A w \in Workers, j \in JobIds :
          /\ stage[w][j] = "moving" /\ stage'[w][j] = "moving"
          /\ jobs[j].kind = "store"
          => /\ \A k \in JobIds :
                  stage[w][k] = "sent" /\ stage'[w][k] = "moving" /\ jobs[k].kind # "store"
                  => JobBlocks(j) \cap JobBlocks(k) = {}
             /\ \A s \in SpliceIds :
                  copyStage[w][s] = "sent" /\ copyStage'[w][s] = "copying"
                  => JobBlocks(j) \cap Destinations(s) = {}]_vars

\* When a request runs, every worker holds the right key in each of the blocks
\* it expects from the CPU tier, or an issued copy (ahead of the forward pass on the same stream)
\* is about to put it there: splices match by key, not by position, and read
\* only blocks whose load is complete (_try_splice_prefetch, 749-766).
ContentReady ==
    \A r \in Requests : status[r] = "running" =>
        \A w \in Workers, i \in external[r] :
            LET key == OffloadKeys[r][i] IN
              \/ gpu[w][table[r][i]] = key
              \/ \E s \in SpliceIds : \E c \in copies[s] :
                    /\ copyStage[w][s] \in {"sent", "copying"}
                    /\ c.dst = table[r][i]
                    /\ gpu[w][c.src] = key

---------------------------------------------------------------------------
(***************************************************************************)
(* The contract with the block pool.                                       *)
(***************************************************************************)
BusyLoans ==
    UNION ({JobBlocks(j) : j \in {k \in JobIds : /\ Live(k) /\ jobs[k].kind = "prefetch"
                                                 /\ \E w \in Workers : InTransfer(w, k)}}
           \cup {Sources(s) : s \in {k \in SpliceIds : \E w \in Workers : InCopy(w, k)}})

Loans == INSTANCE PrefetchLoans WITH lent <- OnLoan, busy <- BusyLoans

\* The connector implements the loan contract.
ImplementsLoans == Loans!LoanSpec

---------------------------------------------------------------------------
(***************************************************************************)
(* Liveness.                                                               *)
(***************************************************************************)

\* Every quarantine ends: the sources of a sent splice and the blocks of a
\* prefetch caught by a reset return to the pool (638-661).
QuarantinesEnd ==
    /\ \A s \in SpliceIds : spliceReleases[s] # None ~> spliceReleases[s] = None
    /\ \A j \in JobIds : resetReleases[j] # None ~> resetReleases[j] = None

\* A prefetch whose request finished while it was loading is swept (663-677).
OrphansReturned ==
    \A r \in Requests :
        status[r] = "finished" /\ prefetched[r] # None ~> prefetched[r] = None

\* A preempted request is admitted again or finishes: what the prefetch
\* holds does not starve it (98-102).
PreemptedReadmitted ==
    \A r \in Requests : status[r] = "preempted" ~> status[r] # "preempted"

\* A request admitted with content to fetch from the CPU tier gets to run:
\* the splice substitutes for the load path (1139-1143).
LoadingResumes ==
    \A r \in Requests : status[r] = "loading" ~> status[r] # "loading"
=============================================================================
