------------------------------- MODULE SummarySync -------------------------------
(***************************************************************************)
(* The CPU tier and the summaries a worker keeps of it.  The scheduler     *)
(* stores, evicts and resets in its tier at once; the worker learns of it  *)
(* from the metadata of a later step, builds a summary when it submits the *)
(* store, and syncs its stack of summaries when queries are captured.       *)
(*                                                                         *)
(* The tier is any implementation of OffloadTier.  All workers run the     *)
(* same code on the same metadata, so one stands for all of them.          *)
(* Metadata travels in order and up to MaxLag steps behind, as it does when *)
(* scheduling overlaps execution.  What the scores say is ScorePipeline's  *)
(* subject: here no key is ever given a relevance.                         *)
(***************************************************************************)
EXTENDS OffloadTier, Sequences, SequencesExt

CONSTANTS
    Jobs,           \* store job ids; one is used again only when nothing names it
    LossyJobs,      \* bound: the ones used where stores fail
    MaxLag          \* bound: metadata built and not yet received

INSTANCE WorkerSummaries

ASSUME KeysAssumption == IsFiniteSet(Keys) /\ None \notin Seq(Keys)
ASSUME JobsAssumption == Jobs \subseteq Nat /\ LossyJobs \subseteq Jobs /\ MaxLag \in Nat

VARIABLES
    \* --- scheduler
    lossy,              \* whether stores fail, or lack a layout, in this behaviour
    storeKeys,          \* _jobs: the keys of each store job, {} if none or void
    pendingJobBlocks,   \* _pending_job_blocks
    unsent,             \* store jobs of the step that is being built
    resetPending,       \* _worker_reset_pending
    \* --- between scheduler and worker
    metadata,           \* SemanticOffloadingConnectorMetadata, oldest first: its
                        \* jobs, layouts, evicted keys and whether to reset
    \* --- worker
    worker,
    received,           \* jobs received and not yet submitted
    submitted           \* jobs submitted and not yet reported done

schedulerVars == <<lossy, storeKeys, pendingJobBlocks, unsent, resetPending>>
workerVars    == <<worker, received, submitted>>
vars == <<tierVars, schedulerVars, metadata, workerVars>>

NoLayout == [j \in Jobs |-> None]

Init ==
    /\ TierInit
    /\ lossy \in {FALSE, StoresMayFail}
    /\ storeKeys = [j \in Jobs |-> {}]
    /\ pendingJobBlocks = NoLayout
    /\ unsent = {}
    /\ resetPending = FALSE
    /\ metadata = <<>>
    /\ worker = NewWorker
    /\ received = {}
    /\ submitted = {}

\* Job ids are counted up; the model counts over those that nothing names.
FreshJobs ==
    (IF lossy THEN LossyJobs ELSE Jobs) \ (unsent \cup received \cup submitted
              \cup UNION {metadata[i].jobs : i \in 1 .. Len(metadata)})

---------------------------------------------------------------------------
(* The scheduler.                                                          *)

\* build_store_job_layout(): every key of the job, in the order of its blocks.
Layout(keys) == SetToSeq(keys)

\* A store job while a step is built: prepare_store(), and the layout of its
\* blocks unless they cannot be told apart (_build_store_jobs).
Store(j) == \E new \in SUBSET (Keys \ Resident), victims \in SUBSET Idle :
    /\ j \in FreshJobs /\ \A i \in FreshJobs : j <= i
    /\ StoreEvicting(new, victims)
    /\ storeKeys' = [storeKeys EXCEPT ![j] = new]
    /\ unsent' = unsent \cup {j}
    /\ \E layout \in {Layout(new)} \cup IF lossy THEN {None} ELSE {} :
          pendingJobBlocks' = [pendingJobBlocks EXCEPT ![j] = layout]
    /\ UNCHANGED <<lossy, resetPending, metadata, workerVars>>

\* Faulty: the reset is not passed on.
ResetFlagNot == FALSE
ResetFlag == resetPending

\* build_connector_meta()
BuildConnectorMeta ==
    /\ Len(metadata) < MaxLag
    /\ metadata' = Append(metadata,
          [jobs |-> unsent, layouts |-> pendingJobBlocks, evicted |-> pendingEvicted,
           reset |-> ResetFlag])
    /\ EvictionsDrained
    /\ unsent' = {}
    /\ pendingJobBlocks' = NoLayout
    /\ resetPending' = FALSE
    /\ UNCHANGED <<lossy, storeKeys, workerVars>>

\* reset_cache(), between two steps.  What completes later of an older store
\* finds no block to complete.
ResetCache ==
    /\ unsent = {}
    /\ TierReset
    /\ storeKeys' = [j \in Jobs |-> {}]
    /\ pendingJobBlocks' = NoLayout
    /\ resetPending' = TRUE
    /\ UNCHANGED <<lossy, unsent, metadata, workerVars>>

\* update_connector_output(): a worker has reported a store, and the base
\* completes it.
CompleteStore(j, success) ==
    /\ j \in submitted
    /\ submitted' = submitted \ {j}
    /\ IF storeKeys[j] = {} THEN UNCHANGED tierVars
       ELSE IF success THEN StoreCompleted(storeKeys[j])
       ELSE StoreFailed(storeKeys[j])
    /\ ~success => lossy
    /\ storeKeys' = [storeKeys EXCEPT ![j] = {}]
    /\ UNCHANGED <<lossy, pendingJobBlocks, unsent, resetPending, metadata, worker, received>>

---------------------------------------------------------------------------
(* The worker.                                                             *)

\* Faulty: the reset wipes the layouts it came with.
ReceiveThenReset(w, m) ==
    LET told == ReceiveEvictedKeys(ReceiveJobBlocks(w, m.layouts), m.evicted)
    IN  IF m.reset THEN ResetSemanticState(told) ELSE told
\* bind_connector_metadata()
Receive(w, m) ==
    LET fresh == IF m.reset THEN ResetSemanticState(w) ELSE w
    IN  ReceiveEvictedKeys(ReceiveJobBlocks(fresh, m.layouts), m.evicted)

BindConnectorMetadata ==
    /\ metadata # <<>>
    /\ worker' = Receive(worker, Head(metadata))
    /\ received' = received \cup Head(metadata).jobs
    /\ metadata' = Tail(metadata)
    /\ UNCHANGED <<tierVars, schedulerVars, submitted>>

\* The base worker submits a store in the step that brought it or later.
Submit(j) ==
    /\ j \in received
    /\ worker' = SubmitStore(worker, j)
    /\ received' = received \ {j}
    /\ submitted' = submitted \cup {j}
    /\ UNCHANGED <<tierVars, schedulerVars, metadata>>

\* _on_queries_captured(), up to the scoring of the rows.
Capture ==
    /\ worker' = CaptureQueries(worker)
    /\ UNCHANGED <<tierVars, schedulerVars, metadata, received, submitted>>

Next ==
    \/ \E j \in Jobs : Store(j) \/ Submit(j) \/ CompleteStore(j, TRUE) \/ CompleteStore(j, FALSE)
    \/ BuildConnectorMeta
    \/ ResetCache
    \/ BindConnectorMetadata
    \/ Capture

Spec == Init /\ [][Next]_vars

\* The engine keeps stepping: metadata is built and reaches the worker.
FairSpec == Spec /\ WF_vars(BuildConnectorMeta) /\ WF_vars(BindConnectorMetadata)

---------------------------------------------------------------------------
\* The stack follows the summaries: a summary has its row, with the content it
\* has now, or waits for one; a row without a summary waits to be removed; the
\* index finds every row; and when nothing waits the stack is not dirty.
\* (worker.py:378-472: the incremental cache equals one built from scratch.)
StackConsistent ==
    LET w == worker IN
    /\ w \in Worker /\ IsInjective(w.durable) /\ IsInjective(w.stackKeys)
    /\ Len(w.stackRows) = Len(w.stackKeys)
    /\ w.index = IndexOf(w.stackKeys)
    /\ w.insert \subseteq Summarised(w)
    /\ \A k \in Keys :
         /\ HasRow(w, k) /\ k \notin w.remove =>
               /\ k \in Summarised(w) \ w.insert
               /\ w.stackRows[w.index[k]] = "current"
         /\ k \in Summarised(w) => k \in w.insert \/ (HasRow(w, k) /\ k \notin w.remove)
    /\ ~w.dirty => w.insert = {} /\ w.remove = {}

\* Evictions the worker has yet to hear of.
Announced ==
    pendingEvicted \cup UNION {metadata[i].evicted : i \in 1 .. Len(metadata)}
ResetUnderway == resetPending \/ \E i \in 1 .. Len(metadata) : metadata[i].reset

\* The summaries never outnumber the CPU blocks, failing stores or not; and
\* unless stores fail, each is of a key that the tier holds, or whose eviction
\* the worker is about to be told (worker.py:356-371, 723-740).
SummariesBacked ==
    /\ Len(worker.durable) <= Capacity
    /\ ~lossy /\ ~ResetUnderway => Summarised(worker) \subseteq Resident \cup Announced

\* Where stores succeed, a key that is ready in the tier has a summary: neither
\* the notice of an earlier eviction, nor a reset, nor the cap drops the summary
\* of a later store (worker.py:265-276).
ReadyKeysSummarised ==
    ~lossy => {k \in Resident : ref[k] # -1} \subseteq Summarised(worker)

\* Unless stores fail, what was evicted or reset away is forgotten by the
\* worker in the end, unless it is stored again.
EvictedForgotten ==
    \A k \in Keys :
        ~lossy /\ k \in Summarised(worker) /\ ref[k] = None
          ~> k \notin Summarised(worker) \/ ref[k] # None
=================================================================================
