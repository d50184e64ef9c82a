----------------------------- MODULE WorkerSummaries -----------------------------
(***************************************************************************)
(* The block summaries a worker keeps (SemanticOffloadingWorker in         *)
(* semantic_offload/worker.py): a durable summary per key of the CPU tier, *)
(* and a stack of tensors with a row per summary, brought up to date       *)
(* incrementally when queries are scored against it.  The operations map a *)
(* worker's state w to its next one; SummarySync says when they happen.    *)
(*                                                                         *)
(* Of the contents of a row it is kept whether they are those of the       *)
(* summary last built for its key.                                         *)
(***************************************************************************)
EXTENDS Integers, FiniteSets, Sequences, SequencesExt

CONSTANTS
    Keys,       \* OffloadKeys
    Jobs,       \* store job ids
    Capacity,   \* num_cpu_blocks
    None

Worker == [
    jobBlocks : [Jobs -> Seq(Keys) \cup {None}],    \* _pending_job_blocks
    durable   : Seq(Keys),              \* durable_summaries, in insertion order
    stackKeys : Seq(Keys),              \* _stack_cache_keys
    stackRows : Seq({"current", "old"}),    \* _stack_cache: what each row shows
    index     : [Keys -> Nat],          \* _stack_cache_index, 0 when absent
    insert    : SUBSET Keys,            \* _stack_pending_insert
    remove    : SUBSET Keys,            \* _stack_pending_remove
    dirty     : BOOLEAN ]               \* _stack_cache_dirty

NewWorker == [
    jobBlocks |-> [j \in Jobs |-> None], durable |-> <<>>,
    stackKeys |-> <<>>, stackRows |-> <<>>, index |-> [k \in Keys |-> 0],
    insert |-> {}, remove |-> {}, dirty |-> TRUE ]

Summarised(w) == Range(w.durable)
HasRow(w, k)  == w.index[k] # 0

\* The numbers of a finite set in ascending order.
Ascending(P) ==
    [n \in 1 .. Cardinality(P) |-> CHOOSE i \in P : Cardinality({j \in P : j <= i}) = n]
Without(s, keys) ==
    LET left == Ascending({i \in 1 .. Len(s) : s[i] \notin keys})
    IN  [n \in 1 .. Len(left) |-> s[left[n]]]

---------------------------------------------------------------------------
(* What the stack has yet to follow.                                       *)

MarkInserted(w, keys) ==
    [w EXCEPT !.remove = @ \cup {k \in keys : HasRow(w, k)},
              !.insert = @ \cup keys,
              !.dirty = TRUE]

MarkRemoved(w, keys) ==
    IF keys = {} THEN w
    ELSE [w EXCEPT !.insert = @ \ keys,
                   !.remove = @ \cup {k \in keys : HasRow(w, k)},
                   !.dirty = TRUE]

\* The index of a key in the rows, from the keys of the rows.
IndexOf(keys) ==
    [k \in Keys |-> IF \E i \in 1 .. Len(keys) : keys[i] = k
                    THEN CHOOSE i \in 1 .. Len(keys) : keys[i] = k ELSE 0]

\* Faulty: the rows that close up keep their old index.
DropRowsKeepingIndex(w) ==
    LET dropped == {w.index[k] : k \in w.remove}
        left    == Ascending((1 .. Len(w.stackKeys)) \ dropped)
    IN  [w EXCEPT !.stackKeys = [n \in 1 .. Len(left) |-> w.stackKeys[left[n]]],
                  !.stackRows = [n \in 1 .. Len(left) |-> w.stackRows[left[n]]],
                  !.index = [k \in Keys |-> IF k \in w.remove THEN 0 ELSE w.index[k]],
                  !.remove = {}]
\* _rebuild_stack_cache, first half: compact the removed rows out.
DropRows(w) ==
    LET dropped == {w.index[k] : k \in w.remove}
        left    == Ascending((1 .. Len(w.stackKeys)) \ dropped)
        keys    == [n \in 1 .. Len(left) |-> w.stackKeys[left[n]]]
    IN  IF w.remove = {} THEN w
        ELSE [w EXCEPT !.stackKeys = keys,
                       !.stackRows = [n \in 1 .. Len(left) |-> w.stackRows[left[n]]],
                       !.index = IndexOf(keys),
                       !.remove = {}]

\* Second half: append a row for each new summary; in which order they come
\* is up to the set.
AppendRows(w) ==
    LET new == SetToSeq(w.insert \cap Summarised(w))
    IN  [w EXCEPT !.stackKeys = @ \o new,
                  !.stackRows = @ \o [n \in 1 .. Len(new) |-> "current"],
                  !.index = [k \in Keys |->
                      IF \E n \in 1 .. Len(new) : new[n] = k
                      THEN Len(w.stackKeys) + CHOOSE n \in 1 .. Len(new) : new[n] = k
                      ELSE @[k]],
                  !.insert = {}]

RebuildStackCache(w) == [AppendRows(DropRows(w)) EXCEPT !.dirty = FALSE]

---------------------------------------------------------------------------
(* The worker's entry points.                                              *)

\* reset_semantic_state()
ResetSemanticState(w) == NewWorker

\* receive_job_blocks()
ReceiveJobBlocks(w, layouts) ==
    [w EXCEPT !.jobBlocks = [j \in Jobs |-> IF layouts[j] # None THEN layouts[j] ELSE @[j]]]

\* Faulty: a summary that has no row yet is kept.
ReceiveEvictedRows(w, evicted) ==
    LET gone == {k \in evicted : HasRow(w, k)}
    IN  MarkRemoved([w EXCEPT !.durable = Without(@, gone)], gone)
\* receive_evicted_keys()
ReceiveEvictedKeys(w, evicted) ==
    MarkRemoved([w EXCEPT !.durable = Without(@, evicted)], evicted \cap Summarised(w))

\* _prune_durable_summaries() and what its callers do with the result.
Prune(w) ==
    LET overflow == Len(w.durable) - Capacity
        pruned   == Range(SubSeq(w.durable, 1, overflow))
    IN  IF overflow <= 0 THEN w
        ELSE MarkRemoved([w EXCEPT !.durable = Without(@, pruned)], pruned)

\* submit_store(): the summaries of a job whose layout is known; a key that is
\* stored again keeps its place in the insertion order.
SubmitStore(w, j) ==
    LET layout == w.jobBlocks[j]
        built  == [w EXCEPT
            !.jobBlocks[j] = None,
            !.durable = @ \o Without(layout, Summarised(w)),
            !.stackRows = [i \in 1 .. Len(@) |->
                IF w.stackKeys[i] \in Range(layout) THEN "old" ELSE @[i]]]
    IN  IF layout = None THEN w
        ELSE Prune(MarkInserted(built, Range(layout)))

\* _on_queries_captured(): the stack is synced before it is scored.
CaptureQueries(w) ==
    IF w.durable # <<>> /\ w.dirty THEN RebuildStackCache(w) ELSE w
=================================================================================
