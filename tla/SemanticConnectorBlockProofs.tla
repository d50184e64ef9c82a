--------------------- MODULE SemanticConnectorBlockProofs ----------------------
(***************************************************************************)
(* Proofs about the GPU blocks of SemanticConnector: every block has one   *)
(* holder, and nobody else gets hold of a block that a worker may still    *)
(* write or read on behalf of a prefetch, a load or a splice.              *)
(*                                                                         *)
(* BlockInv ties the three kinds of loan to the transfers behind them: a   *)
(* prefetch job that is still tracked has its blocks either in its         *)
(* request's prefetch or in a countdown of its own since a reset, never in *)
(* both and never in neither; a load writes its request's own blocks; and  *)
(* a splice in flight reads blocks of its own quarantine.                  *)
(***************************************************************************)
EXTENDS SemanticConnectorProofs

TableBlocks(r)  == Range(table[r])
SpliceBlocks(s) == IF spliceReleases[s] = None THEN {} ELSE spliceReleases[s].blocks
ResetBlocks(j)  == IF resetReleases[j] = None THEN {} ELSE resetReleases[j].blocks

\* Every block has a holder, and no two.
Held ==
    \A b \in Blocks :
        \/ b \in free
        \/ \E r \in Requests : b \in TableBlocks(r) \/ b \in PrefetchBlocks(r)
        \/ \E s \in SpliceIds : b \in SpliceBlocks(s)
        \/ \E j \in JobIds : b \in ResetBlocks(j)
PoolApart ==
    /\ \A r \in Requests : free \cap TableBlocks(r) = {} /\ free \cap PrefetchBlocks(r) = {}
    /\ \A s \in SpliceIds : free \cap SpliceBlocks(s) = {}
    /\ \A j \in JobIds : free \cap ResetBlocks(j) = {}
KindsApart ==
    /\ \A r, q \in Requests : TableBlocks(r) \cap PrefetchBlocks(q) = {}
    /\ \A r \in Requests, s \in SpliceIds :
          /\ TableBlocks(r) \cap SpliceBlocks(s) = {}
          /\ PrefetchBlocks(r) \cap SpliceBlocks(s) = {}
    /\ \A r \in Requests, j \in JobIds :
          /\ TableBlocks(r) \cap ResetBlocks(j) = {}
          /\ PrefetchBlocks(r) \cap ResetBlocks(j) = {}
    /\ \A s \in SpliceIds, j \in JobIds : SpliceBlocks(s) \cap ResetBlocks(j) = {}
HoldersApart ==
    /\ \A r, q \in Requests : r # q =>
          /\ TableBlocks(r) \cap TableBlocks(q) = {}
          /\ PrefetchBlocks(r) \cap PrefetchBlocks(q) = {}
    /\ \A s, t \in SpliceIds : s # t => SpliceBlocks(s) \cap SpliceBlocks(t) = {}
    /\ \A j, k \in JobIds : j # k => ResetBlocks(j) \cap ResetBlocks(k) = {}
Partition == Held /\ PoolApart /\ KindsApart /\ HoldersApart

\* Requests without a turn hold no blocks.
TablesEmpty ==
    \A r \in Requests : status[r] \in {"waiting", "preempted"} => table[r] = <<>>

\* A prefetch whose job is tracked is the one the job loads.
PrefetchFits(r) ==
    prefetched[r] # None /\ Live(prefetched[r].job) =>
        /\ jobs[prefetched[r].job].kind = "prefetch"
        /\ jobs[prefetched[r].job].req = r
        /\ JobBlocks(prefetched[r].job) = PrefetchBlocks(r)
\* A reset countdown belongs to a tracked prefetch job, which no request names.
ResetFits(j) ==
    resetReleases[j] # None =>
        /\ Live(j) /\ jobs[j].kind = "prefetch"
        /\ resetReleases[j].remaining = jobs[j].pending
        /\ JobBlocks(j) = ResetBlocks(j)
        /\ \A r \in Requests : prefetched[r] # None => prefetched[r].job # j
\* A tracked prefetch or load has its blocks with a holder of its own.
LoadFits(j) ==
    Live(j) =>
        /\ jobs[j].kind = "prefetch" =>
             \/ resetReleases[j] # None
             \/ prefetched[jobs[j].req] # None /\ prefetched[jobs[j].req].job = j
        /\ jobs[j].kind = "load" => JobBlocks(j) \subseteq TableBlocks(jobs[j].req)
Fits ==
    /\ \A r \in Requests : PrefetchFits(r)
    /\ \A j \in JobIds : ResetFits(j) /\ LoadFits(j)

\* The workers that have not yet acknowledged splice s.
Copying(s) == {w \in Workers : copyStage[w][s] # "none"}
\* A quarantine counts exactly these workers and holds all that they read.
SpliceFits(s) ==
    IF spliceReleases[s] = None THEN Copying(s) = {}
    ELSE /\ spliceReleases[s].remaining = Cardinality(Copying(s))
         /\ Sources(s) \subseteq SpliceBlocks(s)
SplicesFit == \A s \in SpliceIds : SpliceFits(s)

BlockInv == Partition /\ TablesEmpty /\ Fits /\ SplicesFit

---------------------------------------------------------------------------
(***************************************************************************)
(* The partition of the blocks.                                            *)
(***************************************************************************)

\* Some holders give all their blocks to the pool; the others keep theirs.
LEMMA GivenBack ==
    ASSUME Partition, NEW V \in SUBSET Blocks, free' = free \cup V,
           \A r \in Requests :
               /\ \/ TableBlocks(r)' = TableBlocks(r)
                  \/ TableBlocks(r)' = {} /\ TableBlocks(r) \subseteq V
               /\ \/ PrefetchBlocks(r)' = PrefetchBlocks(r)
                  \/ PrefetchBlocks(r)' = {} /\ PrefetchBlocks(r) \subseteq V,
           \A s \in SpliceIds :
               \/ SpliceBlocks(s)' = SpliceBlocks(s)
               \/ SpliceBlocks(s)' = {} /\ SpliceBlocks(s) \subseteq V,
           \A j \in JobIds :
               \/ ResetBlocks(j)' = ResetBlocks(j)
               \/ ResetBlocks(j)' = {} /\ ResetBlocks(j) \subseteq V,
           \A b \in V :
               \/ \E r \in Requests : b \in TableBlocks(r) /\ TableBlocks(r)' = {}
               \/ \E r \in Requests : b \in PrefetchBlocks(r) /\ PrefetchBlocks(r)' = {}
               \/ \E s \in SpliceIds : b \in SpliceBlocks(s) /\ SpliceBlocks(s)' = {}
               \/ \E j \in JobIds : b \in ResetBlocks(j) /\ ResetBlocks(j)' = {}
    PROVE  Partition'
    <1>1. /\ \A r \in Requests : /\ TableBlocks(r)' \subseteq TableBlocks(r)
                                 /\ PrefetchBlocks(r)' \subseteq PrefetchBlocks(r)
          /\ \A s \in SpliceIds : SpliceBlocks(s)' \subseteq SpliceBlocks(s)
          /\ \A j \in JobIds : ResetBlocks(j)' \subseteq ResetBlocks(j)
      OBVIOUS
    <1>2. Held'
      BY DEF Partition, Held
    <1>3. KindsApart'
      BY <1>1 DEF Partition, KindsApart
    <1>4. HoldersApart'
      BY <1>1 DEF Partition, HoldersApart
    <1>5. PoolApart'
      <2>1. \A b \in V : /\ \A r \in Requests : b \notin TableBlocks(r)' /\ b \notin PrefetchBlocks(r)'
                         /\ \A s \in SpliceIds : b \notin SpliceBlocks(s)'
                         /\ \A j \in JobIds : b \notin ResetBlocks(j)'
        <3> SUFFICES ASSUME NEW b \in V
                     PROVE  /\ \A r \in Requests : b \notin TableBlocks(r)' /\ b \notin PrefetchBlocks(r)'
                            /\ \A s \in SpliceIds : b \notin SpliceBlocks(s)'
                            /\ \A j \in JobIds : b \notin ResetBlocks(j)'
          OBVIOUS
        <3>1. CASE \E r \in Requests : b \in TableBlocks(r) /\ TableBlocks(r)' = {}
          BY <1>1, <3>1 DEF Partition, KindsApart, HoldersApart
        <3>2. CASE \E r \in Requests : b \in PrefetchBlocks(r) /\ PrefetchBlocks(r)' = {}
          BY <1>1, <3>2 DEF Partition, KindsApart, HoldersApart
        <3>3. CASE \E s \in SpliceIds : b \in SpliceBlocks(s) /\ SpliceBlocks(s)' = {}
          BY <1>1, <3>3 DEF Partition, KindsApart, HoldersApart
        <3>4. CASE \E j \in JobIds : b \in ResetBlocks(j) /\ ResetBlocks(j)' = {}
          BY <1>1, <3>4 DEF Partition, KindsApart, HoldersApart
        <3> QED BY <3>1, <3>2, <3>3, <3>4
      <2> QED BY <1>1, <2>1 DEF Partition, PoolApart
    <1> QED BY <1>2, <1>3, <1>4, <1>5 DEF Partition

LEMMA PreemptPartition ==
    ASSUME TypeInv, BlockInv, NEW r \in Requests, Preempt(r)
    PROVE  Partition'
    <1>1. /\ free' = free \cup TableBlocks(r) /\ table' = [table EXCEPT ![r] = <<>>]
          /\ UNCHANGED <<prefetched, spliceReleases, resetReleases>>
      BY DEF Preempt, semVars, TableBlocks
    <1>2. /\ TableBlocks(r)' = {}
          /\ \A q \in Requests : q # r => TableBlocks(q)' = TableBlocks(q)
      BY <1>1 DEF TableBlocks, Range, TypeInv, TypeOK
    <1>3. /\ \A q \in Requests : PrefetchBlocks(q)' = PrefetchBlocks(q)
          /\ \A s \in SpliceIds : SpliceBlocks(s)' = SpliceBlocks(s)
          /\ \A j \in JobIds : ResetBlocks(j)' = ResetBlocks(j)
      BY <1>1 DEF PrefetchBlocks, SpliceBlocks, ResetBlocks
    <1>4. TableBlocks(r) \in SUBSET Blocks
      BY BlocksHeld DEF TableBlocks, TypeInv
    <1>5. \A b \in TableBlocks(r) :
            \E q \in Requests : b \in TableBlocks(q) /\ TableBlocks(q)' = {}
      BY <1>2
    <1>6. \A q \in Requests :
            /\ \/ TableBlocks(q)' = TableBlocks(q)
               \/ TableBlocks(q)' = {} /\ TableBlocks(q) \subseteq TableBlocks(r)
            /\ \/ PrefetchBlocks(q)' = PrefetchBlocks(q)
               \/ PrefetchBlocks(q)' = {} /\ PrefetchBlocks(q) \subseteq TableBlocks(r)
      BY <1>2, <1>3
    <1>7. Partition
      BY DEF BlockInv
    <1> QED BY <1>1, <1>3, <1>4, <1>5, <1>6, <1>7, GivenBack

LEMMA FinishPartition ==
    ASSUME TypeInv, BlockInv, NEW r \in Requests, Finish(r)
    PROVE  Partition'
    <1> DEFINE returned == IF Settled(r) THEN PrefetchBlocks(r) ELSE {}
               vacated  == IF status[r] = "loading" THEN {} ELSE TableBlocks(r)
    <1>1. /\ free' = free \cup (returned \cup vacated)
          /\ table' = IF status[r] = "loading" THEN table ELSE [table EXCEPT ![r] = <<>>]
          /\ prefetched' = IF Settled(r) THEN [prefetched EXCEPT ![r] = None] ELSE prefetched
          /\ UNCHANGED <<spliceReleases, resetReleases>>
      BY DEF Finish, TableBlocks
    <1>2. /\ TableBlocks(r)' = IF status[r] = "loading" THEN TableBlocks(r) ELSE {}
          /\ \A q \in Requests : q # r => TableBlocks(q)' = TableBlocks(q)
      BY <1>1 DEF TableBlocks, Range, TypeInv, TypeOK
    <1>3. /\ PrefetchBlocks(r)' = IF Settled(r) THEN {} ELSE PrefetchBlocks(r)
          /\ \A q \in Requests : q # r => PrefetchBlocks(q)' = PrefetchBlocks(q)
      BY <1>1 DEF PrefetchBlocks, TypeInv, TypeOK
    <1>4. /\ \A s \in SpliceIds : SpliceBlocks(s)' = SpliceBlocks(s)
          /\ \A j \in JobIds : ResetBlocks(j)' = ResetBlocks(j)
      BY <1>1 DEF SpliceBlocks, ResetBlocks
    <1>5. returned \cup vacated \in SUBSET Blocks
      BY BlocksHeld DEF TableBlocks, TypeInv
    <1> DEFINE V == returned \cup vacated
    <1>6. \A b \in V :
            \/ \E q \in Requests : b \in TableBlocks(q) /\ TableBlocks(q)' = {}
            \/ \E q \in Requests : b \in PrefetchBlocks(q) /\ PrefetchBlocks(q)' = {}
      BY <1>2, <1>3
    <1>7. \A q \in Requests :
            /\ \/ TableBlocks(q)' = TableBlocks(q)
               \/ TableBlocks(q)' = {} /\ TableBlocks(q) \subseteq V
            /\ \/ PrefetchBlocks(q)' = PrefetchBlocks(q)
               \/ PrefetchBlocks(q)' = {} /\ PrefetchBlocks(q) \subseteq V
      BY <1>2, <1>3
    <1>8. Partition /\ free' = free \cup V /\ V \in SUBSET Blocks
      BY <1>1, <1>5 DEF BlockInv
    <1> HIDE DEF V
    <1> QED BY <1>4, <1>6, <1>7, <1>8, GivenBack

\* A request is given the blocks of t; its prefetch returns to the pool.
LEMMA AdmitNormallyPartition ==
    ASSUME TypeInv, BlockInv, NEW r \in Requests, AdmitNormally(r)
    PROVE  Partition'
    <1>1. PICK t \in NewTables(r), plan \in LoadPlans(r) :
            /\ free' = (free \ Range(t)) \cup PrefetchBlocks(r)
            /\ Admitted(r, t, plan)
      BY DEF AdmitNormally
    <1>2. /\ table' = [table EXCEPT ![r] = t]
          /\ prefetched' = [prefetched EXCEPT ![r] = None]
          /\ UNCHANGED <<spliceReleases, resetReleases>>
      BY <1>1 DEF Admitted, AdmitNormally
    <1>3. TableBlocks(r) = {}
      BY DEF AdmitNormally, CanAdmit, BlockInv, TablesEmpty, TableBlocks, Range
    <1>4. /\ TableBlocks(r)' = Range(t)
          /\ \A q \in Requests : q # r => TableBlocks(q)' = TableBlocks(q)
      BY <1>2 DEF TableBlocks, TypeInv, TypeOK
    <1>5. /\ PrefetchBlocks(r)' = {}
          /\ \A q \in Requests : q # r => PrefetchBlocks(q)' = PrefetchBlocks(q)
      BY <1>2 DEF PrefetchBlocks, TypeInv, TypeOK
    <1>6. /\ \A s \in SpliceIds : SpliceBlocks(s)' = SpliceBlocks(s)
          /\ \A j \in JobIds : ResetBlocks(j)' = ResetBlocks(j)
      BY <1>2 DEF SpliceBlocks, ResetBlocks
    <1>7. Range(t) \subseteq free
      BY NewTable DEF TypeInv
    <1>8. Held'
      BY <1>1, <1>3, <1>4, <1>5, <1>6 DEF BlockInv, Partition, Held
    <1>9. PoolApart'
      BY <1>1, <1>4, <1>5, <1>6, <1>7
         DEF BlockInv, Partition, PoolApart, KindsApart, HoldersApart
    <1>10. KindsApart'
      BY <1>4, <1>5, <1>6, <1>7 DEF BlockInv, Partition, PoolApart, KindsApart
    <1>11. HoldersApart'
      BY <1>4, <1>5, <1>6, <1>7 DEF BlockInv, Partition, PoolApart, HoldersApart
    <1> QED BY <1>8, <1>9, <1>10, <1>11 DEF Partition

\* A request is given the blocks of t; its prefetch becomes a quarantine.
LEMMA AdmitSplicedPartition ==
    ASSUME TypeInv, BlockInv, NEW r \in Requests, AdmitSpliced(r)
    PROVE  Partition'
    <1>0. PICK s \in SpliceIds : s = Pick(FreshSplices) /\ spliceReleases[s] = None
      BY DEF AdmitSpliced, FreshSplices, Pick
    <1>1. PICK t \in NewTables(r), plan \in LoadPlans(r) :
            /\ spliceReleases' = [spliceReleases EXCEPT ![s] =
                  Quarantine(r)]
            /\ free' = free \ Range(t)
            /\ Admitted(r, t, plan)
      BY <1>0 DEF AdmitSpliced
    <1>2. /\ table' = [table EXCEPT ![r] = t]
          /\ prefetched' = [prefetched EXCEPT ![r] = None]
          /\ resetReleases' = resetReleases
      BY <1>1 DEF Admitted
    <1>3. TableBlocks(r) = {}
      BY DEF AdmitSpliced, CanAdmit, BlockInv, TablesEmpty, TableBlocks, Range
    <1>5. /\ TableBlocks(r)' = Range(t)
          /\ \A q \in Requests : q # r => TableBlocks(q)' = TableBlocks(q)
      BY <1>2 DEF TableBlocks, TypeInv, TypeOK
    <1>6. /\ PrefetchBlocks(r)' = {}
          /\ \A q \in Requests : q # r => PrefetchBlocks(q)' = PrefetchBlocks(q)
      BY <1>2 DEF PrefetchBlocks, TypeInv, TypeOK
    <1>7. \A j \in JobIds : ResetBlocks(j)' = ResetBlocks(j)
      BY <1>2 DEF ResetBlocks
    <1>8. /\ SpliceBlocks(s)' = PrefetchBlocks(r) /\ SpliceBlocks(s) = {}
          /\ \A u \in SpliceIds : u # s => SpliceBlocks(u)' = SpliceBlocks(u)
      <2>1. Quarantine(r) \in Release
        BY BlocksHeld, WorkersCounted DEF TypeInv, Quarantine, Release
      <2> QED BY <1>0, <1>1, <2>1, NoneAssumption DEF SpliceBlocks, Quarantine, TypeInv, TypeOK
    <1>9. Range(t) \subseteq free
      BY NewTable DEF TypeInv
    <1>10. Held'
      BY <1>1, <1>3, <1>5, <1>6, <1>7, <1>8 DEF BlockInv, Partition, Held
    <1>11. PoolApart'
      BY <1>1, <1>5, <1>6, <1>7, <1>8, <1>9 DEF BlockInv, Partition, PoolApart
    <1>12. KindsApart'
      BY <1>5, <1>6, <1>7, <1>8, <1>9
         DEF BlockInv, Partition, PoolApart, KindsApart, HoldersApart
    <1>13. HoldersApart'
      BY <1>5, <1>6, <1>7, <1>8, <1>9
         DEF BlockInv, Partition, PoolApart, KindsApart, HoldersApart
    <1> QED BY <1>10, <1>11, <1>12, <1>13 DEF Partition

\* A countdown keeps its blocks until it is over, and then has none.
LEMMA CountDownBlocks ==
    ASSUME NEW Ids, NEW releases \in [Ids -> Release \cup {None}], NEW id \in Ids,
           NEW count \in 0 .. NumWorkers, NEW acked,
           id \in acked <=> releases[id] # None /\ releases[id].remaining <= count
    PROVE  LET next == CountDown(releases, id, count, acked)
           IN  IF id \in acked \/ releases[id] = None THEN next = None
               ELSE /\ next # None
                    /\ next.blocks = releases[id].blocks
                    /\ next.remaining = releases[id].remaining - count
    <1>1. CASE releases[id] = None \/ id \in acked
      BY <1>1 DEF CountDown
    <1>2. CASE ~(releases[id] = None \/ id \in acked)
      <2>1. releases[id] \in Release /\ releases[id].remaining - count \in 1 .. NumWorkers
        BY <1>2, WorkersCounted DEF Release
      <2>2. CountDown(releases, id, count, acked) = [releases[id] EXCEPT !.remaining = @ - count]
        BY <1>2 DEF CountDown
      <2>3. CountDown(releases, id, count, acked) \in Release
        BY <2>1, <2>2 DEF Release
      <2> QED BY <1>2, <2>1, <2>2, <2>3, NoneAssumption DEF Release
    <1> QED BY <1>1, <1>2

\* What the completion of a step does to every quarantine.
LEMMA SpliceCountDown ==
    ASSUME TypeInv, UpdateOutput, NEW s \in SpliceIds
    PROVE  IF s \in AckedSplices \/ spliceReleases[s] = None THEN spliceReleases'[s] = None
           ELSE /\ spliceReleases'[s] # None
                /\ spliceReleases'[s].blocks = spliceReleases[s].blocks
                /\ spliceReleases'[s].remaining =
                     spliceReleases[s].remaining - SpliceReports(s)
    <1>1. SpliceReports(s) \in 0 .. NumWorkers
      BY WorkersCounted DEF SpliceReports
    <1>2. spliceReleases'[s] = CountDown(spliceReleases, s, SpliceReports(s), AckedSplices)
      BY DEF UpdateOutput
    <1>3. s \in AckedSplices <=> /\ spliceReleases[s] # None
                                 /\ spliceReleases[s].remaining <= SpliceReports(s)
      BY DEF AckedSplices
    <1>4. spliceReleases \in [SpliceIds -> Release \cup {None}]
      BY DEF TypeInv, TypeOK
    <1> QED BY <1>1, <1>2, <1>3, <1>4, CountDownBlocks

LEMMA ResetCountDown ==
    ASSUME TypeInv, UpdateOutput, NEW j \in JobIds
    PROVE  IF j \in AckedResets \/ resetReleases[j] = None THEN resetReleases'[j] = None
           ELSE /\ resetReleases'[j] # None
                /\ resetReleases'[j].blocks = resetReleases[j].blocks
                /\ resetReleases'[j].remaining = resetReleases[j].remaining - JobReports(j)
    <1>1. JobReports(j) \in 0 .. NumWorkers
      BY WorkersCounted DEF JobReports
    <1>2. resetReleases'[j] = CountDown(resetReleases, j, JobReports(j), AckedResets)
      BY DEF UpdateOutput
    <1>3. j \in AckedResets <=> /\ resetReleases[j] # None
                                /\ resetReleases[j].remaining <= JobReports(j)
      BY DEF AckedResets
    <1>4. resetReleases \in [JobIds -> Release \cup {None}]
      BY DEF TypeInv, TypeOK
    <1> QED BY <1>1, <1>2, <1>3, <1>4, CountDownBlocks

LEMMA UpdateOutputPartition ==
    ASSUME TypeInv, BlockInv, UpdateOutput
    PROVE  Partition'
    <1> DEFINE closed   == {r \in Received : status[r] = "finished"}
               vacated  == UNION {TableBlocks(r) : r \in closed}
    <1>1. PICK orphans \in SUBSET Requests :
            /\ orphans = Orphans(reqStatus')
            /\ free' = free \cup (ReturnedBlocks(orphans) \cup vacated)
            /\ prefetched' = [r \in Requests |-> IF r \in orphans THEN None ELSE prefetched[r]]
            /\ table' = [r \in Requests |-> IF r \in closed THEN <<>> ELSE table[r]]
      BY DEF UpdateOutput, Orphans, TableBlocks
    <1>2. closed \in SUBSET Requests
      BY DEF Received, CompletedJobs, Live, TypeInv, TypeOK, Job
    <1>3. \A r \in Requests :
            TableBlocks(r)' = IF r \in closed THEN {} ELSE TableBlocks(r)
      BY <1>1 DEF TableBlocks, Range
    <1>4. \A r \in Requests :
            PrefetchBlocks(r)' = IF r \in orphans THEN {} ELSE PrefetchBlocks(r)
      BY <1>1 DEF PrefetchBlocks
    <1>5. \A s \in SpliceIds :
            SpliceBlocks(s)' = IF s \in AckedSplices THEN {} ELSE SpliceBlocks(s)
      BY SpliceCountDown DEF SpliceBlocks
    <1>6. \A j \in JobIds :
            ResetBlocks(j)' = IF j \in AckedResets THEN {} ELSE ResetBlocks(j)
      BY ResetCountDown DEF ResetBlocks
    <1>7. PICK V : V = ReturnedBlocks(orphans) \cup vacated
      OBVIOUS
    <1>8. V \in SUBSET Blocks
      BY <1>2, <1>7, BlocksHeld, ReturnedTyped DEF TypeInv, TableBlocks
    <1>9. /\ \A r \in closed : TableBlocks(r) \subseteq V
          /\ \A r \in orphans : PrefetchBlocks(r) \subseteq V
          /\ \A s \in AckedSplices : SpliceBlocks(s) \subseteq V
          /\ \A j \in AckedResets : ResetBlocks(j) \subseteq V
      BY <1>7 DEF ReturnedBlocks, SpliceBlocks, ResetBlocks, AckedSplices, AckedResets
    <1>10. \A b \in V :
            \/ \E r \in closed : b \in TableBlocks(r)
            \/ \E r \in orphans : b \in PrefetchBlocks(r)
            \/ \E s \in AckedSplices : b \in SpliceBlocks(s)
            \/ \E j \in AckedResets : b \in ResetBlocks(j)
      BY <1>7 DEF ReturnedBlocks, SpliceBlocks, ResetBlocks, AckedSplices, AckedResets
    <1>11. AckedSplices \subseteq SpliceIds /\ AckedResets \subseteq JobIds
      BY DEF AckedSplices, AckedResets
    <1>12. Partition /\ free' = free \cup V
      BY <1>1, <1>7 DEF BlockInv
    <1> HIDE DEF closed
    <1>13. \A b \in V :
            \/ \E r \in Requests : b \in TableBlocks(r) /\ TableBlocks(r)' = {}
            \/ \E r \in Requests : b \in PrefetchBlocks(r) /\ PrefetchBlocks(r)' = {}
            \/ \E s \in SpliceIds : b \in SpliceBlocks(s) /\ SpliceBlocks(s)' = {}
            \/ \E j \in JobIds : b \in ResetBlocks(j) /\ ResetBlocks(j)' = {}
      BY <1>2, <1>3, <1>4, <1>5, <1>6, <1>10, <1>11
    <1>14. /\ \A r \in Requests :
                /\ \/ TableBlocks(r)' = TableBlocks(r)
                   \/ TableBlocks(r)' = {} /\ TableBlocks(r) \subseteq V
                /\ \/ PrefetchBlocks(r)' = PrefetchBlocks(r)
                   \/ PrefetchBlocks(r)' = {} /\ PrefetchBlocks(r) \subseteq V
           /\ \A s \in SpliceIds :
                \/ SpliceBlocks(s)' = SpliceBlocks(s)
                \/ SpliceBlocks(s)' = {} /\ SpliceBlocks(s) \subseteq V
           /\ \A j \in JobIds :
                \/ ResetBlocks(j)' = ResetBlocks(j)
                \/ ResetBlocks(j)' = {} /\ ResetBlocks(j) \subseteq V
      BY <1>3, <1>4, <1>5, <1>6, <1>9
    <1> QED BY <1>8, <1>12, <1>13, <1>14, GivenBack

\* Free blocks become a request's prefetch.
LEMMA ReservePartition ==
    ASSUME TypeInv, BlockInv, NEW r \in Requests, Reserve(r)
    PROVE  Partition'
    <1>1. PICK n \in 1 .. Len(OffloadKeys[r]) :
            \E rank \in Injection(1 .. n, Positions(r)), ids \in Injection(1 .. n, free) :
                Borrow(r, n, rank, ids)
      BY DEF Reserve
    <1>2. PICK rank \in Injection(1 .. n, Positions(r)), ids \in Injection(1 .. n, free) :
            Borrow(r, n, rank, ids)
      BY <1>1
    <1>3. PICK state :
            /\ state = [job |-> Pick(FreshJobs),
                        keys |-> [i \in 1 .. n |-> OffloadKeys[r][rank[i]]], blocks |-> ids]
            /\ prefetched' = [prefetched EXCEPT ![r] = state]
            /\ free' = free \ Range(ids)
      BY <1>2 DEF Borrow
    <1>4. /\ prefetched[r] = None
          /\ UNCHANGED <<table, spliceReleases, resetReleases>>
      BY DEF Reserve, NothingToRetry
    <1>5. Range(ids) \subseteq free
      BY DEF Injection, Range
    <1>6. state # None
      <2>1. state \in PrefetchState
        <3>1. Pick(FreshJobs) \in JobIds
          BY FreshPicked DEF Reserve
        <3>2. n \in Nat /\ ids \in [1 .. n -> Blocks]
              /\ [i \in 1 .. n |-> OffloadKeys[r][rank[i]]] \in [1 .. n -> Keys]
          BY Chains DEF Injection, TypeInv, TypeOK
        <3> QED BY <1>3, <3>1, <3>2, Sequences1 DEF PrefetchState
      <2> QED BY <2>1, NoneAssumption
    <1>7. /\ PrefetchBlocks(r)' = Range(ids) /\ PrefetchBlocks(r) = {}
          /\ \A q \in Requests : q # r => PrefetchBlocks(q)' = PrefetchBlocks(q)
      BY <1>3, <1>4, <1>6 DEF PrefetchBlocks, TypeInv, TypeOK
    <1>8. /\ \A q \in Requests : TableBlocks(q)' = TableBlocks(q)
          /\ \A s \in SpliceIds : SpliceBlocks(s)' = SpliceBlocks(s)
          /\ \A j \in JobIds : ResetBlocks(j)' = ResetBlocks(j)
      BY <1>4 DEF TableBlocks, SpliceBlocks, ResetBlocks
    <1>9. Held'
      BY <1>3, <1>7, <1>8 DEF BlockInv, Partition, Held
    <1>10. PoolApart'
      BY <1>3, <1>7, <1>8 DEF BlockInv, Partition, PoolApart
    <1>11. KindsApart'
      BY <1>5, <1>7, <1>8 DEF BlockInv, Partition, PoolApart, KindsApart
    <1>12. HoldersApart'
      BY <1>5, <1>7, <1>8 DEF BlockInv, Partition, PoolApart, HoldersApart
    <1> QED BY <1>9, <1>10, <1>11, <1>12 DEF Partition

\* Settled prefetches return to the pool; each of the others becomes the reset
\* countdown of its job.
LEMMA ResetCachePartition ==
    ASSUME TypeInv, BlockInv, ResetCache
    PROVE  Partition'
    <1> DEFINE Moves(r, j) == prefetched[r] # None /\ ~Settled(r) /\ prefetched[r].job = j
    <1>1. /\ prefetched' = [r \in Requests |-> None]
          /\ UNCHANGED <<table, spliceReleases>>
          /\ resetReleases' = [j \in JobIds |->
                IF \E r \in Requests : Moves(r, j)
                THEN [blocks |-> PrefetchBlocks(jobs[j].req), remaining |-> jobs[j].pending]
                ELSE resetReleases[j]]
      <2>1. \A j \in JobIds :
              (\E r \in {q \in Requests \ {q \in Requests : Settled(q)} : prefetched[q] # None} :
                  prefetched[r].job = j)
              <=> \E r \in Requests : Moves(r, j)
        OBVIOUS
      <2> QED BY <2>1 DEF ResetCache
    <1>2. free' = free \cup UNION {PrefetchBlocks(r) : r \in {q \in Requests : Settled(q)}}
      BY DEF ResetCache
    <1>3. ASSUME NEW r \in Requests, NEW j \in JobIds, Moves(r, j)
          PROVE  /\ jobs[j].req = r /\ resetReleases[j] = None
                 /\ [blocks |-> PrefetchBlocks(r), remaining |-> jobs[j].pending] \in Release
      <2>1. Live(j) /\ jobs[j].req = r
        BY <1>3 DEF Settled, BlockInv, Fits, PrefetchFits
      <2>2. resetReleases[j] = None
        BY <1>3 DEF BlockInv, Fits, ResetFits
      <2>3. jobs[j].pending \in 1 .. NumWorkers
        BY <2>1, JobTyped DEF Job
      <2> QED BY <2>1, <2>2, <2>3, BlocksHeld DEF TypeInv, Release
    <1>4. ASSUME NEW r \in Requests, NEW j \in JobIds, Moves(r, j)
          PROVE  ResetBlocks(j)' = PrefetchBlocks(r) /\ ResetBlocks(j) = {}
      <2>1. resetReleases'[j] = [blocks |-> PrefetchBlocks(r), remaining |-> jobs[j].pending]
        BY <1>1, <1>3, <1>4
      <2>2. resetReleases'[j] # None
        BY <1>3, <1>4, <2>1, NoneAssumption
      <2> QED BY <1>3, <1>4, <2>1, <2>2 DEF ResetBlocks
    <1>5. ASSUME NEW j \in JobIds, ~\E r \in Requests : Moves(r, j)
          PROVE  ResetBlocks(j)' = ResetBlocks(j)
      BY <1>1, <1>5 DEF ResetBlocks
    <1>6. /\ \A r \in Requests : TableBlocks(r)' = TableBlocks(r) /\ PrefetchBlocks(r)' = {}
          /\ \A s \in SpliceIds : SpliceBlocks(s)' = SpliceBlocks(s)
      BY <1>1 DEF TableBlocks, PrefetchBlocks, SpliceBlocks
    <1>7. \A r \in Requests : \/ PrefetchBlocks(r) = {}
                              \/ Settled(r)
                              \/ \E j \in JobIds : Moves(r, j)
      BY DEF PrefetchBlocks, Settled, TypeInv, TypeOK, PrefetchState
    <1>8. \A r \in Requests, j \in JobIds : Moves(r, j) => ~Settled(r)
      OBVIOUS
    <1>9. \A r, q \in Requests : \A j \in JobIds : Moves(r, j) /\ Moves(q, j) => r = q
      <2>1. \A r \in Requests, j \in JobIds : Moves(r, j) => jobs[j].req = r
        BY <1>3
      <2> HIDE DEF Moves
      <2> QED BY <2>1
    <1>10. \A r \in Requests : \A j, k \in JobIds : Moves(r, j) /\ Moves(r, k) => j = k
      OBVIOUS
    <1> HIDE DEF Moves
    <1>11. Held'
      BY <1>2, <1>4, <1>5, <1>6, <1>7 DEF BlockInv, Partition, Held
    <1>12. PoolApart'
      BY <1>2, <1>4, <1>5, <1>6, <1>8
         DEF BlockInv, Partition, PoolApart, KindsApart, HoldersApart
    <1>13. KindsApart'
      BY <1>4, <1>5, <1>6 DEF BlockInv, Partition, KindsApart
    <1>14. HoldersApart'
      <2>1. ASSUME NEW j \in JobIds, NEW k \in JobIds, j # k
            PROVE  ResetBlocks(j)' \cap ResetBlocks(k)' = {}
        <3>1. CASE \E r \in Requests : Moves(r, j)
          <4>1. CASE \E r \in Requests : Moves(r, k)
            BY <1>4, <1>10, <2>1, <3>1, <4>1 DEF BlockInv, Partition, HoldersApart
          <4>2. CASE ~\E r \in Requests : Moves(r, k)
            BY <1>4, <1>5, <3>1, <4>2 DEF BlockInv, Partition, KindsApart
          <4> QED BY <4>1, <4>2
        <3>2. CASE ~\E r \in Requests : Moves(r, j)
          <4>1. CASE \E r \in Requests : Moves(r, k)
            BY <1>4, <1>5, <3>2, <4>1 DEF BlockInv, Partition, KindsApart
          <4>2. CASE ~\E r \in Requests : Moves(r, k)
            BY <1>5, <2>1, <3>2, <4>2 DEF BlockInv, Partition, HoldersApart
          <4> QED BY <4>1, <4>2
        <3> QED BY <3>1, <3>2
      <2> QED BY <1>6, <2>1 DEF BlockInv, Partition, HoldersApart
    <1> QED BY <1>11, <1>12, <1>13, <1>14 DEF Partition

\* Steps that move no block.
LEMMA PartitionKept ==
    ASSUME BlockInv, UNCHANGED <<free, table, prefetched, spliceReleases, resetReleases>>
    PROVE  Partition'
    BY DEF BlockInv, Partition, Held, PoolApart, KindsApart, HoldersApart, TableBlocks,
           PrefetchBlocks, SpliceBlocks, ResetBlocks

\* The actions that move no block.
Sideways ==
    \/ UNCHANGED vars
    \/ BeginStep
    \/ BeginBuild
    \/ \E r \in Requests : StopRetrying(r) \/ RetryLater(r)
    \/ WorkerStep

LEMMA SidewaysFrame ==
    ASSUME Sideways
    PROVE  UNCHANGED <<status, free, table, jobs, prefetched, spliceReleases, resetReleases,
                       copies>>
    BY DEF Sideways, vars, BeginStep, BeginBuild, StopRetrying, RetryLater, WorkerStep, Bind,
           Report, TransferDone, SpliceDone, coreVars, baseVars, semVars

LEMMA PartitionStep ==
    ASSUME TypeInv, BlockInv, [Next]_vars
    PROVE  Partition'
    <1>1. CASE Sideways
      BY <1>1, SidewaysFrame, PartitionKept
    <1>2. CASE Send
      BY <1>2, PartitionKept DEF Send, semVars
    <1>3. ASSUME NEW r \in Requests,
                 \/ Reserve(r) \/ Preempt(r) \/ AdmitNormally(r) \/ AdmitSpliced(r) \/ Finish(r)
          PROVE  Partition'
      BY <1>3, ReservePartition, PreemptPartition, AdmitNormallyPartition,
         AdmitSplicedPartition, FinishPartition
    <1> QED BY <1>1, <1>2, <1>3, UpdateOutputPartition, ResetCachePartition
            DEF Next, SchedulerStep, Sideways

---------------------------------------------------------------------------
(***************************************************************************)
(* Requests without a turn hold nothing.                                   *)
(***************************************************************************)
LEMMA TablesStep ==
    ASSUME TypeInv, BlockInv, [Next]_vars
    PROVE  TablesEmpty'
    <1> SUFFICES ASSUME NEW q \in Requests, status'[q] \in {"waiting", "preempted"}
                 PROVE  table'[q] = <<>>
      BY DEF TablesEmpty
    <1> USE DEF TypeInv, TypeOK, BlockInv, TablesEmpty
    <1>1. CASE Sideways
      BY <1>1, SidewaysFrame
    <1>2. CASE Send
      BY <1>2 DEF Send
    <1>3. ASSUME NEW r \in Requests, Reserve(r) PROVE table'[q] = <<>>
      BY <1>3 DEF Reserve
    <1>4. ASSUME NEW r \in Requests, Preempt(r) PROVE table'[q] = <<>>
      BY <1>4 DEF Preempt
    <1>5. ASSUME NEW r \in Requests, AdmitNormally(r) \/ AdmitSpliced(r)
          PROVE  table'[q] = <<>>
      <2>1. \E t \in NewTables(r), plan \in LoadPlans(r) : Admitted(r, t, plan)
        BY <1>5 DEF AdmitNormally, AdmitSpliced
      <2> QED BY <2>1 DEF Admitted
    <1>6. ASSUME NEW r \in Requests, Finish(r) PROVE table'[q] = <<>>
      BY <1>6 DEF Finish
    <1>7. CASE UpdateOutput
      <2>1. /\ status'[q] = IF q \in Received /\ status[q] = "loading" THEN "running"
                            ELSE status[q]
            /\ table'[q] = IF q \in {r \in Received : status[r] = "finished"} THEN <<>>
                           ELSE table[q]
        BY <1>7 DEF UpdateOutput
      <2> QED BY <2>1
    <1>8. CASE ResetCache
      BY <1>8 DEF ResetCache
    <1> QED BY <1>1, <1>2, <1>3, <1>4, <1>5, <1>6, <1>7, <1>8 DEF Next, SchedulerStep, Sideways

---------------------------------------------------------------------------
(***************************************************************************)
(* Loans and transfers fit together.                                       *)
(***************************************************************************)

\* A new job j of request r leaves the other jobs as they are.
LEMMA FitsWithNewJob ==
    ASSUME TypeInv, BlockInv, NEW j \in JobIds, ~Live(j),
           \A k \in JobIds : k # j => jobs'[k] = jobs[k],
           \A q \in Requests : prefetched[q] # None => prefetched[q].job # j
    PROVE  /\ \A q \in Requests :
                prefetched'[q] = prefetched[q] => PrefetchFits(q)'
           /\ \A k \in JobIds :
                /\ k # j
                /\ resetReleases'[k] = resetReleases[k]
                /\ \A q \in Requests : prefetched'[q] # None /\ prefetched'[q] # prefetched[q] =>
                        prefetched'[q].job # k
                => ResetFits(k)'
           /\ resetReleases'[j] = resetReleases[j] => ResetFits(j)'
    <1>1. resetReleases[j] = None
      BY DEF BlockInv, Fits, ResetFits
    <1>2. ASSUME NEW q \in Requests, prefetched'[q] = prefetched[q] PROVE PrefetchFits(q)'
      <2> SUFFICES ASSUME prefetched'[q] # None, jobs'[prefetched'[q].job] # None
                   PROVE  PrefetchFits(q)'
        BY DEF PrefetchFits, Live
      <2>1. PICK k \in JobIds : k = prefetched[q].job /\ k # j
        BY <1>2 DEF TypeInv, TypeOK, PrefetchState
      <2>2. jobs'[k] = jobs[k] /\ Live(k)
        BY <1>2, <2>1 DEF Live
      <2>3. JobBlocks(k)' = JobBlocks(k) /\ PrefetchBlocks(q)' = PrefetchBlocks(q)
        BY <1>2, <2>2 DEF JobBlocks, PrefetchBlocks
      <2>4. /\ jobs[k].kind = "prefetch" /\ jobs[k].req = q
            /\ JobBlocks(k) = PrefetchBlocks(q)
        BY <1>2, <2>1, <2>2 DEF BlockInv, Fits, PrefetchFits
      <2>5. prefetched'[q].job = k
        BY <1>2, <2>1
      <2> QED BY <2>2, <2>3, <2>4, <2>5 DEF PrefetchFits, JobBlocks
    <1>3. ASSUME NEW k \in JobIds, k # j, resetReleases'[k] = resetReleases[k],
                 \A q \in Requests : prefetched'[q] # None /\ prefetched'[q] # prefetched[q] =>
                        prefetched'[q].job # k
          PROVE  ResetFits(k)'
      <2>1. jobs'[k] = jobs[k]
        BY <1>3
      <2>2. JobBlocks(k)' = JobBlocks(k) /\ ResetBlocks(k)' = ResetBlocks(k)
        BY <1>3, <2>1 DEF JobBlocks, ResetBlocks
      <2> QED BY <1>3, <2>1, <2>2 DEF BlockInv, Fits, ResetFits, Live
    <1>4. resetReleases'[j] = resetReleases[j] => ResetFits(j)'
      BY <1>1 DEF ResetFits
    <1> QED BY <1>2, <1>3, <1>4

LEMMA FitsKept ==
    ASSUME BlockInv, UNCHANGED <<jobs, table, prefetched, resetReleases>>
    PROVE  Fits'
    BY DEF BlockInv, Fits, PrefetchFits, ResetFits, LoadFits, Live, JobBlocks, PrefetchBlocks,
           ResetBlocks, TableBlocks

\* A running request has no load that would miss its blocks.
LEMMA PreemptFits ==
    ASSUME TypeInv, JobInv, BlockInv, NEW r \in Requests, Preempt(r)
    PROVE  Fits'
    <1>1. /\ status[r] = "running" /\ table' = [table EXCEPT ![r] = <<>>]
          /\ UNCHANGED <<jobs, prefetched, resetReleases>>
      BY DEF Preempt, baseVars, semVars
    <1>2. \A q \in Requests : q # r => TableBlocks(q)' = TableBlocks(q)
      BY <1>1 DEF TableBlocks, TypeInv, TypeOK
    <1>3. ASSUME NEW j \in JobIds PROVE LoadFits(j)'
      <2>1. Live(j) /\ jobs[j].kind = "load" => jobs[j].req \in Requests /\ jobs[j].req # r
        BY <1>1, JobTyped DEF JobInv, JobsFit, JobFits
      <2>2. JobBlocks(j)' = JobBlocks(j)
        BY <1>1 DEF JobBlocks
      <2>3. Live(j) /\ jobs[j].kind = "load" =>
                JobBlocks(j) \subseteq Range(table'[jobs[j].req])
        BY <1>2, <2>1 DEF BlockInv, Fits, LoadFits, TableBlocks
      <2> QED BY <1>1, <2>2, <2>3 DEF BlockInv, Fits, LoadFits, Live, TableBlocks
    <1>4. \A q \in Requests : PrefetchFits(q)'
      BY <1>1 DEF BlockInv, Fits, PrefetchFits, Live, JobBlocks, PrefetchBlocks
    <1>5. \A j \in JobIds : ResetFits(j)'
      BY <1>1 DEF BlockInv, Fits, ResetFits, Live, JobBlocks, ResetBlocks
    <1> QED BY <1>3, <1>4, <1>5 DEF Fits

LEMMA FinishFits ==
    ASSUME TypeInv, JobInv, BlockInv, NEW r \in Requests, Finish(r)
    PROVE  Fits'
    <1>1. /\ status[r] # "finished" /\ UNCHANGED <<jobs, resetReleases>>
          /\ table' = IF status[r] = "loading" THEN table ELSE [table EXCEPT ![r] = <<>>]
          /\ prefetched' = IF Settled(r) THEN [prefetched EXCEPT ![r] = None] ELSE prefetched
      BY DEF Finish
    <1>2. \A q \in Requests : q # r => table'[q] = table[q] /\ prefetched'[q] = prefetched[q]
      BY <1>1 DEF TypeInv, TypeOK
    <1>3. status[r] = "loading" => table'[r] = table[r]
      BY <1>1
    <1>4. prefetched'[r] = IF Settled(r) THEN None ELSE prefetched[r]
      BY <1>1 DEF TypeInv, TypeOK
    <1>5. ASSUME NEW j \in JobIds PROVE LoadFits(j)'
      <2> SUFFICES ASSUME Live(j) PROVE LoadFits(j)'
        BY <1>1 DEF LoadFits, Live
      <2>1. jobs[j].req \in Requests
        BY JobTyped
      <2>2. jobs[j].kind = "load" => table'[jobs[j].req] = table[jobs[j].req]
        BY <1>1, <1>2, <1>3, <2>1 DEF JobInv, JobsFit, JobFits
      <2>3. prefetched[jobs[j].req] # None /\ prefetched[jobs[j].req].job = j =>
                prefetched'[jobs[j].req] = prefetched[jobs[j].req]
        BY <1>2, <1>4, <2>1 DEF Settled
      <2>4. JobBlocks(j)' = JobBlocks(j)
        BY <1>1 DEF JobBlocks
      <2> QED BY <1>1, <2>2, <2>3, <2>4 DEF BlockInv, Fits, LoadFits, Live, TableBlocks
    <1>6. ASSUME NEW q \in Requests PROVE PrefetchFits(q)'
      <2>1. prefetched'[q] \in {None, prefetched[q]}
        BY <1>2, <1>4
      <2> QED BY <1>1, <2>1
              DEF BlockInv, Fits, PrefetchFits, Live, JobBlocks, PrefetchBlocks
    <1>7. ASSUME NEW j \in JobIds PROVE ResetFits(j)'
      <2>1. \A q \in Requests : prefetched'[q] \in {None, prefetched[q]}
        BY <1>2, <1>4
      <2> QED BY <1>1, <2>1 DEF BlockInv, Fits, ResetFits, Live, JobBlocks, ResetBlocks
    <1> QED BY <1>5, <1>6, <1>7 DEF Fits

\* The part of both admissions that matters here.
LEMMA AdmitFits ==
    ASSUME TypeInv, JobInv, BlockInv, NEW r \in Requests, NEW t \in NewTables(r),
           NEW plan \in LoadPlans(r), NEW P \in SUBSET plan,
           CanAdmit(r), Admitted(r, t, plan), StartLoad(r, t, P)
    PROVE  Fits'
    <1>1. /\ transferJobs[r] = {}
          /\ table' = [table EXCEPT ![r] = t]
          /\ prefetched' = [prefetched EXCEPT ![r] = None]
          /\ resetReleases' = resetReleases
      BY DEF CanAdmit, Admitted
    <1>2. \A j \in JobIds : Live(j) => jobs[j].req # r
      BY <1>1 DEF JobInv, JobsFit, JobFits
    <1>3. /\ \A q \in Requests : q # r => table'[q] = table[q] /\ prefetched'[q] = prefetched[q]
          /\ table'[r] = t /\ prefetched'[r] = None
      BY <1>1 DEF TypeInv, TypeOK
    \* a job of another request keeps its holder
    <1>4. ASSUME NEW k \in JobIds, Live(k), jobs'[k] = jobs[k] PROVE LoadFits(k)'
      <2>1. jobs[k].req \in Requests /\ jobs[k].req # r
        BY <1>2, <1>4, JobTyped
      <2>2. JobBlocks(k)' = JobBlocks(k)
        BY <1>4 DEF JobBlocks
      <2> QED BY <1>1, <1>3, <1>4, <2>1, <2>2 DEF BlockInv, Fits, LoadFits, Live, TableBlocks
    <1>5. CASE P = {}
      <2>1. UNCHANGED jobs
        BY <1>5 DEF StartLoad
      <2>2. \A k \in JobIds : LoadFits(k)'
        BY <1>4, <2>1 DEF LoadFits, Live
      <2>3. \A q \in Requests : PrefetchFits(q)'
        BY <1>3, <2>1 DEF BlockInv, Fits, PrefetchFits, Live, JobBlocks, PrefetchBlocks
      <2>4. \A k \in JobIds : ResetFits(k)'
        BY <1>1, <1>3, <2>1 DEF BlockInv, Fits, ResetFits, Live, JobBlocks, ResetBlocks
      <2> QED BY <2>2, <2>3, <2>4 DEF Fits
    <1>6. CASE P # {}
      <2>1. PICK j \in JobIds : j = Pick(FreshJobs)
        BY <1>6, FreshPicked DEF StartLoad
      <2>2. /\ ~Live(j)
            /\ \A q \in Requests : prefetched[q] # None => prefetched[q].job # j
        BY <1>6, <2>1 DEF StartLoad, FreshJobs, Pick
      <2>3. /\ jobs'[j] = NewJob("load", r, MovesInto(r, t, P))
            /\ \A k \in JobIds : k # j => jobs'[k] = jobs[k]
        BY <1>6, <2>1 DEF StartLoad, TypeInv, TypeOK
      <2>4. LoadFits(j)'
        <3>1. \A m \in MovesInto(r, t, P) : m.block \in Range(t)
          BY Chains, PlansInside DEF MovesInto, NewTables, Injection, Range
        <3> QED BY <1>3, <2>3, <3>1 DEF LoadFits, NewJob, JobBlocks, TableBlocks
      <2>5. \A k \in JobIds : LoadFits(k)'
        BY <1>4, <2>3, <2>4 DEF LoadFits, Live
      <2>6. \A q \in Requests : PrefetchFits(q)'
        <3>1. \A q \in Requests : q # r => PrefetchFits(q)'
          BY <1>3, <2>2, <2>3, FitsWithNewJob
        <3>2. PrefetchFits(r)'
          BY <1>3 DEF PrefetchFits
        <3> QED BY <3>1, <3>2
      <2>7. \A k \in JobIds : ResetFits(k)'
        BY <1>1, <1>3, <2>2, <2>3, FitsWithNewJob
      <2> QED BY <2>5, <2>6, <2>7 DEF Fits
    <1> QED BY <1>5, <1>6

LEMMA ReserveFits ==
    ASSUME TypeInv, JobInv, BlockInv, NEW r \in Requests, Reserve(r)
    PROVE  Fits'
    <1>1. PICK n \in 1 .. Len(OffloadKeys[r]) :
            \E rank \in Injection(1 .. n, Positions(r)), ids \in Injection(1 .. n, free) :
                Borrow(r, n, rank, ids)
      BY DEF Reserve
    <1>2. PICK rank \in Injection(1 .. n, Positions(r)), ids \in Injection(1 .. n, free) :
            Borrow(r, n, rank, ids)
      BY <1>1
    <1>3. PICK j \in JobIds : j = Pick(FreshJobs)
      BY FreshPicked DEF Reserve
    <1>4. /\ ~Live(j)
          /\ \A q \in Requests : prefetched[q] # None => prefetched[q].job # j
      BY <1>3 DEF Reserve, FreshJobs, Pick
    <1>5. PICK keys :
            /\ keys = [i \in 1 .. n |-> OffloadKeys[r][rank[i]]]
            /\ prefetched' = [prefetched EXCEPT ![r] = [job |-> j, keys |-> keys, blocks |-> ids]]
            /\ jobs' = [jobs EXCEPT ![j] = NewJob("prefetch", r,
                            {[key |-> keys[i], block |-> ids[i]] : i \in 1 .. n})]
      BY <1>2, <1>3 DEF Borrow
    <1>6. /\ prefetched'[r] = [job |-> j, keys |-> keys, blocks |-> ids]
          /\ \A q \in Requests : q # r => prefetched'[q] = prefetched[q]
          /\ jobs'[j] = NewJob("prefetch", r,
                            {[key |-> keys[i], block |-> ids[i]] : i \in 1 .. n})
          /\ \A k \in JobIds : k # j => jobs'[k] = jobs[k]
      BY <1>5 DEF TypeInv, TypeOK
    <1>7. prefetched[r] = None /\ UNCHANGED <<table, resetReleases>>
      BY DEF Reserve, NothingToRetry
    <1>8. ids \in [1 .. n -> Blocks] /\ DOMAIN ids = 1 .. n
      BY DEF Injection, TypeInv, TypeOK
    <1>9. prefetched'[r] # None
      <2>1. n \in Nat /\ keys \in [1 .. n -> Keys]
        BY <1>5, Chains DEF Injection
      <2>2. keys \in Seq(Keys) /\ ids \in Seq(Blocks)
        BY <1>8, <2>1, Sequences1
      <2> QED BY <1>6, <2>2, NoneAssumption DEF PrefetchState
    <1>10. PrefetchFits(r)' /\ LoadFits(j)'
      <2>1. JobBlocks(j)' = Range(ids) /\ jobs'[j].kind = "prefetch" /\ jobs'[j].req = r
        <3>1. PICK moves : moves = {[key |-> keys[i], block |-> ids[i]] : i \in 1 .. n}
          OBVIOUS
        <3>2. /\ jobs'[j].kind = "prefetch" /\ jobs'[j].req = r
              /\ jobs'[j].moves = moves
          BY <1>6, <3>1 DEF NewJob
        <3>3. \A i \in 1 .. n : \E m \in moves : m.block = ids[i]
          <4>1. \A i \in 1 .. n : [key |-> keys[i], block |-> ids[i]] \in moves
            BY <3>1
          <4>2. \A i \in 1 .. n : [key |-> keys[i], block |-> ids[i]].block = ids[i]
            OBVIOUS
          <4> QED BY <4>1, <4>2
        <3>4. \A m \in moves : \E i \in 1 .. n : m.block = ids[i]
          BY <3>1
        <3>5. {m.block : m \in moves} = {ids[i] : i \in 1 .. n}
          BY <3>3, <3>4
        <3>6. JobBlocks(j)' = {m.block : m \in moves}
          BY <3>2 DEF JobBlocks
        <3> QED BY <1>8, <3>2, <3>5, <3>6 DEF Range
      <2>2. PrefetchBlocks(r)' = Range(ids) /\ prefetched'[r].job = j
        BY <1>6, <1>9 DEF PrefetchBlocks
      <2> QED BY <1>9, <2>1, <2>2 DEF PrefetchFits, LoadFits, JobBlocks
    <1>11. ASSUME NEW k \in JobIds, k # j PROVE LoadFits(k)'
      <2>1. JobBlocks(k)' = JobBlocks(k)
        BY <1>6, <1>11 DEF JobBlocks
      <2>2. Live(k) => jobs[k].req \in Requests
        BY JobTyped
      <2> QED BY <1>6, <1>7, <1>11, <2>1, <2>2
              DEF BlockInv, Fits, LoadFits, Live, TableBlocks
    <1>12. \A q \in Requests : q # r => PrefetchFits(q)'
      BY <1>4, <1>6, FitsWithNewJob
    <1>13. \A k \in JobIds : ResetFits(k)'
      <2>1. \A q \in Requests : prefetched'[q] # None /\ prefetched'[q] # prefetched[q] =>
                prefetched'[q].job = j
        BY <1>6
      <2> QED BY <1>4, <1>6, <1>7, <2>1, FitsWithNewJob
    <1> QED BY <1>10, <1>11, <1>12, <1>13 DEF Fits

LEMMA SendFits ==
    ASSUME TypeInv, JobInv, BlockInv, Send
    PROVE  Fits'
    <1>1. UNCHANGED <<table, prefetched, resetReleases>>
      BY DEF Send, semVars
    <1>2. CASE UNCHANGED <<jobs, transferJobs, stage>>
      BY <1>1, <1>2, FitsKept
    <1>3. ASSUME NEW r \in Requests, FreshJobs # {},
                 jobs' = [jobs EXCEPT ![Pick(FreshJobs)] =
                               NewJob("store", r, MovesInto(r, table[r], Positions(r)))]
          PROVE  Fits'
      <2>1. PICK j \in JobIds : j = Pick(FreshJobs)
        BY <1>3, FreshPicked
      <2>2. /\ ~Live(j)
            /\ \A q \in Requests : prefetched[q] # None => prefetched[q].job # j
        BY <1>3, <2>1 DEF FreshJobs, Pick
      <2>3. /\ jobs'[j].kind = "store"
            /\ \A k \in JobIds : k # j => jobs'[k] = jobs[k]
        BY <1>3, <2>1 DEF TypeInv, TypeOK, NewJob
      <2>4. \A q \in Requests : PrefetchFits(q)'
        BY <1>1, <2>2, <2>3, FitsWithNewJob
      <2>5. \A k \in JobIds : ResetFits(k)'
        BY <1>1, <2>2, <2>3, FitsWithNewJob
      <2>6. ASSUME NEW k \in JobIds PROVE LoadFits(k)'
        <3>1. CASE k = j
          BY <2>3, <3>1 DEF LoadFits
        <3>2. CASE k # j
          BY <1>1, <2>3, <3>2 DEF BlockInv, Fits, LoadFits, Live, JobBlocks, TableBlocks
        <3> QED BY <3>1, <3>2
      <2> QED BY <2>4, <2>5, <2>6 DEF Fits
    <1> QED BY <1>2, <1>3 DEF Send

\* Jobs end, and with them what their reset countdowns hold; a prefetch is
\* swept only when its job has ended.
LEMMA UpdateOutputFits ==
    ASSUME TypeInv, JobInv, BlockInv, UpdateOutput
    PROVE  Fits'
    <1>1. PICK orphans :
            /\ orphans = {r \in Requests : prefetched[r] # None /\ r \notin reqStatus'}
            /\ prefetched' = [r \in Requests |-> IF r \in orphans THEN None ELSE prefetched[r]]
            /\ table' = [r \in Requests |->
                  IF r \in {q \in Received : status[q] = "finished"} THEN <<>> ELSE table[r]]
      BY DEF UpdateOutput, Orphans
    <1>2. \A j \in JobIds : jobs'[j] = IF Live(j) /\ j \notin CompletedJobs
                        THEN [jobs[j] EXCEPT !.pending = @ - JobReports(j)] ELSE None
      BY DEF UpdateOutput
    <1>3. ASSUME NEW j \in JobIds, jobs'[j] # None
          PROVE  /\ Live(j) /\ j \notin CompletedJobs
                 /\ jobs[j].req \in Requests
                 /\ jobs'[j].kind = jobs[j].kind /\ jobs'[j].req = jobs[j].req
                 /\ jobs'[j].pending = jobs[j].pending - JobReports(j)
                 /\ JobBlocks(j)' = JobBlocks(j)
      <2>1. Live(j) /\ j \notin CompletedJobs
        BY <1>2, <1>3
      <2>2. jobs'[j] = [jobs[j] EXCEPT !.pending = @ - JobReports(j)] /\ jobs[j] \in Job
        BY <1>2, <2>1, JobTyped
      <2>3. jobs'[j].moves = jobs[j].moves
        BY <2>2 DEF Job
      <2> QED BY <2>1, <2>2, <2>3 DEF Job, JobBlocks
    <1>4. ASSUME NEW j \in JobIds, Live(j), j \notin CompletedJobs PROVE jobs'[j] # None
      BY <1>4, CompletionCounted, NoneAssumption
    <1>5. ASSUME NEW j \in JobIds, resetReleases[j] # None
          PROVE  j \in AckedResets <=> j \in CompletedJobs
      BY <1>5 DEF AckedResets, CompletedJobs, BlockInv, Fits, ResetFits
    \* the request of a job that goes on stays known
    <1>6. JobInv'
      BY UpdateOutputJobs
    <1>7. ASSUME NEW q \in Requests PROVE PrefetchFits(q)'
      <2> SUFFICES ASSUME prefetched'[q] # None, jobs'[prefetched'[q].job] # None
                   PROVE  PrefetchFits(q)'
        BY DEF PrefetchFits, Live
      <2>1. prefetched'[q] = prefetched[q]
        BY <1>1
      <2>2. PICK k \in JobIds : k = prefetched[q].job
        BY <2>1 DEF TypeInv, TypeOK, PrefetchState
      <2>3. PrefetchBlocks(q)' = PrefetchBlocks(q)
        BY <2>1 DEF PrefetchBlocks
      <2>4. /\ jobs'[k].kind = "prefetch" /\ jobs'[k].req = q
            /\ JobBlocks(k)' = PrefetchBlocks(q)
        BY <1>3, <2>1, <2>2 DEF BlockInv, Fits, PrefetchFits
      <2>5. prefetched'[q].job = k
        BY <2>1, <2>2
      <2> QED BY <2>3, <2>4, <2>5 DEF PrefetchFits, JobBlocks
    <1>8. ASSUME NEW j \in JobIds PROVE ResetFits(j)'
      <2> SUFFICES ASSUME resetReleases'[j] # None PROVE ResetFits(j)'
        BY DEF ResetFits
      <2>1. /\ resetReleases[j] # None /\ j \notin AckedResets
            /\ resetReleases'[j].blocks = resetReleases[j].blocks
            /\ resetReleases'[j].remaining = resetReleases[j].remaining - JobReports(j)
        BY ResetCountDown
      <2>2. /\ Live(j) /\ jobs[j].kind = "prefetch"
            /\ resetReleases[j].remaining = jobs[j].pending
            /\ JobBlocks(j) = ResetBlocks(j)
            /\ \A r \in Requests : prefetched[r] # None => prefetched[r].job # j
        BY <2>1 DEF BlockInv, Fits, ResetFits
      <2>3. jobs'[j] # None
        BY <1>4, <1>5, <2>1, <2>2
      <2>4. ResetBlocks(j)' = ResetBlocks(j)
        BY <2>1 DEF ResetBlocks
      <2>5. \A r \in Requests : prefetched'[r] # None => prefetched'[r].job # j
        BY <1>1, <2>2
      <2>6. /\ jobs'[j].kind = "prefetch" /\ JobBlocks(j)' = ResetBlocks(j)'
            /\ resetReleases'[j].remaining = jobs'[j].pending
        BY <1>3, <2>1, <2>2, <2>3, <2>4
      <2> QED BY <2>3, <2>5, <2>6 DEF ResetFits, Live
    <1>9. ASSUME NEW j \in JobIds PROVE LoadFits(j)'
      <2> SUFFICES ASSUME jobs'[j] # None PROVE LoadFits(j)'
        BY DEF LoadFits, Live
      <2>1. /\ Live(j) /\ j \notin CompletedJobs /\ jobs[j].req \in Requests
            /\ jobs'[j].kind = jobs[j].kind /\ jobs'[j].req = jobs[j].req
            /\ JobBlocks(j)' = JobBlocks(j)
        BY <1>3
      <2>2. jobs[j].req \in reqStatus'
        BY <1>6, <2>1 DEF JobInv, JobsFit, JobFits, Live
      <2>3. ASSUME jobs[j].kind = "prefetch"
            PROVE  \/ resetReleases'[j] # None
                   \/ prefetched'[jobs[j].req] # None /\ prefetched'[jobs[j].req].job = j
        <3>1. CASE resetReleases[j] # None
          BY <1>5, <2>1, <3>1, ResetCountDown
        <3>2. CASE resetReleases[j] = None
          <4>1. prefetched[jobs[j].req] # None /\ prefetched[jobs[j].req].job = j
            BY <2>1, <2>3, <3>2 DEF BlockInv, Fits, LoadFits
          <4>2. prefetched'[jobs[j].req] = prefetched[jobs[j].req]
            BY <1>1, <2>1, <2>2
          <4> QED BY <4>1, <4>2
        <3> QED BY <3>1, <3>2
      <2>4. ASSUME jobs[j].kind = "load" PROVE JobBlocks(j) \subseteq Range(table'[jobs[j].req])
        <3>1. jobs[j].req \notin Received
          BY <2>1, <2>4 DEF Received, CompletedJobs, JobInv, OneLoad
        <3>2. table'[jobs[j].req] = table[jobs[j].req]
          BY <1>1, <2>1, <3>1
        <3> QED BY <2>1, <2>4, <3>2 DEF BlockInv, Fits, LoadFits, TableBlocks
      <2> QED BY <2>1, <2>3, <2>4 DEF LoadFits, TableBlocks
    <1> QED BY <1>7, <1>8, <1>9 DEF Fits

\* A reset hands each unfinished prefetch over to a countdown of its job.
LEMMA ResetCacheFits ==
    ASSUME TypeInv, JobInv, BlockInv, ResetCache
    PROVE  Fits'
    <1> DEFINE Moves(r, j) == prefetched[r] # None /\ ~Settled(r) /\ prefetched[r].job = j
    <1>1. /\ prefetched' = [r \in Requests |-> None]
          /\ UNCHANGED <<table, jobs>>
          /\ \A j \in JobIds : resetReleases'[j] =
                IF \E r \in Requests : Moves(r, j)
                THEN [blocks |-> PrefetchBlocks(jobs[j].req), remaining |-> jobs[j].pending]
                ELSE resetReleases[j]
      <2>1. \A j \in JobIds :
              (\E r \in {q \in Requests \ {q \in Requests : Settled(q)} : prefetched[q] # None} :
                  prefetched[r].job = j)
              <=> \E r \in Requests : Moves(r, j)
        OBVIOUS
      <2> QED BY <2>1 DEF ResetCache, baseVars
    <1>2. ASSUME NEW r \in Requests, NEW j \in JobIds, Moves(r, j)
          PROVE  /\ Live(j) /\ jobs[j].kind = "prefetch" /\ jobs[j].req = r
                 /\ JobBlocks(j) = PrefetchBlocks(r)
                 /\ resetReleases'[j] =
                      [blocks |-> PrefetchBlocks(r), remaining |-> jobs[j].pending]
                 /\ resetReleases'[j] # None
      <2>1. Live(j) /\ jobs[j].kind = "prefetch" /\ jobs[j].req = r
            /\ JobBlocks(j) = PrefetchBlocks(r)
        BY <1>2 DEF Settled, BlockInv, Fits, PrefetchFits
      <2>2. resetReleases'[j] = [blocks |-> PrefetchBlocks(r), remaining |-> jobs[j].pending]
        BY <1>1, <1>2, <2>1
      <2>3. [blocks |-> PrefetchBlocks(r), remaining |-> jobs[j].pending] \in Release
        BY <2>1, JobTyped, BlocksHeld DEF Job, Release, TypeInv
      <2> QED BY <2>1, <2>2, <2>3, NoneAssumption
    <1>3. \A q \in Requests : PrefetchFits(q)'
      BY <1>1 DEF PrefetchFits
    <1>4. ASSUME NEW j \in JobIds PROVE ResetFits(j)'
      <2>1. JobBlocks(j)' = JobBlocks(j)
        BY <1>1 DEF JobBlocks
      <2>2. CASE \E r \in Requests : Moves(r, j)
        <3>1. PICK r \in Requests : Moves(r, j)
          BY <2>2
        <3>a. /\ resetReleases'[j] # None
              /\ resetReleases'[j] = [blocks |-> PrefetchBlocks(r), remaining |-> jobs[j].pending]
          BY <1>2, <3>1
        <3>2. ResetBlocks(j)' = PrefetchBlocks(r)
          BY <3>a DEF ResetBlocks
        <3>3. resetReleases'[j].remaining = jobs[j].pending
          BY <3>a
        <3> QED BY <1>1, <1>2, <2>1, <3>1, <3>2, <3>3 DEF ResetFits, Live
      <2>3. CASE ~\E r \in Requests : Moves(r, j)
        <3>1. resetReleases'[j] = resetReleases[j] /\ ResetBlocks(j)' = ResetBlocks(j)
          BY <1>1, <2>3 DEF ResetBlocks
        <3> QED BY <1>1, <2>1, <3>1 DEF BlockInv, Fits, ResetFits, Live
      <2> QED BY <2>2, <2>3
    <1>5. ASSUME NEW j \in JobIds PROVE LoadFits(j)'
      <2>1. JobBlocks(j)' = JobBlocks(j)
        BY <1>1 DEF JobBlocks
      <2>2. ASSUME Live(j), jobs[j].kind = "prefetch" PROVE resetReleases'[j] # None
        <3>1. CASE \E r \in Requests : Moves(r, j)
          BY <1>2, <3>1
        <3>2. CASE ~\E r \in Requests : Moves(r, j)
          <4>1. resetReleases'[j] = resetReleases[j]
            BY <1>1, <3>2
          <4>2. jobs[j].req \in Requests
            BY <2>2, JobTyped
          <4>3. ~Moves(jobs[j].req, j)
            BY <3>2, <4>2
          <4>4. \/ resetReleases[j] # None
                \/ prefetched[jobs[j].req] # None /\ prefetched[jobs[j].req].job = j
            BY <2>2 DEF BlockInv, Fits, LoadFits
          <4>5. resetReleases[j] # None
            BY <2>2, <4>3, <4>4 DEF Settled
          <4> QED BY <4>1, <4>5
        <3> QED BY <3>1, <3>2
      <2> QED BY <1>1, <2>1, <2>2 DEF BlockInv, Fits, LoadFits, Live, TableBlocks
    <1> QED BY <1>3, <1>4, <1>5 DEF Fits

LEMMA FitsStep ==
    ASSUME TypeInv, JobInv, BlockInv, [Next]_vars
    PROVE  Fits'
    <1>1. CASE Sideways
      BY <1>1, SidewaysFrame, FitsKept
    <1>2. ASSUME NEW r \in Requests, AdmitNormally(r) PROVE Fits'
      <2>1. PICK t \in NewTables(r), plan \in LoadPlans(r) :
              StartLoad(r, t, plan) /\ Admitted(r, t, plan)
        BY <1>2 DEF AdmitNormally
      <2> QED BY <1>2, <2>1, AdmitFits DEF AdmitNormally
    <1>3. ASSUME NEW r \in Requests, AdmitSpliced(r) PROVE Fits'
      <2>1. PICK t \in NewTables(r), plan \in LoadPlans(r) :
              StartLoad(r, t, plan \ Spliced(r, plan)) /\ Admitted(r, t, plan)
        BY <1>3 DEF AdmitSpliced
      <2> QED BY <1>3, <2>1, AdmitFits DEF AdmitSpliced
    <1>4. ASSUME NEW r \in Requests, Reserve(r) \/ Preempt(r) \/ Finish(r) PROVE Fits'
      BY <1>4, ReserveFits, PreemptFits, FinishFits
    <1> QED BY <1>1, <1>2, <1>3, <1>4, SendFits, UpdateOutputFits, ResetCacheFits
            DEF Next, SchedulerStep, Sideways

---------------------------------------------------------------------------
(***************************************************************************)
(* A quarantine counts the workers that have yet to acknowledge.           *)
(***************************************************************************)

\* Nothing about the splices changes but how far the copies are.
LEMMA SplicesKept ==
    ASSUME BlockInv, UNCHANGED <<spliceReleases, copies>>,
           \A s \in SpliceIds : Copying(s)' = Copying(s)
    PROVE  SplicesFit'
    BY DEF BlockInv, SplicesFit, SpliceFits, SpliceBlocks, Sources

\* The detached prefetch holds every source of the copies it is made for.
LEMMA AdmitSplicedFit ==
    ASSUME TypeInv, BlockInv, NEW r \in Requests, AdmitSpliced(r)
    PROVE  SplicesFit'
    <1>1. PICK s \in SpliceIds : s = Pick(FreshSplices) /\ spliceReleases[s] = None
      BY DEF AdmitSpliced, FreshSplices, Pick
    <1>2. PICK t \in NewTables(r), plan \in LoadPlans(r) :
            /\ CanSplice(r, plan)
            /\ copies' = [copies EXCEPT ![s] = SpliceCopies(r, t, plan)]
            /\ copyStage' = [w \in Workers |-> [copyStage[w] EXCEPT ![s] = "sent"]]
            /\ spliceReleases' = [spliceReleases EXCEPT ![s] =
                  Quarantine(r)]
      BY <1>1 DEF AdmitSpliced
    <1>3. \A w \in Workers : /\ copyStage'[w][s] = "sent"
                             /\ \A u \in SpliceIds : u # s => copyStage'[w][u] = copyStage[w][u]
      BY <1>2 DEF TypeInv, TypeOK
    <1>4. Copying(s)' = Workers /\ \A u \in SpliceIds : u # s => Copying(u)' = Copying(u)
      BY <1>3 DEF Copying
    <1>5. /\ Quarantine(r) # None
          /\ Quarantine(r).blocks = PrefetchBlocks(r)
          /\ Quarantine(r).remaining = NumWorkers
      <2>1. Quarantine(r) \in Release
        BY BlocksHeld, WorkersCounted DEF TypeInv, Quarantine, Release
      <2> QED BY <2>1, NoneAssumption DEF Quarantine
    <1>6. \A c \in SpliceCopies(r, t, plan) : c.src \in PrefetchBlocks(r)
      <2>1. /\ prefetched[r] # None /\ prefetched[r].blocks \in Seq(Blocks)
            /\ Len(prefetched[r].keys) = Len(prefetched[r].blocks)
            /\ prefetched[r].keys \in Seq(Keys)
        BY <1>2 DEF CanSplice, Settled, TypeInv, TypeOK, PrefetchState, RequestShape, ShapeOf
      <2>2. \A i \in plan : \A m \in SpliceEntries(r, plan, i) :
              prefetched[r].blocks[m] \in PrefetchBlocks(r)
        BY <2>1 DEF SpliceEntries, PrefetchBlocks, Range
      <2> QED BY <2>2 DEF SpliceCopies
    <1>7. /\ spliceReleases'[s] # None /\ spliceReleases'[s].blocks = PrefetchBlocks(r)
          /\ spliceReleases'[s].remaining = NumWorkers
          /\ Sources(s)' \subseteq PrefetchBlocks(r)
      <2>1. spliceReleases'[s] = Quarantine(r)
            /\ copies'[s] = SpliceCopies(r, t, plan)
        BY <1>2 DEF TypeInv, TypeOK
      <2> QED BY <1>5, <1>6, <2>1 DEF Sources
    <1>8. SpliceFits(s)'
      BY <1>4, <1>7 DEF SpliceFits, SpliceBlocks, NumWorkers
    <1>9. ASSUME NEW u \in SpliceIds, u # s PROVE SpliceFits(u)'
      <2>1. spliceReleases'[u] = spliceReleases[u] /\ copies'[u] = copies[u]
        BY <1>2, <1>9 DEF TypeInv, TypeOK
      <2> QED BY <1>4, <1>9, <2>1 DEF BlockInv, SplicesFit, SpliceFits, SpliceBlocks, Sources
    <1> QED BY <1>8, <1>9 DEF SplicesFit

\* The acknowledgements of a step leave the copy and its countdown together.
LEMMA UpdateOutputFit ==
    ASSUME TypeInv, BlockInv, UpdateOutput
    PROVE  SplicesFit'
    <1> SUFFICES ASSUME NEW s \in SpliceIds PROVE SpliceFits(s)'
      BY DEF SplicesFit
    <1> DEFINE acked == {w \in Workers : copyStage[w][s] = "reported"}
    <1>1. \A w \in Workers : copyStage'[w][s] = IF copyStage[w][s] = "reported" THEN "none"
                                                ELSE copyStage[w][s]
      BY DEF UpdateOutput
    <1>2. /\ Copying(s)' = Copying(s) \ acked
          /\ acked \in SUBSET Copying(s) /\ Copying(s) \in SUBSET Workers
          /\ SpliceReports(s) = Cardinality(acked)
      BY <1>1 DEF Copying, SpliceReports
    <1>3. /\ IsFiniteSet(Copying(s)) /\ IsFiniteSet(acked)
          /\ Cardinality(Copying(s)) \in Nat /\ Cardinality(acked) \in Nat
      BY <1>2, WorkersCounted
    <1>4. SpliceFits(s)
      BY DEF BlockInv, SplicesFit
    <1>5. CASE spliceReleases[s] = None
      <2>1. spliceReleases'[s] = None
        BY <1>5, SpliceCountDown
      <2> QED BY <1>2, <1>4, <1>5, <2>1 DEF SpliceFits
    <1>6. CASE s \in AckedSplices
      <2>1. spliceReleases'[s] = None
        BY <1>6, SpliceCountDown
      <2>2. Cardinality(Copying(s)) <= Cardinality(acked)
        BY <1>2, <1>4, <1>6 DEF SpliceFits, AckedSplices
      <2>3. Cardinality(acked) <= Cardinality(Copying(s))
        BY <1>2, <1>3, FS_Subset
      <2>4. acked = Copying(s)
        BY <1>2, <1>3, <2>2, <2>3, FS_Subset
      <2> QED BY <1>2, <2>1, <2>4 DEF SpliceFits
    <1>7. CASE spliceReleases[s] # None /\ s \notin AckedSplices
      <2>1. /\ spliceReleases'[s] # None
            /\ spliceReleases'[s].blocks = spliceReleases[s].blocks
            /\ spliceReleases'[s].remaining = spliceReleases[s].remaining - SpliceReports(s)
        BY <1>7, SpliceCountDown
      <2>2. Copying(s) \cap acked = acked
        BY <1>2
      <2>3. Cardinality(Copying(s) \ acked) = Cardinality(Copying(s)) - Cardinality(acked)
        BY <1>2, <1>3, <2>2, FS_Difference
      <2>4. Sources(s)' \subseteq Sources(s)
        <3>1. copies'[s] = {} \/ copies'[s] = copies[s]
          BY DEF UpdateOutput
        <3> QED BY <3>1 DEF Sources
      <2> QED BY <1>2, <1>4, <1>7, <2>1, <2>3, <2>4 DEF SpliceFits, SpliceBlocks
    <1> QED BY <1>5, <1>6, <1>7

LEMMA WorkerStepFit ==
    ASSUME TypeInv, BlockInv, NEW w \in Workers,
           \/ Bind(w)
           \/ Report(w)
           \/ \E j \in JobIds : TransferDone(w, j)
           \/ \E s \in SpliceIds : SpliceDone(w, s)
    PROVE  SplicesFit'
    <1>1. UNCHANGED <<spliceReleases, copies>>
      BY DEF Bind, Report, TransferDone, SpliceDone, semVars
    <1>2. ASSUME NEW v \in Workers, NEW s \in SpliceIds
          PROVE  copyStage'[v][s] # "none" <=> copyStage[v][s] # "none"
      <2>1. CASE Bind(w)
        BY <2>1 DEF Bind, StartKvTransfers, TypeInv, TypeOK
      <2>2. CASE Report(w)
        BY <2>2 DEF Report, TypeInv, TypeOK
      <2>3. CASE \E j \in JobIds : TransferDone(w, j)
        BY <2>3 DEF TransferDone
      <2>4. CASE \E u \in SpliceIds : SpliceDone(w, u)
        BY <2>4 DEF SpliceDone, TypeInv, TypeOK
      <2> QED BY <2>1, <2>2, <2>3, <2>4
    <1>3. \A s \in SpliceIds : Copying(s)' = Copying(s)
      BY <1>2 DEF Copying
    <1> QED BY <1>1, <1>3, SplicesKept

\* The actions that leave the splices alone.
LEMMA SplicesStep ==
    ASSUME TypeInv, BlockInv, [Next]_vars
    PROVE  SplicesFit'
    <1>1. CASE UNCHANGED <<spliceReleases, copies, copyStage>>
      <2>1. \A s \in SpliceIds : Copying(s)' = Copying(s)
        BY <1>1 DEF Copying
      <2> QED BY <1>1, <2>1, SplicesKept
    <1>2. CASE \/ UNCHANGED vars
               \/ BeginStep
               \/ BeginBuild
               \/ Send
               \/ \E r \in Requests : StopRetrying(r) \/ RetryLater(r) \/ Reserve(r)
      BY <1>1, <1>2 DEF vars, BeginStep, BeginBuild, Send, StopRetrying, RetryLater, Reserve,
                        semVars, workVars
    <1>3. CASE \/ \E r \in Requests : Preempt(r) \/ AdmitNormally(r) \/ Finish(r)
               \/ ResetCache
      BY <1>1, <1>3 DEF Preempt, AdmitNormally, Finish, ResetCache, semVars
    <1> QED BY <1>2, <1>3, UpdateOutputFit, AdmitSplicedFit, WorkerStepFit
            DEF Next, SchedulerStep, WorkerStep

---------------------------------------------------------------------------
LEMMA BlockInit == Init => BlockInv
    <1> SUFFICES ASSUME Init PROVE BlockInv
      OBVIOUS
    <1> USE DEF Init
    <1>1. Partition
      BY DEF Partition, Held, PoolApart, KindsApart, HoldersApart, TableBlocks, PrefetchBlocks,
             SpliceBlocks, ResetBlocks, Range
    <1>2. TablesEmpty /\ Fits /\ SplicesFit
      BY DEF TablesEmpty, Fits, PrefetchFits, ResetFits, LoadFits, Live, SplicesFit,
             SpliceFits, Copying
    <1> QED BY <1>1, <1>2 DEF BlockInv

LEMMA BlockStep == TypeInv /\ JobInv /\ BlockInv /\ [Next]_vars => BlockInv'
    BY PartitionStep, TablesStep, FitsStep, SplicesStep DEF BlockInv

LEMMA BlockInvariant == Spec => []BlockInv
    BY BlockInit, BlockStep, TypeInvariant, JobInvariant, PTL DEF Spec

---------------------------------------------------------------------------
(***************************************************************************)
(* What BlockInv is for.                                                   *)
(***************************************************************************)
LEMMA OwnersAre ==
    ASSUME NEW b
    PROVE  OwnersOf(b) =
             {h \in {<<"pool", None>>} : b \in free}
             \cup {h \in {"table"} \X Requests : b \in TableBlocks(h[2])}
             \cup {h \in {"prefetch"} \X Requests : b \in PrefetchBlocks(h[2])}
             \cup {h \in {"splice"} \X SpliceIds : b \in SpliceBlocks(h[2])}
             \cup {h \in {"reset"} \X JobIds : b \in ResetBlocks(h[2])}
    BY DEF OwnersOf, TableBlocks, SpliceBlocks, ResetBlocks

\* Every block is held by exactly one of the pool, a request's table, a
\* prefetch, a splice quarantine and a reset quarantine, whatever the
\* interleaving of releases, detachments, sweeps and resets: none is lost and
\* none is freed twice (569-584, 634-677, 769-775, 958-976).
THEOREM OwnersCorrect == Spec => []OneOwner
    <1>1. ASSUME BlockInv PROVE OneOwner
      <2> SUFFICES ASSUME NEW b \in Blocks
                   PROVE  \E h \in OwnersOf(b) : OwnersOf(b) = {h}
        BY DEF OneOwner
      <2> USE <1>1 DEF BlockInv, Partition
      <2>1. CASE b \in free
        <3>1. OwnersOf(b) = {<<"pool", None>>}
          BY <2>1, OwnersAre DEF PoolApart
        <3> QED BY <3>1
      <2>2. ASSUME NEW r \in Requests, b \in TableBlocks(r)
            PROVE  \E h \in OwnersOf(b) : OwnersOf(b) = {h}
        <3>1. OwnersOf(b) = {<<"table", r>>}
          BY <2>2, OwnersAre DEF PoolApart, KindsApart, HoldersApart
        <3> QED BY <3>1
      <2>3. ASSUME NEW r \in Requests, b \in PrefetchBlocks(r)
            PROVE  \E h \in OwnersOf(b) : OwnersOf(b) = {h}
        <3>1. OwnersOf(b) = {<<"prefetch", r>>}
          BY <2>3, OwnersAre DEF PoolApart, KindsApart, HoldersApart
        <3> QED BY <3>1
      <2>4. ASSUME NEW s \in SpliceIds, b \in SpliceBlocks(s)
            PROVE  \E h \in OwnersOf(b) : OwnersOf(b) = {h}
        <3>1. OwnersOf(b) = {<<"splice", s>>}
          BY <2>4, OwnersAre DEF PoolApart, KindsApart, HoldersApart
        <3> QED BY <3>1
      <2>5. ASSUME NEW j \in JobIds, b \in ResetBlocks(j)
            PROVE  \E h \in OwnersOf(b) : OwnersOf(b) = {h}
        <3>1. OwnersOf(b) = {<<"reset", j>>}
          BY <2>5, OwnersAre DEF PoolApart, KindsApart, HoldersApart
        <3> QED BY <3>1
      <2> QED BY <2>1, <2>2, <2>3, <2>4, <2>5 DEF Held
    <1> QED BY <1>1, BlockInvariant, PTL

\* A worker that may still write on behalf of a prefetch or a load writes into
\* no free block, and into a request's blocks only for this request's own load
\* (586-609, 663-677, 960-967).
THEOREM LoadsCorrect == Spec => []LoadsQuarantined
    <1>1. ASSUME TypeInv, BlockInv PROVE LoadsQuarantined
      <2> SUFFICES ASSUME NEW w \in Workers, NEW j \in JobIds, InTransfer(w, j),
                          jobs[j].kind # "store"
                   PROVE  /\ JobBlocks(j) \cap free = {}
                          /\ \A r \in Requests : JobBlocks(j) \cap TableBlocks(r) # {} =>
                                jobs[j].kind = "load" /\ jobs[j].req = r
        BY DEF LoadsQuarantined, TableBlocks
      <2>1. Live(j)
        BY <1>1 DEF TypeInv, JobsCounted, CountOf, InFlight, InTransfer, Live
      <2>2. jobs[j].req \in Requests /\ jobs[j].kind \in {"load", "prefetch"}
        BY <1>1, <2>1, JobTyped DEF JobKind
      <2>3. CASE jobs[j].kind = "load"
        <3>1. JobBlocks(j) \subseteq TableBlocks(jobs[j].req)
          BY <1>1, <2>1, <2>3 DEF BlockInv, Fits, LoadFits
        <3> QED BY <1>1, <2>2, <2>3, <3>1
                DEF BlockInv, Partition, PoolApart, HoldersApart
      <2>4. CASE jobs[j].kind = "prefetch" /\ resetReleases[j] # None
        <3>1. JobBlocks(j) = ResetBlocks(j)
          BY <1>1, <2>4 DEF BlockInv, Fits, ResetFits
        <3> QED BY <1>1, <2>4, <3>1 DEF BlockInv, Partition, PoolApart, KindsApart
      <2>5. CASE jobs[j].kind = "prefetch" /\ resetReleases[j] = None
        <3>1. prefetched[jobs[j].req] # None /\ prefetched[jobs[j].req].job = j
          BY <1>1, <2>1, <2>5 DEF BlockInv, Fits, LoadFits
        <3>2. JobBlocks(j) = PrefetchBlocks(jobs[j].req)
          BY <1>1, <2>1, <2>2, <3>1 DEF BlockInv, Fits, PrefetchFits
        <3> QED BY <1>1, <2>2, <2>5, <3>2 DEF BlockInv, Partition, PoolApart, KindsApart
      <2> QED BY <2>2, <2>3, <2>4, <2>5
    <1> QED BY <1>1, TypeInvariant, BlockInvariant, PTL

\* While some worker may still read the source of a splice, the source has no
\* holder but the splice's own quarantine (650-661, 769-775).
THEOREM SplicesCorrect == Spec => []SplicesQuarantined
    <1>1. ASSUME BlockInv PROVE SplicesQuarantined
      <2> SUFFICES ASSUME NEW w \in Workers, NEW s \in SpliceIds, InCopy(w, s),
                          NEW b \in Sources(s)
                   PROVE  OwnersOf(b) = {<<"splice", s>>}
        BY DEF SplicesQuarantined
      <2>1. w \in Copying(s)
        BY DEF InCopy, Copying
      <2>2. b \in SpliceBlocks(s)
        BY <1>1, <2>1 DEF BlockInv, SplicesFit, SpliceFits
      <2> QED BY <1>1, <2>2, OwnersAre
              DEF BlockInv, Partition, PoolApart, KindsApart, HoldersApart
    <1> QED BY <1>1, BlockInvariant, PTL

---------------------------------------------------------------------------
(***************************************************************************)
(* Proofs about the loans of SemanticConnector: the budget counter is      *)
(* exact, and the connector implements the contract PrefetchLoans.         *)
(*                                                                         *)
(* Every step but a reservation is a swap: blocks T go from the pool to    *)
(* requests, V come back from requests, and the loans S end.  The code     *)
(* never computes these sets; it counts loan by loan.  That the counts add *)
(* up to the size of S rests on the partition of the blocks (BlockInv),    *)
(* and that no worker touches S on what BlockInv says of the transfers.    *)
(***************************************************************************)

\* The blocks of the requests.
InTables == UNION {TableBlocks(r) : r \in Requests}

\* What a step other than a reservation does to the blocks and the counter.
Swap(T, V, S) ==
    /\ T \subseteq free /\ V \subseteq InTables
    /\ S \subseteq OnLoan /\ S \cap BusyLoans = {}
    /\ free' = ((free \ T) \cup V) \cup S
    /\ OnLoan' = OnLoan \ S
    /\ reserved' = reserved - Cardinality(S)

LoanInv == TypeInv /\ JobInv /\ BlockInv

---------------------------------------------------------------------------
(***************************************************************************)
(* Blocks on loan, and those among them that a worker may be touching.     *)
(***************************************************************************)

\* What OnLoan collects.
LEMMA LoansAre ==
    /\ OnLoan = {b \in Blocks :
            \/ \E r \in Requests : b \in PrefetchBlocks(r)
            \/ \E s \in SpliceIds : b \in SpliceBlocks(s)
            \/ \E j \in JobIds : b \in ResetBlocks(j)}
    /\ OnLoan' = {b \in Blocks :
            \/ \E r \in Requests : b \in PrefetchBlocks(r)'
            \/ \E s \in SpliceIds : b \in SpliceBlocks(s)'
            \/ \E j \in JobIds : b \in ResetBlocks(j)'}
    <1> DEFINE Lends(h) == h[1] \in {"prefetch", "splice", "reset"}
    <1>1. ASSUME NEW b PROVE /\ (\E h \in OwnersOf(b) : Lends(h)) <=>
                                  \/ \E r \in Requests : b \in PrefetchBlocks(r)
                                  \/ \E s \in SpliceIds : b \in SpliceBlocks(s)
                                  \/ \E j \in JobIds : b \in ResetBlocks(j)
      <2>1. \A h \in OwnersOf(b) : Lends(h) =>
              \/ \E r \in Requests : b \in PrefetchBlocks(r)
              \/ \E s \in SpliceIds : b \in SpliceBlocks(s)
              \/ \E j \in JobIds : b \in ResetBlocks(j)
        BY OwnersAre
      <2>2. /\ \A r \in Requests : b \in PrefetchBlocks(r) => <<"prefetch", r>> \in OwnersOf(b)
            /\ \A s \in SpliceIds : b \in SpliceBlocks(s) => <<"splice", s>> \in OwnersOf(b)
            /\ \A j \in JobIds : b \in ResetBlocks(j) => <<"reset", j>> \in OwnersOf(b)
        BY OwnersAre
      <2> QED BY <2>1, <2>2
    <1>2. ASSUME NEW b PROVE /\ (\E h \in OwnersOf(b)' : Lends(h)) <=>
                                  \/ \E r \in Requests : b \in PrefetchBlocks(r)'
                                  \/ \E s \in SpliceIds : b \in SpliceBlocks(s)'
                                  \/ \E j \in JobIds : b \in ResetBlocks(j)'
      <2>1. OwnersOf(b)' =
              {h \in {<<"pool", None>>} : b \in free'}
              \cup {h \in {"table"} \X Requests : b \in TableBlocks(h[2])'}
              \cup {h \in {"prefetch"} \X Requests : b \in PrefetchBlocks(h[2])'}
              \cup {h \in {"splice"} \X SpliceIds : b \in SpliceBlocks(h[2])'}
              \cup {h \in {"reset"} \X JobIds : b \in ResetBlocks(h[2])'}
        BY DEF OwnersOf, TableBlocks, SpliceBlocks, ResetBlocks
      <2>2. \A h \in OwnersOf(b)' : Lends(h) =>
              \/ \E r \in Requests : b \in PrefetchBlocks(r)'
              \/ \E s \in SpliceIds : b \in SpliceBlocks(s)'
              \/ \E j \in JobIds : b \in ResetBlocks(j)'
        BY <2>1
      <2>3. /\ \A r \in Requests :
                  b \in PrefetchBlocks(r)' => <<"prefetch", r>> \in OwnersOf(b)'
            /\ \A s \in SpliceIds : b \in SpliceBlocks(s)' => <<"splice", s>> \in OwnersOf(b)'
            /\ \A j \in JobIds : b \in ResetBlocks(j)' => <<"reset", j>> \in OwnersOf(b)'
        BY <2>1
      <2> QED BY <2>2, <2>3
    <1> QED BY <1>1, <1>2 DEF OnLoan

\* By the partition, a block is on loan when it is neither in the pool nor a
\* request's.
LEMMA LoansAreTheRest ==
    /\ Partition => OnLoan = Blocks \ (free \cup InTables)
    /\ Partition' => OnLoan' = Blocks \ (free' \cup InTables')
    BY LoansAre DEF Partition, Held, PoolApart, KindsApart, InTables

LEMMA HeldOnLoan ==
    ASSUME LoanInv
    PROVE  /\ \A r \in Requests : PrefetchBlocks(r) \subseteq OnLoan
           /\ \A s \in SpliceIds : SpliceBlocks(s) \subseteq OnLoan
           /\ \A j \in JobIds : ResetBlocks(j) \subseteq OnLoan
    <1>1. /\ \A r \in Requests : PrefetchBlocks(r) \subseteq Blocks
          /\ \A s \in SpliceIds : SpliceBlocks(s) \subseteq Blocks
          /\ \A j \in JobIds : ResetBlocks(j) \subseteq Blocks
      BY BlocksHeld DEF LoanInv, TypeInv, TypeOK, SpliceBlocks, ResetBlocks, Release
    <1>2. OnLoan = Blocks \ (free \cup InTables)
      BY LoansAreTheRest DEF LoanInv, BlockInv
    <1> QED BY <1>1, <1>2
            DEF LoanInv, BlockInv, Partition, PoolApart, KindsApart, InTables

\* What BusyLoans collects.
LEMMA BusyAre ==
    ASSUME NEW b
    PROVE  /\ b \in BusyLoans <=>
                \/ \E j \in JobIds, w \in Workers :
                      /\ Live(j) /\ jobs[j].kind = "prefetch" /\ InTransfer(w, j)
                      /\ b \in JobBlocks(j)
                \/ \E s \in SpliceIds, w \in Workers : InCopy(w, s) /\ b \in Sources(s)
           /\ b \in BusyLoans' <=>
                \/ \E j \in JobIds, w \in Workers :
                      /\ Live(j)' /\ jobs'[j].kind = "prefetch" /\ InTransfer(w, j)'
                      /\ b \in JobBlocks(j)'
                \/ \E s \in SpliceIds, w \in Workers : InCopy(w, s)' /\ b \in Sources(s)'
    BY DEF BusyLoans

\* A busy block belongs to a loan whose transfer some worker is still at.
LEMMA BusyHeld ==
    ASSUME LoanInv, NEW b \in BusyLoans
    PROVE  \/ \E r \in Requests, w \in Workers :
                 /\ b \in PrefetchBlocks(r) /\ prefetched[r] # None
                 /\ Live(prefetched[r].job) /\ InTransfer(w, prefetched[r].job)
           \/ \E j \in JobIds, w \in Workers : b \in ResetBlocks(j) /\ InTransfer(w, j)
           \/ \E s \in SpliceIds, w \in Workers : b \in SpliceBlocks(s) /\ InCopy(w, s)
    <1>1. ASSUME NEW j \in JobIds, NEW w \in Workers, Live(j), jobs[j].kind = "prefetch",
                 InTransfer(w, j), b \in JobBlocks(j)
          PROVE  \/ \E r \in Requests :
                       /\ b \in PrefetchBlocks(r) /\ prefetched[r] # None
                       /\ Live(prefetched[r].job) /\ InTransfer(w, prefetched[r].job)
                 \/ b \in ResetBlocks(j)
      <2>1. CASE resetReleases[j] # None
        BY <1>1, <2>1 DEF LoanInv, BlockInv, Fits, ResetFits
      <2>2. CASE resetReleases[j] = None
        <3>1. jobs[j].req \in Requests
          BY <1>1, JobTyped DEF LoanInv
        <3>2. prefetched[jobs[j].req] # None /\ prefetched[jobs[j].req].job = j
          BY <1>1, <2>2 DEF LoanInv, BlockInv, Fits, LoadFits
        <3>3. JobBlocks(j) = PrefetchBlocks(jobs[j].req)
          BY <1>1, <3>1, <3>2 DEF LoanInv, BlockInv, Fits, PrefetchFits
        <3> QED BY <1>1, <3>1, <3>2, <3>3
      <2> QED BY <2>1, <2>2
    <1>2. ASSUME NEW s \in SpliceIds, NEW w \in Workers, InCopy(w, s), b \in Sources(s)
          PROVE  b \in SpliceBlocks(s)
      <2>1. w \in Copying(s)
        BY <1>2 DEF InCopy, Copying
      <2> QED BY <1>2, <2>1 DEF LoanInv, BlockInv, SplicesFit, SpliceFits
    <1> QED BY <1>1, <1>2, BusyAre

\* Every busy block is on loan.
BusyInLoans == BusyLoans \subseteq OnLoan
LEMMA BusyLent == LoanInv => BusyInLoans
    BY BusyHeld, HeldOnLoan DEF BusyInLoans

\* No worker touches the blocks of a settled prefetch.
LEMMA SettledIdle ==
    ASSUME LoanInv, NEW r \in Requests, Settled(r)
    PROVE  PrefetchBlocks(r) \cap BusyLoans = {}
    <1> SUFFICES ASSUME NEW b \in BusyLoans, b \in PrefetchBlocks(r) PROVE FALSE
      OBVIOUS
    <1> QED BY BusyHeld DEF LoanInv, BlockInv, Partition, KindsApart, HoldersApart, Settled

---------------------------------------------------------------------------
(***************************************************************************)
(* Counting loan by loan.                                                  *)
(***************************************************************************)

\* Counted holder by holder, the blocks of disjoint holders are their number.
LEMMA PairsCounted ==
    ASSUME NEW I, NEW F \in [I -> SUBSET Blocks],
           \A i, k \in I : i # k => F[i] \cap F[k] = {},
           NEW B, \A b : b \in B <=> \E i \in I : b \in F[i],
           NEW P, \A p : p \in P <=> p \in I \X Blocks /\ p[2] \in F[p[1]]
    PROVE  Cardinality(P) = Cardinality(B)
    <1>1. PICK f : f = [b \in B |-> <<CHOOSE i \in I : b \in F[i], b>>]
      OBVIOUS
    <1>2. \A b \in B : /\ (CHOOSE i \in I : b \in F[i]) \in I
                       /\ b \in F[CHOOSE i \in I : b \in F[i]]
                       /\ b \in Blocks
      OBVIOUS
    <1>3. f \in [B -> P]
      BY <1>1, <1>2
    <1>4. \A a, b \in B : f[a] = f[b] => a = b
      BY <1>1
    <1>5. \A p \in P : \E b \in B : f[b] = p
      <2> SUFFICES ASSUME NEW p \in P PROVE \E b \in B : f[b] = p
        OBVIOUS
      <2>1. PICK i \in I, b \in Blocks : p = <<i, b>> /\ b \in F[i]
        OBVIOUS
      <2>2. b \in B
        BY <2>1
      <2>3. (CHOOSE k \in I : b \in F[k]) = i
        BY <1>2, <2>1, <2>2
      <2> QED BY <1>1, <2>1, <2>2, <2>3
    <1>6. ExistsBijection(B, P)
      BY <1>3, <1>4, <1>5 DEF ExistsBijection, Bijection, Injection, Surjection, IsInjective
    <1>7. IsFiniteSet(B)
      <2>1. B \in SUBSET Blocks
        OBVIOUS
      <2> QED BY <2>1, FiniteAssumption, FS_Subset
    <1>8. Cardinality(P) = Cardinality(B)
      BY <1>6, <1>7, FS_Bijection, Zenon
    <1> QED BY <1>8

\* The size of what is left when part of a finite set goes.
LEMMA WhatIsLeft ==
    ASSUME NEW A \in SUBSET Blocks, NEW S \in SUBSET A
    PROVE  /\ Cardinality(A \ S) = Cardinality(A) - Cardinality(S)
           /\ Cardinality(A) \in Nat /\ Cardinality(S) \in Nat
    <1>1. IsFiniteSet(A) /\ IsFiniteSet(S)
      BY FiniteAssumption, FS_Subset
    <1>2. A \cap S = S
      OBVIOUS
    <1>3. Cardinality(A) \in Nat /\ Cardinality(S) \in Nat
      BY <1>1, FS_CardinalityType
    <1>4. Cardinality(A \ S) = Cardinality(A) - Cardinality(A \cap S)
      BY <1>1, FS_Difference, Zenon
    <1> QED BY <1>2, <1>3, <1>4

\* Two apart sets of blocks.
LEMMA Together ==
    ASSUME NEW A \in SUBSET Blocks, NEW B \in SUBSET Blocks, A \cap B = {}
    PROVE  Cardinality(A \cup B) = Cardinality(A) + Cardinality(B)
    <1>1. PICK S : S = A \cup B
      OBVIOUS
    <1>2. S \in SUBSET Blocks /\ B \in SUBSET S /\ S \ B = A
      BY <1>1
    <1>3. Cardinality(A) = Cardinality(S) - Cardinality(B)
      BY <1>2, WhatIsLeft
    <1>4. Cardinality(S) \in Nat /\ Cardinality(B) \in Nat
      BY <1>2, WhatIsLeft
    <1> QED BY <1>1, <1>3, <1>4
---------------------------------------------------------------------------
(***************************************************************************)
(* The steps as swaps.                                                     *)
(***************************************************************************)
LEMMA Swapped ==
    ASSUME LoanInv, Partition', NEW T \in SUBSET free, NEW V \in SUBSET InTables,
           NEW S \in SUBSET OnLoan, S \cap BusyLoans = {},
           free' = ((free \ T) \cup V) \cup S,
           InTables' = (InTables \ V) \cup T,
           reserved' = reserved - Cardinality(S)
    PROVE  Swap(T, V, S)
    <1>1. OnLoan = Blocks \ (free \cup InTables) /\ OnLoan' = Blocks \ (free' \cup InTables')
      BY LoansAreTheRest DEF LoanInv, BlockInv
    <1>2. OnLoan' = OnLoan \ S
      BY <1>1
    <1> QED BY <1>2 DEF Swap

LEMMA NothingSwapped ==
    ASSUME LoanInv, UNCHANGED <<free, table, prefetched, spliceReleases, resetReleases, reserved>>
    PROVE  Swap({}, {}, {})
    <1>1. Partition'
      BY PartitionKept DEF LoanInv
    <1>2. InTables' = InTables
      BY DEF InTables, TableBlocks
    <1>3. reserved \in Int /\ Cardinality({}) = 0
      BY FS_EmptySet DEF LoanInv, TypeInv, TypeOK
    <1> QED BY <1>1, <1>2, <1>3, Swapped

LEMMA SidewaysSwap ==
    ASSUME LoanInv, Sideways \/ Send
    PROVE  Swap({}, {}, {})
    <1>1. UNCHANGED <<free, table, prefetched, spliceReleases, resetReleases, reserved>>
      BY DEF Sideways, Send, vars, BeginStep, BeginBuild, StopRetrying, RetryLater, WorkerStep,
             Bind, Report, TransferDone, SpliceDone, coreVars, baseVars, semVars
    <1> QED BY <1>1, NothingSwapped

LEMMA PreemptSwap ==
    ASSUME LoanInv, NEW r \in Requests, Preempt(r)
    PROVE  Swap({}, TableBlocks(r), {})
    <1>1. /\ free' = free \cup TableBlocks(r) /\ table' = [table EXCEPT ![r] = <<>>]
          /\ reserved' = reserved
      BY DEF Preempt, semVars, TableBlocks
    <1>2. /\ TableBlocks(r)' = {}
          /\ \A q \in Requests : q # r => TableBlocks(q)' = TableBlocks(q)
      BY <1>1 DEF TableBlocks, Range, LoanInv, TypeInv, TypeOK
    <1>3. InTables' = InTables \ TableBlocks(r) /\ TableBlocks(r) \in SUBSET InTables
      BY <1>2 DEF InTables, LoanInv, BlockInv, Partition, HoldersApart
    <1>4. Partition'
      BY PreemptPartition DEF LoanInv
    <1>5. reserved \in Int /\ Cardinality({}) = 0
      BY FS_EmptySet DEF LoanInv, TypeInv, TypeOK
    <1> QED BY <1>1, <1>3, <1>4, <1>5, Swapped

LEMMA FinishSwap ==
    ASSUME LoanInv, NEW r \in Requests, Finish(r)
    PROVE  \E V, S : Swap({}, V, S)
    <1>1. PICK S, V :
            /\ S = (IF Settled(r) THEN PrefetchBlocks(r) ELSE {})
            /\ V = (IF status[r] = "loading" THEN {} ELSE TableBlocks(r))
      OBVIOUS
    <1>2. /\ free' = (free \cup V) \cup S
          /\ table' = IF status[r] = "loading" THEN table ELSE [table EXCEPT ![r] = <<>>]
          /\ reserved' = reserved - Cardinality(S)
      BY <1>1 DEF Finish, TableBlocks
    <1>3. /\ TableBlocks(r)' = IF status[r] = "loading" THEN TableBlocks(r) ELSE {}
          /\ \A q \in Requests : q # r => TableBlocks(q)' = TableBlocks(q)
      BY <1>2 DEF TableBlocks, Range, LoanInv, TypeInv, TypeOK
    <1>4. InTables' = InTables \ V /\ V \in SUBSET InTables
      BY <1>1, <1>3 DEF InTables, LoanInv, BlockInv, Partition, HoldersApart
    <1>5. S \in SUBSET OnLoan /\ S \cap BusyLoans = {}
      BY <1>1, HeldOnLoan, SettledIdle
    <1>6. Partition'
      BY FinishPartition DEF LoanInv
    <1>7. Swap({}, V, S)
      BY <1>2, <1>4, <1>5, <1>6, Swapped
    <1> QED BY <1>7

\* An admission moves the blocks of t from the pool to r.
LEMMA AdmittedTables ==
    ASSUME LoanInv, NEW r \in Requests, NEW t \in NewTables(r), NEW plan \in LoadPlans(r),
           CanAdmit(r), Admitted(r, t, plan)
    PROVE  InTables' = InTables \cup Range(t) /\ Range(t) \in SUBSET free
    <1>1. table' = [table EXCEPT ![r] = t]
      BY DEF Admitted
    <1>2. TableBlocks(r) = {}
      BY DEF CanAdmit, LoanInv, BlockInv, TablesEmpty, TableBlocks, Range
    <1>3. /\ TableBlocks(r)' = Range(t)
          /\ \A q \in Requests : q # r => TableBlocks(q)' = TableBlocks(q)
      BY <1>1 DEF TableBlocks, LoanInv, TypeInv, TypeOK
    <1> QED BY <1>2, <1>3, NewTable DEF InTables, LoanInv, TypeInv

\* A request is admitted only with no transfer in flight, so that the prefetch
\* it leaves behind is settled.
LEMMA AdmitNormallySwap ==
    ASSUME LoanInv, NEW r \in Requests, AdmitNormally(r)
    PROVE  \E T, S : Swap(T, {}, S)
    <1>1. PICK t \in NewTables(r), plan \in LoadPlans(r) :
            /\ free' = (free \ Range(t)) \cup PrefetchBlocks(r)
            /\ reserved' = reserved - Cardinality(PrefetchBlocks(r))
            /\ Admitted(r, t, plan)
      BY DEF AdmitNormally
    <1>2. CanAdmit(r)
      BY DEF AdmitNormally
    <1>3. InTables' = InTables \cup Range(t) /\ Range(t) \in SUBSET free
      BY <1>1, <1>2, AdmittedTables
    <1>4. PrefetchBlocks(r) \cap BusyLoans = {}
      <2>1. CASE prefetched[r] = None
        BY <2>1 DEF PrefetchBlocks
      <2>2. CASE prefetched[r] # None
        <3>1. PICK j \in JobIds : j = prefetched[r].job
          BY <2>2 DEF LoanInv, TypeInv, TypeOK, PrefetchState
        <3>2. ~Live(j)
          BY <1>2, <2>2, <3>1
             DEF CanAdmit, LoanInv, JobInv, JobsFit, JobFits, BlockInv, Fits, PrefetchFits
        <3> QED BY <2>2, <3>1, <3>2, SettledIdle DEF Settled
      <2> QED BY <2>1, <2>2
    <1>5. PrefetchBlocks(r) \in SUBSET OnLoan
      BY HeldOnLoan
    <1>6. Partition'
      BY AdmitNormallyPartition DEF LoanInv
    <1>7. Swap(Range(t), {}, PrefetchBlocks(r))
      BY <1>1, <1>3, <1>4, <1>5, <1>6, Swapped
    <1> QED BY <1>7

LEMMA AdmitSplicedSwap ==
    ASSUME LoanInv, NEW r \in Requests, AdmitSpliced(r)
    PROVE  \E T : Swap(T, {}, {})
    <1>1. PICK t \in NewTables(r), plan \in LoadPlans(r) :
            free' = free \ Range(t) /\ Admitted(r, t, plan)
      BY DEF AdmitSpliced
    <1>2. CanAdmit(r) /\ reserved' = reserved
      BY DEF AdmitSpliced
    <1>3. InTables' = InTables \cup Range(t) /\ Range(t) \in SUBSET free
      BY <1>1, <1>2, AdmittedTables
    <1>4. Partition'
      BY AdmitSplicedPartition DEF LoanInv
    <1>5. reserved \in Int /\ Cardinality({}) = 0
      BY FS_EmptySet DEF LoanInv, TypeInv, TypeOK
    <1>6. Swap(Range(t), {}, {})
      BY <1>1, <1>2, <1>3, <1>4, <1>5, Swapped
    <1> QED BY <1>6

\* The settled prefetches are disjoint, so counting each gives their union.
LEMMA ResetCacheSwap ==
    ASSUME LoanInv, ResetCache
    PROVE  \E S : Swap({}, {}, S)
    <1>1. PICK settled : settled = {r \in Requests : Settled(r)}
      OBVIOUS
    <1>2. PICK F : F = [r \in settled |-> PrefetchBlocks(r)]
      OBVIOUS
    <1>3. PICK S : S = UNION {F[r] : r \in settled}
      OBVIOUS
    <1>4. /\ free' = free \cup UNION {PrefetchBlocks(r) : r \in settled}
          /\ reserved' = reserved
                - Cardinality({p \in settled \X Blocks : p[2] \in PrefetchBlocks(p[1])})
          /\ table' = table
      BY <1>1 DEF ResetCache
    <1>5. S = UNION {PrefetchBlocks(r) : r \in settled}
      BY <1>2, <1>3
    <1>6. F \in [settled -> SUBSET Blocks] /\ \A r, q \in settled : r # q => F[r] \cap F[q] = {}
      BY <1>1, <1>2, BlocksHeld DEF LoanInv, TypeInv, BlockInv, Partition, HoldersApart
    <1>7. Cardinality({p \in settled \X Blocks : p[2] \in F[p[1]]}) = Cardinality(S)
      <2>1. PICK P : P = {p \in settled \X Blocks : p[2] \in F[p[1]]}
        OBVIOUS
      <2>2. /\ \A b : b \in S <=> \E r \in settled : b \in F[r]
            /\ \A p : p \in P <=> p \in settled \X Blocks /\ p[2] \in F[p[1]]
        BY <1>3, <2>1
      <2>3. Cardinality(P) = Cardinality(S)
        BY <1>6, <2>2, PairsCounted
      <2> QED BY <2>1, <2>3
    <1>8. {p \in settled \X Blocks : p[2] \in F[p[1]]}
            = {p \in settled \X Blocks : p[2] \in PrefetchBlocks(p[1])}
      BY <1>2
    <1>9. S \in SUBSET OnLoan /\ S \cap BusyLoans = {}
      BY <1>1, <1>5, HeldOnLoan, SettledIdle
    <1>10. InTables' = InTables
      BY <1>4 DEF InTables, TableBlocks
    <1>11. Partition'
      BY ResetCachePartition DEF LoanInv
    <1>12. Swap({}, {}, S)
      BY <1>4, <1>5, <1>7, <1>8, <1>9, <1>10, <1>11, Swapped
    <1> QED BY <1>12

\* A job some worker has not delivered is not complete.
LEMMA Unfinished ==
    ASSUME TypeInv, NEW j \in JobIds, Live(j), NEW w \in Workers, InTransfer(w, j)
    PROVE  j \notin CompletedJobs
    <1>1. PICK delivered : delivered = {v \in Workers : stage[v][j] = "reported"}
      OBVIOUS
    <1>2. /\ delivered \in SUBSET InFlight(j) /\ InFlight(j) \in SUBSET Workers
          /\ w \in InFlight(j) /\ w \notin delivered
      BY <1>1 DEF InFlight, InTransfer
    <1>3. /\ IsFiniteSet(InFlight(j)) /\ IsFiniteSet(delivered)
          /\ Cardinality(InFlight(j)) \in Nat /\ Cardinality(delivered) \in Nat
      BY <1>2, WorkersCounted
    <1>4. Cardinality(delivered) <= Cardinality(InFlight(j)) /\ delivered # InFlight(j)
      BY <1>2, <1>3, FS_Subset
    <1>5. Cardinality(delivered) # Cardinality(InFlight(j))
      BY <1>2, <1>3, <1>4, FS_Subset
    <1>6. jobs[j].pending = Cardinality(InFlight(j)) /\ JobReports(j) = Cardinality(delivered)
      BY <1>1 DEF Live, TypeInv, JobsCounted, CountOf, JobReports
    <1> QED BY <1>3, <1>4, <1>5, <1>6 DEF CompletedJobs

\* A splice that some worker is still copying is not acknowledged.
LEMMA Unacknowledged ==
    ASSUME TypeInv, BlockInv, NEW s \in SpliceIds, NEW w \in Workers, InCopy(w, s)
    PROVE  s \notin AckedSplices
    <1>1. PICK acked : acked = {v \in Workers : copyStage[v][s] = "reported"}
      OBVIOUS
    <1>2. /\ acked \in SUBSET Copying(s) /\ Copying(s) \in SUBSET Workers
          /\ w \in Copying(s) /\ w \notin acked
      BY <1>1 DEF Copying, InCopy
    <1>3. /\ IsFiniteSet(Copying(s)) /\ IsFiniteSet(acked)
          /\ Cardinality(Copying(s)) \in Nat /\ Cardinality(acked) \in Nat
      BY <1>2, WorkersCounted
    <1>4. Cardinality(acked) <= Cardinality(Copying(s)) /\ acked # Copying(s)
      BY <1>2, <1>3, FS_Subset
    <1>5. Cardinality(acked) # Cardinality(Copying(s))
      BY <1>2, <1>3, <1>4, FS_Subset
    <1>6. /\ spliceReleases[s].remaining = Cardinality(Copying(s))
          /\ SpliceReports(s) = Cardinality(acked)
      BY <1>1, <1>2 DEF BlockInv, SplicesFit, SpliceFits, SpliceReports
    <1> QED BY <1>3, <1>4, <1>5, <1>6 DEF AckedSplices

\* What the completion of a step returns to the pool, no worker touches.
LEMMA ReturnedIdle ==
    ASSUME LoanInv, UpdateOutput, NEW orphans, orphans = Orphans(reqStatus')
    PROVE  ReturnedBlocks(orphans) \cap BusyLoans = {}
    <1>1. ASSUME NEW j \in JobIds, NEW w \in Workers, Live(j), InTransfer(w, j)
          PROVE  jobs[j].req \in reqStatus'
      <2>1. j \notin CompletedJobs
        BY <1>1, Unfinished DEF LoanInv
      <2>2. jobs'[j] # None /\ jobs'[j].req = jobs[j].req
        <3>1. jobs'[j] = [jobs[j] EXCEPT !.pending = @ - JobReports(j)]
          BY <1>1, <2>1 DEF UpdateOutput
        <3>2. jobs'[j] \in Job
          BY <1>1, <2>1, CompletionCounted DEF LoanInv
        <3> QED BY <1>1, <3>1, <3>2, JobTyped, NoneAssumption DEF LoanInv, Job
      <2>3. JobInv'
        BY UpdateOutputJobs DEF LoanInv
      <2> QED BY <2>2, <2>3 DEF JobInv, JobsFit, JobFits, Live
    <1>2. \A b \in ReturnedBlocks(orphans) :
            \/ \E r \in orphans : b \in PrefetchBlocks(r)
            \/ \E s \in AckedSplices : b \in SpliceBlocks(s)
            \/ \E j \in AckedResets : b \in ResetBlocks(j)
      BY DEF ReturnedBlocks, SpliceBlocks, ResetBlocks, AckedSplices, AckedResets
    <1>3. /\ orphans \subseteq Requests /\ AckedSplices \subseteq SpliceIds
          /\ AckedResets \subseteq JobIds
      BY DEF Orphans, AckedSplices, AckedResets
    <1>4. ASSUME NEW r \in orphans, NEW b \in PrefetchBlocks(r) PROVE b \notin BusyLoans
      <2> SUFFICES ASSUME b \in BusyLoans PROVE FALSE
        OBVIOUS
      <2>1. PICK w \in Workers : /\ prefetched[r] # None /\ Live(prefetched[r].job)
                                 /\ InTransfer(w, prefetched[r].job)
        BY <1>3, BusyHeld DEF LoanInv, BlockInv, Partition, KindsApart, HoldersApart
      <2>2. prefetched[r].job \in JobIds /\ jobs[prefetched[r].job].req = r
        BY <1>3, <2>1 DEF LoanInv, TypeInv, TypeOK, PrefetchState, BlockInv, Fits, PrefetchFits
      <2> QED BY <1>1, <2>1, <2>2 DEF Orphans
    <1>5. ASSUME NEW s \in AckedSplices, NEW b \in SpliceBlocks(s) PROVE b \notin BusyLoans
      <2> SUFFICES ASSUME b \in BusyLoans PROVE FALSE
        OBVIOUS
      <2>1. PICK w \in Workers : InCopy(w, s)
        BY <1>3, BusyHeld DEF LoanInv, BlockInv, Partition, KindsApart, HoldersApart
      <2> QED BY <1>3, <2>1, Unacknowledged DEF LoanInv
    <1>6. ASSUME NEW j \in AckedResets, NEW b \in ResetBlocks(j) PROVE b \notin BusyLoans
      <2> SUFFICES ASSUME b \in BusyLoans PROVE FALSE
        OBVIOUS
      <2>1. PICK w \in Workers : InTransfer(w, j)
        BY <1>3, BusyHeld DEF LoanInv, BlockInv, Partition, KindsApart, HoldersApart
      <2>2. Live(j) /\ j \in CompletedJobs
        BY <1>3 DEF AckedResets, CompletedJobs, LoanInv, BlockInv, Fits, ResetFits
      <2> QED BY <1>3, <2>1, <2>2, Unfinished DEF LoanInv
    <1> QED BY <1>2, <1>4, <1>5, <1>6

\* Loan by loan, the completion of a step counts what it returns.
LEMMA ReturnedCounted ==
    ASSUME LoanInv, NEW orphans \in SUBSET Requests
    PROVE  /\ ReturnedCount(orphans) = Cardinality(ReturnedBlocks(orphans))
           /\ ReturnedBlocks(orphans) \in SUBSET OnLoan
    <1>1. PICK F : F = [s \in AckedSplices |-> SpliceBlocks(s)]
      OBVIOUS
    <1>2. PICK G : G = [j \in AckedResets |-> ResetBlocks(j)]
      OBVIOUS
    <1>3. PICK H : H = [r \in orphans |-> PrefetchBlocks(r)]
      OBVIOUS
    <1>4. AckedSplices \subseteq SpliceIds /\ AckedResets \subseteq JobIds
      BY DEF AckedSplices, AckedResets
    <1>5. /\ F \in [AckedSplices -> SUBSET Blocks]
          /\ G \in [AckedResets -> SUBSET Blocks]
          /\ H \in [orphans -> SUBSET Blocks]
      BY <1>1, <1>2, <1>3, <1>4, BlocksHeld
         DEF LoanInv, TypeInv, TypeOK, SpliceBlocks, ResetBlocks, Release
    <1>6. /\ \A s, u \in AckedSplices : s # u => F[s] \cap F[u] = {}
          /\ \A j, k \in AckedResets : j # k => G[j] \cap G[k] = {}
          /\ \A r, q \in orphans : r # q => H[r] \cap H[q] = {}
      BY <1>1, <1>2, <1>3, <1>4 DEF LoanInv, BlockInv, Partition, HoldersApart
    <1>7. PICK A, B, C : /\ A = UNION {F[s] : s \in AckedSplices}
                         /\ B = UNION {G[j] : j \in AckedResets}
                         /\ C = UNION {H[r] : r \in orphans}
      OBVIOUS
    <1>8. Cardinality({p \in AckedSplices \X Blocks : p[2] \in F[p[1]]}) = Cardinality(A)
      <2>1. PICK P : P = {p \in AckedSplices \X Blocks : p[2] \in F[p[1]]}
        OBVIOUS
      <2>2. /\ \A b : b \in A <=> \E s \in AckedSplices : b \in F[s]
            /\ \A p : p \in P <=> p \in AckedSplices \X Blocks /\ p[2] \in F[p[1]]
        BY <1>7, <2>1
      <2>3. Cardinality(P) = Cardinality(A)
        BY <1>5, <1>6, <2>2, PairsCounted
      <2> QED BY <2>1, <2>3
    <1>9. Cardinality({p \in AckedResets \X Blocks : p[2] \in G[p[1]]}) = Cardinality(B)
      <2>1. PICK P : P = {p \in AckedResets \X Blocks : p[2] \in G[p[1]]}
        OBVIOUS
      <2>2. /\ \A b : b \in B <=> \E j \in AckedResets : b \in G[j]
            /\ \A p : p \in P <=> p \in AckedResets \X Blocks /\ p[2] \in G[p[1]]
        BY <1>7, <2>1
      <2>3. Cardinality(P) = Cardinality(B)
        BY <1>5, <1>6, <2>2, PairsCounted
      <2> QED BY <2>1, <2>3
    <1>10. Cardinality({p \in orphans \X Blocks : p[2] \in H[p[1]]}) = Cardinality(C)
      <2>1. PICK P : P = {p \in orphans \X Blocks : p[2] \in H[p[1]]}
        OBVIOUS
      <2>2. /\ \A b : b \in C <=> \E r \in orphans : b \in H[r]
            /\ \A p : p \in P <=> p \in orphans \X Blocks /\ p[2] \in H[p[1]]
        BY <1>7, <2>1
      <2>3. Cardinality(P) = Cardinality(C)
        BY <1>5, <1>6, <2>2, PairsCounted
      <2> QED BY <2>1, <2>3
    <1>11. /\ \A s \in AckedSplices : F[s] = spliceReleases[s].blocks
           /\ \A j \in AckedResets : G[j] = resetReleases[j].blocks
           /\ \A r \in orphans : H[r] = PrefetchBlocks(r)
      BY <1>1, <1>2, <1>3 DEF AckedSplices, AckedResets, SpliceBlocks, ResetBlocks
    <1>12. /\ {p \in AckedSplices \X Blocks : p[2] \in F[p[1]]}
                = {p \in AckedSplices \X Blocks : p[2] \in spliceReleases[p[1]].blocks}
           /\ {p \in AckedResets \X Blocks : p[2] \in G[p[1]]}
                = {p \in AckedResets \X Blocks : p[2] \in resetReleases[p[1]].blocks}
           /\ {p \in orphans \X Blocks : p[2] \in H[p[1]]}
                = {p \in orphans \X Blocks : p[2] \in PrefetchBlocks(p[1])}
      BY <1>11
    <1>13. ReturnedCount(orphans) = Cardinality(A) + Cardinality(B) + Cardinality(C)
      BY <1>8, <1>9, <1>10, <1>12 DEF ReturnedCount
    <1>14. ReturnedBlocks(orphans) = (A \cup B) \cup C
      BY <1>7, <1>11 DEF ReturnedBlocks
    <1>15. A \in SUBSET Blocks /\ B \in SUBSET Blocks /\ C \in SUBSET Blocks
      BY <1>5, <1>7
    <1>16. A \cap B = {} /\ (A \cup B) \cap C = {}
      BY <1>1, <1>2, <1>3, <1>4, <1>7 DEF LoanInv, BlockInv, Partition, KindsApart
    <1>17. Cardinality((A \cup B) \cup C) = (Cardinality(A) + Cardinality(B)) + Cardinality(C)
      <2>1. Cardinality(A \cup B) = Cardinality(A) + Cardinality(B)
        BY <1>15, <1>16, Together
      <2>2. PICK D \in SUBSET Blocks : D = A \cup B
        BY <1>15
      <2>3. Cardinality(D \cup C) = Cardinality(D) + Cardinality(C)
        BY <1>15, <1>16, <2>2, Together
      <2> QED BY <2>1, <2>2, <2>3
    <1>18. ReturnedBlocks(orphans) \in SUBSET OnLoan
      BY <1>1, <1>2, <1>3, <1>4, <1>7, <1>14, HeldOnLoan
    <1> QED BY <1>13, <1>14, <1>17, <1>18

LEMMA UpdateOutputSwap ==
    ASSUME LoanInv, UpdateOutput
    PROVE  \E V, S : Swap({}, V, S)
    <1>0. {r \in Received : status[r] = "finished"} \in SUBSET Requests
      BY DEF Received, CompletedJobs, Live, LoanInv, TypeInv, TypeOK, Job
    <1>1. PICK closed \in SUBSET Requests : closed = {r \in Received : status[r] = "finished"}
      BY <1>0
    <1>2. PICK orphans \in SUBSET Requests : orphans = Orphans(reqStatus')
      BY DEF Orphans
    <1>3. PICK V : V = UNION {TableBlocks(r) : r \in closed}
      OBVIOUS
    <1>4. /\ free' = free \cup ReturnedBlocks(orphans) \cup V
          /\ table' = [r \in Requests |-> IF r \in closed THEN <<>> ELSE table[r]]
          /\ reserved' = reserved - ReturnedCount(orphans)
      BY <1>1, <1>2, <1>3 DEF UpdateOutput, TableBlocks
    <1>5. \A r \in Requests : TableBlocks(r)' = IF r \in closed THEN {} ELSE TableBlocks(r)
      BY <1>4 DEF TableBlocks, Range
    <1>6. InTables' = InTables \ V /\ V \in SUBSET InTables
      BY <1>1, <1>3, <1>5 DEF InTables, LoanInv, BlockInv, Partition, HoldersApart
    <1>7. PICK S : S = ReturnedBlocks(orphans)
      OBVIOUS
    <1>8. S \in SUBSET OnLoan /\ S \cap BusyLoans = {} /\ reserved' = reserved - Cardinality(S)
      BY <1>2, <1>4, <1>7, ReturnedIdle, ReturnedCounted
    <1>9. free' = (free \cup V) \cup S
      BY <1>4, <1>7
    <1>10. Partition'
      BY UpdateOutputPartition DEF LoanInv
    <1>11. Swap({}, V, S)
      BY <1>6, <1>8, <1>9, <1>10, Swapped
    <1> QED BY <1>11

\* A reservation lends the blocks it picks, and they are busy from now on.
LEMMA ReserveLends ==
    ASSUME LoanInv, NEW r \in Requests, Reserve(r)
    PROVE  \E S \in SUBSET free :
             /\ free' = free \ S
             /\ OnLoan' = OnLoan \cup S
             /\ BusyLoans' = BusyLoans \cup S
             /\ reserved' = reserved + Cardinality(S)
             /\ reserved' <= Budget
    <1>1. PICK n \in 1 .. Len(OffloadKeys[r]) :
            /\ n <= Budget - reserved
            /\ \E rank \in Injection(1 .. n, Positions(r)), ids \in Injection(1 .. n, free) :
                  Borrow(r, n, rank, ids)
      BY DEF Reserve, RemainingBudget
    <1>2. PICK rank \in Injection(1 .. n, Positions(r)), ids \in Injection(1 .. n, free) :
            Borrow(r, n, rank, ids)
      BY <1>1
    <1>3. PICK S : S = Range(ids)
      OBVIOUS
    <1>4. PICK j \in JobIds : j = Pick(FreshJobs)
      BY FreshPicked DEF Reserve
    <1>5. PICK moves :
            /\ moves = {[key |-> [k \in 1 .. n |-> OffloadKeys[r][rank[k]]][i],
                         block |-> ids[i]] : i \in 1 .. n}
            /\ jobs' = [jobs EXCEPT ![j] = NewJob("prefetch", r, moves)]
            /\ stage' = Dispatch(j)
            /\ free' = free \ S /\ reserved' = reserved + n
      BY <1>2, <1>3, <1>4 DEF Borrow
    <1>6. n \in Nat /\ n >= 1 /\ ids \in [1 .. n -> Blocks] /\ DOMAIN ids = 1 .. n
          /\ S \in SUBSET free
      BY <1>3, Chains DEF Injection, Range, LoanInv, TypeInv, TypeOK
    <1>7. Cardinality(S) = n
      <2>1. ids \in Bijection(1 .. n, S)
        BY <1>3, <1>6 DEF Injection, Bijection, Surjection, IsInjective, Range
      <2>2. ExistsBijection(1 .. n, S)
        BY <2>1 DEF ExistsBijection
      <2>3. IsFiniteSet(1 .. n) /\ Cardinality(1 .. n) = n
        BY <1>6, FS_Interval
      <2> QED BY <2>2, <2>3, FS_Bijection
    <1>8. OnLoan' = OnLoan \cup S
      <2>1. InTables' = InTables
        BY DEF Reserve, InTables, TableBlocks
      <2>2. Partition'
        BY ReservePartition DEF LoanInv
      <2>3. /\ OnLoan = Blocks \ (free \cup InTables)
            /\ OnLoan' = Blocks \ (free' \cup InTables')
        BY <2>2, LoansAreTheRest DEF LoanInv, BlockInv
      <2>4. free \in SUBSET Blocks /\ free \cap InTables = {}
        BY DEF LoanInv, TypeInv, TypeOK, BlockInv, Partition, PoolApart, InTables
      <2> QED BY <1>5, <1>6, <2>1, <2>3, <2>4
    <1>9. BusyLoans' = BusyLoans \cup S
      <2>1. /\ UNCHANGED <<copies, copyStage>>
            /\ ~Live(j)
        BY <1>4 DEF Reserve, FreshJobs, Pick
      <2>2. /\ jobs'[j] = NewJob("prefetch", r, moves)
            /\ \A k \in JobIds : k # j => jobs'[k] = jobs[k]
            /\ \A w \in Workers : /\ stage'[w][j] = "sent"
                                  /\ \A k \in JobIds : k # j => stage'[w][k] = stage[w][k]
        BY <1>5 DEF LoanInv, TypeInv, TypeOK, Dispatch
      <2>3. JobBlocks(j)' = S
        <3>1. jobs'[j].moves = moves
          BY <2>2 DEF NewJob
        <3>2. \A i \in 1 .. n : \E m \in moves : m.block = ids[i]
          <4> DEFINE Entry(i) == [key |-> [k \in 1 .. n |-> OffloadKeys[r][rank[k]]][i],
                                  block |-> ids[i]]
          <4>1. \A i \in 1 .. n : Entry(i) \in moves /\ Entry(i).block = ids[i]
            BY <1>5
          <4> QED BY <4>1
        <3>3. \A m \in moves : \E i \in 1 .. n : m.block = ids[i]
          BY <1>5
        <3>4. {m.block : m \in moves} = {ids[i] : i \in 1 .. n}
          BY <3>2, <3>3
        <3> QED BY <1>3, <1>6, <3>1, <3>4 DEF JobBlocks, Range
      <2>4. Live(j)' /\ jobs'[j].kind = "prefetch"
        <3>1. (TypeOK)'
          BY ReserveTyped DEF LoanInv, TypeInv
        <3>2. moves \in SUBSET Move
          BY <1>5, <1>6, Chains DEF Injection, Move
        <3>3. NewJob("prefetch", r, moves) \in Job
          BY <3>2, WorkersCounted DEF NewJob, Job, JobKind
        <3> QED BY <2>2, <3>3, NoneAssumption DEF Live, NewJob
      <2>5. PICK w \in Workers : TRUE
        BY FiniteAssumption
      <2>6. \A k \in JobIds : k # j =>
              /\ Live(k)' <=> Live(k)
              /\ jobs'[k] = jobs[k] /\ JobBlocks(k)' = JobBlocks(k)
              /\ \A v \in Workers : InTransfer(v, k)' <=> InTransfer(v, k)
        BY <2>2 DEF Live, JobBlocks, InTransfer
      <2>7. \A v \in Workers, s \in SpliceIds :
              (InCopy(v, s)' <=> InCopy(v, s)) /\ Sources(s)' = Sources(s)
        BY <2>1 DEF InCopy, Sources
      <2>8. InTransfer(w, j)'
        BY <2>2 DEF InTransfer
      <2>9. \A b \in BusyLoans' : b \in BusyLoans \cup S
        BY <2>3, <2>6, <2>7, BusyAre
      <2>10. \A b \in BusyLoans : b \in BusyLoans'
        BY <2>1, <2>6, <2>7, BusyAre
      <2>11. \A b \in S : b \in BusyLoans'
        BY <2>3, <2>4, <2>5, <2>8, BusyAre
      <2> QED BY <2>9, <2>10, <2>11
    <1>10. reserved' = reserved + Cardinality(S) /\ reserved' <= Budget
      BY <1>1, <1>5, <1>6, <1>7, BudgetAssumption DEF LoanInv, TypeInv, TypeOK
    <1> QED BY <1>5, <1>6, <1>8, <1>9, <1>10

\* Every step is a reservation or a swap.
LEMMA StepsLend ==
    ASSUME LoanInv, [Next]_vars
    PROVE  \/ \E r \in Requests : Reserve(r)
           \/ \E T, V, S : Swap(T, V, S)
    <1>1. CASE Sideways \/ Send
      BY <1>1, SidewaysSwap
    <1>2. ASSUME NEW r \in Requests,
                 Preempt(r) \/ Finish(r) \/ AdmitNormally(r) \/ AdmitSpliced(r)
          PROVE  \E T, V, S : Swap(T, V, S)
      BY <1>2, PreemptSwap, FinishSwap, AdmitNormallySwap, AdmitSplicedSwap
    <1>3. CASE UpdateOutput \/ ResetCache
      BY <1>3, UpdateOutputSwap, ResetCacheSwap
    <1> QED BY <1>1, <1>2, <1>3 DEF Next, SchedulerStep, Sideways

---------------------------------------------------------------------------
(***************************************************************************)
(* The budget counter.                                                     *)
(***************************************************************************)
LEMMA ReservedInit == Init => ReservedExact
    <1> SUFFICES ASSUME Init PROVE ReservedExact
      OBVIOUS
    <1>1. OnLoan = {}
      BY LoansAre DEF Init, PrefetchBlocks, SpliceBlocks, ResetBlocks
    <1> QED BY <1>1, FS_EmptySet, BudgetAssumption DEF Init, ReservedExact

LEMMA ReservedStep ==
    ASSUME LoanInv, ReservedExact, [Next]_vars
    PROVE  ReservedExact'
    <1>1. OnLoan \in SUBSET Blocks
      BY LoansAre
    <1>2. ASSUME NEW r \in Requests, Reserve(r) PROVE ReservedExact'
      <2>1. PICK S \in SUBSET free :
              /\ OnLoan' = OnLoan \cup S
              /\ reserved' = reserved + Cardinality(S)
              /\ reserved' <= Budget
        BY <1>2, ReserveLends
      <2>2. S \in SUBSET Blocks /\ OnLoan \cap S = {}
        BY LoansAreTheRest DEF LoanInv, TypeInv, TypeOK, BlockInv
      <2>3. Cardinality(OnLoan \cup S) = Cardinality(OnLoan) + Cardinality(S)
        BY <1>1, <2>2, Together
      <2> QED BY <2>1, <2>3 DEF ReservedExact
    <1>3. ASSUME NEW T, NEW V, NEW S, Swap(T, V, S) PROVE ReservedExact'
      <2>1. S \in SUBSET OnLoan /\ OnLoan' = OnLoan \ S /\ reserved' = reserved - Cardinality(S)
        BY <1>3 DEF Swap
      <2>2. /\ Cardinality(OnLoan \ S) = Cardinality(OnLoan) - Cardinality(S)
            /\ Cardinality(OnLoan) \in Nat /\ Cardinality(S) \in Nat
        BY <1>1, <2>1, WhatIsLeft
      <2> QED BY <2>1, <2>2, BudgetAssumption DEF ReservedExact
    <1> QED BY <1>2, <1>3, StepsLend

LEMMA LoanInvariant == Spec => [](LoanInv /\ ReservedExact)
    <1>1. LoanInv /\ ReservedExact /\ [Next]_vars => ReservedExact'
      BY ReservedStep
    <1>2. Spec => []LoanInv
      BY TypeInvariant, JobInvariant, BlockInvariant, PTL DEF LoanInv
    <1> QED BY <1>1, <1>2, ReservedInit, PTL DEF Spec

\* The budget counter equals the number of blocks on loan and never exceeds
\* the budget, through release, stale release, splice, countdown, orphan
\* sweep and reset: each subtracts exactly what it returns (480-487, 559).
THEOREM ReservedCorrect == Spec => []ReservedExact
    BY LoanInvariant, PTL

---------------------------------------------------------------------------
(***************************************************************************)
(* The contract with the block pool.                                       *)
(***************************************************************************)
LEMMA SameCardinality == \A S : Loans!Cardinality(S) = Cardinality(S)
    BY DEF Cardinality, Loans!Cardinality

LEMMA LoansInit == Init => Loans!LoanInit
    <1> SUFFICES ASSUME Init PROVE Loans!LoanInit
      OBVIOUS
    <1>1. OnLoan = {}
      BY LoansAre DEF Init, PrefetchBlocks, SpliceBlocks, ResetBlocks
    <1>2. \A b : b \notin BusyLoans
      BY BusyAre DEF Init, Live, InCopy
    <1> QED BY <1>1, <1>2 DEF Init, Loans!LoanInit

LEMMA LoansStep ==
    ASSUME LoanInv, BusyInLoans', ReservedExact', [Next]_vars
    PROVE  [Loans!LoanNext]_(Loans!loanVars)
    <1>1. ASSUME NEW r \in Requests, Reserve(r) PROVE Loans!LoanNext
      <2>1. PICK S \in SUBSET free : /\ free' = free \ S
                                     /\ OnLoan' = OnLoan \cup S
                                     /\ BusyLoans' = BusyLoans \cup S
        BY <1>1, ReserveLends
      <2>2. Cardinality(OnLoan') <= Budget
        BY DEF ReservedExact
      <2>3. Loans!Cardinality(OnLoan \cup S) <= Budget
        BY <2>1, <2>2, SameCardinality
      <2> QED BY <2>1, <2>3 DEF Loans!LoanNext, Loans!Borrow
    <1>2. ASSUME NEW T, NEW V, NEW S, Swap(T, V, S) PROVE Loans!LoanNext
      <2>1. V \subseteq Loans!Owned
        <3>1. V \subseteq InTables
          BY <1>2 DEF Swap
        <3>2. InTables \subseteq Blocks
          BY BlocksHeld DEF LoanInv, TypeInv, InTables, TableBlocks
        <3>3. InTables \cap free = {}
          BY DEF LoanInv, BlockInv, Partition, PoolApart, InTables
        <3>4. InTables \cap OnLoan = {}
          BY LoansAreTheRest DEF LoanInv, BlockInv
        <3> QED BY <3>1, <3>2, <3>3, <3>4 DEF Loans!Owned
      <2>2. Loans!Exchange(T, V, S)
        BY <1>2, <2>1 DEF Swap, BusyInLoans, Loans!Exchange
      <2>3. T \in SUBSET free /\ V \in SUBSET Loans!Owned /\ S \in SUBSET OnLoan
        BY <1>2, <2>1 DEF Swap
      <2> QED BY <2>2, <2>3 DEF Loans!LoanNext
    <1> QED BY <1>1, <1>2, StepsLend

\* Whatever the transfers, splices, resets and aborts, the connector borrows
\* only free blocks within the budget, and ends a loan only when no worker is
\* filling or copying from its blocks: it implements PrefetchLoans.
THEOREM LoansImplemented == Spec => ImplementsLoans
    <1>1. LoanInv /\ BusyInLoans' /\ ReservedExact' /\ [Next]_vars
            => [Loans!LoanNext]_(Loans!loanVars)
      BY LoansStep
    <1> QED BY <1>1, LoansInit, BusyLent, LoanInvariant, PTL DEF Spec, ImplementsLoans, Loans!LoanSpec

---------------------------------------------------------------------------
(***************************************************************************)
(* What the contract gives whoever keeps to it.                            *)
(***************************************************************************)
ContractInv == Loans!LoanTypeOK /\ Loans!LoansSafe

LEMMA ContractInit == Loans!LoanInit => ContractInv
    <1> SUFFICES ASSUME Loans!LoanInit PROVE ContractInv
      OBVIOUS
    <1>1. free = Blocks /\ OnLoan = {} /\ BusyLoans = {}
      BY DEF Loans!LoanInit
    <1>2. Cardinality(OnLoan) <= Budget
      BY <1>1, FS_EmptySet, BudgetAssumption
    <1> QED BY <1>1, <1>2, SameCardinality DEF ContractInv, Loans!LoanTypeOK, Loans!LoansSafe

LEMMA ContractStep ==
    ASSUME ContractInv, [Loans!LoanNext]_(Loans!loanVars)
    PROVE  ContractInv'
    <1>0. /\ free \subseteq Blocks /\ OnLoan \subseteq Blocks /\ BusyLoans \subseteq OnLoan
          /\ OnLoan \cap free = {} /\ Cardinality(OnLoan) <= Budget
      BY SameCardinality DEF ContractInv, Loans!LoanTypeOK, Loans!LoansSafe
    <1>1. SUFFICES /\ free' \subseteq Blocks /\ OnLoan' \subseteq Blocks /\ BusyLoans' \subseteq OnLoan'
                   /\ OnLoan' \cap free' = {} /\ Cardinality(OnLoan') <= Budget
      BY SameCardinality DEF ContractInv, Loans!LoanTypeOK, Loans!LoansSafe
    <1>2. CASE UNCHANGED Loans!loanVars
      BY <1>0, <1>2 DEF Loans!loanVars
    <1>3. ASSUME NEW S \in SUBSET free, Loans!Borrow(S) PROVE <1>1!1
      <2>1. OnLoan' = OnLoan \cup S /\ free' = free \ S /\ BusyLoans' = BusyLoans \cup S
        BY <1>3 DEF Loans!Borrow
      <2>2. Cardinality(OnLoan') <= Budget
        BY <1>3, <2>1, SameCardinality DEF Loans!Borrow
      <2> QED BY <1>0, <2>1, <2>2
    <1>4. ASSUME NEW T \in SUBSET free, NEW V \in SUBSET Loans!Owned, NEW S \in SUBSET OnLoan,
                 Loans!Exchange(T, V, S)
          PROVE  <1>1!1
      <2>1. /\ OnLoan' = OnLoan \ S /\ free' = ((free \ T) \cup V) \cup S
            /\ BusyLoans' \subseteq OnLoan'
        BY <1>4 DEF Loans!Exchange
      <2>2. free' \subseteq Blocks /\ OnLoan' \subseteq Blocks /\ OnLoan' \cap free' = {}
        BY <1>0, <2>1 DEF Loans!Owned
      <2>3. Cardinality(OnLoan') <= Budget
        <3>1. IsFiniteSet(OnLoan) /\ OnLoan' \subseteq OnLoan
          BY <1>0, <2>1, FiniteAssumption, FS_Subset
        <3>2. Cardinality(OnLoan') <= Cardinality(OnLoan)
          BY <3>1, FS_Subset
        <3>3. Cardinality(OnLoan) \in Nat /\ Cardinality(OnLoan') \in Nat
          BY <3>1, FS_Subset, FS_CardinalityType
        <3> QED BY <1>0, <3>2, <3>3, BudgetAssumption
      <2> QED BY <2>1, <2>2, <2>3
    <1> QED BY <1>2, <1>3, <1>4 DEF Loans!LoanNext

\* Under the contract a block some worker is filling or reading for a loan is
\* always lent, a lent block is never in the pool, and the loans stay within
\* the budget (connector.py 98-102, 480-487, 569-584).
THEOREM LoansCorrect == Loans!LoanSpec => []Loans!LoansSafe
    <1>1. ContractInv => Loans!LoansSafe
      BY DEF ContractInv
    <1> QED BY <1>1, ContractInit, ContractStep, PTL DEF Loans!LoanSpec

\* So the connector, which implements the contract, keeps what it promises.
THEOREM LoansKept == Spec => []Loans!LoansSafe
    BY LoansImplemented, LoansCorrect, PTL DEF ImplementsLoans

================================================================================
