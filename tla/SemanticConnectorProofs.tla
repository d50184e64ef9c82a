------------------------ MODULE SemanticConnectorProofs ------------------------
(***************************************************************************)
(* Proofs about SemanticConnector, for any requests, blocks, workers,      *)
(* chains and budget.                                                      *)
(***************************************************************************)
EXTENDS SemanticConnector, FiniteSetTheorems, SequenceTheorems, TLAPS

\* The workers that have not yet delivered their completion of job j.
InFlight(j) == {w \in Workers : stage[w][j] # "none"}

\* A tracked job waits for exactly these workers, an untracked one for none.
CountOf(j) ==
    IF jobs[j] = None THEN InFlight(j) = {}
    ELSE jobs[j].pending = Cardinality(InFlight(j))
JobsCounted == \A j \in JobIds : CountOf(j)

\* A request with blocks has one per key of its chain, and is known to the
\* connector; the keys and blocks of a prefetch match.
ShapeOf(r) ==
    /\ status[r] \in {"running", "loading"} =>
         Len(table[r]) = Len(OffloadKeys[r]) /\ r \in reqStatus
    /\ prefetched[r] # None => Len(prefetched[r].keys) = Len(prefetched[r].blocks)
RequestShape == \A r \in Requests : ShapeOf(r)

TypeInv == TypeOK /\ JobsCounted /\ RequestShape

---------------------------------------------------------------------------
LEMMA WorkersCounted ==
    /\ NumWorkers \in Nat /\ NumWorkers >= 1
    /\ \A S \in SUBSET Workers : IsFiniteSet(S) /\ Cardinality(S) \in 0 .. NumWorkers
    <1>1. NumWorkers \in Nat
      BY FiniteAssumption, FS_CardinalityType DEF NumWorkers
    <1>2. NumWorkers # 0
      BY FiniteAssumption, FS_EmptySet DEF NumWorkers
    <1>3. ASSUME NEW S \in SUBSET Workers
          PROVE  IsFiniteSet(S) /\ Cardinality(S) \in 0 .. NumWorkers
      <2>1. IsFiniteSet(S) /\ Cardinality(S) <= NumWorkers
        BY FiniteAssumption, FS_Subset DEF NumWorkers
      <2>2. Cardinality(S) \in Nat
        BY <2>1, FS_CardinalityType
      <2> QED BY <1>1, <2>1, <2>2
    <1> QED BY <1>1, <1>2, <1>3

\* A function on 1..n is a sequence of length n.
LEMMA Sequences1 ==
    ASSUME NEW S, NEW n \in Nat, NEW f \in [1 .. n -> S]
    PROVE  f \in Seq(S) /\ Len(f) = n /\ DOMAIN f = 1 .. n /\ Range(f) \subseteq S
    BY DEF Range

\* And a sequence is a function on 1..Len.
LEMMA Sequences2 ==
    ASSUME NEW S, NEW f \in Seq(S)
    PROVE  /\ Len(f) \in Nat /\ DOMAIN f = 1 .. Len(f) /\ Range(f) \subseteq S
           /\ \A i \in 1 .. Len(f) : f[i] \in S
    BY LenProperties, ElementOfSeq DEF Range

LEMMA Chains ==
    ASSUME NEW r \in Requests
    PROVE  /\ Len(OffloadKeys[r]) \in Nat
           /\ Positions(r) = 1 .. Len(OffloadKeys[r])
           /\ \A i \in Positions(r) : OffloadKeys[r][i] \in Keys
    BY ChainsAssumption, Sequences2 DEF Positions

LEMMA FreshPicked ==
    ASSUME FreshJobs # {}
    PROVE  Pick(FreshJobs) \in JobIds /\ jobs[Pick(FreshJobs)] = None
    BY DEF FreshJobs, Pick, Live

LEMMA PlansInside ==
    ASSUME NEW r \in Requests, NEW plan \in LoadPlans(r)
    PROVE  plan \subseteq Positions(r) /\ plan \in SUBSET Nat
    BY Chains, PrefixesAssumption DEF LoadPlans

LEMMA NewTable ==
    ASSUME TypeOK, NEW r \in Requests, NEW t \in NewTables(r)
    PROVE  /\ t \in Seq(Blocks) /\ Len(t) = Len(OffloadKeys[r])
           /\ Range(t) \subseteq free
           /\ \A i \in Positions(r) : t[i] \in Blocks
    <1>1. t \in [1 .. Len(OffloadKeys[r]) -> Blocks] /\ t \in [Positions(r) -> free]
      BY Chains DEF NewTables, Injection, TypeOK
    <1>2. Range(t) \subseteq free
      BY <1>1 DEF Range
    <1> QED BY <1>1, <1>2, Chains, Sequences1

LEMMA BlocksHeld ==
    ASSUME TypeOK, NEW r \in Requests
    PROVE  /\ PrefetchBlocks(r) \in SUBSET Blocks
           /\ Range(table[r]) \in SUBSET Blocks
           /\ Cardinality(PrefetchBlocks(r)) \in Nat
    <1>1. PrefetchBlocks(r) \in SUBSET Blocks
      <2>1. prefetched[r] # None => prefetched[r].blocks \in Seq(Blocks)
        BY DEF TypeOK, PrefetchState
      <2> QED BY <2>1, Sequences2 DEF PrefetchBlocks
    <1>2. Range(table[r]) \in SUBSET Blocks
      <2>1. table[r] \in Seq(Blocks)
        BY DEF TypeOK
      <2> QED BY <2>1, Sequences2
    <1>3. Cardinality(PrefetchBlocks(r)) \in Nat
      BY <1>1, FiniteAssumption, FS_Subset, FS_CardinalityType
    <1> QED BY <1>1, <1>2, <1>3

LEMMA Forgotten ==
    ASSUME TypeOK, NEW S
    PROVE  Forget(gpu, S) \in [Workers -> [Blocks -> Keys \cup {None}]]
    BY DEF TypeOK, Forget

\* Starting a job on a fresh id: every worker has it, and none has delivered.
LEMMA JobStarted ==
    ASSUME TypeInv, FreshJobs # {}, NEW kind \in JobKind, NEW r \in Requests,
           NEW moves \in SUBSET Move, NEW j, j = Pick(FreshJobs),
           jobs' = [jobs EXCEPT ![j] = NewJob(kind, r, moves)],
           transferJobs' = Register(r, j),
           stage' = Dispatch(j)
    PROVE  /\ jobs' \in [JobIds -> Job \cup {None}]
           /\ transferJobs' \in [Requests -> SUBSET JobIds]
           /\ stage' \in [Workers -> [JobIds -> {"none", "sent", "moving", "done", "reported"}]]
           /\ JobsCounted'
    <1>1. j \in JobIds /\ jobs[j] = None
      BY FreshPicked
    <1>2. NewJob(kind, r, moves) \in Job
      BY WorkersCounted DEF NewJob, Job
    <1>3. jobs' \in [JobIds -> Job \cup {None}]
      BY <1>1, <1>2 DEF TypeInv, TypeOK
    <1>4. transferJobs' \in [Requests -> SUBSET JobIds]
      BY <1>1 DEF TypeInv, TypeOK, Register
    <1>5. stage' \in [Workers -> [JobIds -> {"none", "sent", "moving", "done", "reported"}]]
      BY <1>1 DEF TypeInv, TypeOK, Dispatch
    <1>6. ASSUME NEW k \in JobIds PROVE CountOf(k)'
      <2>1. CASE k = j
        <3>1. InFlight(j)' = Workers
          BY <1>1 DEF TypeInv, TypeOK, Dispatch, InFlight
        <3>2. jobs'[j] = NewJob(kind, r, moves) /\ jobs'[j] # None
          BY <1>1, <1>2, NoneAssumption DEF TypeInv, TypeOK
        <3> QED BY <2>1, <3>1, <3>2 DEF CountOf, NewJob, NumWorkers
      <2>2. CASE k # j
        <3>1. InFlight(k)' = InFlight(k) /\ jobs'[k] = jobs[k]
          BY <2>2 DEF TypeInv, TypeOK, Dispatch, InFlight
        <3> QED BY <3>1 DEF TypeInv, JobsCounted, CountOf
      <2> QED BY <2>1, <2>2
    <1> QED BY <1>3, <1>4, <1>5, <1>6 DEF JobsCounted

LEMMA TypeInit == Init => TypeInv
    <1> SUFFICES ASSUME Init PROVE TypeInv
      OBVIOUS
    <1>1. TypeOK
      BY EmptySeq DEF Init, TypeOK
    <1>2. JobsCounted /\ RequestShape
      BY DEF Init, JobsCounted, CountOf, InFlight, RequestShape, ShapeOf
    <1> QED BY <1>1, <1>2 DEF TypeInv

\* A load of positions P into the blocks of t, if there is anything to load.
LEMMA LoadStarted ==
    ASSUME TypeInv, NEW r \in Requests, NEW t \in NewTables(r),
           NEW P \in SUBSET Positions(r), StartLoad(r, t, P)
    PROVE  /\ jobs' \in [JobIds -> Job \cup {None}]
           /\ transferJobs' \in [Requests -> SUBSET JobIds]
           /\ stage' \in [Workers -> [JobIds -> {"none", "sent", "moving", "done", "reported"}]]
           /\ JobsCounted'
    <1>1. CASE P = {}
      BY <1>1 DEF StartLoad, TypeInv, TypeOK, JobsCounted, CountOf, InFlight
    <1>2. CASE P # {}
      <2>1. MovesInto(r, t, P) \in SUBSET Move
        BY Chains, NewTable DEF MovesInto, Move, TypeInv
      <2>2. /\ FreshJobs # {}
            /\ jobs' = [jobs EXCEPT ![Pick(FreshJobs)] =
                          NewJob("load", r, MovesInto(r, t, P))]
            /\ transferJobs' = Register(r, Pick(FreshJobs))
            /\ stage' = Dispatch(Pick(FreshJobs))
        BY <1>2 DEF StartLoad
      <2> QED BY <2>1, <2>2, JobStarted DEF JobKind
    <1> QED BY <1>1, <1>2

\* What admission leaves typed, whichever way the content arrives.
LEMMA AdmissionTyped ==
    ASSUME TypeInv, NEW r \in Requests, NEW t \in NewTables(r),
           NEW plan \in LoadPlans(r), Admitted(r, t, plan)
    PROVE  /\ status' \in [Requests -> {"waiting", "running", "loading", "preempted",
                                        "finished"}]
           /\ table' \in [Requests -> Seq(Blocks)]
           /\ external' \in [Requests -> SUBSET Nat]
           /\ reqStatus' \in SUBSET Requests
           /\ preemptedPending' \in SUBSET Requests
           /\ prefetched' \in [Requests -> PrefetchState \cup {None}]
           /\ allocated' \in SUBSET Blocks
           /\ RequestShape'
    <1>1. /\ status' \in [Requests -> {"waiting", "running", "loading", "preempted",
                                       "finished"}]
          /\ reqStatus' \in SUBSET Requests
          /\ preemptedPending' \in SUBSET Requests
          /\ prefetched' \in [Requests -> PrefetchState \cup {None}]
      BY DEF TypeInv, TypeOK, Admitted, Unqueued
    <1>2. t \in Seq(Blocks) /\ Len(t) = Len(OffloadKeys[r])
      BY NewTable DEF TypeInv
    <1>3. table' \in [Requests -> Seq(Blocks)] /\ external' \in [Requests -> SUBSET Nat]
      BY <1>2, PlansInside DEF TypeInv, TypeOK, Admitted
    <1>4. allocated' \in SUBSET Blocks
      BY NewTable, PlansInside DEF TypeInv, TypeOK, Admitted, HandOut
    <1>5. ASSUME NEW q \in Requests PROVE ShapeOf(q)'
      BY <1>2 DEF TypeInv, TypeOK, Admitted, RequestShape, ShapeOf
    <1> QED BY <1>1, <1>3, <1>4, <1>5 DEF RequestShape

LEMMA AdmitNormallyTyped ==
    ASSUME TypeInv, NEW r \in Requests, AdmitNormally(r)
    PROVE  TypeInv'
    <1>1. PICK t \in NewTables(r), plan \in LoadPlans(r) :
            /\ free' = (free \ Range(t)) \cup PrefetchBlocks(r)
            /\ reserved' = reserved - Cardinality(PrefetchBlocks(r))
            /\ gpu' = Forget(gpu, PrefetchBlocks(r))
            /\ StartLoad(r, t, plan)
            /\ Admitted(r, t, plan)
      BY DEF AdmitNormally
    <1>2. free' \in SUBSET Blocks /\ reserved' \in Int
      BY <1>1, BlocksHeld DEF TypeInv, TypeOK
    <1>3. gpu' \in [Workers -> [Blocks -> Keys \cup {None}]]
      BY <1>1, Forgotten DEF TypeInv
    <1>4. UNCHANGED <<phase, preemptedNow, flush, todo, resetReleases, wpc, spliceReleases,
                      copies, copyStage>>
      BY <1>1 DEF AdmitNormally, Admitted
    <1> QED BY <1>1, <1>2, <1>3, <1>4, LoadStarted, AdmissionTyped, PlansInside
            DEF TypeInv, TypeOK

LEMMA AdmitSplicedTyped ==
    ASSUME TypeInv, NEW r \in Requests, AdmitSpliced(r)
    PROVE  TypeInv'
    <1> DEFINE s == Pick(FreshSplices)
    <1>1. PICK t \in NewTables(r), plan \in LoadPlans(r) :
            /\ CanSplice(r, plan)
            /\ copies' = [copies EXCEPT ![s] = SpliceCopies(r, t, plan)]
            /\ copyStage' = [w \in Workers |-> [copyStage[w] EXCEPT ![s] = "sent"]]
            /\ spliceReleases' = [spliceReleases EXCEPT ![s] =
                  Quarantine(r)]
            /\ free' = free \ Range(t)
            /\ StartLoad(r, t, plan \ Spliced(r, plan))
            /\ Admitted(r, t, plan)
      BY DEF AdmitSpliced
    <1>2. s \in SpliceIds
      BY DEF AdmitSpliced, FreshSplices, Pick
    <1>3. SpliceCopies(r, t, plan) \in SUBSET Copy
      <2>1. /\ prefetched[r].keys \in Seq(Keys) /\ prefetched[r].blocks \in Seq(Blocks)
            /\ Len(prefetched[r].keys) = Len(prefetched[r].blocks)
        BY <1>1 DEF CanSplice, Settled, TypeInv, TypeOK, PrefetchState, RequestShape, ShapeOf
      <2>2. \A i \in plan : \A m \in SpliceEntries(r, plan, i) :
              prefetched[r].blocks[m] \in Blocks
        BY <2>1, Sequences2 DEF SpliceEntries
      <2>3. \A i \in plan : t[i] \in Blocks
        BY NewTable, PlansInside DEF TypeInv
      <2> QED BY <2>2, <2>3 DEF SpliceCopies, Copy
    <1>4. copies' \in [SpliceIds -> SUBSET Copy]
      BY <1>1, <1>3 DEF TypeInv, TypeOK
    <1>5. copyStage' \in [Workers ->
                        [SpliceIds -> {"none", "sent", "copying", "done", "reported"}]]
      <2> HIDE DEF s
      <2>1. \A w \in Workers : [copyStage[w] EXCEPT ![s] = "sent"] \in
                        [SpliceIds -> {"none", "sent", "copying", "done", "reported"}]
        BY DEF TypeInv, TypeOK
      <2> QED BY <1>1, <2>1
    <1>6. spliceReleases' \in [SpliceIds -> Release \cup {None}]
      <2>1. Quarantine(r) \in Release
        BY BlocksHeld, WorkersCounted DEF TypeInv, Quarantine, Release
      <2> HIDE DEF s
      <2> QED BY <1>1, <2>1 DEF TypeInv, TypeOK
    <1>7. plan \ Spliced(r, plan) \in SUBSET Positions(r)
      BY PlansInside
    <1>8. UNCHANGED <<phase, preemptedNow, flush, todo, resetReleases, wpc, reserved, gpu>>
      BY <1>1 DEF AdmitSpliced, Admitted
    <1>9. free' \in SUBSET Blocks
      BY <1>1 DEF TypeInv, TypeOK
    <1> QED BY <1>1, <1>4, <1>5, <1>6, <1>7, <1>8, <1>9, LoadStarted, AdmissionTyped
            DEF TypeInv, TypeOK

LEMMA PreemptTyped ==
    ASSUME TypeInv, NEW r \in Requests, Preempt(r)
    PROVE  TypeInv'
    <1>1. gpu' \in [Workers -> [Blocks -> Keys \cup {None}]]
      BY Forgotten DEF Preempt, TypeInv
    <1>2. free' \in SUBSET Blocks
      BY BlocksHeld DEF Preempt, TypeInv, TypeOK
    <1>3. table' \in [Requests -> Seq(Blocks)] /\ external' \in [Requests -> SUBSET Nat]
      BY EmptySeq DEF Preempt, TypeInv, TypeOK
    <1>4. JobsCounted'
      BY DEF Preempt, TypeInv, JobsCounted, CountOf, InFlight, baseVars
    <1>5. RequestShape'
      BY DEF Preempt, TypeInv, TypeOK, RequestShape, ShapeOf, baseVars, semVars
    <1> QED BY <1>1, <1>2, <1>3, <1>4, <1>5
            DEF Preempt, TypeInv, TypeOK, baseVars, semVars

LEMMA ReserveTyped ==
    ASSUME TypeInv, NEW r \in Requests, Reserve(r)
    PROVE  TypeInv'
    <1>0. PICK n \in 1 .. Len(OffloadKeys[r]) :
            \E rank \in Injection(1 .. n, Positions(r)), ids \in Injection(1 .. n, free) :
                Borrow(r, n, rank, ids)
      BY DEF Reserve
    <1>1. PICK rank \in Injection(1 .. n, Positions(r)), ids \in Injection(1 .. n, free) :
            Borrow(r, n, rank, ids)
      BY <1>0
    <1> DEFINE j     == Pick(FreshJobs)
               keys  == [i \in 1 .. n |-> OffloadKeys[r][rank[i]]]
               moves == {[key |-> keys[i], block |-> ids[i]] : i \in 1 .. n}
    <1>2. /\ free' = free \ Range(ids)
          /\ allocated' = HandOut(Range(ids))
          /\ jobs' = [jobs EXCEPT ![j] = NewJob("prefetch", r, moves)]
          /\ stage' = Dispatch(j)
          /\ transferJobs' = Register(r, j)
          /\ reserved' = reserved + n
          /\ prefetched' = [prefetched EXCEPT ![r] = [job |-> j, keys |-> keys, blocks |-> ids]]
      BY <1>1 DEF Borrow
    <1>3. n \in Nat
      BY Chains
    <1>4. ids \in [1 .. n -> Blocks]
      BY DEF TypeInv, TypeOK, Injection
    <1>5. keys \in [1 .. n -> Keys]
      BY Chains DEF Injection
    <1>6. /\ keys \in Seq(Keys) /\ Len(keys) = n
          /\ ids \in Seq(Blocks) /\ Len(ids) = n /\ Range(ids) \subseteq Blocks
      BY <1>3, <1>4, <1>5, Sequences1
    <1>7. moves \in SUBSET Move
      BY <1>4, <1>5 DEF Move
    <1>8. j \in JobIds
      BY FreshPicked DEF Reserve
    <1>9. /\ jobs' \in [JobIds -> Job \cup {None}]
          /\ transferJobs' \in [Requests -> SUBSET JobIds]
          /\ stage' \in [Workers -> [JobIds -> {"none", "sent", "moving", "done", "reported"}]]
          /\ JobsCounted'
      BY <1>2, <1>7, JobStarted DEF Reserve, JobKind
    <1>10. prefetched' = [prefetched EXCEPT ![r] = [job |-> j, keys |-> keys, blocks |-> ids]]
      BY <1>2
    <1>11. free' \in SUBSET Blocks /\ allocated' \in SUBSET Blocks /\ reserved' \in Int
      BY <1>2, <1>3, <1>6 DEF TypeInv, TypeOK, HandOut
    <1>12. todo' \in SUBSET Requests /\ preemptedPending' \in SUBSET Requests
      BY DEF Reserve, TypeInv, TypeOK
    <1>13. UNCHANGED <<phase, status, table, external, preemptedNow, reqStatus, flush,
                   spliceReleases, resetReleases, copies, wpc, copyStage, gpu>>
      BY DEF Reserve
    <1> HIDE DEF j, keys
    <1>14. prefetched' \in [Requests -> PrefetchState \cup {None}]
      BY <1>6, <1>8, <1>10 DEF TypeInv, TypeOK, PrefetchState
    <1>15. RequestShape'
      BY <1>6, <1>10, <1>13 DEF TypeInv, TypeOK, RequestShape, ShapeOf
    <1> QED BY <1>9, <1>11, <1>12, <1>13, <1>14, <1>15 DEF TypeInv, TypeOK

LEMMA SendTyped ==
    ASSUME TypeInv, Send
    PROVE  TypeInv'
    <1>1. /\ jobs' \in [JobIds -> Job \cup {None}]
          /\ transferJobs' \in [Requests -> SUBSET JobIds]
          /\ stage' \in [Workers -> [JobIds -> {"none", "sent", "moving", "done", "reported"}]]
          /\ JobsCounted'
      <2>1. CASE UNCHANGED <<jobs, transferJobs, stage>>
        BY <2>1 DEF TypeInv, TypeOK, JobsCounted, CountOf, InFlight
      <2>2. ASSUME NEW r \in Requests, status[r] = "running", FreshJobs # {},
                   jobs' = [jobs EXCEPT ![Pick(FreshJobs)] =
                               NewJob("store", r, MovesInto(r, table[r], Positions(r)))],
                   stage' = Dispatch(Pick(FreshJobs)),
                   transferJobs' = Register(r, Pick(FreshJobs))
            PROVE  /\ jobs' \in [JobIds -> Job \cup {None}]
                   /\ transferJobs' \in [Requests -> SUBSET JobIds]
                   /\ stage' \in [Workers ->
                         [JobIds -> {"none", "sent", "moving", "done", "reported"}]]
                   /\ JobsCounted'
        <3>1. table[r] \in Seq(Blocks) /\ Len(table[r]) = Len(OffloadKeys[r])
          BY <2>2 DEF TypeInv, TypeOK, RequestShape, ShapeOf
        <3>2. \A i \in Positions(r) : table[r][i] \in Blocks
          BY <3>1, Chains, Sequences2
        <3>3. MovesInto(r, table[r], Positions(r)) \in SUBSET Move
          BY <3>2, Chains DEF MovesInto, Move
        <3> QED BY <2>2, <3>3, JobStarted DEF JobKind
      <2> QED BY <2>1, <2>2 DEF Send
    <1>2. RequestShape'
      BY DEF Send, TypeInv, TypeOK, RequestShape, ShapeOf, semVars
    <1> QED BY <1>1, <1>2 DEF Send, TypeInv, TypeOK, semVars

LEMMA QueueTyped ==
    ASSUME TypeInv,
           \/ BeginStep
           \/ BeginBuild
           \/ \E r \in Requests : StopRetrying(r) \/ RetryLater(r)
    PROVE  TypeInv'
    <1>1. UNCHANGED <<status, table, external, free, preemptedNow, baseVars, prefetched,
                      reserved, spliceReleases, resetReleases, copies, workVars>>
      BY DEF BeginStep, BeginBuild, StopRetrying, RetryLater, coreVars, semVars
    <1>2. preemptedPending' \in SUBSET Requests /\ todo' \in SUBSET Requests
      BY DEF BeginStep, BeginBuild, StopRetrying, RetryLater, semVars, Queued, Retried,
             TypeInv, TypeOK
    <1>3. phase' \in {"idle", "schedule", "build", "execute"}
      BY DEF BeginStep, BeginBuild, StopRetrying, RetryLater, coreVars, TypeInv, TypeOK
    <1>4. JobsCounted'
      BY <1>1 DEF TypeInv, JobsCounted, CountOf, InFlight, baseVars, workVars
    <1>5. RequestShape'
      BY <1>1 DEF TypeInv, RequestShape, ShapeOf, baseVars
    <1> QED BY <1>1, <1>2, <1>3, <1>4, <1>5 DEF TypeInv, TypeOK, baseVars, workVars

\* A worker's steps move stages between values of their types, and none of
\* them brings a job to a worker or takes it away.
LEMMA BindTyped ==
    ASSUME TypeInv, NEW w \in Workers, Bind(w) \/ Report(w)
    PROVE  TypeInv'
    <1>1. UNCHANGED <<coreVars, baseVars, semVars, gpu>>
      BY DEF Bind, Report
    <1>2. wpc' \in [Workers -> {"ready", "bound", "reported"}]
      BY DEF Bind, StartKvTransfers, Report, TypeInv, TypeOK
    <1>3. /\ stage' \in [Workers ->
                            [JobIds -> {"none", "sent", "moving", "done", "reported"}]]
          /\ \A v \in Workers, j \in JobIds : stage'[v][j] = "none" <=> stage[v][j] = "none"
      <2>1. PICK row \in [JobIds -> {"none", "sent", "moving", "done", "reported"}] :
              /\ stage' = [stage EXCEPT ![w] = row]
              /\ \A j \in JobIds : row[j] = "none" <=> stage[w][j] = "none"
        <3>1. CASE Bind(w)
          <4> DEFINE row == [j \in JobIds |->
                              IF j \in flush /\ stage[w][j] \in {"sent", "moving"} THEN "done"
                              ELSE IF stage[w][j] = "sent" THEN "moving"
                              ELSE stage[w][j]]
          <4>1. row \in [JobIds -> {"none", "sent", "moving", "done", "reported"}]
            BY DEF TypeInv, TypeOK
          <4> QED BY <3>1, <4>1 DEF Bind, StartKvTransfers
        <3>2. CASE Report(w)
          <4> DEFINE row == [j \in JobIds |->
                              IF stage[w][j] = "done" THEN "reported" ELSE stage[w][j]]
          <4>1. row \in [JobIds -> {"none", "sent", "moving", "done", "reported"}]
            BY DEF TypeInv, TypeOK
          <4> QED BY <3>2, <4>1 DEF Report
        <3> QED BY <3>1, <3>2
      <2> QED BY <2>1 DEF TypeInv, TypeOK
    <1>4. copyStage' \in [Workers ->
                             [SpliceIds -> {"none", "sent", "copying", "done", "reported"}]]
      <2>1. PICK row \in [SpliceIds -> {"none", "sent", "copying", "done", "reported"}] :
              copyStage' = [copyStage EXCEPT ![w] = row]
        <3>1. CASE Bind(w)
          <4> DEFINE row == [s \in SpliceIds |->
                        IF copyStage[w][s] = "sent" THEN "copying" ELSE copyStage[w][s]]
          <4>1. row \in [SpliceIds -> {"none", "sent", "copying", "done", "reported"}]
            BY DEF TypeInv, TypeOK
          <4> QED BY <3>1, <4>1 DEF Bind, StartKvTransfers
        <3>2. CASE Report(w)
          <4> DEFINE row == [s \in SpliceIds |->
                        IF copyStage[w][s] = "done" THEN "reported" ELSE copyStage[w][s]]
          <4>1. row \in [SpliceIds -> {"none", "sent", "copying", "done", "reported"}]
            BY DEF TypeInv, TypeOK
          <4> QED BY <3>2, <4>1 DEF Report
        <3> QED BY <3>1, <3>2
      <2> QED BY <2>1 DEF TypeInv, TypeOK
    <1>5. JobsCounted'
      <2>1. \A j \in JobIds : InFlight(j)' = InFlight(j)
        BY <1>3 DEF InFlight
      <2> QED BY <1>1, <2>1 DEF TypeInv, JobsCounted, CountOf, baseVars
    <1>6. RequestShape'
      BY <1>1 DEF TypeInv, RequestShape, ShapeOf, coreVars, baseVars, semVars
    <1> QED BY <1>1, <1>2, <1>3, <1>4, <1>5, <1>6
            DEF TypeInv, TypeOK, coreVars, baseVars, semVars

LEMMA TransferDoneTyped ==
    ASSUME TypeInv, NEW w \in Workers, NEW j \in JobIds, TransferDone(w, j)
    PROVE  TypeInv'
    <1>1. UNCHANGED <<coreVars, baseVars, semVars, wpc, copyStage>>
      BY DEF TransferDone
    <1>2. /\ stage' \in [Workers ->
                            [JobIds -> {"none", "sent", "moving", "done", "reported"}]]
          /\ \A v \in Workers, k \in JobIds : stage'[v][k] = "none" <=> stage[v][k] = "none"
      BY DEF TransferDone, TypeInv, TypeOK
    <1>3. JobsCounted'
      <2>1. \A k \in JobIds : InFlight(k)' = InFlight(k)
        BY <1>2 DEF InFlight
      <2> QED BY <1>1, <2>1 DEF TypeInv, JobsCounted, CountOf, baseVars
    <1>4. RequestShape'
      BY <1>1 DEF TypeInv, RequestShape, ShapeOf, coreVars, baseVars, semVars
    <1>5. gpu' \in [Workers -> [Blocks -> Keys \cup {None}]]
      <2>1. jobs[j] \in Job
        <3>1. w \in InFlight(j)
          BY DEF TransferDone, InFlight
        <3> QED BY <3>1 DEF TypeInv, TypeOK, JobsCounted, CountOf
      <2>2. \A b \in Blocks : (\E m \in jobs[j].moves : m.block = b) =>
                (CHOOSE m \in jobs[j].moves : m.block = b).key \in Keys
        BY <2>1 DEF Job, Move
      <2> QED BY <2>2 DEF TransferDone, TypeInv, TypeOK
    <1> QED BY <1>1, <1>2, <1>3, <1>4, <1>5
            DEF TypeInv, TypeOK, coreVars, baseVars, semVars

LEMMA SpliceDoneTyped ==
    ASSUME TypeInv, NEW w \in Workers, NEW s \in SpliceIds, SpliceDone(w, s)
    PROVE  TypeInv'
    <1>1. UNCHANGED <<coreVars, baseVars, semVars, wpc, stage>>
      BY DEF SpliceDone
    <1>2. copyStage' \in [Workers ->
                             [SpliceIds -> {"none", "sent", "copying", "done", "reported"}]]
      BY DEF SpliceDone, TypeInv, TypeOK
    <1>3. JobsCounted'
      BY <1>1 DEF TypeInv, JobsCounted, CountOf, InFlight, baseVars
    <1>4. RequestShape'
      BY <1>1 DEF TypeInv, RequestShape, ShapeOf, coreVars, baseVars, semVars
    <1>5. gpu' \in [Workers -> [Blocks -> Keys \cup {None}]]
      <2>1. \A b \in Destinations(s) : (CHOOSE c \in copies[s] : c.dst = b).src \in Blocks
        BY DEF Destinations, TypeInv, TypeOK, Copy
      <2> QED BY <2>1 DEF SpliceDone, TypeInv, TypeOK
    <1> QED BY <1>1, <1>2, <1>3, <1>4, <1>5
            DEF TypeInv, TypeOK, coreVars, baseVars, semVars

LEMMA FinishTyped ==
    ASSUME TypeInv, NEW r \in Requests, Finish(r)
    PROVE  TypeInv'
    <1> DEFINE returned == IF Settled(r) THEN PrefetchBlocks(r) ELSE {}
               vacated  == IF status[r] = "loading" THEN {} ELSE Range(table[r])
    <1>1. returned \in SUBSET Blocks /\ vacated \in SUBSET Blocks
      BY BlocksHeld DEF TypeInv
    <1>2. free' \in SUBSET Blocks
      BY <1>1 DEF Finish, TypeInv, TypeOK
    <1>3. gpu' \in [Workers -> [Blocks -> Keys \cup {None}]]
      BY Forgotten DEF Finish, TypeInv
    <1>4. reserved' \in Int
      <2>1. Cardinality(returned) \in Int
        BY BlocksHeld, FS_EmptySet DEF TypeInv
      <2> QED BY <2>1 DEF Finish, TypeInv, TypeOK
    <1>5. /\ status' = [status EXCEPT ![r] = "finished"]
          /\ reqStatus' \in {reqStatus, reqStatus \ {r}}
          /\ table' \in {table, [table EXCEPT ![r] = <<>>]}
          /\ prefetched' \in {prefetched, [prefetched EXCEPT ![r] = None]}
          /\ external' \in {external, [external EXCEPT ![r] = {}]}
          /\ preemptedPending' = preemptedPending \ {r}
          /\ UNCHANGED <<phase, preemptedNow, jobs, transferJobs, allocated, flush, todo,
                         spliceReleases, resetReleases, copies, wpc, stage, copyStage>>
      BY DEF Finish, Unqueued
    <1>6. /\ status' \in [Requests -> {"waiting", "running", "loading", "preempted",
                                       "finished"}]
          /\ table' \in [Requests -> Seq(Blocks)]
          /\ external' \in [Requests -> SUBSET Nat]
          /\ prefetched' \in [Requests -> PrefetchState \cup {None}]
      <2>1. status' \in [Requests -> {"waiting", "running", "loading", "preempted",
                                      "finished"}]
        BY <1>5 DEF TypeInv, TypeOK
      <2>2. table' \in [Requests -> Seq(Blocks)]
        <3>1. <<>> \in Seq(Blocks) /\ table \in [Requests -> Seq(Blocks)]
          BY EmptySeq DEF TypeInv, TypeOK
        <3>2. [table EXCEPT ![r] = <<>>] \in [Requests -> Seq(Blocks)]
          BY <3>1
        <3> QED BY <1>5, <3>1, <3>2
      <2>3. external' \in [Requests -> SUBSET Nat]
        BY <1>5 DEF TypeInv, TypeOK
      <2>4. prefetched' \in [Requests -> PrefetchState \cup {None}]
        BY <1>5 DEF TypeInv, TypeOK
      <2> QED BY <2>1, <2>2, <2>3, <2>4
    <1>7. JobsCounted'
      BY <1>5 DEF TypeInv, JobsCounted, CountOf, InFlight
    <1>8. RequestShape'
      BY <1>5 DEF TypeInv, TypeOK, RequestShape, ShapeOf
    <1> QED BY <1>2, <1>3, <1>4, <1>5, <1>6, <1>7, <1>8 DEF TypeInv, TypeOK

LEMMA ResetCacheTyped ==
    ASSUME TypeInv, ResetCache
    PROVE  TypeInv'
    <1> DEFINE settled  == {r \in Requests : Settled(r)}
               loading  == {r \in Requests \ settled : prefetched[r] # None}
               returned == UNION {PrefetchBlocks(r) : r \in settled}
               loaned   == {p \in settled \X Blocks : p[2] \in PrefetchBlocks(p[1])}
    <1>1. returned \in SUBSET Blocks
      BY BlocksHeld DEF TypeInv
    <1>2. free' \in SUBSET Blocks
      BY <1>1 DEF ResetCache, TypeInv, TypeOK
    <1>3. gpu' \in [Workers -> [Blocks -> Keys \cup {None}]]
      BY Forgotten DEF ResetCache, TypeInv
    <1>4. reserved' \in Int
      <2>1. IsFiniteSet(Requests \X Blocks) /\ loaned \in SUBSET (Requests \X Blocks)
        BY FiniteAssumption, FS_Product
      <2>2. Cardinality(loaned) \in Nat
        BY <2>1, FS_Subset, FS_CardinalityType
      <2> QED BY <2>2 DEF ResetCache, TypeInv, TypeOK
    <1>5. resetReleases' \in [JobIds -> Release \cup {None}]
      <2>1. ASSUME NEW j \in JobIds, NEW r \in loading, prefetched[r].job = j
            PROVE  [blocks |-> PrefetchBlocks(jobs[j].req), remaining |-> jobs[j].pending]
                      \in Release
        <3>1. jobs[j] \in Job
          BY <2>1 DEF Settled, Live, TypeInv, TypeOK
        <3>2. PrefetchBlocks(jobs[j].req) \in SUBSET Blocks
          BY <3>1, BlocksHeld DEF Job, TypeInv
        <3> QED BY <3>1, <3>2 DEF Job, Release
      <2>2. \A j \in JobIds : resetReleases[j] \in Release \cup {None}
        BY DEF TypeInv, TypeOK
      <2>3. resetReleases' = [j \in JobIds |->
                IF \E r \in loading : prefetched[r].job = j
                THEN [blocks |-> PrefetchBlocks(jobs[j].req), remaining |-> jobs[j].pending]
                ELSE resetReleases[j]]
        BY DEF ResetCache
      <2> HIDE DEF loading
      <2> QED BY <2>1, <2>2, <2>3
    <1>6. /\ prefetched' = [r \in Requests |-> None]
          /\ preemptedPending' = {}
          /\ UNCHANGED <<phase, status, table, external, preemptedNow, baseVars, todo,
                         spliceReleases, copies, wpc, stage, copyStage>>
      BY DEF ResetCache
    <1>7. JobsCounted'
      BY <1>6 DEF TypeInv, JobsCounted, CountOf, InFlight, baseVars
    <1>8. RequestShape'
      BY <1>6 DEF TypeInv, TypeOK, RequestShape, ShapeOf, baseVars
    <1> QED BY <1>2, <1>3, <1>4, <1>5, <1>6, <1>7, <1>8 DEF TypeInv, TypeOK, baseVars

\* A job is removed only when every worker has delivered its completion; the
\* others go on waiting for those that have not.
LEMMA CompletionCounted ==
    ASSUME TypeInv, UpdateOutput, NEW j \in JobIds
    PROVE  /\ jobs'[j] \in Job \cup {None}
           /\ Live(j) /\ j \notin CompletedJobs => jobs'[j] \in Job
           /\ CountOf(j)'
    <1> DEFINE delivered == {w \in Workers : stage[w][j] = "reported"}
    <1>1. /\ jobs'[j] = IF Live(j) /\ j \notin CompletedJobs
                        THEN [jobs[j] EXCEPT !.pending = @ - JobReports(j)] ELSE None
          /\ \A w \in Workers : stage'[w][j] = IF stage[w][j] = "reported" THEN "none"
                                               ELSE stage[w][j]
      BY DEF UpdateOutput
    <1>2. InFlight(j)' = InFlight(j) \ delivered
      BY <1>1 DEF InFlight
    <1>3. /\ delivered \in SUBSET InFlight(j) /\ InFlight(j) \in SUBSET Workers
          /\ JobReports(j) = Cardinality(delivered)
      BY DEF InFlight, JobReports
    <1>4. /\ IsFiniteSet(InFlight(j)) /\ IsFiniteSet(delivered)
          /\ Cardinality(InFlight(j)) \in Nat /\ Cardinality(delivered) \in Nat
      BY <1>3, WorkersCounted
    <1>5. CASE jobs[j] = None
      BY <1>1, <1>2, <1>5 DEF TypeInv, JobsCounted, CountOf, Live
    <1>6. CASE jobs[j] # None /\ jobs[j].pending <= JobReports(j)
      <2>1. jobs'[j] = None
        BY <1>1, <1>6 DEF CompletedJobs, Live
      <2>2. Cardinality(InFlight(j)) <= Cardinality(delivered)
        BY <1>3, <1>6 DEF TypeInv, JobsCounted, CountOf
      <2>3. Cardinality(delivered) <= Cardinality(InFlight(j))
        BY <1>3, <1>4, FS_Subset
      <2>4. delivered = InFlight(j)
        BY <1>3, <1>4, <2>2, <2>3, FS_Subset
      <2> QED BY <1>2, <1>6, <2>1, <2>4 DEF CountOf, CompletedJobs
    <1>7. CASE jobs[j] # None /\ ~(jobs[j].pending <= JobReports(j))
      <2>1. jobs'[j] = [jobs[j] EXCEPT !.pending = @ - JobReports(j)]
        BY <1>1, <1>7 DEF CompletedJobs, Live
      <2>2. jobs[j] \in Job /\ jobs[j].pending = Cardinality(InFlight(j))
        BY <1>7 DEF TypeInv, TypeOK, JobsCounted, CountOf
      <2>3. jobs[j].pending - JobReports(j) \in 1 .. NumWorkers
        BY <1>3, <1>4, <1>7, <2>2, WorkersCounted DEF Job
      <2>4. jobs'[j] \in Job
        BY <2>1, <2>2, <2>3 DEF Job
      <2>5. jobs'[j].pending = Cardinality(InFlight(j)) - Cardinality(delivered)
        BY <1>3, <2>1, <2>2 DEF Job
      <2>6. InFlight(j) \cap delivered = delivered
        BY <1>3
      <2>7. Cardinality(InFlight(j) \ delivered) =
                Cardinality(InFlight(j)) - Cardinality(delivered)
        BY <1>4, <2>6, FS_Difference
      <2> QED BY <1>2, <2>4, <2>5, <2>7, NoneAssumption DEF CountOf
    <1> QED BY <1>5, <1>6, <1>7

\* A countdown that is not over keeps a positive remainder.
LEMMA CountedDown ==
    ASSUME NEW Ids, NEW releases \in [Ids -> Release \cup {None}], NEW id \in Ids,
           NEW count \in 0 .. NumWorkers, NEW acked,
           id \in acked <=> releases[id] # None /\ releases[id].remaining <= count
    PROVE  CountDown(releases, id, count, acked) \in Release \cup {None}
    <1>1. CASE releases[id] = None \/ id \in acked
      BY <1>1 DEF CountDown
    <1>2. CASE ~(releases[id] = None \/ id \in acked)
      <2>1. releases[id] \in Release /\ releases[id].remaining - count \in 1 .. NumWorkers
        BY <1>2, WorkersCounted DEF Release
      <2> QED BY <1>2, <2>1 DEF CountDown, Release
    <1> QED BY <1>1, <1>2

LEMMA ReturnedTyped ==
    ASSUME TypeInv, NEW orphans \in SUBSET Requests
    PROVE  /\ ReturnedBlocks(orphans) \in SUBSET Blocks
           /\ ReturnedCount(orphans) \in Nat
    <1>1. ReturnedBlocks(orphans) \in SUBSET Blocks
      <2>1. \A s \in AckedSplices : spliceReleases[s].blocks \in SUBSET Blocks
        BY DEF AckedSplices, TypeInv, TypeOK, Release
      <2>2. \A j \in AckedResets : resetReleases[j].blocks \in SUBSET Blocks
        BY DEF AckedResets, TypeInv, TypeOK, Release
      <2>3. \A r \in orphans : PrefetchBlocks(r) \in SUBSET Blocks
        BY BlocksHeld DEF TypeInv
      <2> QED BY <2>1, <2>2, <2>3 DEF ReturnedBlocks
    <1>2. ASSUME NEW S, IsFiniteSet(S), NEW P \in SUBSET (S \X Blocks)
          PROVE  Cardinality(P) \in Nat
      BY <1>2, FiniteAssumption, FS_Product, FS_Subset, FS_CardinalityType
    <1>3. IsFiniteSet(AckedSplices) /\ IsFiniteSet(AckedResets) /\ IsFiniteSet(orphans)
      BY FiniteAssumption, FS_Subset DEF AckedSplices, AckedResets
    <1>4. /\ Cardinality({p \in AckedSplices \X Blocks :
                            p[2] \in spliceReleases[p[1]].blocks}) \in Nat
          /\ Cardinality({p \in AckedResets \X Blocks :
                            p[2] \in resetReleases[p[1]].blocks}) \in Nat
          /\ Cardinality({p \in orphans \X Blocks : p[2] \in PrefetchBlocks(p[1])}) \in Nat
      BY <1>2, <1>3
    <1> QED BY <1>1, <1>4 DEF ReturnedCount

LEMMA UpdateOutputTyped ==
    ASSUME TypeInv, UpdateOutput
    PROVE  TypeInv'
    <1> DEFINE closed   == {r \in Received : status[r] = "finished"}
               orphans  == Orphans(reqStatus')
               returned == ReturnedBlocks(orphans)
               vacated  == UNION {Range(table[r]) : r \in closed}
    <1>1. jobs' \in [JobIds -> Job \cup {None}] /\ JobsCounted'
      BY CompletionCounted DEF UpdateOutput, JobsCounted
    <1>2. closed \in SUBSET Requests /\ orphans \in SUBSET Requests
      BY DEF Received, CompletedJobs, Live, Orphans, TypeInv, TypeOK, Job
    <1>3. returned \in SUBSET Blocks /\ vacated \in SUBSET Blocks
      BY <1>2, BlocksHeld, ReturnedTyped DEF TypeInv
    <1>4. free' \in SUBSET Blocks
      BY <1>3 DEF UpdateOutput, TypeInv, TypeOK
    <1>5. gpu' \in [Workers -> [Blocks -> Keys \cup {None}]]
      BY Forgotten DEF UpdateOutput, TypeInv
    <1>6. reserved' \in Int
      <2>1. reserved' = reserved - ReturnedCount(orphans)
        BY DEF UpdateOutput
      <2> QED BY <1>2, <2>1, ReturnedTyped DEF TypeInv, TypeOK
    <1>7. spliceReleases' \in [SpliceIds -> Release \cup {None}]
      <2>1. \A s \in SpliceIds :
              CountDown(spliceReleases, s, SpliceReports(s), AckedSplices)
                \in Release \cup {None}
        BY CountedDown, WorkersCounted DEF AckedSplices, SpliceReports, TypeInv, TypeOK
      <2> QED BY <2>1 DEF UpdateOutput
    <1>8. resetReleases' \in [JobIds -> Release \cup {None}]
      <2>1. \A j \in JobIds :
              CountDown(resetReleases, j, JobReports(j), AckedResets) \in Release \cup {None}
        BY CountedDown, WorkersCounted DEF AckedResets, JobReports, TypeInv, TypeOK
      <2> QED BY <2>1 DEF UpdateOutput
    <1>9. /\ table' = [r \in Requests |-> IF r \in closed THEN <<>> ELSE table[r]]
          /\ external' = [r \in Requests |-> IF r \in closed THEN {} ELSE external[r]]
          /\ prefetched' = [r \in Requests |-> IF r \in orphans THEN None ELSE prefetched[r]]
          /\ status' = [r \in Requests |->
                IF r \in Received /\ status[r] = "loading" THEN "running" ELSE status[r]]
          /\ reqStatus' = {r \in reqStatus : status[r] = "finished" => transferJobs'[r] # {}}
      BY DEF UpdateOutput
    <1>10. /\ status' \in [Requests -> {"waiting", "running", "loading", "preempted",
                                        "finished"}]
           /\ external' \in [Requests -> SUBSET Nat]
           /\ reqStatus' \in SUBSET Requests
           /\ prefetched' \in [Requests -> PrefetchState \cup {None}]
      BY <1>9 DEF TypeInv, TypeOK
    <1>11. table' \in [Requests -> Seq(Blocks)]
      <2>1. \A r \in Requests : table[r] \in Seq(Blocks) /\ <<>> \in Seq(Blocks)
        BY EmptySeq DEF TypeInv, TypeOK
      <2> HIDE DEF closed
      <2> QED BY <1>9, <2>1
    <1>12. transferJobs' \in [Requests -> SUBSET JobIds] /\ flush' \in SUBSET JobIds
      BY DEF UpdateOutput, TypeInv, TypeOK
    <1>13. /\ stage' \in [Workers ->
                            [JobIds -> {"none", "sent", "moving", "done", "reported"}]]
           /\ copyStage' \in [Workers ->
                            [SpliceIds -> {"none", "sent", "copying", "done", "reported"}]]
           /\ wpc' \in [Workers -> {"ready", "bound", "reported"}]
      BY DEF UpdateOutput, TypeInv, TypeOK
    <1>14. copies' \in [SpliceIds -> SUBSET Copy]
      BY DEF UpdateOutput, TypeInv, TypeOK
    <1>15. ASSUME NEW r \in Requests PROVE ShapeOf(r)'
      <2>1. status'[r] \in {"running", "loading"} =>
                /\ status[r] \in {"running", "loading"}
                /\ table'[r] = table[r]
                /\ r \in reqStatus => r \in reqStatus'
        BY <1>9 DEF TypeInv, TypeOK
      <2>2. prefetched'[r] # None => prefetched'[r] = prefetched[r]
        BY <1>9
      <2> QED BY <2>1, <2>2 DEF TypeInv, RequestShape, ShapeOf
    <1>16. phase' = "idle"
           /\ UNCHANGED <<preemptedNow, allocated, preemptedPending, todo>>
      BY DEF UpdateOutput
    <1>17. RequestShape'
      BY <1>15 DEF RequestShape
    <1> QED BY <1>1, <1>4, <1>5, <1>6, <1>7, <1>8, <1>10, <1>11, <1>12, <1>13, <1>14, <1>16,
               <1>17
            DEF TypeInv, TypeOK

LEMMA TypeStep == TypeInv /\ [Next]_vars => TypeInv'
    <1> SUFFICES ASSUME TypeInv, [Next]_vars PROVE TypeInv'
      OBVIOUS
    <1>1. CASE UNCHANGED vars
      BY <1>1 DEF vars, coreVars, baseVars, semVars, workVars, TypeInv, TypeOK, JobsCounted,
                  CountOf, InFlight, RequestShape, ShapeOf
    <1>2. CASE SchedulerStep
      BY <1>2, QueueTyped, SendTyped, UpdateOutputTyped, ReserveTyped DEF SchedulerStep
    <1>3. CASE WorkerStep
      BY <1>3, BindTyped, TransferDoneTyped, SpliceDoneTyped DEF WorkerStep
    <1>4. CASE \E r \in Requests : \/ Preempt(r)
                                   \/ AdmitNormally(r)
                                   \/ AdmitSpliced(r)
                                   \/ Finish(r)
      BY <1>4, PreemptTyped, AdmitNormallyTyped, AdmitSplicedTyped, FinishTyped
    <1>5. CASE ResetCache
      BY <1>5, ResetCacheTyped
    <1> QED BY <1>1, <1>2, <1>3, <1>4, <1>5 DEF Next

LEMMA TypeInvariant == Spec => []TypeInv
    BY TypeInit, TypeStep, PTL DEF Spec

\* The connector's state has the types of the code, in particular: every
\* countdown of a release stays positive until its entry is deleted, and a
\* completed transfer belongs to a job that is still tracked (611-677).
THEOREM TypeCorrect == Spec => []TypeOK
    <1>1. TypeInv => TypeOK
      BY DEF TypeInv
    <1> QED BY <1>1, TypeInvariant, PTL

---------------------------------------------------------------------------
(***************************************************************************)
(* Proofs about the transfer jobs of SemanticConnector: what the base      *)
(* connector relies on when it completes, flushes and reports them.        *)
(*                                                                         *)
(* None of these properties is inductive alone.  A load wakes a request    *)
(* that waits for it only because no other job of this request is tracked, *)
(* which is so because admission is deferred until transfer_jobs is empty, *)
(* which says nothing unless every tracked job is registered there; and a  *)
(* flush meets only stores because a prefetch exists only for a request    *)
(* that was queued in an earlier pass.  JobInv is their conjunction.       *)
(***************************************************************************)

\* What a tracked job says of its request.
JobFits(j) ==
    Live(j) =>
        /\ j \in transferJobs[jobs[j].req]
        /\ jobs[j].req \in reqStatus
        /\ jobs[j].kind = "load" => status[jobs[j].req] \in {"loading", "finished"}
        /\ jobs[j].kind = "prefetch" => status[jobs[j].req] \in {"preempted", "finished"}
        /\ jobs[j].req \in preemptedNow => jobs[j].kind = "store"
JobsFit == \A j \in JobIds : JobFits(j)

\* A request has at most one load, and transfer_jobs names only its own jobs.
OneLoad ==
    \A j, k \in JobIds :
        /\ Live(j) /\ jobs[j].kind = "load"
        /\ Live(k) /\ jobs[k].kind = "load" /\ jobs[k].req = jobs[j].req
        => j = k
OwnJobs ==
    \A r \in Requests : \A j \in transferJobs[r] : Live(j) /\ jobs[j].req = r

\* Where a request may be while it is queued or has a prefetch.
PlaceOf(r) ==
    /\ prefetched[r] # None => status[r] \in {"preempted", "finished"}
    /\ r \in preemptedPending \cup todo \cup preemptedNow =>
         status[r] = "preempted" /\ prefetched[r] = None
    /\ r \in preemptedNow => phase \in {"schedule", "build"} /\ r \notin todo
    /\ r \in todo => phase = "build"
Places == \A r \in Requests : PlaceOf(r)

JobInv == JobsFit /\ OneLoad /\ OwnJobs /\ Places

---------------------------------------------------------------------------
LEMMA JobsInit == Init => JobInv
    BY DEF Init, JobInv, JobsFit, JobFits, OneLoad, OwnJobs, Places, PlaceOf, Live

LEMMA JobTyped ==
    ASSUME TypeInv, NEW j \in JobIds, Live(j)
    PROVE  jobs[j] \in Job /\ jobs[j].req \in Requests /\ jobs[j].kind \in JobKind
    BY DEF TypeInv, TypeOK, Live, Job

\* A new job is the only change, and it is registered with its request.
LEMMA JobAdded ==
    ASSUME TypeInv, JobInv, FreshJobs # {}, NEW kind \in JobKind, NEW r \in Requests,
           NEW moves, NEW j, j = Pick(FreshJobs),
           jobs' = [jobs EXCEPT ![j] = NewJob(kind, r, moves)],
           transferJobs' = Register(r, j)
    PROVE  /\ j \in JobIds /\ ~Live(j)
           /\ jobs'[j].kind = kind /\ jobs'[j].req = r
           /\ j \in transferJobs'[r]
           /\ \A k \in JobIds : k # j => jobs'[k] = jobs[k]
           /\ \A q \in Requests : transferJobs[q] \subseteq transferJobs'[q]
    <1>1. j \in JobIds /\ jobs[j] = None
      BY FreshPicked
    <1>2. jobs'[j] = NewJob(kind, r, moves) /\ \A k \in JobIds : k # j => jobs'[k] = jobs[k]
      BY <1>1 DEF TypeInv, TypeOK
    <1>3. transferJobs' = [transferJobs EXCEPT ![r] = @ \cup {j}]
      BY DEF Register
    <1> QED BY <1>1, <1>2, <1>3 DEF TypeInv, TypeOK, Live, NewJob

LEMMA JobAddedOwn ==
    ASSUME TypeInv, JobInv, FreshJobs # {}, NEW kind \in JobKind, NEW r \in Requests,
           NEW moves \in SUBSET Move, NEW j, j = Pick(FreshJobs),
           jobs' = [jobs EXCEPT ![j] = NewJob(kind, r, moves)],
           transferJobs' = Register(r, j)
    PROVE  OwnJobs'
    <1>1. j \in JobIds /\ jobs[j] = None
      BY FreshPicked
    <1>2. NewJob(kind, r, moves) \in Job
      BY WorkersCounted DEF NewJob, Job
    <1>3. /\ jobs'[j] = NewJob(kind, r, moves) /\ jobs'[j] # None
          /\ \A k \in JobIds : k # j => jobs'[k] = jobs[k]
      BY <1>1, <1>2, NoneAssumption DEF TypeInv, TypeOK
    <1>4. ASSUME NEW q \in Requests, NEW k \in transferJobs'[q]
          PROVE  jobs'[k] # None /\ jobs'[k].req = q
      <2>1. CASE k = j
        <3>1. q = r
          <4>1. j \notin transferJobs[q]
            BY <1>1 DEF JobInv, OwnJobs, Live
          <4> QED BY <1>4, <2>1, <4>1 DEF Register, TypeInv, TypeOK
        <3> QED BY <1>3, <2>1, <3>1 DEF NewJob
      <2>2. CASE k # j
        <3>1. k \in transferJobs[q]
          BY <1>4, <2>2 DEF Register, TypeInv, TypeOK
        <3>2. k \in JobIds
          BY <3>1 DEF TypeInv, TypeOK
        <3> QED BY <1>3, <2>2, <3>1, <3>2 DEF JobInv, OwnJobs, Live
      <2> QED BY <2>1, <2>2
    <1> QED BY <1>4 DEF OwnJobs, Live

\* Actions that touch neither jobs nor where a tracked job's request is.
LEMMA JobsUndisturbed ==
    ASSUME TypeInv, JobInv, UNCHANGED <<jobs, transferJobs>>,
           reqStatus \subseteq reqStatus',
           preemptedNow' \subseteq preemptedNow,
           UNCHANGED status
    PROVE  JobsFit' /\ OneLoad' /\ OwnJobs'
    BY JobTyped DEF JobInv, JobsFit, JobFits, OneLoad, OwnJobs, Live

LEMMA PreemptJobs ==
    ASSUME TypeInv, JobInv, NEW r \in Requests, Preempt(r)
    PROVE  JobInv'
    <1>1. /\ UNCHANGED <<jobs, transferJobs, reqStatus, prefetched, preemptedPending, todo>>
          /\ phase = "schedule" /\ phase' = phase
          /\ status[r] = "running" /\ status' = [status EXCEPT ![r] = "preempted"]
          /\ preemptedNow' = preemptedNow \cup {r}
      BY DEF Preempt, baseVars, semVars
    <1>2. OneLoad' /\ OwnJobs'
      BY <1>1 DEF JobInv, OneLoad, OwnJobs, Live
    <1>3. ASSUME NEW j \in JobIds PROVE JobFits(j)'
      BY <1>1, JobTyped DEF JobInv, JobsFit, JobFits, Live, TypeInv, TypeOK, JobKind
    <1>4. ASSUME NEW q \in Requests PROVE PlaceOf(q)'
      BY <1>1 DEF JobInv, Places, PlaceOf, TypeInv, TypeOK
    <1> QED BY <1>2, <1>3, <1>4 DEF JobInv, JobsFit, Places

\* The part of both admissions that matters here.
LEMMA AdmitJobs ==
    ASSUME TypeInv, JobInv, NEW r \in Requests, NEW t \in NewTables(r),
           NEW plan \in LoadPlans(r), NEW P \in SUBSET plan,
           CanAdmit(r), Admitted(r, t, plan), StartLoad(r, t, P)
    PROVE  JobInv'
    <1>1. /\ phase = "schedule" /\ transferJobs[r] = {} /\ r \notin preemptedNow
          /\ status[r] \in {"waiting", "preempted"}
          /\ status' = [status EXCEPT ![r] = IF plan = {} THEN "running" ELSE "loading"]
          /\ reqStatus' = reqStatus \cup {r}
          /\ preemptedPending' = preemptedPending \ {r}
          /\ prefetched' = [prefetched EXCEPT ![r] = None]
          /\ UNCHANGED <<phase, preemptedNow, todo>>
      BY DEF CanAdmit, Admitted, Unqueued
    <1>2. \A j \in JobIds : Live(j) => jobs[j].req # r
      BY <1>1 DEF JobInv, JobsFit, JobFits
    <1>3. ASSUME NEW q \in Requests PROVE PlaceOf(q)'
      BY <1>1 DEF JobInv, Places, PlaceOf, TypeInv, TypeOK
    <1>4. JobsFit' /\ OneLoad' /\ OwnJobs'
      <2>1. CASE P = {}
        <3>1. UNCHANGED <<jobs, transferJobs>>
          BY <2>1 DEF StartLoad
        <3>2. ASSUME NEW j \in JobIds PROVE JobFits(j)'
          BY <1>1, <1>2, <3>1, JobTyped DEF JobInv, JobsFit, JobFits, Live, TypeInv, TypeOK
        <3> QED BY <3>1, <3>2 DEF JobInv, JobsFit, OneLoad, OwnJobs, Live
      <2>2. CASE P # {}
        <3> DEFINE j == Pick(FreshJobs)
                   moves == MovesInto(r, t, P)
        <3>1. /\ FreshJobs # {}
              /\ jobs' = [jobs EXCEPT ![j] = NewJob("load", r, moves)]
              /\ transferJobs' = Register(r, j)
          BY <2>2 DEF StartLoad
        <3>2. moves \in SUBSET Move
          BY Chains, NewTable, PlansInside DEF MovesInto, Move, TypeInv
        <3>3. OwnJobs'
          BY <3>1, <3>2, JobAddedOwn DEF JobKind
        <3>4. /\ j \in JobIds /\ ~Live(j)
              /\ jobs'[j].kind = "load" /\ jobs'[j].req = r
              /\ j \in transferJobs'[r]
              /\ \A k \in JobIds : k # j => jobs'[k] = jobs[k]
              /\ \A q \in Requests : transferJobs[q] \subseteq transferJobs'[q]
          BY <3>1, JobAdded DEF JobKind
        <3>5. plan # {}
          BY <2>2
        <3> HIDE DEF j
        <3>6. ASSUME NEW k \in JobIds PROVE JobFits(k)'
          <4>1. CASE k = j
            BY <1>1, <3>4, <3>5, <4>1 DEF JobFits, TypeInv, TypeOK
          <4>2. CASE k # j
            BY <1>1, <1>2, <3>4, <4>2, JobTyped
               DEF JobInv, JobsFit, JobFits, Live, TypeInv, TypeOK
          <4> QED BY <4>1, <4>2
        <3>7. OneLoad'
          BY <1>2, <3>4 DEF JobInv, OneLoad, Live
        <3> QED BY <3>3, <3>6, <3>7 DEF JobsFit
      <2> QED BY <2>1, <2>2
    <1> QED BY <1>3, <1>4 DEF JobInv, Places

LEMMA ReserveJobs ==
    ASSUME TypeInv, JobInv, NEW r \in Requests, Reserve(r)
    PROVE  JobInv'
    <1>0. PICK n \in 1 .. Len(OffloadKeys[r]) :
            \E rank \in Injection(1 .. n, Positions(r)), ids \in Injection(1 .. n, free) :
                Borrow(r, n, rank, ids)
      BY DEF Reserve
    <1>1. PICK rank \in Injection(1 .. n, Positions(r)), ids \in Injection(1 .. n, free) :
            Borrow(r, n, rank, ids)
      BY <1>0
    <1> DEFINE j     == Pick(FreshJobs)
               keys  == [i \in 1 .. n |-> OffloadKeys[r][rank[i]]]
               moves == {[key |-> keys[i], block |-> ids[i]] : i \in 1 .. n}
    <1>2. /\ FreshJobs # {}
          /\ jobs' = [jobs EXCEPT ![j] = NewJob("prefetch", r, moves)]
          /\ transferJobs' = Register(r, j)
          /\ prefetched' = [prefetched EXCEPT ![r] = [job |-> j, keys |-> keys, blocks |-> ids]]
      BY <1>1 DEF Borrow, Reserve
    <1>3. moves \in SUBSET Move
      <2>1. rank \in [1 .. n -> Positions(r)] /\ ids \in [1 .. n -> Blocks]
        BY DEF Injection, TypeInv, TypeOK
      <2> QED BY <2>1, Chains DEF Move
    <1>4. OwnJobs'
      BY <1>2, <1>3, JobAddedOwn DEF JobKind
    <1>5. /\ j \in JobIds /\ ~Live(j)
          /\ jobs'[j].kind = "prefetch" /\ jobs'[j].req = r
          /\ j \in transferJobs'[r]
          /\ \A k \in JobIds : k # j => jobs'[k] = jobs[k]
          /\ \A q \in Requests : transferJobs[q] \subseteq transferJobs'[q]
      BY <1>2, JobAdded DEF JobKind
    <1>6. /\ phase = "build" /\ r \in todo /\ r \in reqStatus
          /\ todo' = todo \ {r} /\ preemptedPending' = preemptedPending \ {r}
          /\ UNCHANGED <<phase, status, preemptedNow, reqStatus>>
      BY DEF Reserve, NothingToRetry
    <1>7. status[r] = "preempted" /\ r \notin preemptedNow
      BY <1>6 DEF JobInv, Places, PlaceOf
    <1>8. \A q \in Requests : q # r => prefetched'[q] = prefetched[q]
      BY <1>2 DEF TypeInv, TypeOK
    <1> HIDE DEF j
    <1>9. ASSUME NEW k \in JobIds PROVE JobFits(k)'
      <2>1. CASE k = j
        BY <1>5, <1>6, <1>7, <2>1 DEF JobFits
      <2>2. CASE k # j
        BY <1>5, <1>6, <2>2, JobTyped DEF JobInv, JobsFit, JobFits, Live
      <2> QED BY <2>1, <2>2
    <1>10. OneLoad'
      BY <1>5 DEF JobInv, OneLoad, Live
    <1>11. ASSUME NEW q \in Requests PROVE PlaceOf(q)'
      BY <1>6, <1>7, <1>8 DEF JobInv, Places, PlaceOf
    <1> QED BY <1>4, <1>9, <1>10, <1>11 DEF JobInv, JobsFit, Places

LEMMA SendJobs ==
    ASSUME TypeInv, JobInv, Send
    PROVE  JobInv'
    <1>1. /\ phase = "build" /\ todo = {} /\ preemptedNow' = {}
          /\ UNCHANGED <<status, reqStatus, preemptedPending, todo, prefetched>>
      BY DEF Send, semVars
    <1>2. ASSUME NEW q \in Requests PROVE PlaceOf(q)'
      BY <1>1 DEF JobInv, Places, PlaceOf
    <1>3. CASE UNCHANGED <<jobs, transferJobs, stage>>
      BY <1>1, <1>2, <1>3, JobsUndisturbed DEF JobInv, Places
    <1>4. ASSUME NEW r \in Requests, status[r] = "running", FreshJobs # {},
                 jobs' = [jobs EXCEPT ![Pick(FreshJobs)] =
                               NewJob("store", r, MovesInto(r, table[r], Positions(r)))],
                 transferJobs' = Register(r, Pick(FreshJobs))
          PROVE  JobInv'
      <2> DEFINE j == Pick(FreshJobs)
                 moves == MovesInto(r, table[r], Positions(r))
      <2>1. table[r] \in Seq(Blocks) /\ Len(table[r]) = Len(OffloadKeys[r]) /\ r \in reqStatus
        BY <1>4 DEF TypeInv, TypeOK, RequestShape, ShapeOf
      <2>2. \A i \in Positions(r) : table[r][i] \in Blocks
        BY <2>1, Chains, Sequences2
      <2>3. moves \in SUBSET Move
        BY <2>2, Chains DEF MovesInto, Move
      <2>4. OwnJobs'
        BY <1>4, <2>3, JobAddedOwn DEF JobKind
      <2>5. /\ j \in JobIds /\ ~Live(j)
            /\ jobs'[j].kind = "store" /\ jobs'[j].req = r
            /\ j \in transferJobs'[r]
            /\ \A k \in JobIds : k # j => jobs'[k] = jobs[k]
            /\ \A q \in Requests : transferJobs[q] \subseteq transferJobs'[q]
        BY <1>4, JobAdded DEF JobKind
      <2> HIDE DEF j
      <2>6. ASSUME NEW k \in JobIds PROVE JobFits(k)'
        <3>1. CASE k = j
          BY <1>1, <2>1, <2>5, <3>1 DEF JobFits
        <3>2. CASE k # j
          BY <1>1, <2>5, <3>2, JobTyped DEF JobInv, JobsFit, JobFits, Live
        <3> QED BY <3>1, <3>2
      <2>7. OneLoad'
        BY <2>5 DEF JobInv, OneLoad, Live
      <2> QED BY <1>2, <2>4, <2>6, <2>7 DEF JobInv, JobsFit, Places
    <1> QED BY <1>3, <1>4 DEF Send

LEMMA UpdateOutputJobs ==
    ASSUME TypeInv, JobInv, UpdateOutput
    PROVE  JobInv'
    <1>1. /\ phase = "execute" /\ phase' = "idle"
          /\ UNCHANGED <<preemptedNow, preemptedPending, todo>>
          /\ \A r \in Requests : transferJobs'[r] = transferJobs[r] \ CompletedJobs
          /\ \A r \in Requests : status'[r] =
                IF r \in Received /\ status[r] = "loading" THEN "running" ELSE status[r]
          /\ reqStatus' = {r \in reqStatus : status[r] = "finished" => transferJobs'[r] # {}}
          /\ \A r \in Requests : prefetched'[r] \in {None, prefetched[r]}
      BY DEF UpdateOutput
    <1>2. \A j \in JobIds : jobs'[j] = IF Live(j) /\ j \notin CompletedJobs
                        THEN [jobs[j] EXCEPT !.pending = @ - JobReports(j)] ELSE None
      BY DEF UpdateOutput
    <1>3. ASSUME NEW j \in JobIds, Live(j)'
          PROVE  /\ Live(j) /\ j \notin CompletedJobs
                 /\ jobs'[j].kind = jobs[j].kind /\ jobs'[j].req = jobs[j].req
      <2>1. Live(j) /\ j \notin CompletedJobs
        BY <1>2, <1>3 DEF Live
      <2> QED BY <1>2, <2>1, JobTyped DEF Job
    \* a request that is woken has no load left
    <1>4. ASSUME NEW j \in JobIds, Live(j)', jobs[j].kind = "load"
          PROVE  jobs[j].req \notin Received
      BY <1>3, <1>4 DEF Received, CompletedJobs, JobInv, OneLoad
    <1>5. ASSUME NEW j \in JobIds PROVE JobFits(j)'
      <2> SUFFICES ASSUME Live(j)' PROVE JobFits(j)'
        BY DEF JobFits
      <2> DEFINE r == jobs[j].req
      <2>1. /\ Live(j) /\ j \notin CompletedJobs /\ r \in Requests
            /\ jobs'[j].kind = jobs[j].kind /\ jobs'[j].req = r
        BY <1>3, JobTyped
      <2>2. j \in transferJobs[r] /\ r \in reqStatus
        BY <2>1 DEF JobInv, JobsFit, JobFits
      <2>3. j \in transferJobs'[r] /\ r \in reqStatus'
        BY <1>1, <2>1, <2>2
      <2>4. jobs[j].kind = "load" => status'[r] \in {"loading", "finished"}
        BY <1>1, <1>4, <2>1 DEF JobInv, JobsFit, JobFits
      <2>5. jobs[j].kind = "prefetch" => status'[r] \in {"preempted", "finished"}
        BY <1>1, <2>1 DEF JobInv, JobsFit, JobFits
      <2>6. r \in preemptedNow' => jobs[j].kind = "store"
        BY <1>1, <2>1 DEF JobInv, JobsFit, JobFits
      <2> QED BY <2>1, <2>3, <2>4, <2>5, <2>6 DEF JobFits
    <1>6. OneLoad'
      BY <1>3 DEF JobInv, OneLoad
    <1>7. ASSUME NEW r \in Requests, NEW j \in transferJobs'[r]
          PROVE  Live(j)' /\ jobs'[j].req = r
      <2>1. j \in transferJobs[r] /\ j \notin CompletedJobs /\ j \in JobIds
        BY <1>1, <1>7 DEF TypeInv, TypeOK
      <2>2. Live(j) /\ jobs[j].req = r
        BY <2>1 DEF JobInv, OwnJobs
      <2>3. jobs'[j] = [jobs[j] EXCEPT !.pending = @ - JobReports(j)]
        BY <1>2, <2>1, <2>2
      <2>4. jobs'[j].req = r
        BY <2>2, <2>3, <2>1, JobTyped DEF Job
      <2>5. jobs'[j] # None
        BY <2>1, <2>2, CompletionCounted, NoneAssumption
      <2> QED BY <2>4, <2>5 DEF Live
    <1>8. ASSUME NEW r \in Requests PROVE PlaceOf(r)'
      BY <1>1 DEF JobInv, Places, PlaceOf
    <1> QED BY <1>5, <1>6, <1>7, <1>8 DEF JobInv, JobsFit, OwnJobs, Places

LEMMA FinishJobs ==
    ASSUME TypeInv, JobInv, NEW r \in Requests, Finish(r)
    PROVE  JobInv'
    <1>1. /\ phase \in {"idle", "execute"}
          /\ status' = [status EXCEPT ![r] = "finished"]
          /\ preemptedPending' = preemptedPending \ {r}
          /\ reqStatus' = IF transferJobs[r] = {} THEN reqStatus \ {r} ELSE reqStatus
          /\ prefetched' \in {prefetched, [prefetched EXCEPT ![r] = None]}
          /\ UNCHANGED <<phase, preemptedNow, jobs, transferJobs, todo>>
      BY DEF Finish, BetweenPasses, Unqueued
    <1>2. ASSUME NEW j \in JobIds PROVE JobFits(j)'
      BY <1>1, JobTyped DEF JobInv, JobsFit, JobFits, Live, TypeInv, TypeOK
    <1>3. OneLoad' /\ OwnJobs'
      BY <1>1 DEF JobInv, OneLoad, OwnJobs, Live
    <1>4. ASSUME NEW q \in Requests PROVE PlaceOf(q)'
      BY <1>1 DEF JobInv, Places, PlaceOf, TypeInv, TypeOK
    <1> QED BY <1>2, <1>3, <1>4 DEF JobInv, JobsFit, Places

\* The other actions leave the jobs and their requests alone.
LEMMA OtherJobs ==
    ASSUME TypeInv, JobInv,
           \/ UNCHANGED vars
           \/ BeginStep
           \/ BeginBuild
           \/ \E r \in Requests : StopRetrying(r) \/ RetryLater(r)
           \/ WorkerStep
           \/ ResetCache
    PROVE  JobInv'
    <1>1. UNCHANGED <<jobs, transferJobs, reqStatus, status, preemptedNow>>
      BY DEF vars, BeginStep, BeginBuild, StopRetrying, RetryLater, WorkerStep, Bind, Report,
             TransferDone, SpliceDone, ResetCache, coreVars, baseVars
    <1>2. JobsFit' /\ OneLoad' /\ OwnJobs'
      BY <1>1, JobsUndisturbed
    <1>3. ASSUME NEW r \in Requests PROVE PlaceOf(r)'
      <2>1. CASE UNCHANGED vars \/ WorkerStep
        <3>1. UNCHANGED <<phase, prefetched, preemptedPending, todo>>
          BY <2>1 DEF vars, WorkerStep, Bind, Report, TransferDone, SpliceDone, coreVars, semVars
        <3> QED BY <1>1, <3>1 DEF JobInv, Places, PlaceOf
      <2>2. CASE BeginStep
        BY <1>1, <2>2 DEF BeginStep, semVars, JobInv, Places, PlaceOf
      <2>3. CASE BeginBuild
        BY <1>1, <2>3 DEF BeginBuild, Queued, Retried, JobInv, Places, PlaceOf
      <2>4. CASE \E q \in Requests : StopRetrying(q) \/ RetryLater(q)
        BY <1>1, <2>4 DEF StopRetrying, RetryLater, coreVars, JobInv, Places, PlaceOf
      <2>5. CASE ResetCache
        BY <1>1, <2>5 DEF ResetCache, JobInv, Places, PlaceOf
      <2> QED BY <2>1, <2>2, <2>3, <2>4, <2>5
    <1> QED BY <1>2, <1>3 DEF JobInv, Places

LEMMA JobStep == TypeInv /\ JobInv /\ [Next]_vars => JobInv'
    <1> SUFFICES ASSUME TypeInv, JobInv, [Next]_vars PROVE JobInv'
      OBVIOUS
    <1>1. ASSUME NEW r \in Requests, AdmitNormally(r) PROVE JobInv'
      <2>1. PICK t \in NewTables(r), plan \in LoadPlans(r) :
              StartLoad(r, t, plan) /\ Admitted(r, t, plan)
        BY <1>1 DEF AdmitNormally
      <2> QED BY <1>1, <2>1, AdmitJobs DEF AdmitNormally
    <1>2. ASSUME NEW r \in Requests, AdmitSpliced(r) PROVE JobInv'
      <2>1. PICK t \in NewTables(r), plan \in LoadPlans(r) :
              StartLoad(r, t, plan \ Spliced(r, plan)) /\ Admitted(r, t, plan)
        BY <1>2 DEF AdmitSpliced
      <2> QED BY <1>2, <2>1, AdmitJobs DEF AdmitSpliced
    <1>3. CASE SchedulerStep
      BY <1>3, OtherJobs, SendJobs, UpdateOutputJobs, ReserveJobs DEF SchedulerStep
    <1>4. ASSUME NEW r \in Requests, Preempt(r) \/ Finish(r) PROVE JobInv'
      BY <1>4, PreemptJobs, FinishJobs
    <1> QED BY <1>1, <1>2, <1>3, <1>4, OtherJobs DEF Next

LEMMA JobInvariant == Spec => []JobInv
    BY JobsInit, JobStep, TypeInvariant, PTL DEF Spec

---------------------------------------------------------------------------
\* A tracked job is in its request's transfer_jobs, and the request in
\* _req_status: the completion loop of the base connector, which removes the
\* job from both without looking, cannot fail (534-551).
THEOREM RegisteredCorrect == Spec => []JobsStayRegistered
    <1>1. JobInv => JobsStayRegistered
      BY DEF JobInv, JobsFit, JobFits, JobsStayRegistered
    <1> QED BY <1>1, JobInvariant, PTL

\* finished_recving never names a request the core does not expect: a load
\* belongs to a request that waits for it or has finished (142-156).
THEOREM ReceiptsCorrect == Spec => []ReceiptsUnderstood
    <1>1. JobInv => ReceiptsUnderstood
      BY DEF JobInv, JobsFit, JobFits, ReceiptsUnderstood
    <1> QED BY <1>1, JobInvariant, PTL

\* The store flush of the requests preempted in a pass meets only stores, so
\* the base connector's assertion holds (393-405).
THEOREM FlushesCorrect == Spec => []FlushesOnlyStores
    <1>1. TypeInv /\ JobInv => FlushesOnlyStores
      BY DEF TypeInv, TypeOK, JobInv, JobsFit, JobFits, OwnJobs, FlushesOnlyStores
    <1> QED BY <1>1, TypeInvariant, JobInvariant, PTL

\* The retry queue names only preempted requests without a prefetch: no
\* prefetch is started for a request that runs again or is gone (439-460).
THEOREM PendingCorrect == Spec => []PendingArePreempted
    <1>1. TypeInv /\ JobInv => PendingArePreempted
      BY DEF TypeInv, TypeOK, JobInv, Places, PlaceOf, PendingArePreempted
    <1> QED BY <1>1, TypeInvariant, JobInvariant, PTL

================================================================================
