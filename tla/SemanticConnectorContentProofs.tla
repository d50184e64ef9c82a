----------------------- MODULE SemanticConnectorContentProofs -----------------------
(***************************************************************************)
(* Proof that a running request finds its content: what the blocks of the  *)
(* workers hold, from the load that fills a block to the copy that reads   *)
(* it.  The layers proved before say who has which block and which jobs    *)
(* and copies are under way; this one adds what is in the blocks, and that *)
(* the flush list fences every write from the stores that still read.      *)
(***************************************************************************)
EXTENDS SemanticConnectorBlockProofs

\* No copy that worker w still has to make goes into block b.
Clean(w, b) == \A s \in SpliceIds : InCopy(w, s) => b \notin Destinations(s)
\* Block b of worker w has key k and will keep it.
Holds(w, b, k) == gpu[w][b] = k /\ Clean(w, b)
\* A copy that worker w still has to make will put key k into block b, and once
\* the copy is issued no other goes there.
Arriving(w, b, k) ==
    \E s \in SpliceIds : \E c \in copies[s] :
        /\ InCopy(w, s) /\ c.dst = b /\ Holds(w, c.src, k)
        /\ copyStage[w][s] = "copying" =>
              \A t \in SpliceIds : t # s /\ InCopy(w, t) => b \notin Destinations(t)

Fills(j) == Live(j) /\ jobs[j].kind # "store"

\* A flush waits for stores only, and the workers begin a step afresh.
PhasesFit ==
    /\ \A j \in flush : phase = "execute" /\ Live(j) /\ jobs[j].kind = "store"
    /\ phase # "execute" => \A w \in Workers : wpc[w] = "ready"
    /\ \A w \in Workers, s \in SpliceIds : copyStage[w][s] = "sent" =>
          phase # "idle" /\ wpc[w] = "ready"
\* A transfer moves one key into each of its blocks.
MovesFit ==
    \A j \in JobIds : Fills(j) =>
        \A m, n \in jobs[j].moves : m.block = n.block => m = n
\* A copy has one source for each destination.
CopiesFit == \A s \in SpliceIds : \A c, d \in copies[s] : c.dst = d.dst => c = d
\* What a worker has loaded stays.
LoadedFit ==
    \A j \in JobIds, w \in Workers : Fills(j) /\ ~InTransfer(w, j) =>
        \A m \in jobs[j].moves : Holds(w, m.block, m.key)
\* A prefetch is what its job loads, or what it has loaded.
PrefetchHolds(r) ==
    prefetched[r] # None =>
        LET pf == prefetched[r] IN
        \A i \in DOMAIN pf.blocks :
            /\ \A k \in DOMAIN pf.blocks : pf.blocks[k] = pf.blocks[i] => k = i
            /\ Live(pf.job) => [key |-> pf.keys[i], block |-> pf.blocks[i]] \in jobs[pf.job].moves
            /\ ~Live(pf.job) => \A w \in Workers : Holds(w, pf.blocks[i], pf.keys[i])
PrefetchesHold == \A r \in Requests : PrefetchHolds(r)
\* A splice not yet issued goes into blocks of a waiting request that no load
\* of the request fills.
SentFit ==
    \A w \in Workers, s \in SpliceIds : copyStage[w][s] = "sent" =>
        /\ \E r \in Requests :
              /\ status[r] = "loading" /\ Destinations(s) \subseteq TableBlocks(r)
              /\ \A j \in JobIds : Live(j) /\ jobs[j].kind = "load" /\ jobs[j].req = r =>
                    JobBlocks(j) \cap Destinations(s) = {}
        /\ \A t \in SpliceIds : t # s /\ copyStage[w][t] = "sent" =>
              Destinations(s) \cap Destinations(t) = {}
Turn(r) == status[r] \in {"loading", "running"}
\* A request with a turn has different blocks, and its load fills the positions
\* it waits for with their keys.
TablesFit ==
    \A r \in Requests : Turn(r) =>
        /\ external[r] \subseteq Positions(r)
        /\ \A i, k \in Positions(r) : table[r][i] = table[r][k] => i = k
        /\ \A j \in JobIds : Live(j) /\ jobs[j].kind = "load" /\ jobs[j].req = r =>
              \A m \in jobs[j].moves : \E i \in Positions(r) :
                  m = [key |-> OffloadKeys[r][i], block |-> table[r][i]]
\* Each position that a request expects from the CPU tier is being loaded, is
\* in place, or will be copied.
Expected(w, r, i) ==
    LET b == table[r][i]
        k == OffloadKeys[r][i]
    IN  \/ \E j \in JobIds : /\ Live(j) /\ jobs[j].kind = "load" /\ jobs[j].req = r
                             /\ [key |-> k, block |-> b] \in jobs[j].moves
        \/ Holds(w, b, k)
        \/ Arriving(w, b, k)
ContentComes ==
    \A r \in Requests : Turn(r) => \A w \in Workers, i \in external[r] : Expected(w, r, i)

ContentInv ==
    /\ PhasesFit /\ MovesFit /\ CopiesFit /\ LoadedFit /\ PrefetchesHold
    /\ SentFit /\ TablesFit /\ ContentComes

---------------------------------------------------------------------------
(***************************************************************************)
(* What a step leaves alone.                                               *)
(***************************************************************************)

\* What an admission with a splice does, with its choices named.
LEMMA SpliceAdmission ==
    ASSUME TypeInv, NEW r \in Requests, AdmitSpliced(r)
    PROVE  \E s \in SpliceIds, t \in NewTables(r), plan \in LoadPlans(r) :
             /\ s \in FreshSplices
             /\ CanAdmit(r) /\ Settled(r) /\ plan # {}
             /\ copies'[s] = SpliceCopies(r, t, plan)
             /\ \A u \in SpliceIds : u # s => copies'[u] = copies[u]
             /\ \A w \in Workers :
                  /\ copyStage'[w][s] = "sent"
                  /\ \A u \in SpliceIds : u # s => copyStage'[w][u] = copyStage[w][u]
             /\ StartLoad(r, t, plan \ Spliced(r, plan))
             /\ Admitted(r, t, plan)
             /\ free' = free \ Range(t) /\ gpu' = gpu
    <1>1. PICK s \in SpliceIds : s = Pick(FreshSplices) /\ s \in FreshSplices
      BY DEF AdmitSpliced, FreshSplices, Pick
    <1>2. PICK t \in NewTables(r), plan \in LoadPlans(r) :
            /\ CanSplice(r, plan)
            /\ copies' = [copies EXCEPT ![s] = SpliceCopies(r, t, plan)]
            /\ copyStage' = [w \in Workers |-> [copyStage[w] EXCEPT ![s] = "sent"]]
            /\ StartLoad(r, t, plan \ Spliced(r, plan))
            /\ Admitted(r, t, plan)
            /\ free' = free \ Range(t)
      BY <1>1 DEF AdmitSpliced
    <1>3. CanAdmit(r) /\ gpu' = gpu
      BY DEF AdmitSpliced
    <1>4. Settled(r) /\ plan # {}
      BY <1>2 DEF CanSplice, Spliced
    <1>5. /\ copies'[s] = SpliceCopies(r, t, plan)
          /\ \A u \in SpliceIds : u # s => copies'[u] = copies[u]
      BY <1>2 DEF TypeInv, TypeOK
    <1>6. \A w \in Workers :
            /\ copyStage'[w][s] = "sent"
            /\ \A u \in SpliceIds : u # s => copyStage'[w][u] = copyStage[w][u]
      BY <1>2 DEF TypeInv, TypeOK
    <1> QED BY <1>1, <1>2, <1>3, <1>4, <1>5, <1>6

LEMMA SpliceTargets ==
    ASSUME TypeInv, NEW r \in Requests, NEW t \in NewTables(r), NEW plan \in LoadPlans(r),
           NEW c \in SpliceCopies(r, t, plan)
    PROVE  \E i \in plan : \E m \in SpliceEntries(r, plan, i) :
             /\ i \in Positions(r) /\ m \in DOMAIN prefetched[r].keys
             /\ c.src = prefetched[r].blocks[m] /\ c.dst = t[i] /\ c.dst \in free
    <1>1. PICK i \in plan : \E m \in SpliceEntries(r, plan, i) :
            c = [src |-> prefetched[r].blocks[m], dst |-> t[i]]
      BY DEF SpliceCopies
    <1>2. PICK m \in SpliceEntries(r, plan, i) :
            c = [src |-> prefetched[r].blocks[m], dst |-> t[i]]
      BY <1>1
    <1>3. i \in Positions(r)
      BY PlansInside
    <1>4. t[i] \in free
      BY <1>3 DEF NewTables, Injection
    <1> QED BY <1>2, <1>3, <1>4 DEF SpliceEntries

\* A copy still to be made was so before, or is one of an admission and goes
\* into free blocks.
LEMMA CopyFrame ==
    ASSUME TypeInv, [Next]_vars, NEW w \in Workers, NEW s \in SpliceIds, InCopy(w, s)'
    PROVE  \/ /\ InCopy(w, s) /\ copies'[s] = copies[s]
              /\ \/ copyStage'[w][s] = copyStage[w][s]
                 \/ Bind(w) /\ copyStage[w][s] = "sent"
           \/ /\ copyStage'[w][s] = "sent" /\ ~InCopy(w, s)
              /\ Destinations(s)' \subseteq free
              /\ \E r \in Requests : AdmitSpliced(r)
    <1>1. CASE UNCHANGED <<copies, copyStage>>
      BY <1>1 DEF InCopy
    <1>2. ASSUME NEW r \in Requests, AdmitSpliced(r)
          PROVE  \/ InCopy(w, s) /\ copies'[s] = copies[s] /\ copyStage'[w][s] = copyStage[w][s]
                 \/ /\ copyStage'[w][s] = "sent" /\ ~InCopy(w, s)
                    /\ Destinations(s)' \subseteq free
      <2>1. PICK u \in SpliceIds, t \in NewTables(r), plan \in LoadPlans(r) :
              /\ u \in FreshSplices
              /\ copies'[u] = SpliceCopies(r, t, plan)
              /\ \A v \in SpliceIds : v # u => copies'[v] = copies[v]
              /\ copyStage'[w][u] = "sent"
              /\ \A v \in SpliceIds : v # u => copyStage'[w][v] = copyStage[w][v]
        BY <1>2, SpliceAdmission
      <2>2. CASE s = u
        <3>1. \A c \in copies'[s] : c.dst \in free
          BY <2>1, <2>2, SpliceTargets
        <3> QED BY <2>1, <2>2, <3>1 DEF FreshSplices, InCopy, Destinations
      <2>3. CASE s # u
        BY <2>1, <2>3 DEF InCopy
      <2> QED BY <2>2, <2>3
    <1>3. CASE UpdateOutput
      <2>1. /\ copyStage'[w][s] # "none"
            /\ copyStage'[w][s] = IF copyStage[w][s] = "reported" THEN "none"
                                  ELSE copyStage[w][s]
            /\ copies'[s] = IF \A v \in Workers : copyStage'[v][s] = "none" THEN {}
                            ELSE copies[s]
        BY <1>3 DEF UpdateOutput, InCopy
      <2> QED BY <2>1 DEF InCopy
    <1>4. ASSUME NEW v \in Workers, Bind(v) \/ Report(v)
          PROVE  /\ InCopy(w, s) /\ copies'[s] = copies[s]
                 /\ \/ copyStage'[w][s] = copyStage[w][s]
                    \/ Bind(w) /\ copyStage[w][s] = "sent"
      <2>1. copies' = copies
        BY <1>4 DEF Bind, Report, semVars
      <2>2. CASE Bind(v)
        <3>1. v # w => copyStage'[w] = copyStage[w]
          BY <2>2 DEF Bind, TypeInv, TypeOK
        <3>2. v = w => copyStage'[w][s] = IF copyStage[w][s] = "sent" THEN "copying"
                                          ELSE copyStage[w][s]
          BY <2>2 DEF Bind, TypeInv, TypeOK
        <3> QED BY <2>1, <2>2, <3>1, <3>2 DEF InCopy
      <2>3. CASE Report(v)
        <3>1. copyStage'[w][s] \in {copyStage[w][s], "reported"}
          BY <2>3 DEF Report, TypeInv, TypeOK
        <3> QED BY <2>1, <3>1 DEF InCopy
      <2> QED BY <1>4, <2>2, <2>3
    <1>5. ASSUME NEW v \in Workers, NEW u \in SpliceIds, SpliceDone(v, u)
          PROVE  InCopy(w, s) /\ copies'[s] = copies[s] /\ copyStage'[w][s] = copyStage[w][s]
      <2>1. copies' = copies
        BY <1>5 DEF SpliceDone, semVars
      <2>2. copyStage'[w][s] \in {copyStage[w][s], "done"}
        BY <1>5 DEF SpliceDone, TypeInv, TypeOK
      <2> QED BY <2>1, <2>2 DEF InCopy
    <1>6. ASSUME NEW v \in Workers, NEW j \in JobIds, TransferDone(v, j)
          PROVE  UNCHANGED <<copies, copyStage>>
      BY <1>6 DEF TransferDone, semVars
    <1>7. ASSUME NEW r \in Requests,
                 \/ Preempt(r) \/ AdmitNormally(r) \/ Finish(r) \/ Reserve(r)
                 \/ StopRetrying(r) \/ RetryLater(r)
          PROVE  UNCHANGED <<copies, copyStage>>
      BY <1>7 DEF Preempt, AdmitNormally, Finish, Reserve, StopRetrying, RetryLater, semVars,
                  workVars
    <1>8. ASSUME UNCHANGED vars \/ BeginStep \/ BeginBuild \/ Send \/ ResetCache
          PROVE  UNCHANGED <<copies, copyStage>>
      BY <1>8 DEF vars, semVars, workVars, BeginStep, BeginBuild, Send, ResetCache
    <1> QED
      BY <1>1, <1>2, <1>3, <1>4, <1>5, <1>6, <1>7, <1>8 DEF Next, SchedulerStep, WorkerStep

\* Outside the pool only transfers and copies change what a block holds.
LEMMA ContentFrame ==
    ASSUME TypeInv, [Next]_vars, NEW w \in Workers, NEW b \in Blocks
    PROVE  \/ gpu'[w][b] = gpu[w][b]
           \/ b \in free'
           \/ \E j \in JobIds : TransferDone(w, j) /\ Fills(j) /\ b \in JobBlocks(j)
           \/ \E s \in SpliceIds : SpliceDone(w, s) /\ b \in Destinations(s)
    <1>1. ASSUME NEW F, gpu' = Forget(gpu, F), F \subseteq free'
          PROVE  gpu'[w][b] = gpu[w][b] \/ b \in free'
      BY <1>1 DEF Forget
    <1>2. ASSUME NEW r \in Requests, Preempt(r) \/ AdmitNormally(r) \/ Finish(r)
          PROVE  gpu'[w][b] = gpu[w][b] \/ b \in free'
      <2>1. CASE Preempt(r)
        BY <1>1, <2>1 DEF Preempt
      <2>2. CASE AdmitNormally(r)
        BY <1>1, <2>2 DEF AdmitNormally
      <2>3. CASE Finish(r)
        BY <1>1, <2>3 DEF Finish
      <2> QED BY <1>2, <2>1, <2>2, <2>3
    <1>3. ASSUME UpdateOutput PROVE gpu'[w][b] = gpu[w][b] \/ b \in free'
      <2> DEFINE returned == ReturnedBlocks(Orphans(reqStatus'))
                 vacated == UNION {Range(table[r]) : r \in {q \in Received : status[q] = "finished"}}
      <2>1. gpu' = Forget(gpu, returned \cup vacated) /\ free' = free \cup returned \cup vacated
        BY <1>3 DEF UpdateOutput
      <2> QED BY <1>1, <2>1
    <1>4. CASE ResetCache
      BY <1>1, <1>4 DEF ResetCache
    <1>5. ASSUME NEW r \in Requests,
                 AdmitSpliced(r) \/ Reserve(r) \/ StopRetrying(r) \/ RetryLater(r)
          PROVE  gpu' = gpu
      BY <1>5 DEF AdmitSpliced, Reserve, StopRetrying, RetryLater, workVars
    <1>6. ASSUME UNCHANGED vars \/ BeginStep \/ BeginBuild \/ Send
          PROVE  gpu' = gpu
      BY <1>6 DEF vars, workVars, BeginStep, BeginBuild, Send
    <1>7. ASSUME NEW v \in Workers, Bind(v) \/ Report(v)
          PROVE  gpu' = gpu
      BY <1>7 DEF Bind, Report
    <1>8. ASSUME NEW v \in Workers, NEW j \in JobIds, TransferDone(v, j)
          PROVE  \/ gpu'[w][b] = gpu[w][b]
                 \/ v = w /\ Fills(j) /\ b \in JobBlocks(j)
      <2>1. v \in InFlight(j)
        BY <1>8 DEF TransferDone, InFlight
      <2>2. Live(j)
        BY <2>1 DEF Live, TypeInv, JobsCounted, CountOf
      <2>3. v # w => gpu'[w] = gpu[w]
        BY <1>8 DEF TransferDone, TypeInv, TypeOK
      <2>4. gpu'[w][b] # gpu[w][b] => jobs[j].kind # "store" /\ \E m \in jobs[j].moves : m.block = b
        BY <1>8 DEF TransferDone, TypeInv, TypeOK
      <2> QED BY <2>2, <2>3, <2>4 DEF Fills, JobBlocks
    <1>9. ASSUME NEW v \in Workers, NEW s \in SpliceIds, SpliceDone(v, s)
          PROVE  gpu'[w][b] = gpu[w][b] \/ (v = w /\ b \in Destinations(s))
      <2>1. PICK f : f = [a \in Blocks |->
                            IF a \in Destinations(s)
                            THEN gpu[v][(CHOOSE c \in copies[s] : c.dst = a).src]
                            ELSE gpu[v][a]]
        OBVIOUS
      <2>2. gpu' = [gpu EXCEPT ![v] = f]
        BY <1>9, <2>1 DEF SpliceDone
      <2>3. b \notin Destinations(s) => f[b] = gpu[v][b]
        BY <2>1
      <2>4. /\ v # w => gpu'[w] = gpu[w]
            /\ v = w => gpu'[w] = f
        BY <2>2 DEF TypeInv, TypeOK
      <2> QED BY <2>3, <2>4
    <1> QED
      BY <1>2, <1>3, <1>4, <1>5, <1>6, <1>7, <1>8, <1>9 DEF Next, SchedulerStep, WorkerStep

\* What an owned block holds stays, unless a transfer overwrites it.
LEMMA HoldsKept ==
    ASSUME TypeInv, [Next]_vars, NEW w \in Workers, NEW b \in Blocks, NEW k,
           Holds(w, b, k), b \notin free, b \notin free',
           \A j \in JobIds : TransferDone(w, j) /\ Fills(j) => b \notin JobBlocks(j)
    PROVE  Holds(w, b, k)'
    <1>1. ASSUME NEW s \in SpliceIds, InCopy(w, s)' PROVE b \notin Destinations(s)'
      BY <1>1, CopyFrame DEF Holds, Clean, Destinations
    <1>2. \A s \in SpliceIds : SpliceDone(w, s) => b \notin Destinations(s)
      BY DEF Holds, Clean, InCopy, SpliceDone
    <1>3. gpu'[w][b] = gpu[w][b]
      BY <1>2, ContentFrame
    <1> QED BY <1>1, <1>3 DEF Holds, Clean

---------------------------------------------------------------------------
(***************************************************************************)
(* Which jobs a step starts and ends.                                      *)
(***************************************************************************)

\* A job starts on a fresh id.
Starts(j, kind, r, moves) ==
    /\ FreshJobs # {} /\ j = Pick(FreshJobs)
    /\ jobs' = [jobs EXCEPT ![j] = NewJob(kind, r, moves)]
    /\ stage' = Dispatch(j)

\* It is with every worker; the others stay as they are.
Started(j, kind, r, moves) ==
    /\ j \in JobIds /\ jobs[j] = None
    /\ jobs'[j] = NewJob(kind, r, moves) /\ jobs'[j] # None
    /\ \A w \in Workers : stage'[w][j] = "sent"
    /\ \A k \in JobIds : k # j =>
         jobs'[k] = jobs[k] /\ \A w \in Workers : stage'[w][k] = stage[w][k]

LEMMA FreshStart ==
    ASSUME TypeInv, NEW kind \in JobKind, NEW r \in Requests,
           NEW moves \in SUBSET Move, NEW j, Starts(j, kind, r, moves)
    PROVE  Started(j, kind, r, moves)
    <1>1. j \in JobIds /\ jobs[j] = None
      BY FreshPicked DEF Starts
    <1>2. NewJob(kind, r, moves) \in Job
      BY WorkersCounted DEF NewJob, Job
    <1>3. jobs'[j] = NewJob(kind, r, moves) /\ \A k \in JobIds : k # j => jobs'[k] = jobs[k]
      BY <1>1 DEF TypeInv, TypeOK, Starts
    <1>4. \A w \in Workers : /\ stage'[w][j] = "sent"
                             /\ \A k \in JobIds : k # j => stage'[w][k] = stage[w][k]
      BY <1>1 DEF Dispatch, TypeInv, TypeOK, Starts
    <1> QED BY <1>1, <1>2, <1>3, <1>4, NoneAssumption DEF Started

\* The one job a load starts, if there is something to load.
LEMMA LoadJob ==
    ASSUME TypeInv, NEW r \in Requests, NEW t \in NewTables(r),
           NEW P \in SUBSET Positions(r), StartLoad(r, t, P)
    PROVE  /\ \A k \in JobIds : Live(k) =>
                jobs'[k] = jobs[k] /\ \A w \in Workers : stage'[w][k] = stage[w][k]
           /\ \A k \in JobIds : ~Live(k) /\ Live(k)' =>
                /\ jobs'[k] = NewJob("load", r, MovesInto(r, t, P))
                /\ \A w \in Workers : stage'[w][k] = "sent"
           /\ P # {} => \E k \in JobIds : /\ Live(k)'
                                          /\ jobs'[k] = NewJob("load", r, MovesInto(r, t, P))
    <1>1. CASE P = {}
      BY <1>1 DEF StartLoad, Live
    <1>2. CASE P # {}
      <2>1. PICK j : j = Pick(FreshJobs)
        OBVIOUS
      <2>2. PICK moves : moves = MovesInto(r, t, P)
        OBVIOUS
      <2>3. /\ FreshJobs # {}
            /\ jobs' = [jobs EXCEPT ![j] = NewJob("load", r, moves)]
            /\ stage' = Dispatch(j)
        BY <1>2, <2>1, <2>2 DEF StartLoad
      <2>4. moves \in SUBSET Move
        BY <2>2, Chains, NewTable DEF MovesInto, Move, TypeInv
      <2>5. Started(j, "load", r, moves)
        <3>1. "load" \in JobKind
          BY DEF JobKind
        <3>2. Starts(j, "load", r, moves)
          BY <2>1, <2>3 DEF Starts
        <3> QED BY <2>4, <3>1, <3>2, FreshStart
      <2> QED BY <2>2, <2>5 DEF Live, Started
    <1> QED BY <1>1, <1>2

\* The transfer that fills a prefetch.
Filling(n, keys, ids) == {[key |-> keys[i], block |-> ids[i]] : i \in 1 .. n}

\* What a reservation does, with its choices named.
LEMMA Reservation ==
    ASSUME TypeInv, NEW r \in Requests, Reserve(r)
    PROVE  \E j \in JobIds, n \in Nat : \E ids \in Injection(1 .. n, free), keys \in Seq(Keys) :
             /\ prefetched[r] = None /\ Range(ids) \subseteq allocated'
             /\ Started(j, "prefetch", r, Filling(n, keys, ids))
             /\ prefetched'[r] = [job |-> j, keys |-> keys, blocks |-> ids]
             /\ \A q \in Requests : q # r => prefetched'[q] = prefetched[q]
    <1>1. PICK n \in 1 .. Len(OffloadKeys[r]) :
            \E rank \in Injection(1 .. n, Positions(r)), ids \in Injection(1 .. n, free) :
                Borrow(r, n, rank, ids)
      BY DEF Reserve
    <1>2. PICK rank \in Injection(1 .. n, Positions(r)), ids \in Injection(1 .. n, free) :
            Borrow(r, n, rank, ids)
      BY <1>1
    <1>3. PICK j : j = Pick(FreshJobs)
      OBVIOUS
    <1>4. PICK keys : keys = [i \in 1 .. n |-> OffloadKeys[r][rank[i]]]
      OBVIOUS
    <1>5. PICK moves : moves = Filling(n, keys, ids)
      OBVIOUS
    <1>6. /\ FreshJobs # {} /\ prefetched[r] = None
          /\ jobs' = [jobs EXCEPT ![j] = NewJob("prefetch", r, moves)]
          /\ stage' = Dispatch(j)
          /\ prefetched' = [prefetched EXCEPT ![r] = [job |-> j, keys |-> keys, blocks |-> ids]]
      <2>1. FreshJobs # {} /\ prefetched[r] = None
        BY DEF Reserve, NothingToRetry
      <2>2. moves = {[key |-> keys[i], block |-> ids[i]] : i \in 1 .. n}
        BY <1>5 DEF Filling
      <2>3. jobs' = [jobs EXCEPT ![j] = NewJob("prefetch", r,
                        {[key |-> keys[i], block |-> ids[i]] : i \in 1 .. n})]
        BY <1>2, <1>3, <1>4 DEF Borrow
      <2>4. /\ stage' = Dispatch(j)
            /\ prefetched' = [prefetched EXCEPT ![r] =
                                 [job |-> j, keys |-> keys, blocks |-> ids]]
        BY <1>2, <1>3, <1>4 DEF Borrow
      <2> QED BY <2>1, <2>2, <2>3, <2>4
    <1>7. n \in Nat
      BY Chains
    <1>8. keys \in [1 .. n -> Keys]
      <2>1. \A i \in 1 .. n : OffloadKeys[r][rank[i]] \in Keys
        BY Chains DEF Injection
      <2> QED BY <1>4, <2>1
    <1>9. keys \in Seq(Keys)
      BY <1>7, <1>8, Sequences1
    <1>10. moves \in SUBSET Move
      BY <1>5, <1>8 DEF Filling, Move, Injection, TypeInv, TypeOK
    <1>11. Started(j, "prefetch", r, moves)
      <2>1. "prefetch" \in JobKind
        BY DEF JobKind
      <2>2. Starts(j, "prefetch", r, moves)
        BY <1>3, <1>6 DEF Starts
      <2> QED BY <1>10, <2>1, <2>2, FreshStart
    <1>12. j \in JobIds
      BY <1>11 DEF Started
    <1>13. /\ prefetched'[r] = [job |-> j, keys |-> keys, blocks |-> ids]
           /\ \A q \in Requests : q # r => prefetched'[q] = prefetched[q]
      BY <1>6 DEF TypeInv, TypeOK
    <1>14. Range(ids) \subseteq allocated'
      BY <1>2 DEF Borrow, HandOut
    <1> QED BY <1>5, <1>6, <1>7, <1>9, <1>11, <1>12, <1>13, <1>14

\* The job of a store that a step may start.
LEMMA StoreJob ==
    ASSUME TypeInv, Send
    PROVE  \A k \in JobIds :
             /\ Live(k) => /\ jobs'[k] = jobs[k]
                           /\ \A w \in Workers : stage'[w][k] = stage[w][k]
             /\ ~Live(k) /\ Live(k)' =>
                  /\ jobs'[k].kind = "store"
                  /\ \A w \in Workers : stage'[w][k] = "sent"
                  /\ \E r \in Requests :
                        status[r] = "running" /\ JobBlocks(k)' \subseteq TableBlocks(r)
    <1>1. CASE UNCHANGED <<jobs, transferJobs, stage>>
      BY <1>1 DEF Live
    <1>2. ASSUME NEW r \in Requests, status[r] = "running", FreshJobs # {}, NEW j,
                 j = Pick(FreshJobs),
                 jobs' = [jobs EXCEPT ![j] =
                             NewJob("store", r, MovesInto(r, table[r], Positions(r)))],
                 stage' = Dispatch(j)
          PROVE  \A k \in JobIds :
                   /\ Live(k) => /\ jobs'[k] = jobs[k]
                                 /\ \A w \in Workers : stage'[w][k] = stage[w][k]
                   /\ ~Live(k) /\ Live(k)' =>
                        /\ jobs'[k].kind = "store"
                        /\ \A w \in Workers : stage'[w][k] = "sent"
                        /\ JobBlocks(k)' \subseteq TableBlocks(r)
      <2>1. PICK moves : moves = MovesInto(r, table[r], Positions(r))
        OBVIOUS
      <2>2. moves \in SUBSET Move
        <3>1. table[r] \in Seq(Blocks) /\ Len(table[r]) = Len(OffloadKeys[r])
          BY <1>2 DEF TypeInv, TypeOK, RequestShape, ShapeOf
        <3>2. \A i \in Positions(r) : table[r][i] \in Blocks
          BY <3>1, Chains
        <3> QED BY <2>1, <3>2, Chains DEF MovesInto, Move
      <2>3. {m.block : m \in moves} \subseteq TableBlocks(r)
        <3>1. Positions(r) = DOMAIN table[r]
          <4>1. table[r] \in Seq(Blocks) /\ Len(table[r]) = Len(OffloadKeys[r])
            BY <1>2 DEF TypeInv, TypeOK, RequestShape, ShapeOf
          <4> QED BY <4>1, Sequences2, Chains
        <3> QED BY <2>1, <3>1 DEF MovesInto, TableBlocks, Range
      <2>4. jobs' = [jobs EXCEPT ![j] = NewJob("store", r, moves)]
        BY <1>2, <2>1
      <2>5. Started(j, "store", r, moves)
        <3>1. "store" \in JobKind
          BY DEF JobKind
        <3>2. Starts(j, "store", r, moves)
          BY <1>2, <2>4 DEF Starts
        <3> QED BY <2>2, <3>1, <3>2, FreshStart
      <2> QED BY <2>3, <2>5 DEF Live, NewJob, Started, JobBlocks
    <1> QED BY <1>1, <1>2 DEF Send

\* An admission, spliced or not, starts at most a load of positions P.
LEMMA Admission ==
    ASSUME TypeInv, NEW r \in Requests, AdmitNormally(r) \/ AdmitSpliced(r)
    PROVE  \E t \in NewTables(r), plan \in LoadPlans(r) : \E P \in SUBSET plan :
             /\ CanAdmit(r) /\ Admitted(r, t, plan) /\ StartLoad(r, t, P)
             /\ P \in SUBSET Positions(r)
             /\ AdmitNormally(r) => P = plan
    <1>1. CASE AdmitNormally(r)
      BY <1>1, PlansInside DEF AdmitNormally
    <1>2. CASE AdmitSpliced(r) /\ ~AdmitNormally(r)
      <2>1. PICK t \in NewTables(r), plan \in LoadPlans(r) :
              /\ StartLoad(r, t, plan \ Spliced(r, plan))
              /\ Admitted(r, t, plan) /\ CanAdmit(r)
        BY <1>2 DEF AdmitSpliced
      <2>2. plan \ Spliced(r, plan) \in SUBSET plan
        OBVIOUS
      <2> QED BY <1>2, <2>1, <2>2, PlansInside
    <1> QED BY <1>1, <1>2

\* The steps that start no job and end none.
LEMMA JobsSame ==
    ASSUME [Next]_vars, ~UpdateOutput, ~Send,
           \A r \in Requests : ~Reserve(r) /\ ~AdmitNormally(r) /\ ~AdmitSpliced(r)
    PROVE  jobs' = jobs
    <1>1. ASSUME NEW r \in Requests, Preempt(r) \/ Finish(r) \/ StopRetrying(r) \/ RetryLater(r)
          PROVE  jobs' = jobs
      BY <1>1 DEF Preempt, Finish, StopRetrying, RetryLater, baseVars
    <1>2. ASSUME NEW w \in Workers,
                 \/ Bind(w) \/ Report(w)
                 \/ \E j \in JobIds : TransferDone(w, j)
                 \/ \E s \in SpliceIds : SpliceDone(w, s)
          PROVE  jobs' = jobs
      BY <1>2 DEF Bind, Report, TransferDone, SpliceDone, baseVars
    <1>3. ASSUME UNCHANGED vars \/ BeginStep \/ BeginBuild \/ ResetCache
          PROVE  jobs' = jobs
      BY <1>3 DEF vars, baseVars, BeginStep, BeginBuild, ResetCache
    <1> QED BY <1>1, <1>2, <1>3 DEF Next, SchedulerStep, WorkerStep

\* A tracked job that stays tracked stays the job it is.
LEMMA OldJobs ==
    ASSUME TypeInv, [Next]_vars, NEW j \in JobIds, Live(j), Live(j)'
    PROVE  /\ jobs'[j].kind = jobs[j].kind /\ jobs'[j].req = jobs[j].req
           /\ jobs'[j].moves = jobs[j].moves /\ JobBlocks(j)' = JobBlocks(j)
    <1>1. ASSUME jobs'[j] = jobs[j] PROVE jobs'[j].moves = jobs[j].moves
      BY <1>1
    <1>2. CASE UpdateOutput
      <2>1. jobs[j] \in Job
        BY JobTyped
      <2>2. jobs'[j] = [jobs[j] EXCEPT !.pending = @ - JobReports(j)]
        BY <1>2 DEF UpdateOutput, Live
      <2> QED BY <2>1, <2>2 DEF Job, JobBlocks
    <1>3. ASSUME NEW r \in Requests, AdmitNormally(r) \/ AdmitSpliced(r)
          PROVE  jobs'[j] = jobs[j]
      <2>1. PICK t \in NewTables(r), P \in SUBSET Positions(r) : StartLoad(r, t, P)
        BY <1>3, Admission
      <2> QED BY <2>1, LoadJob
    <1>4. ASSUME NEW r \in Requests, Reserve(r)
          PROVE  jobs'[j] = jobs[j]
      <2>1. PICK k, moves : Started(k, "prefetch", r, moves)
        BY <1>4, Reservation
      <2> QED BY <2>1 DEF Live, Started
    <1>5. Send => jobs'[j] = jobs[j]
      BY StoreJob
    <1> QED BY <1>2, <1>3, <1>4, <1>5, JobsSame DEF JobBlocks

\* A new job is with every worker; it is a store, or the load of a prefetch or
\* of an admission.
LEMMA NewJobs ==
    ASSUME TypeInv, [Next]_vars, NEW j \in JobIds, ~Live(j), Live(j)'
    PROVE  /\ \A w \in Workers : stage'[w][j] = "sent"
           /\ \/ jobs'[j].kind = "store"
              \/ \E r \in Requests :
                    /\ Reserve(r) /\ jobs'[j].kind = "prefetch" /\ jobs'[j].req = r
                    /\ \A m, n \in jobs'[j].moves : m.block = n.block => m = n
              \/ \E r \in Requests : \E t \in NewTables(r), plan \in LoadPlans(r) :
                    \E P \in SUBSET plan :
                       /\ CanAdmit(r) /\ Admitted(r, t, plan) /\ StartLoad(r, t, P)
                       /\ jobs'[j] = NewJob("load", r, MovesInto(r, t, P))
    <1>1. CASE UpdateOutput
      BY <1>1 DEF UpdateOutput, Live
    <1>2. ASSUME NEW r \in Requests, AdmitNormally(r) \/ AdmitSpliced(r)
          PROVE  /\ \A w \in Workers : stage'[w][j] = "sent"
                 /\ \E t \in NewTables(r), plan \in LoadPlans(r) :
                       \E P \in SUBSET plan :
                          /\ CanAdmit(r) /\ Admitted(r, t, plan) /\ StartLoad(r, t, P)
                          /\ jobs'[j] = NewJob("load", r, MovesInto(r, t, P))
      <2>1. PICK t \in NewTables(r), plan \in LoadPlans(r) : \E P \in SUBSET plan :
              /\ CanAdmit(r) /\ Admitted(r, t, plan) /\ StartLoad(r, t, P)
              /\ P \in SUBSET Positions(r)
        BY <1>2, Admission
      <2>2. PICK P \in SUBSET plan :
              /\ CanAdmit(r) /\ Admitted(r, t, plan) /\ StartLoad(r, t, P)
              /\ P \in SUBSET Positions(r)
        BY <2>1
      <2>3. /\ jobs'[j] = NewJob("load", r, MovesInto(r, t, P))
            /\ \A w \in Workers : stage'[w][j] = "sent"
        BY <2>2, LoadJob
      <2> QED BY <2>2, <2>3
    <1>3. ASSUME NEW r \in Requests, Reserve(r)
          PROVE  /\ \A w \in Workers : stage'[w][j] = "sent"
                 /\ jobs'[j].kind = "prefetch" /\ jobs'[j].req = r
                 /\ \A m, n \in jobs'[j].moves : m.block = n.block => m = n
      <2>1. PICK k \in JobIds, n \in Nat :
              \E ids \in Injection(1 .. n, free), keys \in Seq(Keys) :
                Started(k, "prefetch", r, Filling(n, keys, ids))
        BY <1>3, Reservation
      <2>2. j = k
        BY <2>1 DEF Live, Started
      <2>3. PICK ids \in Injection(1 .. n, free), keys \in Seq(Keys) :
              Started(k, "prefetch", r, Filling(n, keys, ids))
        BY <2>1
      <2>4. \A m, o \in Filling(n, keys, ids) : m.block = o.block => m = o
        BY DEF Filling, Injection, IsInjective
      <2> QED BY <2>2, <2>3, <2>4 DEF NewJob, Started
    <1>4. Send => \A w \in Workers : stage'[w][j] = "sent"
      BY StoreJob
    <1>5. Send => jobs'[j].kind = "store"
      BY StoreJob
    <1> QED BY <1>1, <1>2, <1>3, <1>4, <1>5, JobsSame DEF Live

\* Who starts a job.
LEMMA NewKinds ==
    ASSUME TypeInv, [Next]_vars, NEW j \in JobIds, ~Live(j), Live(j)'
    PROVE  /\ jobs'[j].kind = "prefetch" => Reserve(jobs'[j].req)
           /\ jobs'[j].kind = "load" => CanAdmit(jobs'[j].req)
    <1>1. ASSUME NEW r \in Requests, NEW moves, CanAdmit(r), jobs'[j] = NewJob("load", r, moves)
          PROVE  /\ jobs'[j].kind = "prefetch" => Reserve(jobs'[j].req)
                 /\ jobs'[j].kind = "load" => CanAdmit(jobs'[j].req)
      BY <1>1 DEF NewJob
    <1>2. ASSUME NEW r \in Requests, Reserve(r), jobs'[j].kind = "prefetch", jobs'[j].req = r
          PROVE  /\ jobs'[j].kind = "prefetch" => Reserve(jobs'[j].req)
                 /\ jobs'[j].kind = "load" => CanAdmit(jobs'[j].req)
      BY <1>2
    <1> QED BY <1>1, <1>2, NewJobs

\* A job ends when no worker is at it any more.
LEMMA JobEnds ==
    ASSUME TypeInv, [Next]_vars, NEW j \in JobIds, Live(j), ~Live(j)'
    PROVE  \A w \in Workers : ~InTransfer(w, j)
    <1>1. CASE UpdateOutput
      <2>1. j \notin CompletedJobs => jobs'[j] \in Job
        BY <1>1, CompletionCounted
      <2> QED BY <2>1, Unfinished, NoneAssumption DEF Live
    <1>2. ASSUME NEW r \in Requests, AdmitNormally(r) \/ AdmitSpliced(r)
          PROVE  jobs'[j] = jobs[j]
      <2>1. PICK t \in NewTables(r), P \in SUBSET Positions(r) : StartLoad(r, t, P)
        BY <1>2, Admission
      <2> QED BY <2>1, LoadJob
    <1>3. ASSUME NEW r \in Requests, Reserve(r)
          PROVE  jobs'[j] = jobs[j]
      <2>1. PICK k, moves : Started(k, "prefetch", r, moves)
        BY <1>3, Reservation
      <2> QED BY <2>1 DEF Live, Started
    <1>4. Send => jobs'[j] = jobs[j]
      BY StoreJob
    <1> QED BY <1>1, <1>2, <1>3, <1>4, JobsSame DEF Live

\* A worker ends a fill only by completing it.
LEMMA TransferEnds ==
    ASSUME TypeInv, PhasesFit, [Next]_vars, NEW w \in Workers, NEW j \in JobIds,
           Fills(j), Live(j)', InTransfer(w, j), ~InTransfer(w, j)'
    PROVE  TransferDone(w, j)
    <1>1. CASE UNCHANGED stage
      BY <1>1 DEF InTransfer
    <1>2. ASSUME Send \/ \E r \in Requests : AdmitNormally(r) \/ AdmitSpliced(r) \/ Reserve(r)
          PROVE  stage'[w][j] = stage[w][j]
      <2>1. CASE Send
        BY <2>1, StoreJob DEF Fills
      <2>2. ASSUME NEW r \in Requests, AdmitNormally(r) \/ AdmitSpliced(r)
            PROVE  stage'[w][j] = stage[w][j]
        <3>1. PICK t \in NewTables(r), P \in SUBSET Positions(r) : StartLoad(r, t, P)
          BY <2>2, Admission
        <3> QED BY <3>1, LoadJob DEF Fills
      <2>3. ASSUME NEW r \in Requests, Reserve(r) PROVE stage'[w][j] = stage[w][j]
        <3>1. PICK k, moves : Started(k, "prefetch", r, moves)
          BY <2>3, Reservation
        <3> QED BY <3>1 DEF Started, Fills, Live
      <2> QED BY <1>2, <2>1, <2>2, <2>3
    <1>3. CASE UpdateOutput
      BY <1>3 DEF UpdateOutput, InTransfer, TypeInv, TypeOK
    <1>4. ASSUME NEW v \in Workers, Bind(v) PROVE InTransfer(w, j)'
      <2>1. j \notin flush
        BY DEF PhasesFit, Fills
      <2>2. stage' = [stage EXCEPT ![v] = StartKvTransfers(v)]
        BY <1>4 DEF Bind
      <2>3. StartKvTransfers(v)[j] = IF stage[v][j] = "sent" THEN "moving" ELSE stage[v][j]
        BY <2>1 DEF StartKvTransfers
      <2>4. stage'[w][j] \in {stage[w][j], "moving"}
        BY <2>2, <2>3 DEF TypeInv, TypeOK
      <2> QED BY <2>4 DEF InTransfer
    <1>5. ASSUME NEW v \in Workers, Report(v) PROVE InTransfer(w, j)'
      <2>1. stage'[w][j] = stage[w][j] \/ stage[w][j] = "done"
        BY <1>5 DEF Report, TypeInv, TypeOK
      <2> QED BY <2>1 DEF InTransfer
    <1>6. ASSUME NEW v \in Workers, NEW k \in JobIds, TransferDone(v, k), v # w \/ k # j
          PROVE  InTransfer(w, j)'
      <2>1. stage'[w][j] = stage[w][j]
        BY <1>6 DEF TransferDone, TypeInv, TypeOK
      <2> QED BY <2>1 DEF InTransfer
    <1>7. ASSUME NEW v \in Workers, NEW s \in SpliceIds, SpliceDone(v, s)
          PROVE  UNCHANGED stage
      BY <1>7 DEF SpliceDone
    <1>8. ASSUME NEW r \in Requests, Preempt(r) \/ Finish(r) \/ StopRetrying(r) \/ RetryLater(r)
          PROVE  UNCHANGED stage
      BY <1>8 DEF Preempt, Finish, StopRetrying, RetryLater, workVars
    <1>9. ASSUME UNCHANGED vars \/ BeginStep \/ BeginBuild \/ ResetCache
          PROVE  UNCHANGED stage
      BY <1>9 DEF vars, workVars, BeginStep, BeginBuild, ResetCache
    <1> QED
      BY <1>1, <1>2, <1>3, <1>4, <1>5, <1>6, <1>7, <1>8, <1>9
      DEF Next, SchedulerStep, WorkerStep, InTransfer

\* A worker ends a copy only by completing it.
LEMMA CopyEnds ==
    ASSUME TypeInv, [Next]_vars, NEW w \in Workers, NEW s \in SpliceIds,
           InCopy(w, s), ~SpliceDone(w, s)
    PROVE  InCopy(w, s)'
    <1>1. CASE UNCHANGED copyStage
      BY <1>1 DEF InCopy
    <1>2. ASSUME NEW r \in Requests, AdmitSpliced(r) PROVE InCopy(w, s)'
      <2>1. PICK u \in SpliceIds :
              /\ u \in FreshSplices
              /\ \A v \in SpliceIds : v # u => copyStage'[w][v] = copyStage[w][v]
        BY <1>2, SpliceAdmission
      <2>2. s # u
        BY <2>1 DEF FreshSplices, InCopy
      <2> QED BY <2>1, <2>2 DEF InCopy
    <1>3. CASE UpdateOutput
      <2>1. copyStage'[w][s] = IF copyStage[w][s] = "reported" THEN "none"
                               ELSE copyStage[w][s]
        BY <1>3 DEF UpdateOutput
      <2> QED BY <2>1 DEF InCopy
    <1>4. ASSUME NEW v \in Workers, Bind(v) PROVE InCopy(w, s)'
      <2>1. copyStage'[w][s] \in {copyStage[w][s], "copying"}
        BY <1>4 DEF Bind, TypeInv, TypeOK
      <2> QED BY <2>1 DEF InCopy
    <1>5. ASSUME NEW v \in Workers, Report(v) PROVE InCopy(w, s)'
      <2>1. copyStage'[w][s] = copyStage[w][s] \/ copyStage[w][s] = "done"
        BY <1>5 DEF Report, TypeInv, TypeOK
      <2> QED BY <2>1 DEF InCopy
    <1>6. ASSUME NEW v \in Workers, NEW u \in SpliceIds, SpliceDone(v, u), v # w \/ u # s
          PROVE  InCopy(w, s)'
      <2>1. copyStage'[w][s] = copyStage[w][s]
        BY <1>6 DEF SpliceDone, TypeInv, TypeOK
      <2> QED BY <2>1 DEF InCopy
    <1>7. ASSUME NEW v \in Workers, NEW j \in JobIds, TransferDone(v, j)
          PROVE  UNCHANGED copyStage
      BY <1>7 DEF TransferDone
    <1>8. ASSUME NEW r \in Requests,
                 \/ Preempt(r) \/ AdmitNormally(r) \/ Finish(r) \/ Reserve(r)
                 \/ StopRetrying(r) \/ RetryLater(r)
          PROVE  UNCHANGED copyStage
      BY <1>8 DEF Preempt, AdmitNormally, Finish, Reserve, StopRetrying, RetryLater, workVars
    <1>9. ASSUME UNCHANGED vars \/ BeginStep \/ BeginBuild \/ Send \/ ResetCache
          PROVE  UNCHANGED copyStage
      BY <1>9 DEF vars, workVars, BeginStep, BeginBuild, Send, ResetCache
    <1> QED
      BY <1>1, <1>2, <1>3, <1>4, <1>5, <1>6, <1>7, <1>8, <1>9
      DEF Next, SchedulerStep, WorkerStep

\* A prefetch is the one there was or a reservation's.
LEMMA PrefetchFrame ==
    ASSUME TypeInv, [Next]_vars, NEW r \in Requests, prefetched'[r] # None, ~Reserve(r)
    PROVE  prefetched'[r] = prefetched[r]
    <1>1. ASSUME NEW q \in Requests, Reserve(q) PROVE prefetched'[r] = prefetched[r]
      BY <1>1, Reservation
    <1>2. ASSUME NEW q \in Requests, AdmitNormally(q) \/ AdmitSpliced(q)
          PROVE  prefetched'[r] = prefetched[r]
      <2>1. prefetched' = [prefetched EXCEPT ![q] = None]
        BY <1>2 DEF AdmitNormally, AdmitSpliced, Admitted
      <2> QED BY <2>1 DEF TypeInv, TypeOK
    <1>3. CASE UpdateOutput
      BY <1>3 DEF UpdateOutput
    <1>4. CASE ResetCache
      BY <1>4 DEF ResetCache
    <1>5. ASSUME NEW q \in Requests, Finish(q) PROVE prefetched'[r] = prefetched[r]
      <2>1. prefetched' \in {prefetched, [prefetched EXCEPT ![q] = None]}
        BY <1>5 DEF Finish
      <2> QED BY <2>1 DEF TypeInv, TypeOK
    <1>6. ASSUME NEW q \in Requests, Preempt(q) \/ StopRetrying(q) \/ RetryLater(q)
          PROVE  prefetched' = prefetched
      BY <1>6 DEF Preempt, StopRetrying, RetryLater, semVars
    <1>7. ASSUME NEW w \in Workers,
                 \/ Bind(w) \/ Report(w)
                 \/ \E j \in JobIds : TransferDone(w, j)
                 \/ \E s \in SpliceIds : SpliceDone(w, s)
          PROVE  prefetched' = prefetched
      BY <1>7 DEF Bind, Report, TransferDone, SpliceDone, semVars
    <1>8. ASSUME UNCHANGED vars \/ BeginStep \/ BeginBuild \/ Send
          PROVE  prefetched' = prefetched
      BY <1>8 DEF vars, semVars, BeginStep, BeginBuild, Send
    <1> QED
      BY <1>1, <1>2, <1>3, <1>4, <1>5, <1>6, <1>7, <1>8 DEF Next, SchedulerStep, WorkerStep

---------------------------------------------------------------------------
(***************************************************************************)
(* What a load or a prefetch fills.                                        *)
(***************************************************************************)

\* The blocks it fills are its own: with the request of a load, and of a
\* prefetch in the prefetch itself or in the countdown of its reset.
FillHeld(j) ==
    Fills(j) =>
        \/ jobs[j].kind = "load" /\ JobBlocks(j) \subseteq TableBlocks(jobs[j].req)
        \/ jobs[j].kind = "prefetch" /\ JobBlocks(j) \subseteq ResetBlocks(j)
        \/ /\ jobs[j].kind = "prefetch" /\ prefetched[jobs[j].req] # None
           /\ prefetched[jobs[j].req].job = j
           /\ JobBlocks(j) = PrefetchBlocks(jobs[j].req)
FillsHeld == \A j \in JobIds : FillHeld(j)

LEMMA FillsAreHeld == LoanInv => FillsHeld
    <1> SUFFICES ASSUME LoanInv, NEW j \in JobIds, Fills(j) PROVE FillHeld(j)
      BY DEF FillsHeld, FillHeld
    <1>1. jobs[j].req \in Requests /\ jobs[j].kind \in {"load", "prefetch"}
      BY JobTyped DEF LoanInv, Fills, JobKind
    <1>2. LoadFits(j) /\ ResetFits(j) /\ PrefetchFits(jobs[j].req) /\ Live(j)
      BY <1>1 DEF LoanInv, BlockInv, Fits, Fills
    <1> QED BY <1>1, <1>2 DEF LoadFits, ResetFits, PrefetchFits, FillHeld, ResetBlocks

\* None of them is free or quarantined for a splice.
FillsApart ==
    /\ \A j \in JobIds : Fills(j) =>
          /\ JobBlocks(j) \cap free = {}
          /\ \A s \in SpliceIds : JobBlocks(j) \cap SpliceBlocks(s) = {}
    /\ \A j \in JobIds, r \in Requests : Fills(j) =>
          /\ JobBlocks(j) \cap TableBlocks(r) # {} =>
                jobs[j].kind = "load" /\ jobs[j].req = r
          /\ JobBlocks(j) \cap PrefetchBlocks(r) # {} =>
                prefetched[r] # None /\ prefetched[r].job = j
    /\ \A j, k \in JobIds : Fills(j) /\ Fills(k) /\ j # k => JobBlocks(j) \cap JobBlocks(k) = {}

LEMMA FillsAreApart == LoanInv => FillsApart
    <1> SUFFICES ASSUME LoanInv PROVE FillsApart
      OBVIOUS
    <1>1. \A j \in JobIds : FillHeld(j)
      BY FillsAreHeld DEF FillsHeld
    <1>2. PoolApart /\ KindsApart /\ HoldersApart
      BY DEF LoanInv, BlockInv, Partition
    <1>3. ASSUME NEW j \in JobIds, Fills(j)
          PROVE  /\ jobs[j].req \in Requests
                 /\ JobBlocks(j) \cap free = {}
                 /\ \A s \in SpliceIds : JobBlocks(j) \cap SpliceBlocks(s) = {}
      <2>1. jobs[j].req \in Requests
        BY <1>3, JobTyped DEF LoanInv, Fills
      <2> QED BY <1>1, <1>2, <1>3, <2>1 DEF FillHeld, PoolApart, KindsApart
    <1>4. ASSUME NEW j \in JobIds, NEW r \in Requests, Fills(j)
          PROVE  /\ JobBlocks(j) \cap TableBlocks(r) # {} =>
                       jobs[j].kind = "load" /\ jobs[j].req = r
                 /\ JobBlocks(j) \cap PrefetchBlocks(r) # {} =>
                       prefetched[r] # None /\ prefetched[r].job = j
      <2>1. jobs[j].req \in Requests
        BY <1>3, <1>4
      <2> QED BY <1>1, <1>2, <1>4, <2>1 DEF FillHeld, KindsApart, HoldersApart
    <1>5. ASSUME NEW j \in JobIds, NEW k \in JobIds, Fills(j), Fills(k), j # k
          PROVE  JobBlocks(j) \cap JobBlocks(k) = {}
      <2>1. jobs[k].req \in Requests
        BY <1>3, <1>5
      <2>2. CASE JobBlocks(k) \subseteq ResetBlocks(k)
        <3>1. jobs[j].req \in Requests /\ FillHeld(j)
          BY <1>1, <1>3, <1>5
        <3> QED BY <1>2, <1>5, <2>2, <3>1 DEF FillHeld, KindsApart, HoldersApart
      <2>3. CASE jobs[k].kind = "load" /\ JobBlocks(k) \subseteq TableBlocks(jobs[k].req)
        <3>1. JobBlocks(j) \cap JobBlocks(k) # {} =>
                 jobs[j].kind = "load" /\ jobs[j].req = jobs[k].req
          BY <1>4, <1>5, <2>1, <2>3
        <3>2. OneLoad /\ Live(j) /\ Live(k)
          BY <1>5 DEF LoanInv, JobInv, Fills
        <3> QED BY <1>5, <2>3, <3>1, <3>2 DEF OneLoad
      <2>4. CASE /\ prefetched[jobs[k].req].job = k
                 /\ JobBlocks(k) = PrefetchBlocks(jobs[k].req)
        <3>1. JobBlocks(j) \cap JobBlocks(k) # {} => prefetched[jobs[k].req].job = j
          BY <1>4, <1>5, <2>1, <2>4
        <3> QED BY <1>5, <2>4, <3>1
      <2> QED BY <1>1, <1>5, <2>2, <2>3, <2>4 DEF FillHeld
    <1> QED BY <1>3, <1>4, <1>5 DEF FillsApart

LEMMA FillsStayApart == LoanInv' => FillsApart'
    BY FillsAreApart, PTL

\* What a worker holds stays where no one else may fill it.
HeldOf(b) ==
    \/ \E r \in Requests : b \in TableBlocks(r) \/ b \in PrefetchBlocks(r)
    \/ \E s \in SpliceIds : b \in SpliceBlocks(s)
    \/ \E j \in JobIds : b \in JobBlocks(j) /\ Fills(j)
HoldersTakeNoFree == \A b : HeldOf(b) => b \notin free

LEMMA HeldNotFree == LoanInv => HoldersTakeNoFree
    BY FillsAreApart DEF HoldersTakeNoFree, HeldOf, FillsApart, LoanInv, BlockInv, Partition,
       PoolApart

LEMMA HeldStayNotFree == LoanInv' => HoldersTakeNoFree'
    BY HeldNotFree, PTL

LEMMA HeldKept ==
    ASSUME LoanInv, LoanInv', [Next]_vars, NEW w \in Workers, NEW b \in Blocks, NEW k,
           Holds(w, b, k), HeldOf(b), HeldOf(b)',
           \A j \in JobIds : TransferDone(w, j) /\ Fills(j) => b \notin JobBlocks(j)
    PROVE  Holds(w, b, k)'
    <1>1. b \notin free /\ b \notin free'
      BY HeldNotFree, HeldStayNotFree DEF HoldersTakeNoFree
    <1> QED BY <1>1, HoldsKept DEF LoanInv

---------------------------------------------------------------------------
(***************************************************************************)
(* The step, conjunct by conjunct.                                         *)
(***************************************************************************)

\* A transfer in progress is not ended by a completion.
LEMMA TransferTracked ==
    ASSUME TypeInv, NEW w \in Workers, NEW j \in JobIds, InTransfer(w, j)
    PROVE  Live(j)
    <1>1. w \in InFlight(j)
      BY DEF InTransfer, InFlight
    <1> QED BY <1>1 DEF Live, TypeInv, JobsCounted, CountOf

\* The steps that begin and end the phases.
LEMMA PhaseFrame ==
    ASSUME [Next]_vars, phase' # phase
    PROVE  \/ BeginStep \/ BeginBuild \/ Send \/ UpdateOutput
    <1>1. ASSUME NEW r \in Requests,
                 \/ Preempt(r) \/ AdmitNormally(r) \/ AdmitSpliced(r) \/ Finish(r)
                 \/ Reserve(r) \/ StopRetrying(r) \/ RetryLater(r)
          PROVE  phase' = phase
      BY <1>1 DEF Preempt, AdmitNormally, AdmitSpliced, Admitted, Finish, Reserve,
                  StopRetrying, RetryLater, coreVars
    <1>2. ASSUME NEW w \in Workers,
                 \/ Bind(w) \/ Report(w)
                 \/ \E j \in JobIds : TransferDone(w, j)
                 \/ \E s \in SpliceIds : SpliceDone(w, s)
          PROVE  phase' = phase
      BY <1>2 DEF Bind, Report, TransferDone, SpliceDone, coreVars
    <1>3. ASSUME UNCHANGED vars \/ ResetCache PROVE phase' = phase
      BY <1>3 DEF vars, coreVars, ResetCache
    <1> QED BY <1>1, <1>2, <1>3 DEF Next, SchedulerStep, WorkerStep

\* How a worker moves through a step.
LEMMA WorkerFrame ==
    ASSUME TypeInv, [Next]_vars, NEW w \in Workers, wpc'[w] # wpc[w]
    PROVE  \/ Bind(w) /\ wpc'[w] = "bound"
           \/ Report(w) /\ wpc'[w] = "reported"
           \/ UpdateOutput /\ wpc'[w] = "ready"
    <1>1. ASSUME NEW r \in Requests,
                 \/ Preempt(r) \/ AdmitNormally(r) \/ AdmitSpliced(r) \/ Finish(r)
                 \/ Reserve(r) \/ StopRetrying(r) \/ RetryLater(r)
          PROVE  wpc' = wpc
      BY <1>1 DEF Preempt, AdmitNormally, AdmitSpliced, Admitted, Finish, Reserve,
                  StopRetrying, RetryLater, workVars
    <1>2. ASSUME NEW v \in Workers,
                 \/ \E j \in JobIds : TransferDone(v, j)
                 \/ \E s \in SpliceIds : SpliceDone(v, s)
          PROVE  wpc' = wpc
      BY <1>2 DEF TransferDone, SpliceDone
    <1>3. ASSUME UNCHANGED vars \/ ResetCache \/ BeginStep \/ BeginBuild \/ Send
          PROVE  wpc' = wpc
      BY <1>3 DEF vars, workVars, ResetCache, BeginStep, BeginBuild, Send
    <1>4. ASSUME NEW v \in Workers, Bind(v)
          PROVE  v = w /\ wpc'[w] = "bound"
      BY <1>4 DEF Bind, TypeInv, TypeOK
    <1>5. ASSUME NEW v \in Workers, Report(v)
          PROVE  v = w /\ wpc'[w] = "reported"
      BY <1>5 DEF Report, TypeInv, TypeOK
    <1>6. ASSUME UpdateOutput PROVE wpc'[w] = "ready"
      BY <1>6 DEF UpdateOutput
    <1> QED
      BY <1>1, <1>2, <1>3, <1>4, <1>5, <1>6 DEF Next, SchedulerStep, WorkerStep

LEMMA FlushFrame ==
    ASSUME [Next]_vars, ~Send, ~UpdateOutput
    PROVE  flush' = flush
    <1>1. ASSUME NEW r \in Requests,
                 \/ Preempt(r) \/ AdmitNormally(r) \/ AdmitSpliced(r) \/ Finish(r)
                 \/ Reserve(r) \/ StopRetrying(r) \/ RetryLater(r)
          PROVE  flush' = flush
      BY <1>1 DEF Preempt, AdmitNormally, AdmitSpliced, Admitted, Finish, Reserve,
                  StopRetrying, RetryLater, baseVars
    <1>2. ASSUME NEW w \in Workers,
                 \/ Bind(w) \/ Report(w)
                 \/ \E j \in JobIds : TransferDone(w, j)
                 \/ \E s \in SpliceIds : SpliceDone(w, s)
          PROVE  flush' = flush
      BY <1>2 DEF Bind, Report, TransferDone, SpliceDone, baseVars
    <1>3. ASSUME UNCHANGED vars \/ ResetCache \/ BeginStep \/ BeginBuild
          PROVE  flush' = flush
      BY <1>3 DEF vars, baseVars, ResetCache, BeginStep, BeginBuild
    <1> QED BY <1>1, <1>2, <1>3 DEF Next, SchedulerStep, WorkerStep

\* A splice not yet issued was so before, and then its worker has not begun the
\* step; or it is one of an admission.
LEMMA SentFrame ==
    ASSUME TypeInv, PhasesFit, [Next]_vars, NEW w \in Workers, NEW s \in SpliceIds,
           copyStage'[w][s] = "sent"
    PROVE  \/ /\ copyStage[w][s] = "sent" /\ copies'[s] = copies[s]
              /\ phase # "idle" /\ wpc[w] = "ready" /\ ~UpdateOutput /\ ~Bind(w)
           \/ /\ copyStage[w][s] # "sent"
              /\ \E r \in Requests : AdmitSpliced(r)
    <1>1. InCopy(w, s)'
      BY DEF InCopy
    <1>2. Bind(w) => copyStage'[w][s] # "sent"
      BY DEF Bind, TypeInv, TypeOK
    <1>3. UpdateOutput => wpc[w] = "reported"
      BY DEF UpdateOutput
    <1>4. copyStage[w][s] = "sent" => phase # "idle" /\ wpc[w] = "ready"
      BY DEF PhasesFit
    <1> QED BY <1>1, <1>2, <1>3, <1>4, CopyFrame DEF InCopy

LEMMA PhasesStep ==
    ASSUME TypeInv, PhasesFit, [Next]_vars
    PROVE  PhasesFit'
    <1>1. ASSUME NEW j \in flush'
          PROVE  phase' = "execute" /\ Live(j)' /\ jobs'[j].kind = "store"
      <2>1. CASE Send
        <3>1. phase' = "execute" /\ j \in JobIds /\ Live(j) /\ jobs[j].kind = "store"
          BY <1>1, <2>1 DEF Send
        <3>2. jobs'[j] = jobs[j]
          BY <2>1, <3>1, StoreJob
        <3> QED BY <3>1, <3>2 DEF Live
      <2>2. CASE UpdateOutput
        BY <1>1, <2>2 DEF UpdateOutput
      <2>3. CASE ~Send /\ ~UpdateOutput
        <3>1. j \in flush /\ phase = "execute" /\ Live(j) /\ jobs[j].kind = "store"
          BY <1>1, <2>3, FlushFrame DEF PhasesFit
        <3>2. phase' = "execute"
          BY <2>3, <3>1, PhaseFrame DEF BeginStep, BeginBuild
        <3>3. j \in JobIds
          BY <3>1 DEF TypeInv, TypeOK
        <3>4. jobs'[j] = jobs[j]
          <4>1. ASSUME NEW r \in Requests, Reserve(r) \/ AdmitNormally(r) \/ AdmitSpliced(r)
                PROVE  phase # "execute"
            BY <4>1 DEF Reserve, AdmitNormally, AdmitSpliced, CanAdmit
          <4> QED BY <2>3, <3>1, <4>1, JobsSame
        <3> QED BY <3>1, <3>2, <3>4 DEF Live
      <2> QED BY <2>1, <2>2, <2>3
    <1>2. ASSUME phase' # "execute", NEW w \in Workers
          PROVE  wpc'[w] = "ready"
      <2>1. Bind(w) \/ Report(w) => phase' = "execute"
        BY DEF Bind, Report, coreVars
      <2>2. CASE UpdateOutput
        BY <2>2 DEF UpdateOutput
      <2>3. CASE ~UpdateOutput
        <3>1. phase # "execute"
          BY <1>2, <2>3, PhaseFrame DEF BeginStep, BeginBuild, Send
        <3> QED BY <1>2, <2>1, <2>3, <3>1, WorkerFrame DEF PhasesFit
      <2> QED BY <2>2, <2>3
    <1>3. ASSUME NEW w \in Workers, NEW s \in SpliceIds, copyStage'[w][s] = "sent"
          PROVE  phase' # "idle" /\ wpc'[w] = "ready"
      <2>1. CASE phase # "idle" /\ wpc[w] = "ready" /\ ~UpdateOutput /\ ~Bind(w)
        <3>1. phase' # "idle"
          BY <2>1, PhaseFrame DEF BeginStep, BeginBuild, Send
        <3>2. ~Report(w)
          BY <2>1 DEF Report
        <3> QED BY <2>1, <3>1, <3>2, WorkerFrame
      <2>2. ASSUME NEW r \in Requests, AdmitSpliced(r)
            PROVE  phase' # "idle" /\ wpc'[w] = "ready"
        <3>1. phase = "schedule" /\ phase' = phase /\ wpc' = wpc
          BY <2>2 DEF AdmitSpliced, CanAdmit, Admitted
        <3> QED BY <3>1 DEF PhasesFit
      <2> QED BY <1>3, <2>1, <2>2, SentFrame
    <1> QED BY <1>1, <1>2, <1>3 DEF PhasesFit

LEMMA MovesStep ==
    ASSUME TypeInv, MovesFit, [Next]_vars
    PROVE  MovesFit'
    <1> SUFFICES ASSUME NEW j \in JobIds, Fills(j)', NEW m \in jobs'[j].moves,
                        NEW n \in jobs'[j].moves, m.block = n.block
                 PROVE  m = n
      BY DEF MovesFit
    <1>1. CASE Live(j)
      <2>1. jobs'[j].kind = jobs[j].kind /\ jobs'[j].moves = jobs[j].moves
        BY <1>1, OldJobs DEF Fills
      <2> QED BY <1>1, <2>1 DEF MovesFit, Fills
    <1>2. ASSUME NEW r \in Requests, NEW t \in NewTables(r), NEW plan \in LoadPlans(r),
                 NEW P \in SUBSET plan, jobs'[j] = NewJob("load", r, MovesInto(r, t, P))
          PROVE  m = n
      <2>1. jobs'[j].moves = MovesInto(r, t, P)
        BY <1>2 DEF NewJob
      <2>2. P \subseteq Positions(r)
        BY PlansInside
      <2> QED BY <2>1, <2>2 DEF MovesInto, NewTables, Injection, IsInjective
    <1>3. CASE ~Live(j)
      BY <1>2, <1>3, NewJobs DEF Fills
    <1> QED BY <1>1, <1>3

\* Two prefetched entries of one key are never the same position's.
LEMMA OneEntry ==
    ASSUME TypeInv, NEW r \in Requests, prefetched[r] # None, NEW plan, NEW i,
           NEW m \in SpliceEntries(r, plan, i), NEW n \in SpliceEntries(r, plan, i)
    PROVE  m = n
    <1>1. PICK s : s = prefetched[r].keys
      OBVIOUS
    <1>2. s \in Seq(Keys)
      BY <1>1 DEF TypeInv, TypeOK, PrefetchState
    <1>3. PICK D : D = DOMAIN s
      OBVIOUS
    <1>4. D = 1 .. Len(s) /\ Len(s) \in Nat
      BY <1>2, <1>3, Sequences2
    <1>5. /\ m \in D /\ n \in D /\ s[m] = s[n]
          /\ Nth(s, D, m) = Nth(s, D, n)
      BY <1>1, <1>3 DEF SpliceEntries
    <1>6. ASSUME NEW a \in D, NEW b \in D, a < b, s[a] = s[b]
          PROVE  Nth(s, D, a) # Nth(s, D, b)
      <2> DEFINE A == {k \in D : k <= a /\ s[k] = s[a]}
                 B == {k \in D : k <= b /\ s[k] = s[b]}
      <2>1. IsFiniteSet(B)
        <3>1. B \in SUBSET D
          OBVIOUS
        <3>2. IsFiniteSet(D)
          BY <1>4, FS_Interval
        <3> HIDE DEF B
        <3> QED BY <3>1, <3>2, FS_Subset
      <2>2. A \subseteq B /\ A # B
        <3>1. b \in B /\ b \notin A
          BY <1>4, <1>6
        <3> QED BY <1>4, <1>6, <3>1
      <2>3. Cardinality(A) # Cardinality(B)
        BY <2>1, <2>2, FS_Subset
      <2> QED BY <2>3 DEF Nth
    <1>7. m \in Int /\ n \in Int
      BY <1>4, <1>5
    <1> QED BY <1>5, <1>6, <1>7

\* A copy of a splice that a step leaves was there before or is an admission's.
LEMMA CopiesFrame ==
    ASSUME TypeInv, [Next]_vars, NEW s \in SpliceIds
    PROVE  \/ copies'[s] = copies[s] \/ copies'[s] = {}
           \/ \E r \in Requests : \E t \in NewTables(r), plan \in LoadPlans(r) :
                 prefetched[r] # None /\ copies'[s] = SpliceCopies(r, t, plan)
    <1>1. ASSUME NEW r \in Requests, AdmitSpliced(r)
          PROVE  \/ copies'[s] = copies[s]
                 \/ \E t \in NewTables(r), plan \in LoadPlans(r) :
                       prefetched[r] # None /\ copies'[s] = SpliceCopies(r, t, plan)
      <2>1. PICK u \in SpliceIds, t \in NewTables(r), plan \in LoadPlans(r) :
              /\ Settled(r) /\ copies'[u] = SpliceCopies(r, t, plan)
              /\ \A v \in SpliceIds : v # u => copies'[v] = copies[v]
        BY <1>1, SpliceAdmission
      <2>2. prefetched[r] # None
        BY <2>1 DEF Settled
      <2> QED BY <2>1, <2>2
    <1>2. CASE UpdateOutput
      BY <1>2 DEF UpdateOutput
    <1>3. ASSUME NEW r \in Requests,
                 \/ Preempt(r) \/ AdmitNormally(r) \/ Finish(r) \/ Reserve(r)
                 \/ StopRetrying(r) \/ RetryLater(r)
          PROVE  copies' = copies
      BY <1>3 DEF Preempt, AdmitNormally, Finish, Reserve, StopRetrying, RetryLater, semVars
    <1>4. ASSUME NEW w \in Workers,
                 \/ Bind(w) \/ Report(w)
                 \/ \E j \in JobIds : TransferDone(w, j)
                 \/ \E u \in SpliceIds : SpliceDone(w, u)
          PROVE  copies' = copies
      BY <1>4 DEF Bind, Report, TransferDone, SpliceDone, semVars
    <1>5. ASSUME UNCHANGED vars \/ BeginStep \/ BeginBuild \/ Send \/ ResetCache
          PROVE  copies' = copies
      BY <1>5 DEF vars, semVars, BeginStep, BeginBuild, Send, ResetCache
    <1> QED BY <1>1, <1>2, <1>3, <1>4, <1>5 DEF Next, SchedulerStep, WorkerStep

LEMMA CopiesStep ==
    ASSUME TypeInv, CopiesFit, [Next]_vars
    PROVE  CopiesFit'
    <1> SUFFICES ASSUME NEW s \in SpliceIds, NEW c \in copies'[s], NEW d \in copies'[s],
                        c.dst = d.dst
                 PROVE  c = d
      BY DEF CopiesFit
    <1>1. CASE copies'[s] = copies[s]
      BY <1>1 DEF CopiesFit
    <1>2. ASSUME NEW r \in Requests, NEW t \in NewTables(r), NEW plan \in LoadPlans(r),
                 prefetched[r] # None, copies'[s] = SpliceCopies(r, t, plan)
          PROVE  c = d
      <2>1. ASSUME NEW x \in copies'[s]
            PROVE  \E i \in plan : \E m \in SpliceEntries(r, plan, i) :
                      x = [src |-> prefetched[r].blocks[m], dst |-> t[i]]
        BY <1>2, <2>1 DEF SpliceCopies
      <2>2. PICK i \in plan, k \in plan :
              /\ \E m \in SpliceEntries(r, plan, i) :
                    c = [src |-> prefetched[r].blocks[m], dst |-> t[i]]
              /\ \E n \in SpliceEntries(r, plan, k) :
                    d = [src |-> prefetched[r].blocks[n], dst |-> t[k]]
        BY <2>1
      <2>3. PICK m \in SpliceEntries(r, plan, i), n \in SpliceEntries(r, plan, k) :
              /\ c = [src |-> prefetched[r].blocks[m], dst |-> t[i]]
              /\ d = [src |-> prefetched[r].blocks[n], dst |-> t[k]]
        BY <2>2
      <2>4. i = k
        <3>1. i \in Positions(r) /\ k \in Positions(r)
          BY PlansInside
        <3>2. t[i] = t[k]
          BY <2>3
        <3> QED BY <3>1, <3>2 DEF NewTables, Injection, IsInjective
      <2>5. m = n
        BY <1>2, <2>4, OneEntry
      <2> QED BY <2>3, <2>4, <2>5
    <1> QED BY <1>1, <1>2, CopiesFrame

LEMMA LoadedStep ==
    ASSUME LoanInv, LoanInv', ContentInv, [Next]_vars
    PROVE  LoadedFit'
    <1> USE DEF LoanInv
    <1> SUFFICES ASSUME NEW j \in JobIds, NEW w \in Workers, Fills(j)', ~InTransfer(w, j)',
                        NEW m \in jobs'[j].moves
                 PROVE  Holds(w, m.block, m.key)'
      BY DEF LoadedFit
    <1>1. Live(j)
      <2>1. CASE ~Live(j)
        <3>1. stage'[w][j] = "sent"
          BY <2>1, NewJobs DEF Fills
        <3> QED BY <3>1 DEF InTransfer
      <2> QED BY <2>1
    <1>2. /\ Fills(j) /\ m \in jobs[j].moves /\ jobs'[j].moves = jobs[j].moves
          /\ JobBlocks(j)' = JobBlocks(j)
      BY <1>1, OldJobs DEF Fills
    <1>3. /\ m.block \in Blocks /\ m.block \in JobBlocks(j) /\ m.block \in JobBlocks(j)'
      <2>1. jobs[j].moves \subseteq Move
        BY <1>1, JobTyped DEF Job
      <2> QED BY <1>2, <2>1 DEF JobBlocks, Move
    <1>4. HeldOf(m.block) /\ HeldOf(m.block)'
      BY <1>2, <1>3 DEF HeldOf
    <1>5. CASE ~InTransfer(w, j)
      <2>1. Holds(w, m.block, m.key)
        BY <1>2, <1>5 DEF ContentInv, LoadedFit
      <2>2. \A k \in JobIds : TransferDone(w, k) /\ Fills(k) => m.block \notin JobBlocks(k)
        <3>1. ~TransferDone(w, j)
          BY <1>5 DEF TransferDone, InTransfer
        <3> QED BY <1>2, <1>3, <3>1, FillsAreApart DEF FillsApart
      <2> QED BY <1>3, <1>4, <2>1, <2>2, HeldKept
    <1>6. CASE InTransfer(w, j)
      <2>1. TransferDone(w, j)
        BY <1>2, <1>6, TransferEnds DEF ContentInv, Fills
      <2>2. (CHOOSE n \in jobs[j].moves : n.block = m.block) = m
        BY <1>2 DEF ContentInv, MovesFit
      <2>3. gpu'[w][m.block] = m.key
        <3>1. gpu' = [gpu EXCEPT ![w] = [b \in Blocks |->
                        IF \E n \in jobs[j].moves : n.block = b
                        THEN (CHOOSE n \in jobs[j].moves : n.block = b).key
                        ELSE gpu[w][b]]]
          BY <1>2, <2>1 DEF TransferDone, Fills
        <3>2. gpu'[w] = [b \in Blocks |->
                        IF \E n \in jobs[j].moves : n.block = b
                        THEN (CHOOSE n \in jobs[j].moves : n.block = b).key
                        ELSE gpu[w][b]]
          BY <3>1 DEF TypeInv, TypeOK
        <3> QED BY <1>2, <1>3, <2>2, <3>2
      <2>4. ASSUME NEW s \in SpliceIds, InCopy(w, s) PROVE m.block \notin Destinations(s)
        <3>1. CASE copyStage[w][s] = "copying"
          BY <1>3, <2>1, <3>1 DEF TransferDone
        <3>2. CASE copyStage[w][s] = "sent"
          <4>1. PICK r \in Requests :
                  /\ Destinations(s) \subseteq TableBlocks(r)
                  /\ \A k \in JobIds : Live(k) /\ jobs[k].kind = "load" /\ jobs[k].req = r =>
                        JobBlocks(k) \cap Destinations(s) = {}
            BY <3>2 DEF ContentInv, SentFit
          <4>2. m.block \in TableBlocks(r) => jobs[j].kind = "load" /\ jobs[j].req = r
            BY <1>2, <1>3, FillsAreApart DEF FillsApart
          <4> QED BY <1>1, <1>3, <4>1, <4>2
        <3> QED BY <2>4, <3>1, <3>2 DEF InCopy
      <2>5. UNCHANGED <<copies, copyStage>>
        BY <2>1 DEF TransferDone, semVars
      <2>6. Clean(w, m.block)'
        BY <2>4, <2>5 DEF Clean, InCopy, Destinations
      <2> QED BY <2>3, <2>6 DEF Holds
    <1> QED BY <1>5, <1>6

\* What the prefetch of a reservation loads.
LEMMA ReservedHolds ==
    ASSUME TypeInv, NEW r \in Requests, Reserve(r)
    PROVE  PrefetchHolds(r)'
    <1>1. PICK j \in JobIds, n \in Nat :
            \E ids \in Injection(1 .. n, free), keys \in Seq(Keys) :
                /\ Started(j, "prefetch", r, Filling(n, keys, ids))
                /\ prefetched'[r] = [job |-> j, keys |-> keys, blocks |-> ids]
      BY Reservation
    <1>2. PICK ids \in Injection(1 .. n, free), keys \in Seq(Keys) :
            /\ Started(j, "prefetch", r, Filling(n, keys, ids))
            /\ prefetched'[r] = [job |-> j, keys |-> keys, blocks |-> ids]
      BY <1>1
    <1>3. PICK pf : pf = prefetched'[r]
      OBVIOUS
    <1>4. pf.job = j /\ pf.keys = keys /\ pf.blocks = ids
      BY <1>2, <1>3
    <1>5. DOMAIN ids = 1 .. n /\ \A i, k \in 1 .. n : ids[i] = ids[k] => i = k
      BY DEF Injection, IsInjective
    <1>6. Live(j)' /\ jobs'[j].moves = Filling(n, keys, ids)
      BY <1>2 DEF Started, NewJob, Live
    <1>7. \A i \in 1 .. n : [key |-> keys[i], block |-> ids[i]] \in jobs'[j].moves
      BY <1>6 DEF Filling
    <1> QED BY <1>3, <1>4, <1>5, <1>6, <1>7 DEF PrefetchHolds

LEMMA PrefetchesStep ==
    ASSUME LoanInv, LoanInv', ContentInv, [Next]_vars
    PROVE  PrefetchesHold'
    <1> USE DEF LoanInv
    <1> SUFFICES ASSUME NEW r \in Requests, prefetched'[r] # None, ~Reserve(r)
                 PROVE  PrefetchHolds(r)'
      BY ReservedHolds DEF PrefetchesHold, PrefetchHolds
    <1>1. prefetched'[r] = prefetched[r] /\ PrefetchHolds(r)
      BY PrefetchFrame DEF ContentInv, PrefetchesHold
    <1>2. PICK pf : pf = prefetched[r]
      OBVIOUS
    <1>3. /\ pf \in PrefetchState /\ pf # None
          /\ pf.blocks \in Seq(Blocks) /\ pf.job \in JobIds
      BY <1>1, <1>2 DEF TypeInv, TypeOK, PrefetchState
    <1>4. ASSUME NEW i \in DOMAIN pf.blocks
          PROVE  /\ pf.blocks[i] \in Blocks /\ HeldOf(pf.blocks[i]) /\ HeldOf(pf.blocks[i])'
                 /\ pf.blocks[i] \in PrefetchBlocks(r)
      <2>1. pf.blocks[i] \in Blocks
        BY <1>3, <1>4, Sequences2
      <2>2. pf.blocks[i] \in PrefetchBlocks(r) /\ pf.blocks[i] \in PrefetchBlocks(r)'
        BY <1>1, <1>2, <1>3, <1>4 DEF PrefetchBlocks, Range
      <2> QED BY <2>1, <2>2 DEF HeldOf
    <1>5. ASSUME NEW i \in DOMAIN pf.blocks, Live(pf.job)'
          PROVE  [key |-> pf.keys[i], block |-> pf.blocks[i]] \in jobs'[pf.job].moves
      <2>1. Live(pf.job)
        <3>1. SUFFICES ASSUME ~Live(pf.job) PROVE FALSE
          OBVIOUS
        <3>2. jobs'[pf.job].kind = "prefetch" /\ jobs'[pf.job].req = r
          BY <1>1, <1>2, <1>3, <1>5 DEF BlockInv, Fits, PrefetchFits
        <3>3. Reserve(r)
          BY <1>3, <1>5, <3>1, <3>2, NewKinds
        <3> QED BY <3>3
      <2>2. [key |-> pf.keys[i], block |-> pf.blocks[i]] \in jobs[pf.job].moves
        BY <1>1, <1>2, <1>3, <1>5, <2>1 DEF PrefetchHolds
      <2> QED BY <1>3, <1>5, <2>1, <2>2, OldJobs
    <1>6. ASSUME NEW i \in DOMAIN pf.blocks, ~Live(pf.job)', NEW w \in Workers
          PROVE  Holds(w, pf.blocks[i], pf.keys[i])'
      <2>1. ~InTransfer(w, pf.job)
        BY <1>3, <1>6, JobEnds, TransferTracked
      <2>2. Holds(w, pf.blocks[i], pf.keys[i])
        <3>1. CASE ~Live(pf.job)
          BY <1>1, <1>2, <1>3, <1>6, <3>1 DEF PrefetchHolds
        <3>2. CASE Live(pf.job)
          <4>1. Fills(pf.job)
            BY <1>2, <1>3, <3>2 DEF BlockInv, Fits, PrefetchFits, Fills
          <4>2. PICK m \in jobs[pf.job].moves : m.block = pf.blocks[i] /\ m.key = pf.keys[i]
            BY <1>1, <1>2, <1>3, <1>6, <3>2 DEF PrefetchHolds
          <4> QED BY <1>3, <2>1, <4>1, <4>2 DEF ContentInv, LoadedFit
        <3> QED BY <3>1, <3>2
      <2>3. \A k \in JobIds : TransferDone(w, k) /\ Fills(k) => pf.blocks[i] \notin JobBlocks(k)
        <3>1. ~TransferDone(w, pf.job)
          BY <2>1 DEF TransferDone, InTransfer
        <3>2. \A k \in JobIds : Fills(k) /\ pf.blocks[i] \in JobBlocks(k) => k = pf.job
          BY <1>2, <1>4, <1>6, FillsAreApart DEF FillsApart
        <3> QED BY <3>1, <3>2
      <2> QED BY <1>4, <1>6, <2>2, <2>3, HeldKept
    <1>7. \A i, k \in DOMAIN pf.blocks : pf.blocks[k] = pf.blocks[i] => k = i
      BY <1>1, <1>2, <1>3 DEF PrefetchHolds
    <1>8. pf = prefetched'[r]
      BY <1>1, <1>2
    <1> QED BY <1>5, <1>6, <1>7, <1>8 DEF PrefetchHolds

\* A turn goes on, with its blocks and the positions it waits for, or an
\* admission begins it.
LEMMA TurnFrame ==
    ASSUME TypeInv, [Next]_vars, NEW r \in Requests, Turn(r)'
    PROVE  \/ /\ Turn(r) /\ table'[r] = table[r] /\ external'[r] = external[r]
              /\ status[r] # "loading" \/ status'[r] = "loading" \/ UpdateOutput
           \/ AdmitNormally(r) \/ AdmitSpliced(r)
    <1>1. CASE UNCHANGED <<status, table, external>>
      BY <1>1 DEF Turn
    <1>2. ASSUME NEW q \in Requests, Preempt(q)
          PROVE  q # r /\ status'[r] = status[r] /\ table'[r] = table[r] /\ external'[r] = external[r]
      BY <1>2 DEF Preempt, TypeInv, TypeOK, Turn
    <1>3. ASSUME NEW q \in Requests, Finish(q)
          PROVE  q # r /\ status'[r] = status[r] /\ table'[r] = table[r] /\ external'[r] = external[r]
      <2>1. q # r
        BY <1>3 DEF Finish, TypeInv, TypeOK, Turn
      <2>2. table' \in {table, [table EXCEPT ![q] = <<>>]}
        BY <1>3 DEF Finish
      <2>3. external' \in {external, [external EXCEPT ![q] = {}]}
        BY <1>3 DEF Finish
      <2>4. status' = [status EXCEPT ![q] = "finished"]
        BY <1>3 DEF Finish
      <2> QED BY <2>1, <2>2, <2>3, <2>4 DEF TypeInv, TypeOK
    <1>4. ASSUME NEW q \in Requests, AdmitNormally(q) \/ AdmitSpliced(q), q # r
          PROVE  status'[r] = status[r] /\ table'[r] = table[r] /\ external'[r] = external[r]
      <2>1. PICK t \in NewTables(q), plan \in LoadPlans(q) : Admitted(q, t, plan)
        BY <1>4, Admission
      <2> QED BY <1>4, <2>1 DEF Admitted, TypeInv, TypeOK
    <1>5. CASE UpdateOutput
      <2>1. status'[r] = IF r \in Received /\ status[r] = "loading" THEN "running" ELSE status[r]
        BY <1>5 DEF UpdateOutput
      <2>2. Turn(r) /\ status[r] # "finished"
        BY <2>1 DEF Turn
      <2>3. table'[r] = table[r] /\ external'[r] = external[r]
        BY <1>5, <2>2 DEF UpdateOutput
      <2> QED BY <1>5, <2>2, <2>3
    <1>6. ASSUME NEW q \in Requests, Reserve(q) \/ StopRetrying(q) \/ RetryLater(q)
          PROVE  UNCHANGED <<status, table, external>>
      BY <1>6 DEF Reserve, StopRetrying, RetryLater, coreVars
    <1>7. ASSUME NEW w \in Workers,
                 \/ Bind(w) \/ Report(w)
                 \/ \E j \in JobIds : TransferDone(w, j)
                 \/ \E s \in SpliceIds : SpliceDone(w, s)
          PROVE  UNCHANGED <<status, table, external>>
      BY <1>7 DEF Bind, Report, TransferDone, SpliceDone, coreVars
    <1>8. ASSUME UNCHANGED vars \/ BeginStep \/ BeginBuild \/ Send \/ ResetCache
          PROVE  UNCHANGED <<status, table, external>>
      BY <1>8 DEF vars, coreVars, BeginStep, BeginBuild, Send, ResetCache
    <1> QED
      BY <1>1, <1>2, <1>3, <1>4, <1>5, <1>6, <1>7, <1>8
      DEF Next, SchedulerStep, WorkerStep, Turn

\* An admission starts the only load of its request.
LEMMA AdmissionLoad ==
    ASSUME LoanInv, NEW r \in Requests, NEW t \in NewTables(r), NEW plan \in LoadPlans(r),
           NEW P \in SUBSET plan, CanAdmit(r), Admitted(r, t, plan), StartLoad(r, t, P),
           [Next]_vars, NEW j \in JobIds, Live(j)', jobs'[j].kind = "load", jobs'[j].req = r
    PROVE  jobs'[j].moves = MovesInto(r, t, P)
    <1>1. ~Live(j)
      <2>1. Live(j) => jobs[j].kind = "load" /\ jobs[j].req = r
        BY OldJobs DEF LoanInv
      <2> QED BY <2>1 DEF LoanInv, JobInv, JobsFit, JobFits, CanAdmit
    <1>2. P \in SUBSET Positions(r)
      BY PlansInside
    <1>3. jobs'[j] = NewJob("load", r, MovesInto(r, t, P))
      BY <1>1, <1>2, LoadJob DEF LoanInv
    <1> QED BY <1>3 DEF NewJob

\* A request whose turn goes on gets no load.
LEMMA OldLoads ==
    ASSUME LoanInv, [Next]_vars, NEW r \in Requests, Turn(r),
           NEW j \in JobIds, Live(j)', jobs'[j].kind = "load", jobs'[j].req = r
    PROVE  Live(j) /\ jobs[j].kind = "load" /\ jobs[j].req = r /\ jobs'[j].moves = jobs[j].moves
    <1>1. Live(j)
      <2>1. SUFFICES ASSUME ~Live(j) PROVE FALSE
        OBVIOUS
      <2>2. CanAdmit(r)
        BY <2>1, NewKinds DEF LoanInv
      <2> QED BY <2>2 DEF Turn, CanAdmit
    <1> QED BY <1>1, OldJobs DEF LoanInv

LEMMA TablesFitStep ==
    ASSUME LoanInv, TablesFit, [Next]_vars
    PROVE  TablesFit'
    <1> SUFFICES ASSUME NEW r \in Requests, Turn(r)'
                 PROVE
        /\ external'[r] \subseteq Positions(r)
        /\ \A i, k \in Positions(r) : table'[r][i] = table'[r][k] => i = k
        /\ \A j \in JobIds : Live(j)' /\ jobs'[j].kind = "load" /\ jobs'[j].req = r =>
              \A m \in jobs'[j].moves : \E i \in Positions(r) :
                  m = [key |-> OffloadKeys[r][i], block |-> table'[r][i]]
      BY DEF TablesFit, Positions
    <1>1. CASE AdmitNormally(r) \/ AdmitSpliced(r)
      <2>1. PICK t \in NewTables(r), plan \in LoadPlans(r) : \E P \in SUBSET plan :
              CanAdmit(r) /\ Admitted(r, t, plan) /\ StartLoad(r, t, P)
        BY <1>1, Admission DEF LoanInv
      <2>2. PICK P \in SUBSET plan : CanAdmit(r) /\ Admitted(r, t, plan) /\ StartLoad(r, t, P)
        BY <2>1
      <2>3. plan \subseteq Positions(r) /\ P \subseteq Positions(r)
        BY PlansInside
      <2>4. table'[r] = t /\ external'[r] = plan
        BY <2>2 DEF Admitted, LoanInv, TypeInv, TypeOK
      <2>5. \A i, k \in Positions(r) : t[i] = t[k] => i = k
        BY DEF NewTables, Injection, IsInjective
      <2>6. ASSUME NEW j \in JobIds, Live(j)', jobs'[j].kind = "load", jobs'[j].req = r,
                   NEW m \in jobs'[j].moves
            PROVE  \E i \in Positions(r) : m = [key |-> OffloadKeys[r][i], block |-> t[i]]
        <3>1. m \in MovesInto(r, t, P)
          BY <2>2, <2>6, AdmissionLoad
        <3> QED BY <2>3, <3>1 DEF MovesInto
      <2> QED BY <2>3, <2>4, <2>5, <2>6
    <1>2. CASE Turn(r) /\ table'[r] = table[r] /\ external'[r] = external[r]
      <2>1. \A j \in JobIds : Live(j)' /\ jobs'[j].kind = "load" /\ jobs'[j].req = r =>
              \A m \in jobs'[j].moves : \E i \in Positions(r) :
                  m = [key |-> OffloadKeys[r][i], block |-> table[r][i]]
        BY <1>2, OldLoads DEF TablesFit
      <2> QED BY <1>2, <2>1 DEF TablesFit
    <1> QED BY <1>1, <1>2, TurnFrame DEF LoanInv

\* Where a splice not yet issued by worker w goes.
SentFits(w, s) ==
    /\ \E r \in Requests :
          /\ status[r] = "loading" /\ Destinations(s) \subseteq TableBlocks(r)
          /\ \A j \in JobIds : Live(j) /\ jobs[j].kind = "load" /\ jobs[j].req = r =>
                JobBlocks(j) \cap Destinations(s) = {}
    /\ \A t \in SpliceIds : t # s /\ copyStage[w][t] = "sent" =>
          Destinations(s) \cap Destinations(t) = {}

LEMMA SentNotFree ==
    ASSUME LoanInv, SentFit, NEW w \in Workers, NEW s \in SpliceIds, copyStage[w][s] = "sent"
    PROVE  Destinations(s) \cap free = {}
    BY DEF SentFit, LoanInv, BlockInv, Partition, PoolApart

\* A splice sent before waits on.
LEMMA SentOn ==
    ASSUME LoanInv, ContentInv, [Next]_vars, NEW w \in Workers, NEW s \in SpliceIds,
           copyStage'[w][s] = "sent", copyStage[w][s] = "sent"
    PROVE  SentFits(w, s)'
    <1> USE DEF LoanInv
    <1>1. /\ copies'[s] = copies[s] /\ phase # "idle" /\ wpc[w] = "ready" /\ ~UpdateOutput
          /\ Destinations(s)' = Destinations(s)
      BY SentFrame DEF ContentInv, Destinations
    <1>2. PICK r \in Requests :
            /\ status[r] = "loading" /\ Destinations(s) \subseteq TableBlocks(r)
            /\ \A j \in JobIds : Live(j) /\ jobs[j].kind = "load" /\ jobs[j].req = r =>
                  JobBlocks(j) \cap Destinations(s) = {}
      BY DEF ContentInv, SentFit
    <1>3. status'[r] = "loading" /\ table'[r] = table[r]
      <2>1. Turn(r) /\ ~CanAdmit(r)
        BY <1>2 DEF Turn, CanAdmit
      <2>2. Turn(r)'
        <3>1. CASE status' = status
          BY <2>1, <3>1 DEF Turn
        <3>2. ASSUME NEW q \in Requests,
                     Preempt(q) \/ AdmitNormally(q) \/ AdmitSpliced(q) \/ Finish(q)
              PROVE  status'[r] = status[r]
          <4>1. ~Finish(q)
            BY <1>1 DEF Finish, BetweenPasses
          <4>2. CASE Preempt(q)
            BY <1>2, <4>2 DEF Preempt, TypeInv, TypeOK
          <4>3. CASE AdmitNormally(q) \/ AdmitSpliced(q)
            <5>1. PICK t \in NewTables(q), plan \in LoadPlans(q) :
                    CanAdmit(q) /\ Admitted(q, t, plan)
              BY <4>3, Admission
            <5> QED BY <2>1, <5>1 DEF Admitted, TypeInv, TypeOK
          <4> QED BY <3>2, <4>1, <4>2, <4>3
        <3>3. ASSUME NEW q \in Requests, Reserve(q) \/ StopRetrying(q) \/ RetryLater(q)
              PROVE  status' = status
          BY <3>3 DEF Reserve, StopRetrying, RetryLater, coreVars
        <3>4. ASSUME NEW v \in Workers,
                     \/ Bind(v) \/ Report(v)
                     \/ \E j \in JobIds : TransferDone(v, j)
                     \/ \E u \in SpliceIds : SpliceDone(v, u)
              PROVE  status' = status
          BY <3>4 DEF Bind, Report, TransferDone, SpliceDone, coreVars
        <3>5. ASSUME UNCHANGED vars \/ BeginStep \/ BeginBuild \/ Send \/ ResetCache
              PROVE  status' = status
          BY <3>5 DEF vars, coreVars, BeginStep, BeginBuild, Send, ResetCache
        <3> QED
          BY <1>1, <2>1, <3>1, <3>2, <3>3, <3>4, <3>5
          DEF Next, SchedulerStep, WorkerStep, Turn
      <2>3. ~AdmitNormally(r) /\ ~AdmitSpliced(r)
        BY <2>1 DEF AdmitNormally, AdmitSpliced
      <2> QED BY <1>1, <1>2, <2>2, <2>3, TurnFrame
    <1>4. \A j \in JobIds : Live(j)' /\ jobs'[j].kind = "load" /\ jobs'[j].req = r =>
             JobBlocks(j)' \cap Destinations(s)' = {}
      <2>1. Turn(r)
        BY <1>2 DEF Turn
      <2> QED BY <1>1, <1>2, <2>1, OldLoads DEF JobBlocks
    <1>5. ASSUME NEW t \in SpliceIds, t # s, copyStage'[w][t] = "sent"
          PROVE  Destinations(s)' \cap Destinations(t)' = {}
      <2>1. CASE copyStage[w][t] = "sent"
        <3>1. Destinations(t)' = Destinations(t)
          BY <1>5, <2>1, SentFrame DEF ContentInv, Destinations
        <3> QED BY <1>1, <1>5, <2>1, <3>1 DEF ContentInv, SentFit
      <2>2. CASE copyStage[w][t] # "sent"
        <3>1. InCopy(w, t)'
          BY <1>5 DEF InCopy
        <3>2. Destinations(t)' \subseteq free
          <4>1. InCopy(w, t) => ~(copyStage'[w][t] = copyStage[w][t])
            BY <1>5, <2>2
          <4> QED BY <2>2, <3>1, <4>1, CopyFrame
        <3>3. Destinations(s) \cap free = {}
          BY SentNotFree DEF ContentInv
        <3> QED BY <1>1, <3>2, <3>3
      <2> QED BY <2>1, <2>2
    <1>6. TableBlocks(r)' = TableBlocks(r)
      BY <1>3 DEF TableBlocks
    <1> QED BY <1>1, <1>2, <1>3, <1>4, <1>5, <1>6 DEF SentFits

\* The splice of an admission goes into the blocks it does not load.
LEMMA SentNow ==
    ASSUME LoanInv, ContentInv, [Next]_vars, NEW w \in Workers, NEW s \in SpliceIds,
           copyStage'[w][s] = "sent", copyStage[w][s] # "sent"
    PROVE  SentFits(w, s)'
    <1> USE DEF LoanInv
    <1>1. PICK r \in Requests : AdmitSpliced(r)
      BY SentFrame DEF ContentInv
    <1>2. PICK u \in SpliceIds, t \in NewTables(r), plan \in LoadPlans(r) :
            /\ CanAdmit(r) /\ plan # {}
            /\ copies'[u] = SpliceCopies(r, t, plan)
            /\ \A v \in SpliceIds : v # u => copies'[v] = copies[v]
            /\ \A v \in Workers : \A x \in SpliceIds : x # u => copyStage'[v][x] = copyStage[v][x]
            /\ StartLoad(r, t, plan \ Spliced(r, plan))
            /\ Admitted(r, t, plan)
      BY <1>1, SpliceAdmission
    <1>3. s = u
      BY <1>2
    <1>4. PICK P : P = plan \ Spliced(r, plan)
      OBVIOUS
    <1>5. P \in SUBSET plan /\ plan \subseteq Positions(r)
      BY <1>4, PlansInside
    <1>6. status'[r] = "loading" /\ table'[r] = t
      BY <1>2 DEF Admitted, TypeInv, TypeOK
    <1>7. t \in [Positions(r) -> free] /\ \A i, k \in Positions(r) : t[i] = t[k] => i = k
      BY DEF NewTables, Injection, IsInjective
    <1>8. ASSUME NEW b \in Destinations(s)'
          PROVE  \E i \in Spliced(r, plan) : b = t[i]
      <2>1. PICK c \in SpliceCopies(r, t, plan) : c.dst = b
        BY <1>2, <1>3, <1>8 DEF Destinations
      <2>2. PICK i \in plan : SpliceEntries(r, plan, i) # {} /\ c.dst = t[i]
        BY <2>1, SpliceTargets
      <2> QED BY <2>1, <2>2 DEF Spliced
    <1>9. Spliced(r, plan) \subseteq plan
      BY DEF Spliced
    <1>10. Destinations(s)' \subseteq TableBlocks(r)'
      BY <1>5, <1>6, <1>7, <1>8, <1>9 DEF TableBlocks, Range
    <1>11. ASSUME NEW j \in JobIds, Live(j)', jobs'[j].kind = "load", jobs'[j].req = r
           PROVE  JobBlocks(j)' \cap Destinations(s)' = {}
      <2>1. jobs'[j].moves = MovesInto(r, t, P)
        BY <1>2, <1>4, <1>5, <1>11, AdmissionLoad
      <2>2. \A b \in JobBlocks(j)' : \E i \in P : b = t[i]
        BY <2>1 DEF JobBlocks, MovesInto
      <2> QED BY <1>4, <1>5, <1>7, <1>8, <1>9, <2>2
    <1>12. Destinations(s)' \subseteq free
      BY <1>2, <1>3, SpliceTargets DEF Destinations
    <1>13. ASSUME NEW x \in SpliceIds, x # s, copyStage'[w][x] = "sent"
           PROVE  Destinations(s)' \cap Destinations(x)' = {}
      <2>1. copyStage[w][x] = "sent" /\ copies'[x] = copies[x]
        BY <1>2, <1>3, <1>13
      <2>2. Destinations(x) \cap free = {}
        BY <2>1, SentNotFree DEF ContentInv
      <2> QED BY <1>12, <2>1, <2>2 DEF Destinations
    <1> QED BY <1>6, <1>10, <1>11, <1>13 DEF SentFits

LEMMA SentStep ==
    ASSUME LoanInv, ContentInv, [Next]_vars
    PROVE  SentFit'
    BY SentOn, SentNow DEF SentFit, SentFits

---------------------------------------------------------------------------
(***************************************************************************)
(* What a request expects comes.                                           *)
(***************************************************************************)

\* At an admission, what is not loaded is copied from the settled prefetch.
LEMMA AdmittedExpects ==
    ASSUME LoanInv, LoanInv', ContentInv, [Next]_vars, NEW r \in Requests,
           AdmitNormally(r) \/ AdmitSpliced(r), NEW w \in Workers, NEW i \in external'[r]
    PROVE  Expected(w, r, i)'
    <1> USE DEF LoanInv
    <1>1. ASSUME NEW t \in NewTables(r), NEW plan \in LoadPlans(r), NEW P \in SUBSET plan,
                 Admitted(r, t, plan), StartLoad(r, t, P), i \in P
          PROVE  Expected(w, r, i)'
      <2>1. P \in SUBSET Positions(r)
        BY PlansInside
      <2>2. PICK j \in JobIds : Live(j)' /\ jobs'[j] = NewJob("load", r, MovesInto(r, t, P))
        BY <1>1, <2>1, LoadJob
      <2>3. table'[r] = t
        BY <1>1 DEF Admitted, TypeInv, TypeOK
      <2>4. [key |-> OffloadKeys[r][i], block |-> table'[r][i]] \in jobs'[j].moves
        BY <1>1, <2>2, <2>3 DEF NewJob, MovesInto
      <2>5. jobs'[j].kind = "load" /\ jobs'[j].req = r
        BY <2>2 DEF NewJob
      <2> QED BY <2>2, <2>4, <2>5 DEF Expected
    <1>2. CASE AdmitNormally(r)
      <2>1. PICK t \in NewTables(r), plan \in LoadPlans(r) :
              Admitted(r, t, plan) /\ StartLoad(r, t, plan)
        BY <1>2 DEF AdmitNormally
      <2>2. external'[r] = plan
        BY <2>1 DEF Admitted, TypeInv, TypeOK
      <2> QED BY <1>1, <2>1, <2>2
    <1>3. CASE AdmitSpliced(r)
      <2>1. PICK s \in SpliceIds, t \in NewTables(r), plan \in LoadPlans(r) :
              /\ Settled(r)
              /\ copies'[s] = SpliceCopies(r, t, plan)
              /\ \A v \in Workers : copyStage'[v][s] = "sent"
              /\ StartLoad(r, t, plan \ Spliced(r, plan))
              /\ Admitted(r, t, plan)
              /\ free' = free \ Range(t)
        BY <1>3, SpliceAdmission
      <2>2. external'[r] = plan /\ table'[r] = t
        BY <2>1 DEF Admitted, TypeInv, TypeOK
      <2>3. CASE i \notin Spliced(r, plan)
        <3>1. i \in plan \ Spliced(r, plan) /\ plan \ Spliced(r, plan) \in SUBSET plan
          BY <2>2, <2>3
        <3> QED BY <1>1, <2>1, <3>1
      <2>4. CASE i \in Spliced(r, plan)
        <3>1. PICK m \in SpliceEntries(r, plan, i) : i \in plan
          BY <2>4 DEF Spliced
        <3>2. PICK pf : pf = prefetched[r]
          OBVIOUS
        <3>3. /\ pf # None /\ ~Live(pf.job) /\ pf.keys[m] = OffloadKeys[r][i]
              /\ m \in DOMAIN pf.keys
          BY <2>1, <3>1, <3>2 DEF Settled, SpliceEntries
        <3>4. /\ m \in DOMAIN pf.blocks /\ pf.blocks[m] \in Blocks
              /\ pf.blocks[m] \in PrefetchBlocks(r)
          <4>1. pf.keys \in Seq(Keys) /\ pf.blocks \in Seq(Blocks)
            BY <3>2, <3>3 DEF TypeInv, TypeOK, PrefetchState
          <4>2. Len(pf.keys) = Len(pf.blocks)
            BY <3>2, <3>3 DEF TypeInv, RequestShape, ShapeOf
          <4>3. m \in DOMAIN pf.blocks
            BY <3>3, <4>1, <4>2, Sequences2
          <4> QED BY <3>2, <3>3, <4>1, <4>3, Sequences2 DEF PrefetchBlocks, Range
        <3>5. Holds(w, pf.blocks[m], OffloadKeys[r][i])
          BY <3>2, <3>3, <3>4 DEF ContentInv, PrefetchesHold, PrefetchHolds
        <3>6. pf.blocks[m] \notin free /\ pf.blocks[m] \notin free'
          BY <2>1, <3>4 DEF BlockInv, Partition, PoolApart
        <3>7. \A j \in JobIds : ~TransferDone(w, j)
          BY <1>3 DEF AdmitSpliced, CanAdmit, TransferDone
        <3>8. Holds(w, pf.blocks[m], OffloadKeys[r][i])'
          BY <3>4, <3>5, <3>6, <3>7, HoldsKept
        <3>9. [src |-> pf.blocks[m], dst |-> table'[r][i]] \in copies'[s]
          BY <2>1, <2>2, <3>1, <3>2 DEF SpliceCopies
        <3>10. InCopy(w, s)' /\ copyStage'[w][s] # "copying"
          BY <2>1 DEF InCopy
        <3> QED BY <3>8, <3>9, <3>10 DEF Expected, Arriving
      <2> QED BY <2>3, <2>4
    <1> QED BY <1>2, <1>3

\* What is being loaded goes on being loaded, or is in place.
LEMMA LoadExpected ==
    ASSUME LoanInv, LoanInv', ContentInv, [Next]_vars, NEW r \in Requests, Turn(r),
           table'[r] = table[r], NEW w \in Workers, NEW i, NEW j \in JobIds,
           Live(j), jobs[j].kind = "load", jobs[j].req = r,
           [key |-> OffloadKeys[r][i], block |-> table[r][i]] \in jobs[j].moves
    PROVE  Expected(w, r, i)'
    <1> USE DEF LoanInv
    <1>1. CASE Live(j)'
      BY <1>1, OldJobs DEF Expected
    <1>2. CASE ~Live(j)'
      <2>1. PICK m : m = [key |-> OffloadKeys[r][i], block |-> table[r][i]]
        OBVIOUS
      <2>2. m \in jobs[j].moves /\ m.key = OffloadKeys[r][i] /\ m.block = table[r][i]
        BY <2>1
      <2>3. ~InTransfer(w, j) /\ Fills(j)
        BY <1>2, JobEnds DEF Fills
      <2>4. Holds(w, m.block, m.key)
        BY <2>2, <2>3 DEF ContentInv, LoadedFit
      <2>5. m.block \in Blocks /\ m.block \in JobBlocks(j)
        <3>1. jobs[j].moves \subseteq Move
          BY JobTyped DEF Job
        <3> QED BY <2>2, <3>1 DEF Move, JobBlocks
      <2>6. m.block \in TableBlocks(r) /\ m.block \in TableBlocks(r)'
        <3>1. JobBlocks(j) \subseteq TableBlocks(r)
          BY DEF BlockInv, Fits, LoadFits
        <3> QED BY <2>5, <3>1 DEF TableBlocks
      <2>7. \A k \in JobIds : TransferDone(w, k) /\ Fills(k) => m.block \notin JobBlocks(k)
        <3>1. ~TransferDone(w, j)
          BY <2>3 DEF TransferDone, InTransfer
        <3> QED BY <2>3, <2>5, <3>1, FillsAreApart DEF FillsApart
      <2>8. Holds(w, m.block, m.key)'
        BY <2>4, <2>5, <2>6, <2>7, HeldKept DEF HeldOf
      <2> QED BY <2>2, <2>8 DEF Expected
    <1> QED BY <1>1, <1>2

\* A copy under way still arrives, or has.
LEMMA CopyExpected ==
    ASSUME LoanInv, LoanInv', ContentInv, [Next]_vars, NEW r \in Requests, Turn(r),
           NEW w \in Workers, NEW b \in TableBlocks(r), NEW k, Arriving(w, b, k)
    PROVE  Holds(w, b, k)' \/ Arriving(w, b, k)'
    <1> USE DEF LoanInv
    <1> DEFINE Arrives(s, c) ==
                 /\ InCopy(w, s) /\ c.dst = b /\ Holds(w, c.src, k)
                 /\ copyStage[w][s] = "copying" =>
                      \A t \in SpliceIds : t # s /\ InCopy(w, t) => b \notin Destinations(t)
    <1>0. PICK s \in SpliceIds : \E c \in copies[s] : Arrives(s, c)
      BY DEF Arriving
    <1>1. PICK c \in copies[s] : Arrives(s, c)
      BY <1>0
    <1>2. c.src \in Blocks /\ b \in Blocks /\ b \in Destinations(s) /\ c.src \in Sources(s)
      <2>1. copies[s] \subseteq Copy
        BY DEF TypeInv, TypeOK
      <2> QED BY <1>1, <2>1 DEF Copy, Destinations, Sources
    <1>3. CASE SpliceDone(w, s)
      <2>1. copyStage[w][s] = "copying" /\ copies' = copies
            /\ copyStage' = [copyStage EXCEPT ![w][s] = "done"]
        BY <1>3 DEF SpliceDone, semVars
      <2>2. (CHOOSE d \in copies[s] : d.dst = b) = c
        BY <1>1 DEF ContentInv, CopiesFit
      <2>3. PICK f : f = [a \in Blocks |->
                            IF a \in Destinations(s)
                            THEN gpu[w][(CHOOSE d \in copies[s] : d.dst = a).src]
                            ELSE gpu[w][a]]
        OBVIOUS
      <2>4. gpu' = [gpu EXCEPT ![w] = f]
        BY <1>3, <2>3 DEF SpliceDone
      <2>5. gpu'[w] = f
        BY <2>4 DEF TypeInv, TypeOK
      <2>6. f[b] = gpu[w][c.src]
        BY <1>2, <2>2, <2>3
      <2>7. gpu'[w][b] = k
        BY <1>1, <2>5, <2>6 DEF Holds
      <2>8. ASSUME NEW t \in SpliceIds, InCopy(w, t)' PROVE b \notin Destinations(t)'
        <3>1. t # s /\ copyStage'[w][t] = copyStage[w][t]
          BY <2>1, <2>8 DEF InCopy, TypeInv, TypeOK
        <3>2. InCopy(w, t)
          BY <2>8, <3>1 DEF InCopy
        <3>3. b \notin Destinations(t)
          BY <1>1, <2>1, <3>1, <3>2
        <3> QED BY <2>1, <3>3 DEF Destinations
      <2> QED BY <2>7, <2>8 DEF Holds, Clean
    <1>4. CASE ~SpliceDone(w, s)
      <2>1. InCopy(w, s)'
        BY <1>1, <1>4, CopyEnds
      <2>2. copies'[s] = copies[s]
            /\ (copyStage'[w][s] = copyStage[w][s] \/ (Bind(w) /\ copyStage[w][s] = "sent"))
        BY <1>1, <2>1, CopyFrame
      <2>3. c.src \in SpliceBlocks(s)
        <3>1. SpliceFits(s) /\ w \in Copying(s)
          BY <1>1 DEF BlockInv, SplicesFit, InCopy, Copying
        <3> QED BY <1>2, <3>1 DEF SpliceFits, SpliceBlocks
      <2>4. c.src \in SpliceBlocks(s)'
        <3>1. SpliceFits(s)' /\ w \in Copying(s)'
          BY <2>1 DEF BlockInv, SplicesFit, InCopy, Copying
        <3>2. c.src \in Sources(s)'
          BY <1>2, <2>2 DEF Sources
        <3> QED BY <3>1, <3>2 DEF SpliceFits, SpliceBlocks
      <2>5. \A j \in JobIds : Fills(j) => c.src \notin JobBlocks(j)
        BY <2>3, FillsAreApart DEF FillsApart
      <2>6. Holds(w, c.src, k)'
        BY <1>1, <1>2, <2>3, <2>4, <2>5, HeldKept DEF HeldOf
      <2>7. ASSUME copyStage'[w][s] = "copying", NEW t \in SpliceIds, t # s, InCopy(w, t)'
            PROVE  b \notin Destinations(t)'
        <3>1. CASE ~InCopy(w, t)
          <4>1. Destinations(t)' \subseteq free
            BY <2>7, <3>1, CopyFrame
          <4>2. b \notin free
            BY DEF BlockInv, Partition, PoolApart
          <4> QED BY <4>1, <4>2
        <3>2. CASE InCopy(w, t)
          <4>1. Destinations(t)' = Destinations(t)
            <5>1. copies'[t] = copies[t]
              BY <2>7, <3>2, CopyFrame
            <5> QED BY <5>1 DEF Destinations
          <4>2. CASE copyStage[w][s] = "copying"
            BY <1>1, <2>7, <3>2, <4>1, <4>2
          <4>3. CASE copyStage[w][s] = "sent" /\ copyStage[w][t] = "sent"
            BY <1>2, <2>7, <4>1, <4>3 DEF ContentInv, SentFit
          <4>4. CASE copyStage[w][s] = "sent" /\ copyStage[w][t] = "copying"
            <5>1. Bind(w)
              BY <2>2, <2>7, <4>4
            <5>2. Destinations(t) \cap Destinations(s) = {}
              BY <4>4, <5>1 DEF Bind
            <5> QED BY <1>2, <4>1, <5>2
          <4> QED BY <1>1, <3>2, <4>2, <4>3, <4>4 DEF InCopy
        <3> QED BY <3>1, <3>2
      <2>8. c \in copies'[s]
        BY <2>2
      <2> QED BY <1>1, <2>1, <2>6, <2>7, <2>8 DEF Arriving
    <1> QED BY <1>3, <1>4

\* A turn that goes on expects what it expected.
LEMMA TurnExpects ==
    ASSUME LoanInv, LoanInv', ContentInv, [Next]_vars, NEW r \in Requests, Turn(r),
           table'[r] = table[r], external'[r] = external[r],
           NEW w \in Workers, NEW i \in external[r]
    PROVE  Expected(w, r, i)'
    <1> USE DEF LoanInv
    <1>1. PICK b, k : b = table[r][i] /\ k = OffloadKeys[r][i]
      OBVIOUS
    <1>2. i \in Positions(r)
      BY DEF ContentInv, TablesFit
    <1>3. b \in TableBlocks(r) /\ b \in TableBlocks(r)' /\ b \in Blocks
      <2>1. table[r] \in Seq(Blocks) /\ Len(table[r]) = Len(OffloadKeys[r])
        BY DEF TypeInv, TypeOK, RequestShape, ShapeOf, Turn
      <2>2. i \in DOMAIN table[r] /\ table[r][i] \in Blocks
        BY <1>2, <2>1, Chains, Sequences2
      <2> QED BY <1>1, <2>2 DEF TableBlocks, Range
    <1>4. CASE \E j \in JobIds : Fills(j) /\ b \in JobBlocks(j)
      <2>1. PICK j \in JobIds : Fills(j) /\ b \in JobBlocks(j)
        BY <1>4
      <2>2. Live(j) /\ jobs[j].kind = "load" /\ jobs[j].req = r
        BY <1>3, <2>1, FillsAreApart DEF FillsApart, Fills
      <2>3. PICK m \in jobs[j].moves : m.block = b
        BY <2>1 DEF JobBlocks
      <2>4. PICK l \in Positions(r) : m = [key |-> OffloadKeys[r][l], block |-> table[r][l]]
        BY <2>2, <2>3 DEF ContentInv, TablesFit
      <2>5. l = i
        BY <1>1, <1>2, <2>3, <2>4 DEF ContentInv, TablesFit
      <2> QED BY <2>2, <2>4, <2>5, LoadExpected
    <1>5. CASE \A j \in JobIds : Fills(j) => b \notin JobBlocks(j)
      <2>1. Expected(w, r, i)
        BY DEF ContentInv, ContentComes
      <2>2. CASE \E j \in JobIds : /\ Live(j) /\ jobs[j].kind = "load" /\ jobs[j].req = r
                                   /\ [key |-> k, block |-> b] \in jobs[j].moves
        BY <1>1, <2>2, LoadExpected
      <2>3. CASE Holds(w, b, k)
        <3>1. Holds(w, b, k)'
          BY <1>3, <1>5, <2>3, HeldKept DEF HeldOf
        <3> QED BY <1>1, <3>1 DEF Expected
      <2>4. CASE Arriving(w, b, k)
        <3>1. Holds(w, b, k)' \/ Arriving(w, b, k)'
          BY <1>3, <2>4, CopyExpected
        <3> QED BY <1>1, <3>1 DEF Expected
      <2> QED BY <1>1, <2>1, <2>2, <2>3, <2>4 DEF Expected
    <1> QED BY <1>4, <1>5

LEMMA ComesStep ==
    ASSUME LoanInv, LoanInv', ContentInv, [Next]_vars
    PROVE  ContentComes'
    <1> SUFFICES ASSUME NEW r \in Requests, Turn(r)', NEW w \in Workers, NEW i \in external'[r]
                 PROVE  Expected(w, r, i)'
      BY DEF ContentComes
    <1>1. CASE AdmitNormally(r) \/ AdmitSpliced(r)
      BY <1>1, AdmittedExpects
    <1>2. CASE Turn(r) /\ table'[r] = table[r] /\ external'[r] = external[r]
      BY <1>2, TurnExpects
    <1> QED BY <1>1, <1>2, TurnFrame DEF LoanInv

---------------------------------------------------------------------------
LEMMA ContentInit == Init => ContentInv
    <1> SUFFICES ASSUME Init PROVE ContentInv
      OBVIOUS
    <1>1. \A j \in JobIds : ~Live(j)
      BY DEF Init, Live
    <1>2. \A w \in Workers, s \in SpliceIds : copyStage[w][s] = "none"
      BY DEF Init
    <1>3. PhasesFit
      BY <1>2 DEF Init, PhasesFit
    <1>4. MovesFit /\ LoadedFit
      BY <1>1 DEF MovesFit, LoadedFit, Fills
    <1>5. CopiesFit
      BY DEF Init, CopiesFit
    <1>6. PrefetchesHold
      BY DEF Init, PrefetchesHold, PrefetchHolds
    <1>7. SentFit
      BY <1>2 DEF SentFit
    <1>8. TablesFit /\ ContentComes
      BY DEF Init, TablesFit, ContentComes, Turn
    <1> QED BY <1>3, <1>4, <1>5, <1>6, <1>7, <1>8 DEF ContentInv

LEMMA ContentStep == LoanInv /\ LoanInv' /\ ContentInv /\ [Next]_vars => ContentInv'
    <1> SUFFICES ASSUME LoanInv, LoanInv', ContentInv, [Next]_vars PROVE ContentInv'
      OBVIOUS
    <1>1. TypeInv
      BY DEF LoanInv
    <1>2. PhasesFit'
      BY <1>1, PhasesStep DEF ContentInv
    <1>3. MovesFit'
      BY <1>1, MovesStep DEF ContentInv
    <1>4. CopiesFit'
      BY <1>1, CopiesStep DEF ContentInv
    <1>5. LoadedFit'
      BY LoadedStep
    <1>6. PrefetchesHold'
      BY PrefetchesStep
    <1>7. SentFit'
      BY SentStep
    <1>8. TablesFit'
      BY TablesFitStep DEF ContentInv
    <1>9. ContentComes'
      BY ComesStep
    <1> QED BY <1>2, <1>3, <1>4, <1>5, <1>6, <1>7, <1>8, <1>9 DEF ContentInv

LEMMA ContentInvariant == Spec => [](LoanInv /\ ContentInv)
    <1>1. Spec => []LoanInv
      BY LoanInvariant, PTL
    <1> QED BY <1>1, ContentInit, ContentStep, PTL DEF Spec

\* When a request runs, every position it expected from the CPU tier holds its
\* key on every worker, or an issued copy of a block that holds it is on its
\* way: whatever was preempted, prefetched, spliced, reset, aborted or handed
\* out again in between (749-766, 1139-1143).
THEOREM ContentCorrect == Spec => []ContentReady
    <1>1. ASSUME LoanInv, ContentInv, NEW r \in Requests, status[r] = "running",
                 NEW w \in Workers, NEW i \in external[r]
          PROVE  \/ gpu[w][table[r][i]] = OffloadKeys[r][i]
                 \/ \E s \in SpliceIds : \E c \in copies[s] :
                       /\ copyStage[w][s] \in {"sent", "copying"}
                       /\ c.dst = table[r][i]
                       /\ gpu[w][c.src] = OffloadKeys[r][i]
      <2>1. Expected(w, r, i)
        BY <1>1 DEF ContentInv, ContentComes, Turn
      <2>2. \A j \in JobIds : Live(j) /\ jobs[j].kind = "load" => jobs[j].req # r
        BY <1>1 DEF LoanInv, JobInv, JobsFit, JobFits
      <2>3. CASE Holds(w, table[r][i], OffloadKeys[r][i])
        BY <2>3 DEF Holds
      <2>4. CASE Arriving(w, table[r][i], OffloadKeys[r][i])
        BY <2>4 DEF Arriving, Holds, InCopy
      <2> QED BY <2>1, <2>2, <2>3, <2>4 DEF Expected
    <1>2. LoanInv /\ ContentInv => ContentReady
      BY <1>1 DEF ContentReady
    <1> QED BY <1>2, ContentInvariant, PTL

---------------------------------------------------------------------------
(***************************************************************************)
(* The stores that still read what is about to be written.                 *)
(***************************************************************************)

\* Blocks B are fenced for the writes of this step: until the metadata is built
\* they are among those handed out, and then every store that reads one of
\* them is flushed.
Fence(B) ==
    /\ phase # "idle"
    /\ phase \in {"schedule", "build"} => B \subseteq allocated
    /\ phase = "execute" =>
          \A j \in JobIds : Live(j) /\ jobs[j].kind = "store" /\ JobBlocks(j) \cap B # {} =>
             j \in flush

\* What a worker has been sent to write, and has not issued, is fenced.
FencesFit ==
    /\ \A w \in Workers, j \in JobIds : Fills(j) /\ stage[w][j] = "sent" =>
          wpc[w] = "ready" /\ Fence(JobBlocks(j))
    /\ \A w \in Workers, s \in SpliceIds : copyStage[w][s] = "sent" => Fence(Destinations(s))

\* The blocks handed out are forgotten only when the metadata is built.
LEMMA AllocatedFrame ==
    ASSUME [Next]_vars, ~Send
    PROVE  allocated \subseteq allocated'
    <1>1. ASSUME NEW r \in Requests, AdmitNormally(r) \/ AdmitSpliced(r)
          PROVE  allocated \subseteq allocated'
      BY <1>1 DEF AdmitNormally, AdmitSpliced, Admitted, HandOut
    <1>2. ASSUME NEW r \in Requests, Reserve(r) PROVE allocated \subseteq allocated'
      BY <1>2 DEF Reserve, Borrow, HandOut
    <1>3. ASSUME NEW r \in Requests, Preempt(r) \/ Finish(r) \/ StopRetrying(r) \/ RetryLater(r)
          PROVE  allocated' = allocated
      BY <1>3 DEF Preempt, Finish, StopRetrying, RetryLater, baseVars
    <1>4. ASSUME NEW w \in Workers,
                 \/ Bind(w) \/ Report(w)
                 \/ \E j \in JobIds : TransferDone(w, j)
                 \/ \E s \in SpliceIds : SpliceDone(w, s)
          PROVE  allocated' = allocated
      BY <1>4 DEF Bind, Report, TransferDone, SpliceDone, baseVars
    <1>5. ASSUME UNCHANGED vars \/ BeginStep \/ BeginBuild \/ ResetCache \/ UpdateOutput
          PROVE  allocated' = allocated
      BY <1>5 DEF vars, baseVars, BeginStep, BeginBuild, ResetCache, UpdateOutput
    <1> QED BY <1>1, <1>2, <1>3, <1>4, <1>5 DEF Next, SchedulerStep, WorkerStep

\* A fence lasts until the workers have passed it.
LEMMA FenceKept ==
    ASSUME LoanInv, [Next]_vars, ~UpdateOutput, NEW B, Fence(B),
           \A r \in Requests : status[r] = "running" => B \cap TableBlocks(r) = {}
    PROVE  Fence(B)'
    <1> USE DEF LoanInv
    <1>1. phase' # "idle"
      BY PhaseFrame DEF Fence, BeginStep, BeginBuild, Send
    <1>2. CASE Send
      <2>1. phase = "build" /\ phase' = "execute" /\ B \subseteq allocated
        BY <1>2 DEF Send, Fence
      <2>2. ASSUME NEW j \in JobIds, Live(j)', jobs'[j].kind = "store", JobBlocks(j)' \cap B # {}
            PROVE  j \in flush'
        <3>1. Live(j)
          <4>1. ~Live(j) => \E r \in Requests :
                   status[r] = "running" /\ JobBlocks(j)' \subseteq TableBlocks(r)
            BY <1>2, <2>2, StoreJob
          <4> QED BY <2>2, <4>1
        <3>2. jobs'[j] = jobs[j]
          BY <1>2, <3>1, StoreJob
        <3>3. JobBlocks(j) \cap allocated # {} /\ jobs[j].kind = "store"
          BY <2>1, <2>2, <3>2 DEF JobBlocks
        <3> QED BY <1>2, <3>1, <3>3 DEF Send
      <2> QED BY <2>1, <2>2 DEF Fence
    <1>3. CASE ~Send
      <2>1. phase' \in {"schedule", "build"} => phase \in {"schedule", "build"}
        BY <1>3, PhaseFrame DEF Fence, BeginStep, BeginBuild
      <2>2. CASE phase' \in {"schedule", "build"}
        BY <1>1, <1>3, <2>1, <2>2, AllocatedFrame DEF Fence
      <2>3. CASE phase' = "execute"
        <3>1. phase = "execute"
          BY <1>3, <2>3, PhaseFrame DEF BeginStep, BeginBuild
        <3>2. jobs' = jobs
          <4>1. ASSUME NEW r \in Requests, Reserve(r) \/ AdmitNormally(r) \/ AdmitSpliced(r)
                PROVE  phase # "execute"
            BY <4>1 DEF Reserve, AdmitNormally, AdmitSpliced, CanAdmit
          <4> QED BY <1>3, <3>1, <4>1, JobsSame
        <3>3. flush' = flush
          BY <1>3, FlushFrame
        <3> QED BY <1>1, <2>3, <3>1, <3>2, <3>3 DEF Fence, Live, JobBlocks
      <2>4. phase' \in {"idle", "schedule", "build", "execute"}
        BY TypeStep DEF TypeInv, TypeOK
      <2> QED BY <1>1, <2>2, <2>3, <2>4
    <1> QED BY <1>2, <1>3

\* A transfer of an old job that is still to be issued was so before.
LEMMA StageFrame ==
    ASSUME TypeInv, [Next]_vars, NEW w \in Workers, NEW j \in JobIds, Live(j),
           stage'[w][j] = "sent"
    PROVE  stage[w][j] = "sent" /\ ~Bind(w)
    <1>1. ASSUME Send \/ \E r \in Requests : AdmitNormally(r) \/ AdmitSpliced(r) \/ Reserve(r)
          PROVE  stage'[w][j] = stage[w][j]
      <2>1. CASE Send
        BY <2>1, StoreJob
      <2>2. ASSUME NEW r \in Requests, AdmitNormally(r) \/ AdmitSpliced(r)
            PROVE  stage'[w][j] = stage[w][j]
        <3>1. PICK t \in NewTables(r), P \in SUBSET Positions(r) : StartLoad(r, t, P)
          BY <2>2, Admission
        <3> QED BY <3>1, LoadJob
      <2>3. ASSUME NEW r \in Requests, Reserve(r) PROVE stage'[w][j] = stage[w][j]
        <3>1. PICK k, moves : Started(k, "prefetch", r, moves)
          BY <2>3, Reservation
        <3> QED BY <3>1 DEF Started, Live
      <2> QED BY <1>1, <2>1, <2>2, <2>3
    <1>2. Bind(w) => stage'[w][j] # "sent"
      <2>1. ASSUME Bind(w) PROVE stage'[w][j] = StartKvTransfers(w)[j]
        BY <2>1 DEF Bind, TypeInv, TypeOK
      <2> QED BY <2>1 DEF StartKvTransfers
    <1>3. ASSUME NEW v \in Workers, Bind(v), v # w PROVE stage'[w][j] = stage[w][j]
      BY <1>3 DEF Bind, TypeInv, TypeOK
    <1>4. ASSUME NEW v \in Workers, Report(v) PROVE stage[w][j] = "sent"
      BY <1>4 DEF Report, TypeInv, TypeOK
    <1>5. ASSUME NEW v \in Workers, NEW k \in JobIds, TransferDone(v, k)
          PROVE  stage[w][j] = "sent"
      BY <1>5 DEF TransferDone, TypeInv, TypeOK
    <1>6. ASSUME UpdateOutput PROVE stage[w][j] = "sent"
      BY <1>6 DEF UpdateOutput
    <1>7. ASSUME NEW v \in Workers, NEW s \in SpliceIds, SpliceDone(v, s)
          PROVE  UNCHANGED stage
      BY <1>7 DEF SpliceDone
    <1>8. ASSUME NEW r \in Requests, Preempt(r) \/ Finish(r) \/ StopRetrying(r) \/ RetryLater(r)
          PROVE  UNCHANGED stage
      BY <1>8 DEF Preempt, Finish, StopRetrying, RetryLater, workVars
    <1>9. ASSUME UNCHANGED vars \/ BeginStep \/ BeginBuild \/ ResetCache
          PROVE  UNCHANGED stage
      BY <1>9 DEF vars, workVars, BeginStep, BeginBuild, ResetCache
    <1> QED
      BY <1>1, <1>2, <1>3, <1>4, <1>5, <1>6, <1>7, <1>8, <1>9 DEF Next, SchedulerStep, WorkerStep

\* A new load or prefetch writes blocks handed out in this step.
LEMMA NewFills ==
    ASSUME TypeInv, [Next]_vars, NEW j \in JobIds, ~Live(j), Fills(j)'
    PROVE  /\ JobBlocks(j)' \subseteq allocated'
           /\ phase \in {"schedule", "build"} /\ phase' = phase /\ wpc' = wpc
    <1>1. ASSUME NEW r \in Requests, Reserve(r)
          PROVE  /\ JobBlocks(j)' \subseteq allocated'
                 /\ phase \in {"schedule", "build"} /\ phase' = phase /\ wpc' = wpc
      <2>1. PICK k \in JobIds, n \in Nat :
              \E ids \in Injection(1 .. n, free), keys \in Seq(Keys) :
                /\ Started(k, "prefetch", r, Filling(n, keys, ids))
                /\ Range(ids) \subseteq allocated'
        BY <1>1, Reservation
      <2>2. PICK ids \in Injection(1 .. n, free), keys \in Seq(Keys) :
              /\ Started(k, "prefetch", r, Filling(n, keys, ids))
              /\ Range(ids) \subseteq allocated'
        BY <2>1
      <2>3. k = j /\ jobs'[j].moves = Filling(n, keys, ids)
        BY <2>2 DEF Started, Live, Fills, NewJob
      <2>4. \A i \in 1 .. n : ids[i] \in allocated'
        BY <2>2 DEF Injection, Range
      <2>5. JobBlocks(j)' \subseteq allocated'
        BY <2>3, <2>4 DEF JobBlocks, Filling
      <2> QED BY <1>1, <2>5 DEF Reserve
    <1>2. ASSUME NEW r \in Requests, NEW t \in NewTables(r), NEW plan \in LoadPlans(r),
                 NEW P \in SUBSET plan, CanAdmit(r), Admitted(r, t, plan),
                 jobs'[j] = NewJob("load", r, MovesInto(r, t, P))
          PROVE  /\ JobBlocks(j)' \subseteq allocated'
                 /\ phase \in {"schedule", "build"} /\ phase' = phase /\ wpc' = wpc
      <2>1. jobs'[j].moves = MovesInto(r, t, P)
        BY <1>2 DEF NewJob
      <2>2. \A m \in MovesInto(r, t, P) : \E i \in plan : m.block = t[i]
        BY <1>2 DEF MovesInto
      <2>3. JobBlocks(j)' \subseteq {t[i] : i \in plan}
        BY <2>1, <2>2 DEF JobBlocks
      <2> QED BY <1>2, <2>3 DEF Admitted, HandOut, CanAdmit
    <1> QED BY <1>1, <1>2, NewJobs DEF Fills

LEMMA FencesInit == Init => FencesFit
    BY DEF Init, FencesFit, Fills, Live

LEMMA FencesStep == LoanInv /\ ContentInv /\ FencesFit /\ [Next]_vars => FencesFit'
    <1> SUFFICES ASSUME LoanInv, ContentInv, FencesFit, [Next]_vars PROVE FencesFit'
      OBVIOUS
    <1> USE DEF LoanInv
    <1>1. ASSUME NEW w \in Workers, NEW j \in JobIds, Fills(j)', stage'[w][j] = "sent"
          PROVE  wpc'[w] = "ready" /\ Fence(JobBlocks(j))'
      <2>1. CASE Live(j)
        <3>1. Fills(j) /\ JobBlocks(j)' = JobBlocks(j)
          BY <1>1, <2>1, OldJobs DEF Fills
        <3>2. stage[w][j] = "sent" /\ ~Bind(w)
          BY <1>1, <2>1, StageFrame
        <3>3. wpc[w] = "ready" /\ Fence(JobBlocks(j))
          BY <3>1, <3>2 DEF FencesFit
        <3>4. ~UpdateOutput /\ ~Report(w)
          BY <3>3 DEF UpdateOutput, Report
        <3>5. wpc'[w] = "ready"
          BY <3>2, <3>3, <3>4, WorkerFrame
        <3>6. PICK B : B = JobBlocks(j)
          OBVIOUS
        <3>7. ASSUME NEW r \in Requests, status[r] = "running" PROVE B \cap TableBlocks(r) = {}
          <4>1. ~(jobs[j].kind = "load" /\ jobs[j].req = r)
            BY <2>1, <3>7 DEF JobInv, JobsFit, JobFits
          <4> QED BY <3>1, <3>6, <4>1, FillsAreApart DEF FillsApart
        <3>8. Fence(B)'
          BY <3>3, <3>4, <3>6, <3>7, FenceKept
        <3>9. JobBlocks(j)' = B
          BY <3>1, <3>6
        <3> QED BY <3>5, <3>8, <3>9 DEF Fence
      <2>2. CASE ~Live(j)
        <3>1. /\ JobBlocks(j)' \subseteq allocated'
              /\ phase \in {"schedule", "build"} /\ phase' = phase /\ wpc' = wpc
          BY <1>1, <2>2, NewFills
        <3> QED BY <3>1 DEF Fence, ContentInv, PhasesFit
      <2> QED BY <2>1, <2>2
    <1>2. ASSUME NEW w \in Workers, NEW s \in SpliceIds, copyStage'[w][s] = "sent"
          PROVE  Fence(Destinations(s))'
      <2>1. CASE copyStage[w][s] = "sent"
        <3>1. Destinations(s)' = Destinations(s) /\ ~UpdateOutput
          BY <1>2, <2>1, SentFrame DEF ContentInv, Destinations
        <3>2. PICK B : B = Destinations(s)
          OBVIOUS
        <3>3. Fence(B)
          BY <2>1, <3>2 DEF FencesFit
        <3>4. ASSUME NEW r \in Requests, status[r] = "running" PROVE B \cap TableBlocks(r) = {}
          <4>1. PICK q \in Requests : status[q] = "loading" /\ Destinations(s) \subseteq TableBlocks(q)
            BY <2>1 DEF ContentInv, SentFit
          <4>2. q # r
            BY <3>4, <4>1
          <4> QED BY <3>2, <4>1, <4>2 DEF BlockInv, Partition, HoldersApart
        <3>5. Fence(B)'
          BY <3>1, <3>3, <3>4, FenceKept
        <3>6. Destinations(s)' = B
          BY <3>1, <3>2
        <3> QED BY <3>5, <3>6 DEF Fence
      <2>2. CASE copyStage[w][s] # "sent"
        <3>1. PICK r \in Requests : AdmitSpliced(r)
          BY <1>2, <2>2, SentFrame DEF ContentInv
        <3>2. PICK u \in SpliceIds, t \in NewTables(r), plan \in LoadPlans(r) :
                /\ CanAdmit(r) /\ copies'[u] = SpliceCopies(r, t, plan)
                /\ \A v \in Workers : \A x \in SpliceIds :
                      x # u => copyStage'[v][x] = copyStage[v][x]
                /\ Admitted(r, t, plan)
          BY <3>1, SpliceAdmission
        <3>3. s = u
          BY <1>2, <2>2, <3>2
        <3>4. Destinations(s)' \subseteq {t[i] : i \in plan}
          BY <3>2, <3>3, SpliceTargets DEF Destinations
        <3>5. Destinations(s)' \subseteq allocated'
          BY <3>2, <3>4 DEF Admitted, HandOut
        <3>6. phase = "schedule" /\ phase' = phase
          BY <3>2 DEF CanAdmit, Admitted
        <3> QED BY <3>5, <3>6 DEF Fence
      <2> QED BY <2>1, <2>2
    <1> QED BY <1>1, <1>2 DEF FencesFit

\* A worker issues its transfers when it is bound to the step's metadata.
LEMMA IssueStep ==
    ASSUME TypeInv, [Next]_vars, NEW w \in Workers, NEW j \in JobIds,
           stage[w][j] = "sent", stage'[w][j] = "moving"
    PROVE  Bind(w)
    <1>1. Live(j)
      BY TransferTracked DEF InTransfer
    <1>2. ASSUME Send \/ \E r \in Requests : AdmitNormally(r) \/ AdmitSpliced(r) \/ Reserve(r)
          PROVE  stage'[w][j] = stage[w][j]
      <2>1. CASE Send
        BY <1>1, <2>1, StoreJob
      <2>2. ASSUME NEW r \in Requests, AdmitNormally(r) \/ AdmitSpliced(r)
            PROVE  stage'[w][j] = stage[w][j]
        <3>1. PICK t \in NewTables(r), P \in SUBSET Positions(r) : StartLoad(r, t, P)
          BY <2>2, Admission
        <3> QED BY <1>1, <3>1, LoadJob
      <2>3. ASSUME NEW r \in Requests, Reserve(r) PROVE stage'[w][j] = stage[w][j]
        <3>1. PICK k, moves : Started(k, "prefetch", r, moves)
          BY <2>3, Reservation
        <3> QED BY <1>1, <3>1 DEF Started, Live
      <2> QED BY <1>2, <2>1, <2>2, <2>3
    <1>3. ASSUME NEW v \in Workers, Bind(v) PROVE v = w
      BY <1>3 DEF Bind, TypeInv, TypeOK
    <1>4. ASSUME NEW v \in Workers, Report(v) PROVE FALSE
      BY <1>4 DEF Report, TypeInv, TypeOK
    <1>5. ASSUME NEW v \in Workers, NEW k \in JobIds, TransferDone(v, k) PROVE FALSE
      BY <1>5 DEF TransferDone, TypeInv, TypeOK
    <1>6. ASSUME UpdateOutput PROVE FALSE
      BY <1>6 DEF UpdateOutput
    <1>7. ASSUME NEW v \in Workers, NEW s \in SpliceIds, SpliceDone(v, s)
          PROVE  UNCHANGED stage
      BY <1>7 DEF SpliceDone
    <1>8. ASSUME NEW r \in Requests, Preempt(r) \/ Finish(r) \/ StopRetrying(r) \/ RetryLater(r)
          PROVE  UNCHANGED stage
      BY <1>8 DEF Preempt, Finish, StopRetrying, RetryLater, workVars
    <1>9. ASSUME UNCHANGED vars \/ BeginStep \/ BeginBuild \/ ResetCache
          PROVE  UNCHANGED stage
      BY <1>9 DEF vars, workVars, BeginStep, BeginBuild, ResetCache
    <1> QED
      BY <1>2, <1>3, <1>4, <1>5, <1>6, <1>7, <1>8, <1>9 DEF Next, SchedulerStep, WorkerStep

LEMMA FencesInvariant == Spec => [](LoanInv /\ ContentInv /\ FencesFit)
    BY ContentInvariant, FencesInit, FencesStep, PTL DEF Spec

\* No worker issues a load, a prefetch or a splice into a block that a store
\* issued earlier is still reading: the stores of every block handed out in a
\* step are flushed before the workers' writes of that step (509-521).
THEOREM OverwritesCorrect == Spec => NoStoreOverwritten
    <1> DEFINE Safe == \A w \in Workers, j \in JobIds :
                 /\ stage[w][j] = "moving" /\ stage'[w][j] = "moving"
                 /\ jobs[j].kind = "store"
                 => /\ \A k \in JobIds :
                         stage[w][k] = "sent" /\ stage'[w][k] = "moving"
                         /\ jobs[k].kind # "store"
                         => JobBlocks(j) \cap JobBlocks(k) = {}
                    /\ \A s \in SpliceIds :
                         copyStage[w][s] = "sent" /\ copyStage'[w][s] = "copying"
                         => JobBlocks(j) \cap Destinations(s) = {}
    <1>1. ASSUME LoanInv, ContentInv, FencesFit, Next, NEW w \in Workers, NEW j \in JobIds,
                 stage[w][j] = "moving", stage'[w][j] = "moving", jobs[j].kind = "store",
                 NEW B, Fence(B), Bind(w)
          PROVE  JobBlocks(j) \cap B = {}
      <2>1. Live(j)
        BY <1>1, TransferTracked DEF InTransfer, LoanInv
      <2>2. j \notin flush
        <3>1. stage'[w][j] = StartKvTransfers(w)[j]
          BY <1>1 DEF Bind, LoanInv, TypeInv, TypeOK
        <3> QED BY <1>1, <3>1 DEF StartKvTransfers
      <2>3. phase = "execute"
        BY <1>1 DEF Bind
      <2> QED BY <1>1, <2>1, <2>2, <2>3 DEF Fence
    <1>2. ASSUME LoanInv, ContentInv, FencesFit, Next PROVE Safe
      <2> SUFFICES ASSUME NEW w \in Workers, NEW j \in JobIds,
                          stage[w][j] = "moving", stage'[w][j] = "moving",
                          jobs[j].kind = "store"
                   PROVE  /\ \A k \in JobIds :
                               stage[w][k] = "sent" /\ stage'[w][k] = "moving"
                               /\ jobs[k].kind # "store"
                               => JobBlocks(j) \cap JobBlocks(k) = {}
                          /\ \A s \in SpliceIds :
                               copyStage[w][s] = "sent" /\ copyStage'[w][s] = "copying"
                               => JobBlocks(j) \cap Destinations(s) = {}
        OBVIOUS
      <2>1. ASSUME NEW k \in JobIds, stage[w][k] = "sent", stage'[w][k] = "moving",
                   jobs[k].kind # "store"
            PROVE  JobBlocks(j) \cap JobBlocks(k) = {}
        <3>1. Fills(k)
          BY <1>2, <2>1, TransferTracked DEF InTransfer, LoanInv, Fills
        <3>2. Fence(JobBlocks(k)) /\ wpc[w] = "ready"
          BY <1>2, <2>1, <3>1 DEF FencesFit
        <3>3. Bind(w)
          BY <1>2, <2>1, IssueStep DEF LoanInv
        <3> QED BY <1>1, <1>2, <3>2, <3>3
      <2>2. ASSUME NEW s \in SpliceIds, copyStage[w][s] = "sent", copyStage'[w][s] = "copying"
            PROVE  JobBlocks(j) \cap Destinations(s) = {}
        <3>1. Fence(Destinations(s))
          BY <1>2, <2>2 DEF FencesFit
        <3>2. InCopy(w, s)' /\ InCopy(w, s)
          BY <2>2 DEF InCopy
        <3>3. Bind(w)
          BY <1>2, <2>2, <3>2, CopyFrame DEF LoanInv
        <3> QED BY <1>1, <1>2, <3>1, <3>3
      <2> QED BY <2>1, <2>2
    <1>3. LoanInv /\ ContentInv /\ FencesFit /\ [Next]_vars => [Safe]_vars
      BY <1>2
    <1>4. Spec => [][Safe]_vars
      BY <1>3, FencesInvariant, PTL DEF Spec
    <1> QED BY <1>4 DEF NoStoreOverwritten
=================================================================================
