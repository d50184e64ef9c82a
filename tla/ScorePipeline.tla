------------------------------ MODULE ScorePipeline ------------------------------
(***************************************************************************)
(* How the scores of one engine step reach the relevance of the keys.      *)
(* Each worker scores its summaries against the captured queries of the    *)
(* batch (worker.py); its metadata is aggregated with that of the others   *)
(* in whatever order it arrives (SemanticWorkerMetadata in connector.py);  *)
(* and the manager averages what is complete into the relevance_ema of     *)
(* each key (manager.py), composed over the requests or one by one.        *)
(*                                                                         *)
(* A ranked list is kept as the function from keys to scores that it       *)
(* sorts.  Scores are counted in units fine enough for every mean to be    *)
(* exact, and averages are fractions [num, den] of that unit.              *)
(***************************************************************************)
EXTENDS Integers, FiniteSets, Functions, Folds

CONSTANTS
    Keys,           \* keys of the resident candidates; the order breaks ties
    Requests,       \* the requests of the batch, in its order
    Scores,         \* a worker's score of a key for a request
    Deployments,    \* the parallel configurations to start
    Relevances,     \* relevance_ema before the step, as the scorer's method has it
    Pools,          \* bound: the keys a worker may have summaries of
    None

\* world_size, tensor_parallel_size, pipeline_parallel_size and the KV heads
\* of the model; the reduction over heads; and how large the batch is.
Deployment == [world : Nat \ {0}, tp : Nat \ {0}, pp : Nat \ {0}, kvHeads : Nat \ {0},
               reduction : {"mean", "max"}, batch : Nat]

\* A relevance, and what a step changes of one: (decay, offset) / whole, and
\* the value of a key that had none.
Averages == [num : Int, den : Int]
Updates  == [decay : Int, offset : Int, whole : Int, unseen : Averages]

ASSUME KeysAssumption == Keys \subseteq Nat /\ IsFiniteSet(Keys)
ASSUME RequestsAssumption == Requests \subseteq Nat /\ IsFiniteSet(Requests)
ASSUME DeploymentsAssumption == Deployments \subseteq Deployment
\* The unit is fine enough: a mean over any of the workers is a whole number.
ASSUME ScoresAssumption ==
    Scores \subseteq Int /\ \A d \in Deployments, s \in Scores : \A n \in 1 .. d.world : s % n = 0
ASSUME RelevancesAssumption == Relevances \subseteq [Keys -> Averages \cup {None}]
ASSUME PoolsAssumption == Pools \subseteq (SUBSET Keys) \ {{}}
ASSUME NoneAssumption ==
    /\ \A S \in SUBSET Keys : None \notin [S -> Int]
    /\ None \notin Averages /\ None \notin Updates

VARIABLES
    deployment,
    captured,       \* per worker and request: its scores of the step, or None
    reported,       \* workers whose metadata has been aggregated
    aggregated,     \* SemanticWorkerMetadata, aggregated so far, or None
    before,         \* relevance_ema when the step began (history)
    ema,            \* relevance_ema
    applied         \* whether update_connector_output() has run

vars == <<deployment, captured, reported, aggregated, before, ema, applied>>

Workers == 1 .. deployment.world
Batch   == {r \in Requests : r <= deployment.batch}
\* Every worker holds as many KV heads: its share, or a replica of one.
HeadsPerWorker ==
    IF deployment.kvHeads > deployment.tp THEN deployment.kvHeads \div deployment.tp ELSE 1

Scored(scores) == {r \in DOMAIN scores : scores[r] # None}
Largest(S) == CHOOSE x \in S : \A y \in S : x >= y

---------------------------------------------------------------------------
(* Start-up.                                                               *)

\* SemanticOffloadingConnector.__init__ and validate_parallel_scoring().
Accepts(d) ==
    /\ d.pp = 1
    /\ d.world = d.tp
    /\ d.tp > 1 /\ d.tp > d.kvHeads => d.reduction = "mean"

Init ==
    /\ deployment \in {d \in Deployments : Accepts(d)}
    /\ captured = [w \in Workers |-> [r \in Requests |-> None]]
    /\ reported = {}
    /\ aggregated = None
    /\ before \in Relevances
    /\ ema = before
    /\ applied = FALSE

---------------------------------------------------------------------------
(* The average: compose_relevance_updates(), update_relevance() and        *)
(* apply_relevance_updates().                                              *)

\* The rank of k in the list that sorts `scores`, from 0; ties go by key.
Rank(scores, k) ==
    Cardinality({j \in DOMAIN scores :
        scores[j] > scores[k] \/ (scores[j] = scores[k] /\ j < k)})

\* denom
Grain(n) == IF n > 2 THEN n - 1 ELSE 1

\* What one list says of k: its score, weighted by its rank, out of whole.
Observation(scores, k) ==
    LET denom == Grain(Cardinality(DOMAIN scores))
    IN  [score |-> scores[k], weight |-> 3 * (denom - Rank(scores, k)), whole |-> 10 * denom]

\* The average once o has been observed.
Observe(average, o) ==
    IF average = None THEN [num |-> o.score, den |-> 1]
    ELSE [num |-> (o.whole - o.weight) * average.num + o.weight * o.score * average.den,
          den |-> o.whole * average.den]

\* Faulty: what was observed before does not fade.
ComposeUnfaded(update, o) ==
    IF update = None
    THEN [decay |-> o.whole - o.weight, offset |-> o.weight * o.score, whole |-> o.whole,
          unseen |-> Observe(None, o)]
    ELSE [decay  |-> (o.whole - o.weight) * update.decay,
          offset |-> o.whole * update.offset + o.weight * o.score * update.whole,
          whole  |-> o.whole * update.whole,
          unseen |-> Observe(update.unseen, o)]
\* (decay, offset, unseen_value) after one more observation.
Compose(update, o) ==
    IF update = None
    THEN [decay |-> o.whole - o.weight, offset |-> o.weight * o.score, whole |-> o.whole,
          unseen |-> Observe(None, o)]
    ELSE [decay  |-> (o.whole - o.weight) * update.decay,
          offset |-> (o.whole - o.weight) * update.offset + o.weight * o.score * update.whole,
          whole  |-> o.whole * update.whole,
          unseen |-> Observe(update.unseen, o)]

Apply(update, average) ==
    IF update = None THEN average
    ELSE IF average = None THEN update.unseen
    ELSE [num |-> update.decay * average.num + update.offset * average.den,
          den |-> update.whole * average.den]

\* The requests that say something of k; they are taken in the order of the
\* batch, the last one last.
Mentions(scores, k) == {r \in Scored(scores) : k \in DOMAIN scores[r]}

Composed(scores) ==
    [k \in Keys |->
        MapThenFoldSet(LAMBDA o, update : Compose(update, o), None,
                       LAMBDA r : Observation(scores[r], k), Largest, Mentions(scores, k))]
OneByOne(scores, averages) ==
    [k \in Keys |->
        MapThenFoldSet(LAMBDA o, average : Observe(average, o), averages[k],
                       LAMBDA r : Observation(scores[r], k), Largest, Mentions(scores, k))]

---------------------------------------------------------------------------
(* Worker metadata.                                                        *)

NoUpdates == [k \in Keys |-> None]

\* Faulty: a group of several workers reports composed updates too.
CompactsAlways(scores) == Cardinality(Scored(scores)) > 1
Compacts(scores) == deployment.tp = 1 /\ Cardinality(Scored(scores)) > 1

\* build_connector_worker_meta()
WorkerMeta(w) ==
    LET raw == IF Compacts(captured[w]) THEN [r \in Requests |-> None] ELSE captured[w]
    IN  [scores       |-> raw,
         updates      |-> IF Compacts(captured[w]) THEN Composed(captured[w]) ELSE NoUpdates,
         heads        |-> [r \in Requests |-> IF raw[r] = None THEN 0 ELSE HeadsPerWorker],
         workers      |-> [r \in Requests |-> IF raw[r] = None THEN 0 ELSE 1],
         contributors |-> 1]

\* What aggregate() does not refuse.
Aggregable(left, right) ==
    /\ left.updates = NoUpdates \/ right.updates = NoUpdates
    /\ left.updates # NoUpdates => Scored(right.scores) = {}
    /\ right.updates # NoUpdates => Scored(left.scores) = {}

\* Faulty: each metadata counts as much as any other.
MeanOfTwo(x, m, y, n) == (x + y) \div 2
Mean(x, m, y, n) == (x * m + y * n) \div (m + n)

Reduce(x, m, y, n) ==
    IF deployment.reduction = "mean" THEN Mean(x, m, y, n)
    ELSE IF x > y THEN x ELSE y

Count(left, right) == left + right

\* SemanticWorkerMetadata.aggregate(): of a request that both sides scored,
\* only the keys they have in common are kept.
Aggregate(left, right) ==
    [scores |-> [r \in Requests |->
        LET x == left.scores[r]
            y == right.scores[r]
        IN  IF y = None THEN x ELSE IF x = None THEN y
            ELSE [k \in DOMAIN x \cap DOMAIN y |->
                     Reduce(x[k], left.heads[r], y[k], right.heads[r])]],
     updates      |-> IF right.updates # NoUpdates THEN right.updates ELSE left.updates,
     heads        |-> [r \in Requests |-> left.heads[r] + right.heads[r]],
     workers      |-> [r \in Requests |-> Count(left.workers[r], right.workers[r])],
     contributors |-> Count(left.contributors, right.contributors)]

\* complete_scores()
CompleteScores(meta) ==
    [r \in Requests |->
        IF meta.contributors = deployment.tp /\ meta.workers[r] = deployment.tp
        THEN meta.scores[r] ELSE None]

---------------------------------------------------------------------------
(* The step.                                                               *)

\* _on_queries_captured(): the requests of the batch that the worker captures,
\* each scored against all the summaries it has.
Capture(w) == \E reqs \in SUBSET Batch, summaries \in Pools :
    /\ w \notin reported /\ Scored(captured[w]) = {}
    /\ reqs # {}
    /\ \E score \in [reqs -> [summaries -> Scores]] :
          captured' = [captured EXCEPT ![w] =
              [r \in Requests |-> IF r \in reqs THEN score[r] ELSE None]]
    /\ UNCHANGED <<deployment, reported, aggregated, before, ema, applied>>

\* build_connector_worker_meta() on one more worker, and aggregate().
Report(w) ==
    /\ w \notin reported
    /\ reported' = reported \cup {w}
    /\ IF reported = {} THEN aggregated' = WorkerMeta(w)
       ELSE /\ Aggregable(aggregated, WorkerMeta(w))
            /\ aggregated' = Aggregate(aggregated, WorkerMeta(w))
    /\ UNCHANGED <<deployment, captured, before, ema, applied>>

\* update_connector_output()
UpdateConnectorOutput ==
    /\ reported = Workers /\ ~applied
    /\ applied' = TRUE
    /\ LET complete == CompleteScores(aggregated)
       IN  ema' = IF aggregated.updates # NoUpdates
                  THEN [k \in Keys |-> Apply(aggregated.updates[k], ema[k])]
                  ELSE IF Cardinality(Scored(complete)) > 1
                  THEN [k \in Keys |-> Apply(Composed(complete)[k], ema[k])]
                  ELSE OneByOne(complete, ema)
    /\ UNCHANGED <<deployment, captured, reported, aggregated, before>>

Next ==
    \/ \E w \in Workers : Capture(w) \/ Report(w)
    \/ UpdateConnectorOutput

Spec == Init /\ [][Next]_vars

---------------------------------------------------------------------------
(* What the step is meant to do, worked out from all workers at once.      *)

SumOf(f) == FoldFunction(+, 0, f)

\* A request counts if every worker captured it; of its keys, those that every
\* worker has scored; and the score of a key is the mean or maximum over all.
WholeGroup ==
    [r \in Requests |->
        IF \E w \in Workers : captured[w][r] = None THEN None
        ELSE [k \in {k \in Keys : \A w \in Workers : k \in DOMAIN captured[w][r]} |->
                LET score == [w \in Workers |-> captured[w][r][k]]
                IN  IF deployment.reduction = "mean"
                    THEN SumOf(score) \div deployment.world
                    ELSE Largest({score[w] : w \in Workers})]]

\* The workers of a group can always be aggregated: none of them reports
\* composed updates that another's metadata cannot be added to
\* (connector.py:217-220, 233-248).
NeverRefused ==
    reported # {} =>
        \A w \in Workers \ reported : Aggregable(aggregated, WorkerMeta(w))

\* What is complete is what the whole group says, in whatever order its
\* metadata came together: no request of which a worker's scores are missing,
\* no key that a worker has not scored, every head counted once
\* (connector.py:178-196, 280-317).
AggregatesExactly ==
    reported = Workers /\ aggregated.updates = NoUpdates =>
        CompleteScores(aggregated) = WholeGroup

\* However the scores travel, composed by the only worker, composed by the
\* scheduler or one by one, each key's relevance is the average of its old
\* relevance and what each request of the batch says, in their order
\* (manager.py:34-71, 151-211).
AppliedAsObserved ==
    applied => ema = OneByOne(WholeGroup, before)
=================================================================================
