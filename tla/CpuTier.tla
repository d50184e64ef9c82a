--------------------------------- MODULE CpuTier ---------------------------------
(***************************************************************************)
(* The CPU tier: SemanticOffloadingManager (semantic_offload/manager.py)   *)
(* over SemanticPolicy (policy.py).  The manager stores, loads and resets  *)
(* blocks and folds scores into the relevance of resident keys; the policy *)
(* keeps recency (a composed LRU policy), grace, chain and session         *)
(* metadata per key, and chooses what to evict from all of them.           *)
(*                                                                         *)
(* Insertions and touches are counted by the code without end; what is     *)
(* kept here is what the counts are compared for: how much grace a key has *)
(* left, and how many touches ago it was touched, up to MaxStaleness.      *)
(***************************************************************************)
EXTENDS Integers, FiniteSets, Sequences, SequencesExt

CONSTANTS
    Keys,           \* OffloadKeys
    Capacity,       \* num_blocks: CPU blocks of the tier
    Levels,         \* relevance levels
    Requests,
    Chain,          \* [Requests -> Seq(Keys)]: the keys of each request, in order
    Configs,        \* the policies to run
    Unit,           \* scores are counted in 1/Unit, fine enough to be exact
    MaxStaleness,   \* bound: touches beyond this many are not told apart
    MaxLoads,       \* bound: loads of one key at a time
    MaxNotices,     \* bound: no more evictions once so many await a drain
    StoresMayFail,  \* whether complete_store(success=False) is ever called
    None

\* What get_manager() reads from the connector's configuration, and whether
\* the workers have a probe layer to score with.
Config == [mode : {"blend", "unscored_last"}, graceWindow : Nat,
           chainAware : BOOLEAN, sessionAware : BOOLEAN, halfLife : Nat,
           scoring : BOOLEAN]

ASSUME KeysAssumption == IsFiniteSet(Keys) /\ None \notin Keys /\ Capacity \in Nat
ASSUME LevelsAssumption == Levels \subseteq Nat /\ None \notin Int
ASSUME ChainAssumption ==
    /\ Chain \in [Requests -> Seq(Keys)]
    /\ \A r \in Requests : r # None /\ IsInjective(Chain[r])
ASSUME ConfigAssumption == Configs \subseteq Config
ASSUME BoundsAssumption ==
    /\ Unit \in Nat /\ Unit > 0 /\ Unit % 2 = 0
    /\ MaxStaleness \in Nat /\ MaxLoads \in Nat /\ MaxNotices \in Nat
    /\ StoresMayFail \in BOOLEAN

VARIABLES
    config,
    ref,                \* per key: ref_cnt of its block (-1: storing), None: absent
    evictable,          \* _lru.evictable_blocks, as a set ...
    older,              \* ... and its order: <<j, k>> where j comes before k
    pendingEvicted,     \* _pending_evicted_keys, as a set: its order is not used
    ema,                \* relevance_ema of the configured method
    graceLeft,          \* _grace_expiry - _insert_count, while positive
    chainSuccessor,     \* _chain_successor
    chainPredecessors,  \* _chain_predecessors, {} for a key it lacks
    lastTouchReq,       \* _last_touch_req_id
    sessionProven,      \* _session_proven
    staleness           \* _touch_seq - _last_touch_seq, at most MaxStaleness

chainVars   == <<chainSuccessor, chainPredecessors>>
sessionVars == <<lastTouchReq, sessionProven, staleness>>
policyVars  == <<ema, graceLeft, chainVars, sessionVars>>
lruVars     == <<evictable, older>>
vars == <<config, ref, lruVars, pendingEvicted, policyVars>>

---------------------------------------------------------------------------
Resident == {k \in Keys : ref[k] # None}
Room     == Capacity - Cardinality(Resident)

\* What a request stores, loads or has scored is a stretch of its chain.
Stretches == (UNION {{SubSeq(Chain[r], i, j) : i, j \in 1 .. Len(Chain[r])} : r \in Requests})
               \ {<<>>}

Init ==
    /\ config \in Configs
    /\ ref = [k \in Keys |-> None]
    /\ evictable = {}
    /\ older = {}
    /\ pendingEvicted = {}
    /\ ema = [k \in Keys |-> None]
    /\ graceLeft = [k \in Keys |-> 0]
    /\ chainSuccessor = [k \in Keys |-> None]
    /\ chainPredecessors = [k \in Keys |-> {}]
    /\ lastTouchReq = [k \in Keys |-> None]
    /\ sessionProven = {}
    /\ staleness = [k \in Keys |-> 0]

---------------------------------------------------------------------------
(* Ranking the candidates for eviction.                                    *)

\* j was used less recently than k.
Older(j, k) == <<j, k>> \in older
Scored(k) == ema[k] # None

HasResidentSuccessor(k) ==
    chainSuccessor[k] # None /\ chainSuccessor[k] \in Resident

\* 2.5, or decaying with the touches since the key's own.
SessionBonus(k) ==
    IF config.halfLife = 0 THEN (5 * Unit) \div 2
    ELSE (5 * Unit * config.halfLife) \div (2 * (config.halfLife + staleness[k]))

\* Faulty: a resident successor counts less than recency.
WeakBonus(k) ==
    (IF graceLeft[k] > 0 THEN 2 * Unit ELSE 0)
    + (IF config.chainAware /\ HasResidentSuccessor(k) THEN Unit \div 2 ELSE 0)
    + (IF config.sessionAware /\ k \in sessionProven THEN SessionBonus(k) ELSE 0)
\* GRACE_BONUS, CHAIN_BONUS and the session bonus, as far as they apply.
Bonus(k) ==
    (IF graceLeft[k] > 0 THEN 2 * Unit ELSE 0)
    + (IF config.chainAware /\ HasResidentSuccessor(k) THEN (3 * Unit) \div 2 ELSE 0)
    + (IF config.sessionAware /\ k \in sessionProven THEN SessionBonus(k) ELSE 0)

\* recency_norm: 0 for the least recent candidate, 1 for the most recent.
Recency(k, candidates) ==
    LET before == Cardinality({j \in candidates : Older(j, k)})
        total  == Cardinality(candidates)
    IN  IF total > 1 THEN (Unit * before) \div (total - 1) ELSE Unit

\* relevance_norm over the scored candidates.
Relevance(k, candidates) ==
    LET levels == {ema[j] : j \in {j \in candidates : Scored(j)}}
        lo     == CHOOSE l \in levels : \A m \in levels : l <= m
        hi     == CHOOSE h \in levels : \A m \in levels : h >= m
    IN  (Unit * (ema[k] - lo)) \div (IF hi = lo THEN 1 ELSE hi - lo)

\* keep_score at the default alpha, 1/2.
KeepScore(k, candidates) ==
    Bonus(k) + IF Scored(k)
               THEN (Relevance(k, candidates) + Recency(k, candidates)) \div 2
               ELSE Recency(k, candidates)

\* Faulty: sorted with the highest score first.
GoesBeforeReversed(j, k, candidates) ==
    KeepScore(j, candidates) > KeepScore(k, candidates)
\* j is evicted before k.  The sorts are stable: a tie goes by recency.
GoesBefore(j, k, candidates) ==
    IF config.mode = "blend"
    THEN LET sj == KeepScore(j, candidates)
             sk == KeepScore(k, candidates)
         IN  sj < sk \/ (sj = sk /\ Older(j, k))
    ELSE \/ ~Scored(j) /\ Scored(k)
         \/ ~Scored(j) /\ ~Scored(k) /\ Older(j, k)
         \/ /\ Scored(j) /\ Scored(k)
            /\ ema[j] < ema[k] \/ (ema[j] = ema[k] /\ Older(j, k))

\* A store evicts none of the keys it names.
Candidates(keys) == evictable \ Range(keys)
\* Faulty: one short of what was asked for.
EvictionsOneShort(n, candidates) ==
    {victims \in SUBSET candidates :
        /\ Cardinality(victims) = IF n > 0 THEN n - 1 ELSE 0
        /\ \A v \in victims, s \in candidates \ victims : GoesBefore(v, s, candidates)}
\* evict(n, protected): the n candidates that go before all the others.
Evictions(n, candidates) ==
    {victims \in SUBSET candidates :
        /\ Cardinality(victims) = n
        /\ \A v \in victims, s \in candidates \ victims : GoesBefore(v, s, candidates)}

---------------------------------------------------------------------------
(* Metadata of the keys that leave, and of those that are touched.         *)

\* Faulty: a forgotten key stays among the predecessors of its successor.
ForgetHalf(gone) ==
    /\ chainSuccessor' = [k \in Keys |->
          IF k \in gone \/ chainSuccessor[k] \in gone THEN None ELSE chainSuccessor[k]]
    /\ chainPredecessors' = [k \in Keys |->
          IF k \in gone THEN {} ELSE chainPredecessors[k]]
    /\ lastTouchReq' = [k \in Keys |-> IF k \in gone THEN None ELSE lastTouchReq[k]]
    /\ sessionProven' = sessionProven \ gone
    /\ staleness' = [k \in Keys |-> IF k \in gone THEN 0 ELSE staleness[k]]
    /\ ema' = [k \in Keys |-> IF k \in gone THEN None ELSE ema[k]]
\* _forget_key, but for the grace of the key.
Forget(gone) ==
    /\ chainSuccessor' = [k \in Keys |->
          IF k \in gone \/ \E g \in gone : chainSuccessor[k] = g /\ k \in chainPredecessors[g]
          THEN None ELSE chainSuccessor[k]]
    /\ chainPredecessors' = [k \in Keys |->
          IF k \in gone THEN {}
          ELSE chainPredecessors[k] \ {g \in gone : chainSuccessor[g] = k}]
    /\ lastTouchReq' = [k \in Keys |-> IF k \in gone THEN None ELSE lastTouchReq[k]]
    /\ sessionProven' = sessionProven \ gone
    /\ staleness' = [k \in Keys |-> IF k \in gone THEN 0 ELSE staleness[k]]
    /\ ema' = [k \in Keys |-> IF k \in gone THEN None ELSE ema[k]]

\* The successor links that touching `keys` in a row leaves.
Fronts(keys) == {keys[i] : i \in 1 .. Len(keys) - 1}
Linked(keys, p, k) == \E i \in 1 .. Len(keys) - 1 : keys[i] = p /\ keys[i + 1] = k
\* Faulty: the old successor keeps the key among its predecessors.
RelinkHalf(keys) ==
    /\ chainSuccessor' = [p \in Keys |->
          IF p \in Fronts(keys) THEN CHOOSE k \in Keys : Linked(keys, p, k)
          ELSE chainSuccessor[p]]
    /\ chainPredecessors' = [k \in Keys |->
          chainPredecessors[k] \cup {p \in Fronts(keys) : Linked(keys, p, k)}]
Relink(keys) ==
    /\ chainSuccessor' = [p \in Keys |->
          IF p \in Fronts(keys) THEN CHOOSE k \in Keys : Linked(keys, p, k)
          ELSE chainSuccessor[p]]
    /\ chainPredecessors' = [k \in Keys |->
          (chainPredecessors[k] \ {p \in Fronts(keys) : chainSuccessor[p] = k})
            \cup {p \in Fronts(keys) : Linked(keys, p, k)}]

\* Another request touched some of these keys last.
CrossRequestHit(keys, r) == \E k \in Range(keys) : lastTouchReq[k] \notin {None, r}

Aged(k) == IF lastTouchReq[k] # None /\ staleness[k] < MaxStaleness
           THEN staleness[k] + 1 ELSE staleness[k]

\* j is named before k.
Before(keys, j, k) ==
    \E y \in 1 .. Len(keys) : \E x \in 1 .. y - 1 : keys[x] = j /\ keys[y] = k

\* Keys leave the LRU order.
Withdraw(gone) ==
    /\ evictable' = evictable \ gone
    /\ older' = {p \in older : p[1] \notin gone /\ p[2] \notin gone}

\* `moved` become the most recent, in the order they have in keys.
MoveToEnd(keys, moved) ==
    /\ evictable' = evictable \cup moved
    /\ older' = {p \in older : p[1] \notin moved /\ p[2] \notin moved}
                  \cup ((evictable \ moved) \X moved)
                  \cup {p \in moved \X moved : Before(keys, p[1], p[2])}

\* touch(): all the keys of a request, resident or not; the first of them
\* becomes the most recent (LRUCachePolicy.touch goes backwards).
Touch(r) == LET keys == Chain[r] IN
    /\ keys # <<>>
    /\ MoveToEnd(Reverse(keys), Range(keys) \cap evictable)
    /\ IF config.chainAware THEN Relink(keys) ELSE UNCHANGED chainVars
    /\ IF config.sessionAware
       THEN /\ sessionProven' = sessionProven
                 \cup (IF CrossRequestHit(keys, r) THEN Range(keys) ELSE {})
            /\ lastTouchReq' = [k \in Keys |->
                 IF k \in Range(keys) THEN r ELSE lastTouchReq[k]]
            /\ IF config.halfLife > 0
               THEN staleness' = [k \in Keys |-> IF k \in Range(keys) THEN 0 ELSE Aged(k)]
               ELSE UNCHANGED staleness
       ELSE UNCHANGED sessionVars
    /\ UNCHANGED <<config, ref, pendingEvicted, ema, graceLeft>>

---------------------------------------------------------------------------
(* Stores, loads, relevance and resets.                                    *)

\* The grace left once `new` have been inserted, in the order of keys.
GraceAfter(keys, new, gone, k) ==
    LET left == IF k \in new
                THEN config.graceWindow - Cardinality({j \in new : Before(keys, k, j)})
                ELSE graceLeft[k] - Cardinality(new)
    IN  IF k \in gone \/ left < 0 THEN 0 ELSE left

\* Faulty: an eviction is not passed on to the workers.
AnnouncedNot(victims) == pendingEvicted
Announced(victims) == pendingEvicted \cup victims

\* prepare_store(): nothing changes when all keys are resident, or when too
\* few blocks could be evicted.
PrepareStore(keys) ==
    LET new  == Range(keys) \ Resident
        need == IF Cardinality(new) > Room THEN Cardinality(new) - Room ELSE 0
    IN  /\ new # {}
        /\ need > 0 => Cardinality(pendingEvicted) < MaxNotices
        /\ \E victims \in Evictions(need, Candidates(keys)) :
              /\ ref' = [k \in Keys |-> IF k \in new THEN -1
                                        ELSE IF k \in victims THEN None ELSE ref[k]]
              /\ Withdraw(victims)
              /\ pendingEvicted' = Announced(victims)
              /\ graceLeft' = [k \in Keys |-> GraceAfter(keys, new, victims, k)]
              /\ Forget(victims)
        /\ UNCHANGED config

\* complete_store(): the blocks are ready and may be evicted.
CompleteStore(keys) ==
    /\ \A k \in Range(keys) : ref[k] = -1
    /\ ref' = [k \in Keys |-> IF k \in Range(keys) THEN 0 ELSE ref[k]]
    /\ MoveToEnd(keys, Range(keys))
    /\ UNCHANGED <<config, pendingEvicted, policyVars>>

\* complete_store(success=False): the keys leave without an announcement.
FailStore(keys) ==
    /\ StoresMayFail
    /\ \A k \in Range(keys) : ref[k] = -1
    /\ ref' = [k \in Keys |-> IF k \in Range(keys) THEN None ELSE ref[k]]
    /\ graceLeft' = [k \in Keys |-> IF k \in Range(keys) THEN 0 ELSE graceLeft[k]]
    /\ Forget(Range(keys))
    /\ UNCHANGED <<config, lruVars, pendingEvicted>>

\* Faulty: a load may be completed more often than it was begun.
LoadingOrIdle(k) == ref[k] # None
Loading(k) == ref[k] \in 1 .. MaxLoads

PrepareLoad(keys) ==
    /\ \A k \in Range(keys) : ref[k] \in 0 .. MaxLoads - 1
    /\ ref' = [k \in Keys |-> IF k \in Range(keys) THEN ref[k] + 1 ELSE ref[k]]
    /\ Withdraw(Range(keys))
    /\ UNCHANGED <<config, pendingEvicted, policyVars>>

CompleteLoad(keys) ==
    /\ \A k \in Range(keys) : Loading(k)
    /\ ref' = [k \in Keys |-> IF k \in Range(keys) THEN ref[k] - 1 ELSE ref[k]]
    /\ MoveToEnd(keys, {k \in Range(keys) : ref[k] = 1})
    /\ UNCHANGED <<config, pendingEvicted, policyVars>>

\* Faulty: scores that arrive after an eviction bring the key back.
MayLearnAny(k) == TRUE
MayLearn(k) == ref[k] # None

\* update_relevance() and apply_relevance_updates().  The average of an old
\* and a new score may come out anywhere between them, hence anywhere.
UpdateRelevance(keys) ==
    /\ config.scoring
    /\ \E level \in [Range(keys) -> Levels] :
          ema' = [k \in Keys |->
                    IF k \in Range(keys) /\ MayLearn(k) THEN level[k] ELSE ema[k]]
    /\ UNCHANGED <<config, ref, lruVars, pendingEvicted, graceLeft, chainVars,
                   sessionVars>>

DrainEvictedKeys ==
    /\ pendingEvicted' = {}
    /\ UNCHANGED <<config, ref, lruVars, policyVars>>

\* reset_cache() and SemanticPolicy.clear().
ResetCache ==
    /\ ref' = [k \in Keys |-> None]
    /\ evictable' = {}
    /\ older' = {}
    /\ pendingEvicted' = {}
    /\ graceLeft' = [k \in Keys |-> 0]
    /\ chainSuccessor' = [k \in Keys |-> None]
    /\ chainPredecessors' = [k \in Keys |-> {}]
    /\ lastTouchReq' = [k \in Keys |-> None]
    /\ sessionProven' = {}
    /\ staleness' = [k \in Keys |-> 0]
    /\ ema' = [k \in Keys |-> None]
    /\ UNCHANGED config

Next ==
    \/ \E r \in Requests : Touch(r)
    \/ \E keys \in Stretches :
          \/ PrepareStore(keys) \/ CompleteStore(keys) \/ FailStore(keys)
          \/ PrepareLoad(keys) \/ CompleteLoad(keys)
          \/ UpdateRelevance(keys)
    \/ DrainEvictedKeys
    \/ ResetCache

Spec == Init /\ [][Next]_vars

---------------------------------------------------------------------------
TypeOK ==
    /\ config \in Configs
    /\ ref \in [Keys -> {None} \cup (-1 .. MaxLoads)]
    /\ evictable \subseteq Keys /\ older \subseteq evictable \X evictable
    /\ pendingEvicted \subseteq Keys
    /\ ema \in [Keys -> Levels \cup {None}]
    /\ graceLeft \in [Keys -> Nat]
    /\ chainSuccessor \in [Keys -> Keys \cup {None}]
    /\ chainPredecessors \in [Keys -> SUBSET Keys]
    /\ lastTouchReq \in [Keys -> Requests \cup {None}]
    /\ sessionProven \subseteq Keys
    /\ staleness \in [Keys -> 0 .. MaxStaleness]

\* The LRU order is a total order of exactly the blocks that nothing is
\* transferring, and the tier never holds more blocks than it has.
EvictableAreIdle ==
    /\ evictable = {k \in Keys : ref[k] = 0}
    /\ \A j, k \in evictable : Older(j, k) <=> j # k /\ ~Older(k, j)
    /\ \A i, j, k \in evictable : Older(i, j) /\ Older(j, k) => Older(i, k)
    /\ Cardinality(Resident) <= Capacity

\* Relevance and grace are known of resident keys only: neither a score that
\* arrives late (manager.py:184) nor a key that leaves (policy.py:183) lets
\* them describe a key the tier does not hold.
MetadataResident ==
    \A k \in Keys : ref[k] = None => ~Scored(k) /\ graceLeft[k] = 0

\* _chain_predecessors is the inverse of _chain_successor, whatever order of
\* touches, evictions and failed stores (policy.py:186-195, 210-219) led here.
ChainMapsAgree ==
    \A p, k \in Keys : chainSuccessor[p] = k <=> p \in chainPredecessors[k]

\* A key that leaves the tier leaves nothing behind: not its links, not the
\* links of others to it, not its session history (policy.py:183-200).
ForgottenOnRemoval ==
    [][\A k \in Keys : ref[k] # None /\ ref'[k] = None =>
          /\ ema'[k] = None /\ graceLeft'[k] = 0
          /\ lastTouchReq'[k] = None /\ k \notin sessionProven'
          /\ chainSuccessor'[k] = None /\ chainPredecessors'[k] = {}
          /\ \A p \in Keys : chainSuccessor'[p] # k /\ k \notin chainPredecessors'[p]]_vars

---------------------------------------------------------------------------
(* What eviction spares.                                                   *)

\* v has no weaker a claim than s to stay, on any count.
Dominates(v, s) ==
    /\ Older(s, v)
    /\ IF Scored(s) THEN Scored(v) /\ ema[v] >= ema[s] ELSE ~Scored(v)
    /\ graceLeft[s] > 0 => graceLeft[v] > 0
    /\ HasResidentSuccessor(s) => HasResidentSuccessor(v)
    /\ s \in sessionProven => v \in sessionProven /\ staleness[v] <= staleness[s]

\* Something other than relevance and recency speaks for keeping k.
Bonused(k) ==
    \/ graceLeft[k] > 0
    \/ config.chainAware /\ HasResidentSuccessor(k)
    \/ config.sessionAware /\ k \in sessionProven

\* Whatever a store may evict here, for each key it takes and each it spares.
CandidateSets == {Candidates(keys) : keys \in Stretches}
ForEviction(Fair(_, _)) ==
    \A candidates \in CandidateSets : \A n \in 1 .. Cardinality(candidates) :
        \A victims \in Evictions(n, candidates) :
          \A v \in victims, s \in candidates \ victims : Fair(v, s)

\* No key is evicted to spare one with a weaker claim on every count the
\* policy looks at (policy.py:334-356, 371-375).
EvictsDominated == ForEviction(LAMBDA v, s : ~Dominates(v, s))

\* A key with a bonus outlasts every key without one (policy.py:291-308); a
\* session bonus that decays is not meant to.  With unscored_last, a scored
\* key outlasts every unscored one (policy.py:365-370).
ProtectedOutlast ==
    /\ config.mode = "blend" /\ config.halfLife = 0 =>
          ForEviction(LAMBDA v, s : Bonused(v) => Bonused(s))
    /\ config.mode = "unscored_last" =>
          ForEviction(LAMBDA v, s : Scored(v) => Scored(s))

---------------------------------------------------------------------------
Contract == INSTANCE OffloadTier

\* The tier keeps OffloadTier's promises: it evicts only idle keys, only for
\* room it needs, and announces each one.
ImplementsTier == Contract!TierSpec
=================================================================================
