------------------------------ MODULE CpuTierProofs ------------------------------
(***************************************************************************)
(* Proofs about CpuTier, for any keys, capacity, chains and policies.      *)
(***************************************************************************)
EXTENDS CpuTier, FiniteSetTheorems, SequenceTheorems, TLAPS

\* The parts of EvictableAreIdle.
Ordered ==
    /\ \A j, k \in evictable : Older(j, k) <=> j # k /\ ~Older(k, j)
    /\ \A i, j, k \in evictable : Older(i, j) /\ Older(j, k) => Older(i, k)
OrderIsIdle == evictable = {k \in Keys : ref[k] = 0}
WithinCapacity == Cardinality(Resident) <= Capacity

TierInv == TypeOK /\ EvictableAreIdle /\ MetadataResident /\ ChainMapsAgree

---------------------------------------------------------------------------
(* Sequences of keys.                                                      *)

\* What a request names is a nonempty sequence of different keys.
LEMMA StretchShape ==
    ASSUME NEW keys \in Stretches
    PROVE  /\ keys \in Seq(Keys) /\ keys # <<>> /\ IsInjective(keys)
           /\ Range(keys) \in SUBSET Keys /\ Range(keys) # {}
<1>1. PICK r \in Requests : \E i, j \in 1 .. Len(Chain[r]) : keys = SubSeq(Chain[r], i, j)
  BY DEF Stretches
<1>2. Chain[r] \in Seq(Keys) /\ IsInjective(Chain[r])
  BY ChainAssumption
<1>3. PICK i, j \in 1 .. Len(Chain[r]) : keys = SubSeq(Chain[r], i, j)
  BY <1>1
<1>4. /\ keys \in Seq(Keys) /\ Len(keys) = IF i <= j THEN j - i + 1 ELSE 0
      /\ \A n \in 1 .. j - i + 1 : keys[n] = Chain[r][n + i - 1]
  <2>1. \A n \in i .. j : Chain[r][n] \in Keys
    BY <1>2
  <2>2. i \in Int /\ j \in Int
    BY <1>2
  <2> QED
    BY <1>3, <2>1, <2>2, SubSeqProperties
<1>5. keys # <<>>
  BY DEF Stretches
<1>6. IsInjective(keys)
  <2> SUFFICES ASSUME NEW m \in 1 .. Len(keys), NEW n \in 1 .. Len(keys), keys[m] = keys[n]
               PROVE  m = n
    BY <1>4 DEF IsInjective
  <2>1. m + i - 1 \in DOMAIN Chain[r] /\ n + i - 1 \in DOMAIN Chain[r]
    BY <1>2, <1>4
  <2>2. Chain[r][m + i - 1] = Chain[r][n + i - 1]
    BY <1>4
  <2>3. m + i - 1 = n + i - 1
    BY <1>2, <2>1, <2>2 DEF IsInjective
  <2>4. m \in Int /\ n \in Int /\ i \in Int
    BY <1>2, <1>4
  <2> QED
    BY <2>3, <2>4
<1>7. Range(keys) \in SUBSET Keys /\ Range(keys) # {}
  <2>1. 1 \in DOMAIN keys
    BY <1>4, <1>5
  <2> QED
    BY <1>4, <2>1 DEF Range
<1> QED
  BY <1>4, <1>5, <1>6, <1>7

\* A chain read backwards names the same keys, also once each.
LEMMA ChainShape ==
    ASSUME NEW r \in Requests
    PROVE  /\ Chain[r] \in Seq(Keys) /\ IsInjective(Chain[r])
           /\ Reverse(Chain[r]) \in Seq(Keys) /\ IsInjective(Reverse(Chain[r]))
           /\ Range(Chain[r]) \in SUBSET Keys
           /\ Range(Reverse(Chain[r])) = Range(Chain[r])
<1> DEFINE s == Chain[r]
<1>1. s \in Seq(Keys) /\ IsInjective(s)
  BY ChainAssumption
<1> HIDE DEF s
<1>2. Reverse(s) = [i \in 1 .. Len(s) |-> s[(Len(s) - i) + 1]]
  BY DEF Reverse
<1>3. \A i \in 1 .. Len(s) : (Len(s) - i) + 1 \in 1 .. Len(s) /\ s[(Len(s) - i) + 1] \in Keys
  BY <1>1
<1>4. Reverse(s) \in Seq(Keys) /\ DOMAIN Reverse(s) = 1 .. Len(s)
  BY <1>1, <1>2, <1>3
<1>5. IsInjective(Reverse(s))
  BY <1>1, <1>2, <1>3 DEF IsInjective
<1>6. Range(s) \in SUBSET Keys
  BY <1>1 DEF Range
<1>7. Range(Reverse(s)) = Range(s)
  <2>1. ASSUME NEW i \in 1 .. Len(s) PROVE s[i] = Reverse(s)[(Len(s) - i) + 1]
    BY <1>1, <1>2, <1>3
  <2>2. DOMAIN s = 1 .. Len(s)
    BY <1>1
  <2>3. ASSUME NEW k \in Range(s) PROVE k \in Range(Reverse(s))
    BY <1>3, <1>4, <2>1, <2>2 DEF Range
  <2>4. ASSUME NEW k \in Range(Reverse(s)) PROVE k \in Range(s)
    BY <1>2, <1>3, <1>4, <2>2 DEF Range
  <2> QED
    BY <2>3, <2>4
<1> QED
  BY <1>1, <1>4, <1>5, <1>6, <1>7 DEF s

\* The keys of an injective sequence are totally ordered by their place.
LEMMA BeforeOrders ==
    ASSUME NEW keys \in Seq(Keys), IsInjective(keys)
    PROVE  /\ \A j, k \in Range(keys) : Before(keys, j, k) <=> j # k /\ ~Before(keys, k, j)
           /\ \A i, j, k \in Range(keys) :
                 Before(keys, i, j) /\ Before(keys, j, k) => Before(keys, i, k)
<1>1. DOMAIN keys = 1 .. Len(keys) /\ Len(keys) \in Nat
  OBVIOUS
<1>2. ASSUME NEW x \in 1 .. Len(keys), NEW y \in 1 .. Len(keys)
      PROVE  Before(keys, keys[x], keys[y]) <=> x < y
  <2>1. ASSUME Before(keys, keys[x], keys[y]) PROVE x < y
    <3>1. PICK v \in 1 .. Len(keys) : \E u \in 1 .. v - 1 : keys[u] = keys[x] /\ keys[v] = keys[y]
      BY <2>1 DEF Before
    <3>2. PICK u \in 1 .. v - 1 : keys[u] = keys[x] /\ keys[v] = keys[y]
      BY <3>1
    <3>3. u = x /\ v = y
      BY <1>1, <3>2 DEF IsInjective
    <3> QED
      BY <3>2, <3>3
  <2>2. ASSUME x < y PROVE Before(keys, keys[x], keys[y])
    <3>1. x \in 1 .. y - 1
      BY <2>2
    <3> QED
      BY <3>1 DEF Before
  <2> QED
    BY <2>1, <2>2
<1>3. \A k \in Range(keys) : \E x \in 1 .. Len(keys) : k = keys[x]
  BY <1>1 DEF Range
<1>4. ASSUME NEW j \in Range(keys), NEW k \in Range(keys)
      PROVE  Before(keys, j, k) <=> j # k /\ ~Before(keys, k, j)
  <2>1. PICK x \in 1 .. Len(keys) : j = keys[x]
    BY <1>3
  <2>2. PICK y \in 1 .. Len(keys) : k = keys[y]
    BY <1>3
  <2>3. j = k <=> x = y
    BY <1>1, <2>1, <2>2 DEF IsInjective
  <2>4. (Before(keys, j, k) <=> x < y) /\ (Before(keys, k, j) <=> y < x)
    BY <1>2, <2>1, <2>2
  <2> QED
    BY <1>1, <2>3, <2>4
<1>5. ASSUME NEW i \in Range(keys), NEW j \in Range(keys), NEW k \in Range(keys),
             Before(keys, i, j), Before(keys, j, k)
      PROVE  Before(keys, i, k)
  <2>1. PICK x \in 1 .. Len(keys) : i = keys[x]
    BY <1>3
  <2>2. PICK y \in 1 .. Len(keys) : j = keys[y]
    BY <1>3
  <2>3. PICK z \in 1 .. Len(keys) : k = keys[z]
    BY <1>3
  <2>4. x < y /\ y < z
    BY <1>2, <1>5, <2>1, <2>2, <2>3
  <2>5. x < z
    BY <1>1, <2>4
  <2> QED
    BY <1>2, <2>1, <2>3, <2>5
<1> QED
  BY <1>4, <1>5

---------------------------------------------------------------------------
(* The LRU order.                                                          *)

LEMMA WithdrawOrders ==
    ASSUME Ordered, NEW gone, Withdraw(gone)
    PROVE  Ordered'
  BY DEF Ordered, Withdraw, Older

LEMMA MoveOrders ==
    ASSUME Ordered, older \subseteq evictable \X evictable,
           NEW keys \in Seq(Keys), IsInjective(keys),
           NEW moved \in SUBSET Range(keys), MoveToEnd(keys, moved)
    PROVE  Ordered'
<1>1. /\ evictable' = evictable \cup moved
      /\ older' = {p \in older : p[1] \notin moved /\ p[2] \notin moved}
                   \cup ((evictable \ moved) \X moved)
                   \cup {p \in moved \X moved : Before(keys, p[1], p[2])}
  BY DEF MoveToEnd
<1> DEFINE B(j, k) == Before(keys, j, k)
<1>2. /\ \A j, k \in moved : B(j, k) <=> j # k /\ ~B(k, j)
      /\ \A i, j, k \in moved : B(i, j) /\ B(j, k) => B(i, k)
  BY BeforeOrders
<1> HIDE DEF B
<1>3. ASSUME NEW j \in evictable', NEW k \in evictable'
      PROVE  <<j, k>> \in older' <=>
                IF k \in moved THEN j \in moved => B(j, k)
                ELSE j \notin moved /\ <<j, k>> \in older
  BY <1>1 DEF B
<1>4. ASSUME NEW j \in evictable', NEW k \in evictable'
      PROVE  <<j, k>> \in older' <=> j # k /\ <<k, j>> \notin older'
  BY <1>1, <1>2, <1>3 DEF Ordered, Older
<1>5. ASSUME NEW i \in evictable', NEW j \in evictable', NEW k \in evictable',
             <<i, j>> \in older', <<j, k>> \in older'
      PROVE  <<i, k>> \in older'
  BY <1>1, <1>2, <1>3, <1>5 DEF Ordered, Older
<1> QED
  BY <1>4, <1>5 DEF Ordered, Older

---------------------------------------------------------------------------
(* Type correctness.                                                       *)

LEMMA InitInv == Init => TypeOK /\ Ordered /\ OrderIsIdle /\ MetadataResident /\ ChainMapsAgree
<1> SUFFICES ASSUME Init PROVE TypeOK /\ Ordered /\ OrderIsIdle /\ MetadataResident /\ ChainMapsAgree
  OBVIOUS
<1>1. None \notin Keys /\ None \notin Nat /\ \A k \in Keys : ref[k] = None /\ ref[k] # 0
  BY KeysAssumption, LevelsAssumption DEF Init
<1>2. TypeOK
  BY <1>1, BoundsAssumption DEF Init, TypeOK
<1>3. Ordered /\ OrderIsIdle
  BY <1>1 DEF Init, Ordered, OrderIsIdle
<1>4. MetadataResident
  BY DEF Init, MetadataResident, Scored
<1>5. ChainMapsAgree
  BY <1>1 DEF Init, ChainMapsAgree
<1> QED
  BY <1>2, <1>3, <1>4, <1>5

LEMMA ForgetTypes ==
    ASSUME TypeOK, NEW gone, Forget(gone)
    PROVE  /\ chainSuccessor' \in [Keys -> Keys \cup {None}]
           /\ chainPredecessors' \in [Keys -> SUBSET Keys]
           /\ lastTouchReq' \in [Keys -> Requests \cup {None}]
           /\ sessionProven' \subseteq Keys
           /\ staleness' \in [Keys -> 0 .. MaxStaleness]
           /\ ema' \in [Keys -> Levels \cup {None}]
<1>1. chainSuccessor' \in [Keys -> Keys \cup {None}] /\ chainPredecessors' \in [Keys -> SUBSET Keys]
  BY DEF TypeOK, Forget
<1>2. lastTouchReq' \in [Keys -> Requests \cup {None}] /\ sessionProven' \subseteq Keys
  BY DEF TypeOK, Forget
<1>3. staleness' \in [Keys -> 0 .. MaxStaleness] /\ ema' \in [Keys -> Levels \cup {None}]
  BY BoundsAssumption DEF TypeOK, Forget
<1> QED
  BY <1>1, <1>2, <1>3

LEMMA RelinkTypes ==
    ASSUME TypeOK, NEW keys \in Seq(Keys), Relink(keys)
    PROVE  /\ chainSuccessor' \in [Keys -> Keys \cup {None}]
           /\ chainPredecessors' \in [Keys -> SUBSET Keys]
<1>1. ASSUME NEW p \in Fronts(keys)
      PROVE  (CHOOSE k \in Keys : Linked(keys, p, k)) \in Keys
  <2>1. PICK i \in 1 .. Len(keys) - 1 : p = keys[i]
    BY DEF Fronts
  <2>2. keys[i + 1] \in Keys /\ Linked(keys, p, keys[i + 1])
    BY <2>1 DEF Linked
  <2> QED
    BY <2>2
<1>2. \A p \in Fronts(keys) : p \in Keys
  BY DEF Fronts
<1>3. chainSuccessor' \in [Keys -> Keys \cup {None}]
  BY <1>1 DEF TypeOK, Relink
<1>4. chainPredecessors' \in [Keys -> SUBSET Keys]
  BY <1>2 DEF TypeOK, Relink
<1> QED
  BY <1>3, <1>4

LEMMA MoveTypes ==
    ASSUME TypeOK, NEW keys, NEW moved \in SUBSET Keys, MoveToEnd(keys, moved)
    PROVE  evictable' \subseteq Keys /\ older' \subseteq evictable' \X evictable'
  BY DEF TypeOK, MoveToEnd

LEMMA WithdrawTypes ==
    ASSUME TypeOK, NEW gone, Withdraw(gone)
    PROVE  evictable' \subseteq Keys /\ older' \subseteq evictable' \X evictable'
  BY DEF TypeOK, Withdraw

LEMMA GraceTypes ==
    ASSUME TypeOK, NEW keys, NEW new \in SUBSET Keys, NEW gone, NEW k \in Keys
    PROVE  GraceAfter(keys, new, gone, k) \in Nat
<1>1. {j \in new : Before(keys, k, j)} \in SUBSET Keys
  OBVIOUS
<1>2. Cardinality(new) \in Nat /\ Cardinality({j \in new : Before(keys, k, j)}) \in Nat
  BY <1>1, KeysAssumption, FS_Subset, FS_CardinalityType
<1>3. config.graceWindow \in Nat /\ graceLeft[k] \in Nat
  BY ConfigAssumption DEF TypeOK, Config
<1> QED
  BY <1>2, <1>3 DEF GraceAfter

LEMMA VictimsAreCandidates ==
    ASSUME NEW n, NEW candidates, NEW victims \in Evictions(n, candidates)
    PROVE  victims \in SUBSET candidates /\ Cardinality(victims) = n
  BY DEF Evictions

LEMMA TypeStep == TypeOK /\ [Next]_vars => TypeOK'
<1> SUFFICES ASSUME TypeOK, [Next]_vars PROVE TypeOK'
  OBVIOUS
<1> USE DEF lruVars, policyVars, chainVars, sessionVars
<1>0. MaxLoads \in Nat /\ MaxStaleness \in Nat /\ None \notin Int
  BY BoundsAssumption, LevelsAssumption
<1>1. ASSUME NEW r \in Requests, Touch(r) PROVE TypeOK'
  <2> DEFINE keys == Chain[r]
  <2>1. keys \in Seq(Keys) /\ Range(keys) \in SUBSET Keys
    BY ChainShape
  <2>2. evictable' \subseteq Keys /\ older' \subseteq evictable' \X evictable'
    <3>1. MoveToEnd(Reverse(keys), Range(keys) \cap evictable)
      BY <1>1 DEF Touch
    <3> QED
      BY <2>1, <3>1, MoveTypes
  <2>3. /\ chainSuccessor' \in [Keys -> Keys \cup {None}]
        /\ chainPredecessors' \in [Keys -> SUBSET Keys]
    <3>1. Relink(keys) \/ UNCHANGED chainVars
      BY <1>1 DEF Touch
    <3> QED
      BY <2>1, <3>1, RelinkTypes DEF TypeOK
  <2>4. /\ lastTouchReq' \in [Keys -> Requests \cup {None}] /\ sessionProven' \subseteq Keys
        /\ staleness' \in [Keys -> 0 .. MaxStaleness]
    <3>1. CASE config.sessionAware
      <4>1. lastTouchReq' \in [Keys -> Requests \cup {None}] /\ sessionProven' \subseteq Keys
        BY <1>1, <2>1, <3>1 DEF Touch, TypeOK
      <4>2. \A k \in Keys : Aged(k) \in 0 .. MaxStaleness
        BY <1>0 DEF TypeOK, Aged
      <4>3. \/ staleness' = [k \in Keys |-> IF k \in Range(keys) THEN 0 ELSE Aged(k)]
            \/ UNCHANGED staleness
        BY <1>1, <3>1 DEF Touch
      <4>4. staleness' \in [Keys -> 0 .. MaxStaleness]
        BY <1>0, <4>2, <4>3 DEF TypeOK
      <4> QED
        BY <4>1, <4>4
    <3>2. CASE ~config.sessionAware
      BY <1>1, <3>2 DEF Touch, TypeOK
    <3> QED
      BY <3>1, <3>2
  <2>5. UNCHANGED <<config, ref, pendingEvicted, ema, graceLeft>>
    BY <1>1 DEF Touch
  <2> QED
    BY <2>2, <2>3, <2>4, <2>5 DEF TypeOK
<1>2. ASSUME NEW keys \in Stretches, PrepareStore(keys) PROVE TypeOK'
  <2> DEFINE new == Range(keys) \ Resident
             need == IF Cardinality(new) > Room THEN Cardinality(new) - Room ELSE 0
  <2>1. new \in SUBSET Keys
    BY StretchShape
  <2>2. PICK victims \in Evictions(need, Candidates(keys)) :
              /\ ref' = [k \in Keys |-> IF k \in new THEN -1
                                        ELSE IF k \in victims THEN None ELSE ref[k]]
              /\ Withdraw(victims)
              /\ pendingEvicted' = Announced(victims)
              /\ graceLeft' = [k \in Keys |-> GraceAfter(keys, new, victims, k)]
              /\ Forget(victims)
    BY <1>2 DEF PrepareStore
  <2>3. victims \in SUBSET Keys
    BY VictimsAreCandidates DEF Candidates, TypeOK
  <2> HIDE DEF new, need
  <2>4. ref' \in [Keys -> {None} \cup (-1 .. MaxLoads)]
    BY <1>0, <2>2 DEF TypeOK
  <2>5. graceLeft' \in [Keys -> Nat]
    BY <2>1, <2>2, GraceTypes
  <2>6. pendingEvicted' \subseteq Keys
    BY <2>2, <2>3 DEF TypeOK, Announced
  <2>7. config' = config
    BY <1>2 DEF PrepareStore
  <2> QED
    BY <2>2, <2>4, <2>5, <2>6, <2>7, ForgetTypes, WithdrawTypes DEF TypeOK
<1>3. ASSUME NEW keys \in Stretches, CompleteStore(keys) PROVE TypeOK'
  <2>1. evictable' \subseteq Keys /\ older' \subseteq evictable' \X evictable'
    BY <1>3, StretchShape, MoveTypes DEF CompleteStore
  <2>2. ref' \in [Keys -> {None} \cup (-1 .. MaxLoads)]
    BY <1>0, <1>3 DEF CompleteStore, TypeOK
  <2> QED
    BY <1>3, <2>1, <2>2 DEF CompleteStore, TypeOK
<1>4. ASSUME NEW keys \in Stretches, FailStore(keys) PROVE TypeOK'
  <2>1. Forget(Range(keys))
    BY <1>4 DEF FailStore
  <2>2. ref' \in [Keys -> {None} \cup (-1 .. MaxLoads)] /\ graceLeft' \in [Keys -> Nat]
    BY <1>0, <1>4 DEF FailStore, TypeOK
  <2> QED
    BY <1>4, <2>1, <2>2, ForgetTypes DEF FailStore, TypeOK
<1>5. ASSUME NEW keys \in Stretches, PrepareLoad(keys) PROVE TypeOK'
  <2>1. evictable' \subseteq Keys /\ older' \subseteq evictable' \X evictable'
    BY <1>5, WithdrawTypes DEF PrepareLoad
  <2>2. ref' \in [Keys -> {None} \cup (-1 .. MaxLoads)]
    BY <1>0, <1>5 DEF PrepareLoad, TypeOK
  <2> QED
    BY <1>5, <2>1, <2>2 DEF PrepareLoad, TypeOK
<1>6. ASSUME NEW keys \in Stretches, CompleteLoad(keys) PROVE TypeOK'
  <2>1. {k \in Range(keys) : ref[k] = 1} \in SUBSET Keys
    BY StretchShape
  <2>2. evictable' \subseteq Keys /\ older' \subseteq evictable' \X evictable'
    BY <1>6, <2>1, MoveTypes DEF CompleteLoad
  <2>3. ref' \in [Keys -> {None} \cup (-1 .. MaxLoads)]
    BY <1>0, <1>6 DEF CompleteLoad, TypeOK, Loading
  <2> QED
    BY <1>6, <2>2, <2>3 DEF CompleteLoad, TypeOK
<1>7. ASSUME NEW keys \in Stretches, UpdateRelevance(keys) PROVE TypeOK'
  <2>1. ema' \in [Keys -> Levels \cup {None}]
    BY <1>7 DEF UpdateRelevance, TypeOK
  <2> QED
    BY <1>7, <2>1 DEF UpdateRelevance, TypeOK
<1>8. CASE DrainEvictedKeys
  BY <1>8 DEF DrainEvictedKeys, TypeOK
<1>9. CASE ResetCache
  BY <1>0, <1>9 DEF ResetCache, TypeOK
<1>10. CASE UNCHANGED vars
  BY <1>10 DEF vars, TypeOK
<1> QED
  BY <1>1, <1>2, <1>3, <1>4, <1>5, <1>6, <1>7, <1>8, <1>9, <1>10 DEF Next

---------------------------------------------------------------------------
(* The LRU order is one of the idle blocks.                                *)

LEMMA OrderStep == TypeOK /\ Ordered /\ [Next]_vars => Ordered'
<1> SUFFICES ASSUME TypeOK, Ordered, [Next]_vars PROVE Ordered'
  OBVIOUS
<1>0. older \subseteq evictable \X evictable
  BY DEF TypeOK
<1>a. UNCHANGED lruVars => Ordered'
  BY DEF lruVars, Ordered, Older
<1>1. ASSUME NEW r \in Requests, Touch(r) PROVE Ordered'
  <2>1. MoveToEnd(Reverse(Chain[r]), Range(Chain[r]) \cap evictable)
    BY <1>1 DEF Touch
  <2>2. /\ Reverse(Chain[r]) \in Seq(Keys) /\ IsInjective(Reverse(Chain[r]))
        /\ Range(Chain[r]) \cap evictable \in SUBSET Range(Reverse(Chain[r]))
    BY ChainShape
  <2> QED
    BY <1>0, <2>1, <2>2, MoveOrders
<1>2. ASSUME NEW keys \in Stretches, PrepareStore(keys) PROVE Ordered'
  <2>1. \E victims : Withdraw(victims)
    BY <1>2 DEF PrepareStore
  <2> QED
    BY <2>1, WithdrawOrders
<1>3. ASSUME NEW keys \in Stretches, CompleteStore(keys) PROVE Ordered'
  <2>1. MoveToEnd(keys, Range(keys))
    BY <1>3 DEF CompleteStore
  <2>2. keys \in Seq(Keys) /\ IsInjective(keys)
    BY StretchShape
  <2> QED
    BY <1>0, <2>1, <2>2, MoveOrders
<1>4. ASSUME NEW keys \in Stretches, FailStore(keys) PROVE Ordered'
  BY <1>a, <1>4 DEF FailStore
<1>5. ASSUME NEW keys \in Stretches, PrepareLoad(keys) PROVE Ordered'
  BY <1>5, WithdrawOrders DEF PrepareLoad
<1>6. ASSUME NEW keys \in Stretches, CompleteLoad(keys) PROVE Ordered'
  <2>1. MoveToEnd(keys, {k \in Range(keys) : ref[k] = 1})
    BY <1>6 DEF CompleteLoad
  <2>2. keys \in Seq(Keys) /\ IsInjective(keys)
    BY StretchShape
  <2>3. {k \in Range(keys) : ref[k] = 1} \in SUBSET Range(keys)
    OBVIOUS
  <2> QED
    BY <1>0, <2>1, <2>2, <2>3, MoveOrders
<1>7. ASSUME NEW keys \in Stretches, UpdateRelevance(keys) PROVE Ordered'
  BY <1>a, <1>7 DEF UpdateRelevance
<1>8. CASE DrainEvictedKeys
  BY <1>a, <1>8 DEF DrainEvictedKeys
<1>9. CASE ResetCache
  BY <1>9 DEF ResetCache, Ordered, Older
<1>10. CASE UNCHANGED vars
  BY <1>a, <1>10 DEF vars
<1> QED
  BY <1>1, <1>2, <1>3, <1>4, <1>5, <1>6, <1>7, <1>8, <1>9, <1>10 DEF Next

LEMMA IdleStep == TypeOK /\ OrderIsIdle /\ [Next]_vars => OrderIsIdle'
<1> SUFFICES ASSUME TypeOK, OrderIsIdle, [Next]_vars PROVE OrderIsIdle'
  OBVIOUS
<1> USE DEF lruVars, OrderIsIdle
<1>0. None \notin Int /\ MaxLoads \in Nat /\ ref \in [Keys -> {None} \cup (-1 .. MaxLoads)]
  BY LevelsAssumption, BoundsAssumption DEF TypeOK
<1>a. UNCHANGED <<ref, evictable>> => OrderIsIdle'
  OBVIOUS
<1>1. ASSUME NEW r \in Requests, Touch(r) PROVE OrderIsIdle'
  BY <1>1 DEF Touch, MoveToEnd
<1>2. ASSUME NEW keys \in Stretches, PrepareStore(keys) PROVE OrderIsIdle'
  <2> DEFINE new == Range(keys) \ Resident
  <2>1. PICK victims :
              /\ ref' = [k \in Keys |-> IF k \in new THEN -1
                                        ELSE IF k \in victims THEN None ELSE ref[k]]
              /\ Withdraw(victims)
    BY <1>2 DEF PrepareStore
  <2>2. \A k \in new : k \notin evictable
    BY <1>0 DEF Resident
  <2> HIDE DEF new
  <2>3. \A k \in Keys : ref'[k] = 0 <=> ref[k] = 0 /\ k \notin victims
    BY <1>0, <2>1, <2>2
  <2> QED
    BY <2>1, <2>3 DEF Withdraw
<1>3. ASSUME NEW keys \in Stretches, CompleteStore(keys) PROVE OrderIsIdle'
  <2>1. evictable' = evictable \cup Range(keys)
    BY <1>3 DEF CompleteStore, MoveToEnd
  <2>2. Range(keys) \in SUBSET Keys
    BY StretchShape
  <2>3. ref' = [k \in Keys |-> IF k \in Range(keys) THEN 0 ELSE ref[k]]
    BY <1>3 DEF CompleteStore
  <2> QED
    BY <2>1, <2>2, <2>3
<1>4. ASSUME NEW keys \in Stretches, FailStore(keys) PROVE OrderIsIdle'
  <2>1. ref' = [k \in Keys |-> IF k \in Range(keys) THEN None ELSE ref[k]]
    BY <1>4 DEF FailStore
  <2>2. \A k \in Range(keys) : ref[k] = -1
    BY <1>4 DEF FailStore
  <2>3. evictable' = evictable
    BY <1>4 DEF FailStore
  <2>4. \A k \in Keys : ref'[k] = 0 <=> ref[k] = 0
    BY <1>0, <2>1, <2>2
  <2> QED
    BY <2>3, <2>4
<1>5. ASSUME NEW keys \in Stretches, PrepareLoad(keys) PROVE OrderIsIdle'
  <2>1. evictable' = evictable \ Range(keys)
    BY <1>5 DEF PrepareLoad, Withdraw
  <2>2. ref' = [k \in Keys |-> IF k \in Range(keys) THEN ref[k] + 1 ELSE ref[k]]
    BY <1>5 DEF PrepareLoad
  <2>3. \A k \in Range(keys) : ref[k] \in 0 .. MaxLoads - 1
    BY <1>5 DEF PrepareLoad
  <2>4. \A k \in Keys : ref'[k] = 0 <=> ref[k] = 0 /\ k \notin Range(keys)
    BY <1>0, <2>2, <2>3
  <2> QED
    BY <2>1, <2>4
<1>6. ASSUME NEW keys \in Stretches, CompleteLoad(keys) PROVE OrderIsIdle'
  <2>1. evictable' = evictable \cup {k \in Range(keys) : ref[k] = 1}
    BY <1>6 DEF CompleteLoad, MoveToEnd
  <2>2. ref' = [k \in Keys |-> IF k \in Range(keys) THEN ref[k] - 1 ELSE ref[k]]
    BY <1>6 DEF CompleteLoad
  <2>3. \A k \in Range(keys) : ref[k] \in 1 .. MaxLoads
    BY <1>6 DEF CompleteLoad, Loading
  <2>4. Range(keys) \in SUBSET Keys
    BY StretchShape
  <2>5. \A k \in Keys : ref'[k] = 0 <=> ref[k] = 0 \/ (k \in Range(keys) /\ ref[k] = 1)
    BY <1>0, <2>2, <2>3
  <2> QED
    BY <2>1, <2>4, <2>5
<1>7. ASSUME NEW keys \in Stretches, UpdateRelevance(keys) PROVE OrderIsIdle'
  BY <1>a, <1>7 DEF UpdateRelevance
<1>8. CASE DrainEvictedKeys
  BY <1>a, <1>8 DEF DrainEvictedKeys
<1>9. CASE ResetCache
  BY <1>0, <1>9 DEF ResetCache
<1>10. CASE UNCHANGED vars
  BY <1>a, <1>10 DEF vars
<1> QED
  BY <1>1, <1>2, <1>3, <1>4, <1>5, <1>6, <1>7, <1>8, <1>9, <1>10 DEF Next

---------------------------------------------------------------------------
(* The tier never holds more than it has blocks.                           *)

LEMMA ResidentFinite ==
    /\ IsFiniteSet(Resident) /\ Cardinality(Resident) \in Nat
    /\ \A S \in SUBSET Keys : IsFiniteSet(S) /\ Cardinality(S) \in Nat
<1>1. ASSUME NEW S \in SUBSET Keys PROVE IsFiniteSet(S) /\ Cardinality(S) \in Nat
  BY KeysAssumption, FS_Subset, FS_CardinalityType
<1>2. Resident \in SUBSET Keys
  BY DEF Resident
<1> QED
  BY <1>1, <1>2

\* A store takes the place of the keys it evicts.
LEMMA StoreMovesResidents ==
    ASSUME TypeOK, OrderIsIdle, NEW keys \in Stretches,
           NEW victims \in SUBSET Candidates(keys),
           ref' = [k \in Keys |-> IF k \in Range(keys) \ Resident THEN -1
                                  ELSE IF k \in victims THEN None ELSE ref[k]]
    PROVE  /\ Resident' = (Resident \ victims) \cup (Range(keys) \ Resident)
           /\ victims \in SUBSET Resident /\ \A k \in victims : ref[k] = 0
<1>1. None \notin Int
  BY LevelsAssumption
<1>2. \A k \in victims : k \in Keys /\ ref[k] = 0
  BY DEF Candidates, OrderIsIdle
<1>3. Range(keys) \in SUBSET Keys
  BY StretchShape
<1>4. victims \in SUBSET Resident
  BY <1>1, <1>2 DEF Resident
<1>5. \A k \in Keys : ref'[k] # None <=>
         (ref[k] # None /\ k \notin victims) \/ k \in Range(keys) \ Resident
  BY <1>1, <1>4 DEF Resident
<1>6. Resident' = (Resident \ victims) \cup (Range(keys) \ Resident)
  BY <1>3, <1>5 DEF Resident
<1> QED
  BY <1>2, <1>4, <1>6

LEMMA CapacityStep ==
    TypeOK /\ OrderIsIdle /\ WithinCapacity /\ [Next]_vars => WithinCapacity'
<1> SUFFICES ASSUME TypeOK, OrderIsIdle, WithinCapacity, [Next]_vars PROVE WithinCapacity'
  OBVIOUS
<1>0. None \notin Int /\ Capacity \in Nat
  BY LevelsAssumption, KeysAssumption
<1>a. Resident' \in SUBSET Resident => WithinCapacity'
  <2> SUFFICES ASSUME Resident' \in SUBSET Resident PROVE WithinCapacity'
    OBVIOUS
  <2>1. Cardinality(Resident') <= Cardinality(Resident) /\ Cardinality(Resident') \in Nat
    BY ResidentFinite, FS_Subset, FS_CardinalityType
  <2>2. Cardinality(Resident) <= Capacity /\ Cardinality(Resident) \in Nat
    BY ResidentFinite DEF WithinCapacity
  <2>3. Cardinality(Resident') <= Capacity
    BY <1>0, <2>1, <2>2
  <2> QED
    BY <2>3 DEF WithinCapacity
<1>b. (\A k \in Keys : ref'[k] # None => ref[k] # None) => Resident' \in SUBSET Resident
  BY DEF Resident
<1>1. ASSUME NEW r \in Requests, Touch(r) PROVE WithinCapacity'
  BY <1>1, <1>a, <1>b DEF Touch
<1>2. ASSUME NEW keys \in Stretches, PrepareStore(keys) PROVE WithinCapacity'
  <2> DEFINE new == Range(keys) \ Resident
             need == IF Cardinality(new) > Room THEN Cardinality(new) - Room ELSE 0
  <2>1. PICK victims \in Evictions(need, Candidates(keys)) :
              ref' = [k \in Keys |-> IF k \in new THEN -1
                                     ELSE IF k \in victims THEN None ELSE ref[k]]
    BY <1>2 DEF PrepareStore
  <2>2. victims \in SUBSET Candidates(keys) /\ Cardinality(victims) = need
    BY VictimsAreCandidates
  <2>3. Resident' = (Resident \ victims) \cup new /\ victims \in SUBSET Resident
    BY <2>1, <2>2, StoreMovesResidents
  <2>4. new \in SUBSET Keys /\ victims \in SUBSET Keys /\ Resident \in SUBSET Keys
    BY <2>3, StretchShape DEF Resident
  <2>5. /\ IsFiniteSet(new) /\ Cardinality(new) \in Nat
        /\ IsFiniteSet(Resident) /\ Cardinality(Resident) \in Nat
        /\ IsFiniteSet(victims)
    BY <2>4, ResidentFinite
  <2>6. Cardinality(Resident \ victims) = Cardinality(Resident) - need
    <3>1. Resident \cap victims = victims
      BY <2>3
    <3>2. Cardinality(Resident \ victims)
            = Cardinality(Resident) - Cardinality(Resident \cap victims)
      BY <2>5, FS_Difference, Zenon
    <3> QED
      BY <2>2, <3>1, <3>2, Zenon
  <2>7. IsFiniteSet(Resident \ victims)
    BY <2>5, FS_Difference
  <2>8. Cardinality((Resident \ victims) \cup new)
          = Cardinality(Resident \ victims) + Cardinality(new)
    <3>1. (Resident \ victims) \cap new = {}
      OBVIOUS
    <3>2. Cardinality((Resident \ victims) \cap new) = 0
      BY <3>1, FS_EmptySet
    <3>3. Cardinality(Resident \ victims) \in Nat
      BY <2>7, FS_CardinalityType
    <3>4. Cardinality((Resident \ victims) \cup new)
            = Cardinality(Resident \ victims) + Cardinality(new)
                - Cardinality((Resident \ victims) \cap new)
      <4> HIDE DEF new
      <4> QED
        BY <2>5, <2>7, FS_Union, Zenon
    <3> HIDE DEF new
    <3> QED
      BY <2>5, <3>2, <3>3, <3>4
  <2>9. Cardinality(Resident) <= Capacity
    BY DEF WithinCapacity
  <2>10. need = IF Cardinality(new) > Capacity - Cardinality(Resident)
                THEN Cardinality(new) - (Capacity - Cardinality(Resident)) ELSE 0
    BY DEF Room
  <2> HIDE DEF new, need
  <2>11. Cardinality(Resident') = Cardinality(Resident) - need + Cardinality(new)
    BY <2>3, <2>6, <2>8
  <2>12. Cardinality(Resident') <= Capacity
    BY <1>0, <2>5, <2>9, <2>10, <2>11
  <2> QED
    BY <2>12 DEF WithinCapacity
<1>3. ASSUME NEW keys \in Stretches, CompleteStore(keys) PROVE WithinCapacity'
  BY <1>0, <1>3, <1>a, <1>b DEF CompleteStore
<1>4. ASSUME NEW keys \in Stretches, FailStore(keys) PROVE WithinCapacity'
  BY <1>4, <1>a, <1>b DEF FailStore
<1>5. ASSUME NEW keys \in Stretches, PrepareLoad(keys) PROVE WithinCapacity'
  BY <1>0, <1>5, <1>a, <1>b DEF PrepareLoad
<1>6. ASSUME NEW keys \in Stretches, CompleteLoad(keys) PROVE WithinCapacity'
  BY <1>0, <1>6, <1>a, <1>b DEF CompleteLoad, Loading
<1>7. ASSUME NEW keys \in Stretches, UpdateRelevance(keys) PROVE WithinCapacity'
  BY <1>7, <1>a, <1>b DEF UpdateRelevance
<1>8. CASE DrainEvictedKeys
  BY <1>8, <1>a, <1>b DEF DrainEvictedKeys
<1>9. CASE ResetCache
  BY <1>9, <1>a, <1>b DEF ResetCache
<1>10. CASE UNCHANGED vars
  BY <1>10, <1>a, <1>b DEF vars
<1> QED
  BY <1>1, <1>2, <1>3, <1>4, <1>5, <1>6, <1>7, <1>8, <1>9, <1>10 DEF Next

---------------------------------------------------------------------------
(* What is known of the keys, and the links between them.                  *)

LEMMA ForgetAgrees ==
    ASSUME ChainMapsAgree, NEW gone, Forget(gone)
    PROVE  ChainMapsAgree'
<1> SUFFICES ASSUME NEW p \in Keys, NEW k \in Keys
             PROVE  chainSuccessor'[p] = k <=> p \in chainPredecessors'[k]
  BY DEF ChainMapsAgree
<1>1. chainSuccessor[p] = k <=> p \in chainPredecessors[k]
  BY DEF ChainMapsAgree
<1>2. k # None
  BY KeysAssumption
<1>3. chainSuccessor'[p] = IF p \in gone \/ \E g \in gone : chainSuccessor[p] = g /\ p \in chainPredecessors[g]
                           THEN None ELSE chainSuccessor[p]
  BY DEF Forget
<1>4. chainPredecessors'[k] = IF k \in gone THEN {}
                              ELSE chainPredecessors[k] \ {g \in gone : chainSuccessor[g] = k}
  BY DEF Forget
<1> QED
  BY <1>1, <1>2, <1>3, <1>4

LEMMA RelinkAgrees ==
    ASSUME ChainMapsAgree, NEW keys \in Seq(Keys), IsInjective(keys), Relink(keys)
    PROVE  ChainMapsAgree'
<1> SUFFICES ASSUME NEW p \in Keys, NEW k \in Keys
             PROVE  chainSuccessor'[p] = k <=> p \in chainPredecessors'[k]
  BY DEF ChainMapsAgree
<1>1. chainSuccessor[p] = k <=> p \in chainPredecessors[k]
  BY DEF ChainMapsAgree
<1>2. DOMAIN keys = 1 .. Len(keys) /\ Len(keys) \in Nat
  OBVIOUS
<1>3. Linked(keys, p, k) => p \in Fronts(keys)
  BY DEF Linked, Fronts
<1>4. ASSUME p \in Fronts(keys)
      PROVE  (CHOOSE n \in Keys : Linked(keys, p, n)) = k <=> Linked(keys, p, k)
  <2>1. PICK i \in 1 .. Len(keys) - 1 : p = keys[i]
    BY <1>4 DEF Fronts
  <2>2. i \in DOMAIN keys /\ i + 1 \in DOMAIN keys /\ keys[i + 1] \in Keys
    BY <1>2
  <2>3. \A n \in Keys : Linked(keys, p, n) <=> n = keys[i + 1]
    <3> SUFFICES ASSUME NEW n \in Keys PROVE Linked(keys, p, n) <=> n = keys[i + 1]
      OBVIOUS
    <3>1. ASSUME Linked(keys, p, n) PROVE n = keys[i + 1]
      <4>1. PICK h \in 1 .. Len(keys) - 1 : keys[h] = p /\ keys[h + 1] = n
        BY <3>1 DEF Linked
      <4>2. h \in DOMAIN keys
        BY <1>2
      <4>3. h = i
        BY <2>1, <2>2, <4>1, <4>2 DEF IsInjective
      <4> QED
        BY <4>1, <4>3
    <3>2. ASSUME n = keys[i + 1] PROVE Linked(keys, p, n)
      BY <2>1, <3>2 DEF Linked
    <3> QED
      BY <3>1, <3>2
  <2> QED
    BY <2>2, <2>3
<1>5. chainSuccessor'[p] = IF p \in Fronts(keys) THEN CHOOSE n \in Keys : Linked(keys, p, n)
                           ELSE chainSuccessor[p]
  BY DEF Relink
<1>6. p \in chainPredecessors'[k] <=>
        \/ p \in chainPredecessors[k] /\ ~(p \in Fronts(keys) /\ chainSuccessor[p] = k)
        \/ p \in Fronts(keys) /\ Linked(keys, p, k)
  BY DEF Relink
<1> QED
  BY <1>1, <1>3, <1>4, <1>5, <1>6

LEMMA ChainStep == ChainMapsAgree /\ [Next]_vars => ChainMapsAgree'
<1> SUFFICES ASSUME ChainMapsAgree, [Next]_vars PROVE ChainMapsAgree'
  OBVIOUS
<1> USE DEF policyVars, chainVars
<1>a. UNCHANGED chainVars => ChainMapsAgree'
  BY DEF ChainMapsAgree
<1>1. ASSUME NEW r \in Requests, Touch(r) PROVE ChainMapsAgree'
  <2>1. Relink(Chain[r]) \/ UNCHANGED chainVars
    BY <1>1 DEF Touch
  <2>2. Chain[r] \in Seq(Keys) /\ IsInjective(Chain[r])
    BY ChainAssumption
  <2> QED
    BY <1>a, <2>1, <2>2, RelinkAgrees
<1>2. ASSUME NEW keys \in Stretches, PrepareStore(keys) PROVE ChainMapsAgree'
  <2>1. \E victims : Forget(victims)
    BY <1>2 DEF PrepareStore
  <2> QED
    BY <2>1, ForgetAgrees
<1>3. ASSUME NEW keys \in Stretches, CompleteStore(keys) PROVE ChainMapsAgree'
  BY <1>a, <1>3 DEF CompleteStore
<1>4. ASSUME NEW keys \in Stretches, FailStore(keys) PROVE ChainMapsAgree'
  BY <1>4, ForgetAgrees DEF FailStore
<1>5. ASSUME NEW keys \in Stretches, PrepareLoad(keys) PROVE ChainMapsAgree'
  BY <1>a, <1>5 DEF PrepareLoad
<1>6. ASSUME NEW keys \in Stretches, CompleteLoad(keys) PROVE ChainMapsAgree'
  BY <1>a, <1>6 DEF CompleteLoad
<1>7. ASSUME NEW keys \in Stretches, UpdateRelevance(keys) PROVE ChainMapsAgree'
  BY <1>a, <1>7 DEF UpdateRelevance
<1>8. CASE DrainEvictedKeys
  BY <1>a, <1>8 DEF DrainEvictedKeys
<1>9. CASE ResetCache
  BY <1>9, KeysAssumption DEF ResetCache, ChainMapsAgree
<1>10. CASE UNCHANGED vars
  BY <1>a, <1>10 DEF vars
<1> QED
  BY <1>1, <1>2, <1>3, <1>4, <1>5, <1>6, <1>7, <1>8, <1>9, <1>10 DEF Next

\* A forgotten key keeps neither metadata nor links in either direction.
LEMMA ForgetForgets ==
    ASSUME ChainMapsAgree, NEW gone, Forget(gone), NEW k \in Keys, k \in gone
    PROVE  /\ ema'[k] = None /\ lastTouchReq'[k] = None /\ k \notin sessionProven'
           /\ chainSuccessor'[k] = None /\ chainPredecessors'[k] = {}
           /\ \A p \in Keys : chainSuccessor'[p] # k /\ k \notin chainPredecessors'[p]
<1>1. k # None
  BY KeysAssumption
<1>2. \A p \in Keys : /\ chainSuccessor[p] = k <=> p \in chainPredecessors[k]
                      /\ chainSuccessor[k] = p <=> k \in chainPredecessors[p]
  BY DEF ChainMapsAgree
<1> QED
  BY <1>1, <1>2 DEF Forget

LEMMA MetadataStep == TypeOK /\ MetadataResident /\ [Next]_vars => MetadataResident'
<1> SUFFICES ASSUME TypeOK, MetadataResident, [Next]_vars,
                    NEW k \in Keys, ref'[k] = None
             PROVE  ema'[k] = None /\ graceLeft'[k] = 0
  BY DEF MetadataResident, Scored
<1> USE DEF policyVars
<1>0. None \notin Int /\ ref \in [Keys -> {None} \cup (-1 .. MaxLoads)] /\ MaxLoads \in Nat
  BY LevelsAssumption, BoundsAssumption DEF TypeOK
<1>a. ref[k] = None => ema[k] = None /\ graceLeft[k] = 0
  BY DEF MetadataResident, Scored
<1>1. ASSUME NEW r \in Requests, Touch(r) PROVE ema'[k] = None /\ graceLeft'[k] = 0
  BY <1>1, <1>a DEF Touch
<1>2. ASSUME NEW keys \in Stretches, PrepareStore(keys) PROVE ema'[k] = None /\ graceLeft'[k] = 0
  <2> DEFINE new == Range(keys) \ Resident
  <2>1. PICK victims :
              /\ ref' = [i \in Keys |-> IF i \in new THEN -1
                                        ELSE IF i \in victims THEN None ELSE ref[i]]
              /\ graceLeft' = [i \in Keys |-> GraceAfter(keys, new, victims, i)]
              /\ Forget(victims)
    BY <1>2 DEF PrepareStore
  <2>2. Cardinality(new) \in Nat
    <3>1. new \in SUBSET Keys
      BY StretchShape
    <3> QED
      BY <3>1, ResidentFinite
  <2> HIDE DEF new
  <2>3. k \notin new /\ (k \in victims \/ ref[k] = None)
    BY <1>0, <2>1
  <2>4. ema'[k] = None
    BY <1>a, <2>1, <2>3 DEF Forget
  <2>5. graceLeft'[k] = GraceAfter(keys, new, victims, k)
    BY <2>1
  <2>6. CASE k \in victims
    BY <2>4, <2>5, <2>6 DEF GraceAfter
  <2>7. CASE ref[k] = None
    BY <1>a, <2>2, <2>3, <2>4, <2>5, <2>7 DEF GraceAfter
  <2> QED
    BY <2>3, <2>6, <2>7
<1>3. ASSUME NEW keys \in Stretches, CompleteStore(keys) PROVE ema'[k] = None /\ graceLeft'[k] = 0
  BY <1>0, <1>3, <1>a DEF CompleteStore
<1>4. ASSUME NEW keys \in Stretches, FailStore(keys) PROVE ema'[k] = None /\ graceLeft'[k] = 0
  BY <1>4, <1>a DEF FailStore, Forget
<1>5. ASSUME NEW keys \in Stretches, PrepareLoad(keys) PROVE ema'[k] = None /\ graceLeft'[k] = 0
  BY <1>0, <1>5, <1>a DEF PrepareLoad
<1>6. ASSUME NEW keys \in Stretches, CompleteLoad(keys) PROVE ema'[k] = None /\ graceLeft'[k] = 0
  BY <1>0, <1>6, <1>a DEF CompleteLoad, Loading
<1>7. ASSUME NEW keys \in Stretches, UpdateRelevance(keys) PROVE ema'[k] = None /\ graceLeft'[k] = 0
  BY <1>7, <1>a DEF UpdateRelevance, MayLearn
<1>8. CASE DrainEvictedKeys
  BY <1>8, <1>a DEF DrainEvictedKeys
<1>9. CASE ResetCache
  BY <1>9 DEF ResetCache
<1>10. CASE UNCHANGED vars
  BY <1>10, <1>a DEF vars
<1> QED
  BY <1>1, <1>2, <1>3, <1>4, <1>5, <1>6, <1>7, <1>8, <1>9, <1>10 DEF Next

---------------------------------------------------------------------------
(* The contract.                                                           *)

LEMMA SameCardinality == \A S : Contract!Cardinality(S) = Cardinality(S)
  BY DEF Cardinality, Contract!Cardinality

LEMMA InitRefines == Init => Contract!TierInit
  BY DEF Init, Contract!TierInit

LEMMA StepRefines ==
    TypeOK /\ OrderIsIdle /\ [Next]_vars => [Contract!TierNext]_(Contract!tierVars)
<1> SUFFICES ASSUME TypeOK, OrderIsIdle, [Next]_vars
             PROVE  Contract!TierNext \/ UNCHANGED <<ref, ema, pendingEvicted>>
  BY DEF Contract!tierVars
<1> USE DEF policyVars
<1> DEFINE entered == {k \in Keys : ref[k] = None /\ ref'[k] # None}
           left    == {k \in Keys : ref[k] # None /\ ref'[k] = None}
           changed == {k \in Contract!Resident \ left : ref'[k] # ref[k]}
           Abstract == \/ Contract!StoreEvicting(entered, left)
                       \/ Contract!StoreCompleted(changed) \/ Contract!StoreFailed(left)
                       \/ Contract!LoadBegun(changed) \/ Contract!LoadCompleted(changed)
<1>0. None \notin Int /\ ref \in [Keys -> {None} \cup (-1 .. MaxLoads)] /\ MaxLoads \in Nat
  BY LevelsAssumption, BoundsAssumption DEF TypeOK
<1>a. Abstract => Contract!TierNext
  BY DEF Contract!TierNext
<1>b. Contract!Resident = Resident /\ Resident = {k \in Keys : ref[k] # None}
  BY DEF Contract!Resident, Resident
<1>c. ema \in [Keys -> Levels \cup {None}]
  BY DEF TypeOK
<1>1. ASSUME NEW r \in Requests, Touch(r) PROVE UNCHANGED <<ref, ema, pendingEvicted>>
  BY <1>1 DEF Touch
<1>2. ASSUME NEW keys \in Stretches, PrepareStore(keys) PROVE Contract!TierNext
  <2> DEFINE new == Range(keys) \ Resident
             need == IF Cardinality(new) > Room THEN Cardinality(new) - Room ELSE 0
  <2>1. PICK victims \in Evictions(need, Candidates(keys)) :
              /\ ref' = [k \in Keys |-> IF k \in new THEN -1
                                        ELSE IF k \in victims THEN None ELSE ref[k]]
              /\ pendingEvicted' = pendingEvicted \cup victims
              /\ Forget(victims)
    BY <1>2 DEF PrepareStore, Announced
  <2>2. victims \in SUBSET Candidates(keys) /\ Cardinality(victims) = need
    BY VictimsAreCandidates
  <2>3. /\ victims \in SUBSET Resident /\ \A k \in victims : ref[k] = 0
        /\ Resident' = (Resident \ victims) \cup new
    BY <2>1, <2>2, StoreMovesResidents
  <2>4. new # {} /\ new \in SUBSET Keys /\ new \cap Resident = {}
    BY <1>2, StretchShape DEF PrepareStore
  <2>5. need = IF Cardinality(new) > Contract!Room THEN Cardinality(new) - Contract!Room ELSE 0
    <3>1. Contract!Room = Room
      BY <1>b, SameCardinality, Zenon DEF Room, Contract!Room
    <3> HIDE DEF new
    <3> QED
      BY <3>1
  <2> HIDE DEF new, need
  <2>6. entered = new
    BY <1>0, <1>b, <2>1, <2>3, <2>4
  <2>7. left = victims
    BY <1>0, <1>b, <2>1, <2>3, <2>4
  <2>8. victims \subseteq Contract!Idle
    BY <1>b, <2>3 DEF Contract!Idle
  <2>9. ema' = [k \in Keys |-> IF k \in victims THEN None ELSE ema[k]]
    BY <2>1 DEF Forget
  <2>10. Contract!StoreEvicting(new, victims)
    <3>1. new \cap Contract!Resident = {}
      BY <1>b, <2>4
    <3> QED
      BY <2>1, <2>2, <2>4, <2>5, <2>8, <2>9, <3>1, SameCardinality, Zenon DEF Contract!StoreEvicting
  <2>11. Contract!StoreEvicting(entered, left)
    BY <2>6, <2>7, <2>10
  <2> QED
    BY <1>a, <2>11
<1>3. ASSUME NEW keys \in Stretches, CompleteStore(keys) PROVE Contract!TierNext
  <2>1. /\ ref' = [k \in Keys |-> IF k \in Range(keys) THEN 0 ELSE ref[k]]
        /\ \A k \in Range(keys) : ref[k] = -1
        /\ UNCHANGED <<ema, pendingEvicted>>
    BY <1>3 DEF CompleteStore
  <2>2. Range(keys) \in SUBSET Keys /\ Range(keys) # {}
    BY StretchShape
  <2>3. changed = Range(keys)
    BY <1>0, <1>b, <2>1, <2>2
  <2>4. Contract!StoreCompleted(Range(keys))
    BY <2>1, <2>2 DEF Contract!StoreCompleted, Contract!Storing
  <2>5. Contract!StoreCompleted(changed)
    BY <2>3, <2>4
  <2> QED
    BY <1>a, <2>5
<1>4. ASSUME NEW keys \in Stretches, FailStore(keys) PROVE Contract!TierNext
  <2>1. /\ ref' = [k \in Keys |-> IF k \in Range(keys) THEN None ELSE ref[k]]
        /\ \A k \in Range(keys) : ref[k] = -1
        /\ StoresMayFail /\ UNCHANGED pendingEvicted
        /\ ema' = [k \in Keys |-> IF k \in Range(keys) THEN None ELSE ema[k]]
    BY <1>4 DEF FailStore, Forget
  <2>2. Range(keys) \in SUBSET Keys /\ Range(keys) # {}
    BY StretchShape
  <2>3. left = Range(keys)
    BY <1>0, <1>b, <2>1, <2>2
  <2>4. Contract!StoreFailed(Range(keys))
    BY <2>1, <2>2 DEF Contract!StoreFailed, Contract!Storing
  <2>5. Contract!StoreFailed(left)
    BY <2>3, <2>4
  <2> QED
    BY <1>a, <2>5
<1>5. ASSUME NEW keys \in Stretches, PrepareLoad(keys) PROVE Contract!TierNext
  <2>1. /\ ref' = [k \in Keys |-> IF k \in Range(keys) THEN ref[k] + 1 ELSE ref[k]]
        /\ \A k \in Range(keys) : ref[k] \in 0 .. MaxLoads - 1
        /\ UNCHANGED <<ema, pendingEvicted>>
    BY <1>5 DEF PrepareLoad
  <2>2. Range(keys) \in SUBSET Keys /\ Range(keys) # {}
    BY StretchShape
  <2>3. changed = Range(keys)
    BY <1>0, <1>b, <2>1, <2>2
  <2>4. Contract!LoadBegun(Range(keys))
    BY <2>1, <2>2 DEF Contract!LoadBegun
  <2>5. Contract!LoadBegun(changed)
    BY <2>3, <2>4
  <2> QED
    BY <1>a, <2>5
<1>6. ASSUME NEW keys \in Stretches, CompleteLoad(keys) PROVE Contract!TierNext
  <2>1. /\ ref' = [k \in Keys |-> IF k \in Range(keys) THEN ref[k] - 1 ELSE ref[k]]
        /\ \A k \in Range(keys) : ref[k] \in 1 .. MaxLoads
        /\ UNCHANGED <<ema, pendingEvicted>>
    BY <1>6 DEF CompleteLoad, Loading
  <2>2. Range(keys) \in SUBSET Keys /\ Range(keys) # {}
    BY StretchShape
  <2>3. changed = Range(keys)
    BY <1>0, <1>b, <2>1, <2>2
  <2>4. Contract!LoadCompleted(Range(keys))
    BY <2>1, <2>2 DEF Contract!LoadCompleted
  <2>5. Contract!LoadCompleted(changed)
    BY <2>3, <2>4
  <2> QED
    BY <1>a, <2>5
<1>7. ASSUME NEW keys \in Stretches, UpdateRelevance(keys) PROVE Contract!TierNext
  <2>1. PICK level \in [Range(keys) -> Levels] :
          ema' = [k \in Keys |-> IF k \in Range(keys) /\ MayLearn(k) THEN level[k] ELSE ema[k]]
    BY <1>7 DEF UpdateRelevance
  <2>2. \A k \in Keys : ema'[k] # ema[k] => k \in Contract!Resident /\ ema'[k] \in Levels
    BY <1>b, <2>1 DEF MayLearn
  <2>3. UNCHANGED <<ref, pendingEvicted>>
    BY <1>7 DEF UpdateRelevance
  <2>4. Contract!RelevanceMoved(ema')
    BY <2>2, <2>3 DEF Contract!RelevanceMoved
  <2> QED
    BY <2>4 DEF Contract!TierNext
<1>8. CASE DrainEvictedKeys
  BY <1>8 DEF DrainEvictedKeys, Contract!TierNext, Contract!EvictionsDrained
<1>9. CASE ResetCache
  BY <1>9 DEF ResetCache, Contract!TierNext, Contract!TierReset
<1>10. CASE UNCHANGED vars
  BY <1>10 DEF vars
<1> QED
  BY <1>1, <1>2, <1>3, <1>4, <1>5, <1>6, <1>7, <1>8, <1>9, <1>10 DEF Next

---------------------------------------------------------------------------
(* The theorems.                                                           *)

LEMMA InitTier == Init => TierInv
<1> SUFFICES ASSUME Init PROVE TierInv
  OBVIOUS
<1>1. TypeOK /\ Ordered /\ OrderIsIdle /\ MetadataResident /\ ChainMapsAgree
  BY InitInv
<1>2. Resident = {}
  BY DEF Init, Resident
<1>3. Cardinality(Resident) <= Capacity
  BY <1>2, FS_EmptySet, KeysAssumption
<1> QED
  BY <1>1, <1>3 DEF TierInv, EvictableAreIdle, Ordered, OrderIsIdle

LEMMA StepTier == TierInv /\ [Next]_vars => TierInv'
<1> SUFFICES ASSUME TierInv, [Next]_vars PROVE TierInv'
  OBVIOUS
<1>1. TypeOK /\ Ordered /\ OrderIsIdle /\ WithinCapacity /\ MetadataResident /\ ChainMapsAgree
  BY DEF TierInv, EvictableAreIdle, Ordered, OrderIsIdle, WithinCapacity
<1>2. TypeOK' /\ Ordered' /\ OrderIsIdle' /\ WithinCapacity'
  BY <1>1, TypeStep, OrderStep, IdleStep, CapacityStep
<1>3. MetadataResident' /\ ChainMapsAgree'
  BY <1>1, MetadataStep, ChainStep
<1>4. EvictableAreIdle'
  BY <1>2 DEF EvictableAreIdle, Ordered, OrderIsIdle, WithinCapacity
<1> QED
  BY <1>2, <1>3, <1>4 DEF TierInv

LEMMA TierCorrect == Spec => []TierInv
  BY InitTier, StepTier, PTL DEF Spec

\* The manager's and the policy's bookkeeping keeps its types.
THEOREM TypeCorrect == Spec => []TypeOK
<1>1. TierInv => TypeOK
  BY DEF TierInv
<1> QED
  BY <1>1, TierCorrect, PTL

\* The LRU order is a total order of exactly the idle blocks, through every
\* interleaving of stores, loads, touches and evictions, and the tier never
\* exceeds its capacity (policy.py:202-204, 243-258, 396-402).
THEOREM OrderCorrect == Spec => []EvictableAreIdle
<1>1. TierInv => EvictableAreIdle
  BY DEF TierInv
<1> QED
  BY <1>1, TierCorrect, PTL

\* Scores that arrive late, and keys that leave, never let relevance or grace
\* describe a key that the tier does not hold (manager.py:184-188).
THEOREM MetadataCorrect == Spec => []MetadataResident
<1>1. TierInv => MetadataResident
  BY DEF TierInv
<1> QED
  BY <1>1, TierCorrect, PTL

\* The two maps of chain links stay inverse to each other (policy.py:183-219).
THEOREM LinksCorrect == Spec => []ChainMapsAgree
<1>1. TierInv => ChainMapsAgree
  BY DEF TierInv
<1> QED
  BY <1>1, TierCorrect, PTL

\* A key that leaves the tier leaves no metadata and no link (policy.py:183-200).
THEOREM RemovalForgets == Spec => ForgottenOnRemoval
<1> DEFINE Gone(k) == /\ ema'[k] = None /\ graceLeft'[k] = 0
                      /\ lastTouchReq'[k] = None /\ k \notin sessionProven'
                      /\ chainSuccessor'[k] = None /\ chainPredecessors'[k] = {}
                      /\ \A p \in Keys : chainSuccessor'[p] # k /\ k \notin chainPredecessors'[p]
<1>1. ASSUME TierInv, [Next]_vars, NEW k \in Keys, ref[k] # None, ref'[k] = None
      PROVE  Gone(k)
  <2>0. TypeOK /\ ChainMapsAgree /\ MetadataResident /\ MetadataResident'
    BY <1>1, StepTier DEF TierInv
  <2>1. graceLeft'[k] = 0
    BY <1>1, <2>0 DEF MetadataResident
  <2>2. None \notin Int /\ ref \in [Keys -> {None} \cup (-1 .. MaxLoads)] /\ MaxLoads \in Nat
    BY <2>0, LevelsAssumption, BoundsAssumption DEF TypeOK
  <2>3. (\E gone : k \in gone /\ Forget(gone)) \/ ResetCache
    <3>1. ASSUME NEW r \in Requests, Touch(r) PROVE FALSE
      BY <1>1, <3>1 DEF Touch
    <3>2. ASSUME NEW keys \in Stretches, PrepareStore(keys)
          PROVE  \E gone : k \in gone /\ Forget(gone)
      <4>1. PICK victims :
               /\ ref' = [i \in Keys |-> IF i \in Range(keys) \ Resident THEN -1
                                         ELSE IF i \in victims THEN None ELSE ref[i]]
               /\ Forget(victims)
        BY <3>2 DEF PrepareStore
      <4>2. k \in victims
        BY <1>1, <2>2, <4>1
      <4> QED
        BY <4>1, <4>2
    <3>3. ASSUME NEW keys \in Stretches, CompleteStore(keys) PROVE FALSE
      BY <1>1, <2>2, <3>3 DEF CompleteStore
    <3>4. ASSUME NEW keys \in Stretches, FailStore(keys)
          PROVE  \E gone : k \in gone /\ Forget(gone)
      BY <1>1, <3>4 DEF FailStore
    <3>5. ASSUME NEW keys \in Stretches, PrepareLoad(keys) PROVE FALSE
      BY <1>1, <2>2, <3>5 DEF PrepareLoad
    <3>6. ASSUME NEW keys \in Stretches, CompleteLoad(keys) PROVE FALSE
      BY <1>1, <2>2, <3>6 DEF CompleteLoad, Loading
    <3>7. ASSUME NEW keys \in Stretches, UpdateRelevance(keys) PROVE FALSE
      BY <1>1, <3>7 DEF UpdateRelevance
    <3>8. ~DrainEvictedKeys /\ ~UNCHANGED vars
      BY <1>1 DEF DrainEvictedKeys, vars
    <3> QED
      BY <1>1, <3>1, <3>2, <3>3, <3>4, <3>5, <3>6, <3>7, <3>8 DEF Next
  <2>4. CASE \E gone : k \in gone /\ Forget(gone)
    BY <2>0, <2>1, <2>4, ForgetForgets
  <2>5. CASE ResetCache
    BY <2>5, KeysAssumption DEF ResetCache
  <2> QED
    BY <2>3, <2>4, <2>5
<1>2. TierInv /\ [Next]_vars =>
        [\A k \in Keys : ref[k] # None /\ ref'[k] = None => Gone(k)]_vars
  BY <1>1
<1>3. TierInv /\ [Next]_vars =>
        [\A k \in Keys : ref[k] # None /\ ref'[k] = None =>
          /\ ema'[k] = None /\ graceLeft'[k] = 0
          /\ lastTouchReq'[k] = None /\ k \notin sessionProven'
          /\ chainSuccessor'[k] = None /\ chainPredecessors'[k] = {}
          /\ \A p \in Keys : chainSuccessor'[p] # k /\ k \notin chainPredecessors'[p]]_vars
  BY <1>2
<1> QED
  BY <1>3, TierCorrect, PTL DEF Spec, ForgottenOnRemoval

\* The tier, whatever its policy, keeps the contract of OffloadTier: it
\* evicts only idle keys, as many as a store needs, and announces each one.
THEOREM TierImplements == Spec => ImplementsTier
<1>1. TierInv => TypeOK /\ OrderIsIdle
  BY DEF TierInv, EvictableAreIdle, OrderIsIdle
<1>2. TierInv /\ [Next]_vars => [Contract!TierNext]_(Contract!tierVars)
  BY <1>1, StepRefines
<1> QED
  BY <1>2, InitRefines, TierCorrect, PTL DEF Spec, ImplementsTier, Contract!TierSpec

---------------------------------------------------------------------------
(* Arithmetic of the scores.                                               *)

LEMMA DivMonotone ==
    ASSUME NEW a \in Nat, NEW b \in Nat, NEW d \in Nat \ {0}, a <= b
    PROVE  a \div d <= b \div d
<1> DEFINE q == a \div d
           p == b \div d
<1>1. q \in Int /\ p \in Int
  OBVIOUS
<1>2. d * q <= a /\ b < d * (p + 1)
  OBVIOUS
<1> HIDE DEF q, p
<1>3. d * q < d * (p + 1)
  BY <1>1, <1>2
<1>4. q < p + 1
  BY <1>1, <1>3
<1> QED BY <1>1, <1>4 DEF q, p

\* The larger the divisor, the smaller the quotient.
LEMMA DivAntitone ==
    ASSUME NEW a \in Nat, NEW d \in Nat \ {0}, NEW e \in Nat \ {0}, d <= e
    PROVE  a \div e <= a \div d
<1> DEFINE q == a \div e
           p == a \div d
<1>1. q \in Nat /\ p \in Nat
  OBVIOUS
<1>2. e * q <= a /\ a < d * (p + 1)
  OBVIOUS
<1> HIDE DEF q, p
<1>3. d * q <= e * q
  BY <1>1
<1>4. d * q < d * (p + 1)
  BY <1>1, <1>2, <1>3
<1>5. q < p + 1
  BY <1>1, <1>4
<1> QED BY <1>1, <1>5 DEF q, p

\* A share of the whole is between 0 and Unit.
LEMMA ShareBounds ==
    ASSUME NEW part \in Nat, NEW whole \in Nat \ {0}, part <= whole
    PROVE  (Unit * part) \div whole \in 0 .. Unit
<1>1. Unit \in Nat
  BY BoundsAssumption
<1>2. Unit * part \in Nat /\ Unit * whole \in Nat /\ Unit * part <= Unit * whole
  BY <1>1
<1>3. (Unit * whole) \div whole = Unit
  BY <1>1
<1>4. (Unit * part) \div whole <= (Unit * whole) \div whole
  BY <1>2, DivMonotone
<1>5. (Unit * part) \div whole \in Nat
  BY <1>2
<1> QED BY <1>1, <1>3, <1>4, <1>5

LEMMA LeastNatural ==
    ASSUME NEW S \in SUBSET Nat, S # {}
    PROVE  \E n \in S : \A m \in S : n <= m
<1> DEFINE R == OpToRel(<, Nat)
<1>1. IsWellFoundedOn(R, Nat)
  BY NatLessThanWellFounded
<1>2. \A x, y \in Nat : x < y => <<x, y>> \in R
  BY DEF OpToRel
<1> HIDE DEF R
<1>3. PICK x \in S : \A y \in S : ~(<<y, x>> \in R)
  BY <1>1, WFMin
<1>4. \A y \in S : x \in Nat /\ y \in Nat /\ ~(y < x)
  BY <1>2, <1>3
<1> QED BY <1>4

LEMMA GreatestNatural ==
    ASSUME NEW S \in SUBSET Nat, S # {}, IsFiniteSet(S)
    PROVE  \E n \in S : \A m \in S : n >= m
<1> DEFINE HasMax(T) == \E n \in T : \A m \in T : n >= m
           T == {X \in FiniteSubsetsOf(S) : X # {} /\ ~HasMax(X)}
           R == StrictSubsetOrdering(S)
<1>1. SUFFICES T = {}
  <2>1. S \in FiniteSubsetsOf(S)
    BY DEF FiniteSubsetsOf
  <2> QED BY <1>1, <2>1
<1>2. SUFFICES ASSUME T # {} PROVE FALSE
  OBVIOUS
<1>3. PICK X \in T : \A Y \in T : ~(<<Y, X>> \in R)
  <2>1. IsWellFoundedOn(R, FiniteSubsetsOf(S)) /\ T \subseteq FiniteSubsetsOf(S)
    BY FS_StrictSubsetOrderingWellFounded
  <2> HIDE DEF T, R
  <2> QED BY <1>2, <2>1, WFMin
<1>4. X \in SUBSET S /\ X \in SUBSET Nat /\ IsFiniteSet(X) /\ X # {} /\ ~HasMax(X)
  BY <1>3 DEF FiniteSubsetsOf
<1>5. PICK x \in X : TRUE
  BY <1>4
<1> DEFINE Y == X \ {x}
<1>6. IsFiniteSet(Y) /\ Y \in SUBSET S
  BY <1>4, FS_RemoveElement
<1>7. <<Y, X>> \in R
  BY <1>4, <1>5, <1>6 DEF StrictSubsetOrdering
<1>8. Y \notin T
  BY <1>3, <1>7
<1>9. Y = {} \/ HasMax(Y)
  BY <1>6, <1>8 DEF FiniteSubsetsOf
<1>10. CASE Y = {}
  BY <1>4, <1>5, <1>10
<1>11. CASE HasMax(Y)
  <2>1. PICK n \in Y : \A m \in Y : n >= m
    BY <1>11
  <2>2. CASE n >= x
    BY <1>4, <2>1, <2>2
  <2>3. CASE ~(n >= x)
    <3>1. \A m \in X : x >= m
      BY <1>4, <1>5, <2>1, <2>3
    <3> QED BY <1>4, <1>5, <3>1
  <2> QED BY <2>2, <2>3
<1> QED BY <1>9, <1>10, <1>11

---------------------------------------------------------------------------
(* What eviction spares.                                                   *)

\* Everything a store may evict here is idle, hence one of finitely many keys.
LEMMA CandidatesIdle ==
    ASSUME TypeOK, NEW candidates \in CandidateSets
    PROVE  candidates \in SUBSET evictable /\ candidates \in SUBSET Keys /\ IsFiniteSet(candidates)
<1>1. candidates \in SUBSET evictable /\ candidates \in SUBSET Keys
  BY DEF CandidateSets, Candidates, TypeOK
<1> QED BY <1>1, FS_Subset, KeysAssumption

LEMMA RecencyBounds ==
    ASSUME TypeOK, Ordered, NEW C \in SUBSET evictable, IsFiniteSet(C), NEW k \in C
    PROVE  Recency(k, C) \in 0 .. Unit
<1> DEFINE before == {j \in C : Older(j, k)}
<1>1. before \subseteq C \ {k}
  BY DEF Ordered
<1>2. /\ Cardinality(C) \in Nat /\ IsFiniteSet(C \ {k})
      /\ Cardinality(C \ {k}) = Cardinality(C) - 1
  BY FS_CardinalityType, FS_RemoveElement
<1>3. Cardinality(before) \in Nat /\ Cardinality(before) <= Cardinality(C) - 1
  BY <1>1, <1>2, FS_Subset, FS_CardinalityType
<1>4. CASE Cardinality(C) > 1
  <2>1. Cardinality(C) - 1 \in Nat \ {0}
    BY <1>2, <1>4
  <2>2. (Unit * Cardinality(before)) \div (Cardinality(C) - 1) \in 0 .. Unit
    BY <1>3, <2>1, ShareBounds
  <2> QED BY <1>4, <2>2 DEF Recency
<1>5. CASE ~(Cardinality(C) > 1)
  BY <1>5, BoundsAssumption DEF Recency
<1> QED BY <1>4, <1>5

\* The more recent of two candidates has the higher recency.
LEMMA RecencyOrders ==
    ASSUME TypeOK, Ordered, NEW C \in SUBSET evictable, IsFiniteSet(C),
           NEW s \in C, NEW v \in C, Older(s, v)
    PROVE  Recency(s, C) <= Recency(v, C)
<1> DEFINE before(k) == {j \in C : Older(j, k)}
<1>1. before(s) \subseteq before(v)
  BY DEF Ordered
<1>2. /\ IsFiniteSet(before(v)) /\ Cardinality(before(v)) \in Nat
      /\ Cardinality(before(s)) \in Nat /\ Cardinality(C) \in Nat
      /\ Cardinality(before(s)) <= Cardinality(before(v))
  <2>1. before(v) \subseteq C
    OBVIOUS
  <2>2. IsFiniteSet(before(v))
    BY <2>1, FS_Subset
  <2>3. IsFiniteSet(before(s)) /\ Cardinality(before(s)) <= Cardinality(before(v))
    BY <1>1, <2>2, FS_Subset
  <2> QED BY <2>2, <2>3, FS_CardinalityType
<1>3. CASE Cardinality(C) > 1
  <2> DEFINE cs == Cardinality(before(s))
             cv == Cardinality(before(v))
             n  == Cardinality(C) - 1
  <2>1. n \in Nat \ {0} /\ cs \in Nat /\ cv \in Nat /\ cs <= cv
    BY <1>2, <1>3
  <2>2. Recency(s, C) = (Unit * cs) \div n /\ Recency(v, C) = (Unit * cv) \div n
    BY <1>3 DEF Recency
  <2> HIDE DEF cs, cv, n
  <2>3. Unit * cs \in Nat /\ Unit * cv \in Nat /\ Unit * cs <= Unit * cv
    BY <2>1, BoundsAssumption
  <2>4. (Unit * cs) \div n <= (Unit * cv) \div n
    BY <2>1, <2>3, DivMonotone
  <2> QED BY <2>2, <2>4
<1>4. CASE ~(Cardinality(C) > 1)
  BY <1>4, BoundsAssumption DEF Recency
<1> QED BY <1>3, <1>4

\* Relevance is measured against the range of the candidates' levels.
LEMMA RelevanceIs ==
    ASSUME TypeOK, NEW C \in SUBSET Keys, IsFiniteSet(C), NEW c \in C, Scored(c)
    PROVE  \E lo \in Nat, span \in Nat \ {0} : \A k \in C : Scored(k) =>
              /\ ema[k] - lo \in Nat /\ ema[k] - lo <= span
              /\ Relevance(k, C) = (Unit * (ema[k] - lo)) \div span
<1> DEFINE scored == {j \in C : Scored(j)}
           levels == {ema[j] : j \in scored}
           lo == CHOOSE l \in levels : \A m \in levels : l <= m
           hi == CHOOSE h \in levels : \A m \in levels : h >= m
           span == IF hi = lo THEN 1 ELSE hi - lo
<1>1. levels \in SUBSET Nat /\ levels # {}
  <2>1. \A j \in scored : ema[j] \in Levels
    BY DEF TypeOK, Scored
  <2>2. ema[c] \in levels
    OBVIOUS
  <2> QED BY <2>1, <2>2, LevelsAssumption
<1>2. IsFiniteSet(levels)
  <2>1. IsFiniteSet(scored)
    BY FS_Subset
  <2>2. levels = {ema[j] : j \in scored}
    OBVIOUS
  <2> HIDE DEF scored, levels
  <2> DEFINE f == [j \in scored |-> ema[j]]
  <2>3. f \in Surjection(scored, levels)
    BY <2>2 DEF Surjection
  <2> QED BY <2>1, <2>3, FS_Surjection DEF ExistsSurjection
<1>3. lo \in levels /\ \A m \in levels : lo <= m
  <2>1. \E l \in levels : \A m \in levels : l <= m
    BY <1>1, LeastNatural
  <2> QED BY <2>1
<1>4. hi \in levels /\ \A m \in levels : hi >= m
  <2>1. \E h \in levels : \A m \in levels : h >= m
    BY <1>1, <1>2, GreatestNatural
  <2> QED BY <2>1
<1>5. lo \in Nat /\ hi \in Nat /\ span \in Nat \ {0} /\ hi - lo <= span
  <2>1. lo \in Nat /\ hi \in Nat /\ lo <= hi
    BY <1>1, <1>3, <1>4
  <2> HIDE DEF lo, hi
  <2> QED BY <2>1
<1>6. ASSUME NEW k \in C, Scored(k)
      PROVE  /\ ema[k] - lo \in Nat /\ ema[k] - lo <= span
             /\ Relevance(k, C) = (Unit * (ema[k] - lo)) \div span
  <2>1. ema[k] \in levels /\ ema[k] \in Nat
    BY <1>1, <1>6
  <2>2. Relevance(k, C) = (Unit * (ema[k] - lo)) \div span
    BY DEF Relevance
  <2>3. lo <= ema[k] /\ ema[k] <= hi
    BY <1>3, <1>4, <2>1
  <2> HIDE DEF lo, hi, span, levels
  <2> QED BY <1>5, <2>1, <2>2, <2>3
<1> HIDE DEF lo, span
<1> QED BY <1>5, <1>6

\* What relevance and recency say of a candidate.
Claim(k, C) == IF Scored(k) THEN (Relevance(k, C) + Recency(k, C)) \div 2 ELSE Recency(k, C)

LEMMA ClaimBounds ==
    ASSUME TypeOK, Ordered, NEW C \in SUBSET evictable, IsFiniteSet(C), NEW k \in C
    PROVE  Claim(k, C) \in 0 .. Unit
<1>1. Recency(k, C) \in 0 .. Unit /\ Unit \in Nat
  BY RecencyBounds, BoundsAssumption
<1>2. CASE Scored(k)
  <2>1. C \in SUBSET Keys
    BY DEF TypeOK
  <2>2. PICK lo \in Nat, span \in Nat \ {0} :
          /\ ema[k] - lo \in Nat /\ ema[k] - lo <= span
          /\ Relevance(k, C) = (Unit * (ema[k] - lo)) \div span
    BY <1>2, <2>1, RelevanceIs
  <2>3. Relevance(k, C) \in 0 .. Unit
    BY <2>2, ShareBounds
  <2>4. (Relevance(k, C) + Recency(k, C)) \div 2 \in 0 .. Unit
    BY <1>1, <2>3
  <2> QED BY <1>2, <2>4 DEF Claim
<1>3. CASE ~Scored(k)
  BY <1>1, <1>3 DEF Claim
<1> QED BY <1>2, <1>3

LEMMA ClaimOrders ==
    ASSUME TypeOK, Ordered, NEW C \in SUBSET evictable, IsFiniteSet(C),
           NEW s \in C, NEW v \in C, Dominates(v, s)
    PROVE  Claim(s, C) <= Claim(v, C)
<1>1. /\ Recency(s, C) <= Recency(v, C)
      /\ Recency(s, C) \in Nat /\ Recency(v, C) \in Nat
  BY RecencyBounds, RecencyOrders, BoundsAssumption DEF Dominates
<1>2. CASE Scored(s)
  <2>1. Scored(v) /\ ema[v] >= ema[s]
    BY <1>2 DEF Dominates
  <2>2. PICK lo \in Nat, span \in Nat \ {0} : \A k \in C : Scored(k) =>
          /\ ema[k] - lo \in Nat /\ ema[k] - lo <= span
          /\ Relevance(k, C) = (Unit * (ema[k] - lo)) \div span
    <3>1. C \in SUBSET Keys
      BY DEF TypeOK
    <3> QED BY <1>2, <3>1, RelevanceIs
  <2> DEFINE es == ema[s] - lo
             ev == ema[v] - lo
  <2>3. /\ es \in Nat /\ Relevance(s, C) = (Unit * es) \div span
        /\ ev \in Nat /\ Relevance(v, C) = (Unit * ev) \div span
    BY <1>2, <2>1, <2>2
  <2>4. es <= ev
    <3>1. ema[s] \in Nat /\ ema[v] \in Nat
      BY <1>2, <2>1, LevelsAssumption DEF TypeOK, Scored
    <3> QED BY <2>1, <3>1
  <2> HIDE DEF es, ev
  <2>5. Unit * es \in Nat /\ Unit * ev \in Nat /\ Unit * es <= Unit * ev
    BY <2>3, <2>4, BoundsAssumption
  <2>6. Relevance(s, C) <= Relevance(v, C) /\ Relevance(s, C) \in Nat /\ Relevance(v, C) \in Nat
    BY <2>3, <2>5, DivMonotone
  <2>7. (Relevance(s, C) + Recency(s, C)) \div 2 <= (Relevance(v, C) + Recency(v, C)) \div 2
    BY <1>1, <2>6
  <2> QED BY <1>2, <2>1, <2>7 DEF Claim
<1>3. CASE ~Scored(s)
  <2>1. ~Scored(v)
    BY <1>3 DEF Dominates
  <2> QED BY <1>1, <1>3, <2>1 DEF Claim
<1> QED BY <1>2, <1>3

\* The three parts of a bonus.
Grace(k)   == IF graceLeft[k] > 0 THEN 2 * Unit ELSE 0
Linkage(k) == IF config.chainAware /\ HasResidentSuccessor(k) THEN (3 * Unit) \div 2 ELSE 0
Proven(k)  == IF config.sessionAware /\ k \in sessionProven THEN SessionBonus(k) ELSE 0

LEMMA ConfigShape ==
    ASSUME TypeOK
    PROVE  /\ config.halfLife \in Nat /\ config.mode \in {"blend", "unscored_last"}
           /\ config.chainAware \in BOOLEAN /\ config.sessionAware \in BOOLEAN
BY ConfigAssumption DEF TypeOK, Config

LEMMA SessionBonusType ==
    ASSUME TypeOK, NEW k \in Keys
    PROVE  SessionBonus(k) \in Nat
<1>1. staleness[k] \in Nat /\ config.halfLife \in Nat /\ Unit \in Nat
  BY ConfigShape, BoundsAssumption DEF TypeOK
<1>2. CASE config.halfLife = 0
  BY <1>1, <1>2 DEF SessionBonus
<1>3. CASE config.halfLife # 0
  <2> DEFINE a == 5 * Unit * config.halfLife
             d == 2 * (config.halfLife + staleness[k])
  <2>1. a \in Nat /\ d \in Nat \ {0}
    BY <1>1, <1>3
  <2>2. SessionBonus(k) = a \div d
    BY <1>3 DEF SessionBonus
  <2> HIDE DEF a, d
  <2> QED BY <2>1, <2>2
<1> QED BY <1>2, <1>3

\* The session bonus decays.
LEMMA SessionBonusDecays ==
    ASSUME TypeOK, NEW v \in Keys, NEW s \in Keys, staleness[v] <= staleness[s]
    PROVE  SessionBonus(s) <= SessionBonus(v)
<1>1. staleness[s] \in Nat /\ staleness[v] \in Nat /\ config.halfLife \in Nat /\ Unit \in Nat
  BY ConfigShape, BoundsAssumption DEF TypeOK
<1>2. CASE config.halfLife = 0
  BY <1>1, <1>2, SessionBonusType DEF SessionBonus
<1>3. CASE config.halfLife # 0
  <2> DEFINE a == 5 * Unit * config.halfLife
             d(k) == 2 * (config.halfLife + staleness[k])
  <2>1. a \in Nat /\ d(s) \in Nat \ {0} /\ d(v) \in Nat \ {0} /\ d(v) <= d(s)
    BY <1>1, <1>3
  <2>2. SessionBonus(s) = a \div d(s) /\ SessionBonus(v) = a \div d(v)
    BY <1>3 DEF SessionBonus
  <2> HIDE DEF a, d
  <2> QED BY <2>1, <2>2, DivAntitone
<1> QED BY <1>2, <1>3

LEMMA BonusIs ==
    ASSUME TypeOK, NEW k \in Keys
    PROVE  /\ Bonus(k) = Grace(k) + Linkage(k) + Proven(k)
           /\ Grace(k) \in Nat /\ Linkage(k) \in Nat /\ Proven(k) \in Nat
<1>1. Unit \in Nat /\ SessionBonus(k) \in Nat
  BY SessionBonusType, BoundsAssumption
<1>2. Grace(k) \in Nat /\ Linkage(k) \in Nat /\ Proven(k) \in Nat
  BY <1>1 DEF Grace, Linkage, Proven
<1> QED BY <1>2 DEF Bonus, Grace, Linkage, Proven

LEMMA BonusOrders ==
    ASSUME TypeOK, NEW v \in Keys, NEW s \in Keys, Dominates(v, s)
    PROVE  Bonus(s) <= Bonus(v) /\ Bonus(s) \in Nat /\ Bonus(v) \in Nat
<1>1. Grace(s) <= Grace(v)
  BY BoundsAssumption DEF Dominates, Grace
<1>2. Linkage(s) <= Linkage(v)
  BY BoundsAssumption DEF Dominates, Linkage
<1>3. Proven(s) <= Proven(v)
  <2>1. s \in sessionProven => v \in sessionProven /\ SessionBonus(s) <= SessionBonus(v)
    BY SessionBonusDecays DEF Dominates
  <2> QED BY <2>1, SessionBonusType DEF Proven
<1> QED BY <1>1, <1>2, <1>3, BonusIs

LEMMA ScoreIs ==
    ASSUME NEW k, NEW C
    PROVE  KeepScore(k, C) = Bonus(k) + Claim(k, C)
BY DEF KeepScore, Claim

LEMMA DominatedGoesFirst ==
    ASSUME TypeOK, Ordered, NEW C \in SUBSET evictable, IsFiniteSet(C),
           NEW s \in C, NEW v \in C, Dominates(v, s)
    PROVE  ~GoesBefore(v, s, C)
<1>1. Older(s, v) /\ ~Older(v, s)
  BY DEF Dominates, Ordered
<1>2. CASE config.mode = "blend"
  <2>1. /\ Claim(s, C) \in Nat /\ Claim(v, C) \in Nat /\ Claim(s, C) <= Claim(v, C)
        /\ Bonus(s) \in Nat /\ Bonus(v) \in Nat /\ Bonus(s) <= Bonus(v)
    BY ClaimBounds, ClaimOrders, BonusOrders, BoundsAssumption DEF TypeOK
  <2>2. ~(KeepScore(v, C) < KeepScore(s, C))
    BY <2>1, ScoreIs
  <2> QED BY <1>1, <1>2, <2>2 DEF GoesBefore
<1>3. CASE config.mode # "blend"
  <2>1. Scored(s) => Scored(v) /\ ema[s] \in Nat /\ ema[v] \in Nat /\ ema[v] >= ema[s]
    BY LevelsAssumption DEF Dominates, TypeOK, Scored
  <2>2. ~Scored(s) => ~Scored(v)
    BY DEF Dominates
  <2> QED BY <1>1, <1>3, <2>1, <2>2 DEF GoesBefore
<1> QED BY <1>2, <1>3

\* A bonus is worth more than what relevance and recency can add up to.
LEMMA BonusedGoesLast ==
    ASSUME TypeOK, Ordered, NEW C \in SUBSET evictable, IsFiniteSet(C),
           NEW s \in C, NEW v \in C, config.mode = "blend", config.halfLife = 0,
           Bonused(v), ~Bonused(s)
    PROVE  ~GoesBefore(v, s, C)
<1>1. Unit \in Nat /\ (3 * Unit) \div 2 > Unit /\ (5 * Unit) \div 2 > Unit /\ 2 * Unit > Unit
  BY BoundsAssumption
<1>2. s \in Keys /\ v \in Keys
  BY DEF TypeOK
<1>3. Bonus(v) > Unit /\ Bonus(v) \in Nat
  <2>1. Bonus(v) = Grace(v) + Linkage(v) + Proven(v)
    BY <1>2, BonusIs
  <2>2. Grace(v) \in Nat /\ Linkage(v) \in Nat /\ Proven(v) \in Nat
    BY <1>2, BonusIs
  <2>3. Grace(v) > Unit \/ Linkage(v) > Unit \/ Proven(v) > Unit
    BY <1>1 DEF Bonused, Grace, Linkage, Proven, SessionBonus
  <2> QED BY <1>1, <2>1, <2>2, <2>3
<1>4. Bonus(s) = 0
  <2>1. Grace(s) = 0 /\ Linkage(s) = 0 /\ Proven(s) = 0
    <3>1. graceLeft[s] \in Nat
      BY <1>2 DEF TypeOK
    <3> QED BY <3>1 DEF Bonused, Grace, Linkage, Proven
  <2> QED BY <1>2, <2>1, BonusIs
<1>5. Claim(s, C) \in Nat /\ Claim(s, C) <= Unit /\ Claim(v, C) \in Nat
  BY <1>1, ClaimBounds
<1>6. KeepScore(s, C) < KeepScore(v, C) /\ KeepScore(s, C) \in Nat /\ KeepScore(v, C) \in Nat
  BY <1>1, <1>3, <1>4, <1>5, ScoreIs
<1> QED BY <1>6 DEF GoesBefore

LEMMA ScoredGoesLast ==
    ASSUME NEW C, NEW s, NEW v, config.mode = "unscored_last", Scored(v), ~Scored(s)
    PROVE  ~GoesBefore(v, s, C)
BY DEF GoesBefore

LEMMA VictimsGoFirst ==
    ASSUME NEW C, NEW n, NEW victims \in Evictions(n, C), NEW v \in victims, NEW s \in C \ victims
    PROVE  v \in C /\ s \in C /\ GoesBefore(v, s, C)
BY DEF Evictions

\* No key is evicted to spare one with a weaker claim on every count the
\* policy looks at (policy.py:334-356, 371-375).
THEOREM EvictionsCorrect == Spec => []EvictsDominated
<1>1. TypeOK /\ Ordered => EvictsDominated
  <2> SUFFICES ASSUME TypeOK, Ordered,
                      NEW candidates \in CandidateSets,
                      NEW n \in 1 .. Cardinality(candidates),
                      NEW victims \in Evictions(n, candidates),
                      NEW v \in victims, NEW s \in candidates \ victims
               PROVE  ~Dominates(v, s)
    BY DEF EvictsDominated, ForEviction
  <2> QED BY CandidatesIdle, VictimsGoFirst, DominatedGoesFirst
<1>2. TierInv => TypeOK /\ Ordered
  BY DEF TierInv, EvictableAreIdle, Ordered
<1> QED BY <1>1, <1>2, TierCorrect, PTL

\* A key with a bonus outlasts every key without one (policy.py:291-308), and
\* with unscored_last a scored key every unscored one (policy.py:365-370).
THEOREM ProtectionCorrect == Spec => []ProtectedOutlast
<1>1. TypeOK /\ Ordered => ProtectedOutlast
  <2> SUFFICES ASSUME TypeOK, Ordered PROVE ProtectedOutlast
    OBVIOUS
  <2>1. ASSUME NEW candidates \in CandidateSets,
               NEW n \in 1 .. Cardinality(candidates),
               NEW victims \in Evictions(n, candidates),
               NEW v \in victims, NEW s \in candidates \ victims
        PROVE  /\ config.mode = "blend" /\ config.halfLife = 0 => (Bonused(v) => Bonused(s))
               /\ config.mode = "unscored_last" => (Scored(v) => Scored(s))
    BY <2>1, CandidatesIdle, VictimsGoFirst, BonusedGoesLast, ScoredGoesLast
  <2> QED BY <2>1 DEF ProtectedOutlast, ForEviction
<1>2. TierInv => TypeOK /\ Ordered
  BY DEF TierInv, EvictableAreIdle, Ordered
<1> QED BY <1>1, <1>2, TierCorrect, PTL

=================================================================================
