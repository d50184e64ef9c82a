------------------------------- MODULE OffloadTier -------------------------------
(***************************************************************************)
(* What the CPU tier promises the scheduler and the workers, whatever its  *)
(* eviction policy: a key is evicted only while nothing transfers it and   *)
(* only to make room that is needed; every eviction is announced; and      *)
(* relevance is known of resident keys only.                               *)
(* CpuTier implements this specification; SummarySync runs the workers     *)
(* against it.                                                             *)
(***************************************************************************)
EXTENDS Integers, FiniteSets

CONSTANTS
    Keys,           \* OffloadKeys
    Capacity,       \* num_blocks: CPU blocks of the tier
    Levels,         \* relevance levels
    MaxLoads,       \* bound: loads of one key at a time
    StoresMayFail,  \* whether complete_store(success=False) is ever called
    None

ASSUME CapacityAssumption == Capacity \in Nat
ASSUME LoadsAssumption == MaxLoads \in Nat
ASSUME TierNoneAssumption == None \notin Levels /\ None \notin Int
ASSUME FailAssumption == StoresMayFail \in BOOLEAN

VARIABLES
    ref,            \* per key: ref_cnt of its block (-1: storing), None: absent
    ema,            \* relevance_ema of the configured method
    pendingEvicted  \* _pending_evicted_keys, as a set: the order is not used

tierVars == <<ref, ema, pendingEvicted>>

References == {None} \cup (-1 .. MaxLoads)
Resident   == {k \in Keys : ref[k] # None}
Storing    == {k \in Keys : ref[k] = -1}
Idle       == {k \in Keys : ref[k] = 0}
Room       == Capacity - Cardinality(Resident)

TierInit ==
    /\ ref = [k \in Keys |-> None]
    /\ ema = [k \in Keys |-> None]
    /\ pendingEvicted = {}

\* Make room for `new` by evicting `victims`.
StoreEvicting(new, victims) ==
    /\ new # {} /\ new \cap Resident = {}
    /\ victims \subseteq Idle
    /\ Cardinality(victims) =
         IF Cardinality(new) > Room THEN Cardinality(new) - Room ELSE 0
    /\ ref' = [k \in Keys |->
                 IF k \in new THEN -1 ELSE IF k \in victims THEN None ELSE ref[k]]
    /\ ema' = [k \in Keys |-> IF k \in victims THEN None ELSE ema[k]]
    /\ pendingEvicted' = pendingEvicted \cup victims

StoreCompleted(stored) ==
    /\ stored # {} /\ stored \subseteq Storing
    /\ ref' = [k \in Keys |-> IF k \in stored THEN 0 ELSE ref[k]]
    /\ UNCHANGED <<ema, pendingEvicted>>

\* The keys of a failed store leave without an announcement.
StoreFailed(stored) ==
    /\ StoresMayFail
    /\ stored # {} /\ stored \subseteq Storing
    /\ ref' = [k \in Keys |-> IF k \in stored THEN None ELSE ref[k]]
    /\ ema' = [k \in Keys |-> IF k \in stored THEN None ELSE ema[k]]
    /\ UNCHANGED pendingEvicted

LoadBegun(loaded) ==
    /\ loaded # {}
    /\ \A k \in loaded : ref[k] \in 0 .. MaxLoads - 1
    /\ ref' = [k \in Keys |-> IF k \in loaded THEN ref[k] + 1 ELSE ref[k]]
    /\ UNCHANGED <<ema, pendingEvicted>>

LoadCompleted(loaded) ==
    /\ loaded # {}
    /\ \A k \in loaded : ref[k] \in 1 .. MaxLoads
    /\ ref' = [k \in Keys |-> IF k \in loaded THEN ref[k] - 1 ELSE ref[k]]
    /\ UNCHANGED <<ema, pendingEvicted>>

\* Scores move the relevance of resident keys; absent keys stay unknown.
RelevanceMoved(relevance) ==
    /\ ema' = relevance
    /\ \A k \in Keys : relevance[k] # ema[k] => k \in Resident /\ relevance[k] \in Levels
    /\ UNCHANGED <<ref, pendingEvicted>>

EvictionsDrained ==
    /\ pendingEvicted' = {}
    /\ UNCHANGED <<ref, ema>>

TierReset ==
    /\ ref' = [k \in Keys |-> None]
    /\ ema' = [k \in Keys |-> None]
    /\ pendingEvicted' = {}

\* Which keys a step is about can be read off the step.
TierNext ==
    LET entered == {k \in Keys : ref[k] = None /\ ref'[k] # None}
        left    == {k \in Keys : ref[k] # None /\ ref'[k] = None}
        changed == {k \in Resident \ left : ref'[k] # ref[k]}
    IN  \/ RelevanceMoved(ema')
        \/ EvictionsDrained
        \/ StoreEvicting(entered, left)
        \/ StoreCompleted(changed) \/ StoreFailed(left)
        \/ LoadBegun(changed) \/ LoadCompleted(changed)
        \/ TierReset

TierSpec == TierInit /\ [][TierNext]_tierVars
=================================================================================
