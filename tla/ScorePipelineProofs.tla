--------------------------- MODULE ScorePipelineProofs ---------------------------
(***************************************************************************)
(* Proofs about ScorePipeline, for any deployment, batch and scores: the    *)
(* workers of a group can always be aggregated, in any order, to what the   *)
(* whole group says; and composing what the requests say of a key changes   *)
(* its relevance as observing them one by one does.                         *)
(***************************************************************************)
EXTENDS ScorePipeline, FiniteSetTheorems, WellFoundedInduction, TLAPS

---------------------------------------------------------------------------
(* Folds over a finite set.                                                *)

\* A set of numbers that is not empty has a least.
LEMMA LeastNumber ==
    ASSUME NEW P \in SUBSET Nat, P # {}
    PROVE  \E n \in P : \A i \in P : n <= i
<1> DEFINE R == OpToRel(<, Nat)
<1>1. IsWellFoundedOn(R, Nat)
  BY NatLessThanWellFounded
<1>2. \A x, y \in Nat : x < y => <<x, y>> \in R
  BY DEF OpToRel
<1> HIDE DEF R
<1>3. PICK n \in P : \A i \in P : ~(<<i, n>> \in R)
  BY <1>1, WFMin
<1>4. \A i \in P : n \in Nat /\ i \in Nat /\ ~(i < n)
  BY <1>2, <1>3
<1> QED BY <1>4

\* Of some subsets of a finite set, one has none of the others within it.
LEMMA SmallestSubset ==
    ASSUME NEW S, IsFiniteSet(S), NEW Some \in SUBSET (SUBSET S), Some # {}
    PROVE  \E s \in Some : \A t \in SUBSET s : t # s => t \notin Some
<1> DEFINE sizes == {Cardinality(s) : s \in Some}
<1>1. \A s \in SUBSET S : IsFiniteSet(s) /\ Cardinality(s) \in Nat
  BY FS_Subset, FS_CardinalityType
<1>2. sizes \in SUBSET Nat /\ sizes # {}
  BY <1>1
<1>3. PICK n \in sizes : \A i \in sizes : n <= i
  <2> HIDE DEF sizes
  <2> QED BY <1>2, LeastNumber
<1>4. PICK s \in Some : Cardinality(s) = n
  OBVIOUS
<1>5. ASSUME NEW t \in SUBSET s, t # s PROVE t \notin Some
  <2>1. IsFiniteSet(s) /\ s \in SUBSET S
    BY <1>1
  <2>2. Cardinality(t) <= Cardinality(s) /\ Cardinality(t) # Cardinality(s)
    BY <1>5, <2>1, FS_Subset
  <2>3. t \in Some => n <= Cardinality(t)
    BY <1>3
  <2>4. Cardinality(t) \in Nat /\ Cardinality(s) \in Nat
    BY <1>1, <2>1
  <2> QED BY <1>4, <2>2, <2>3, <2>4
<1> QED BY <1>5

\* last names an element of every subset of S that is not empty.
Chooses(last, S) == \A s \in SUBSET S : s # {} => last[s] \in s

\* P is reached from the empty set by adding the element that last names.
Reaches(P, last, S) ==
    /\ {} \in P
    /\ \A s \in SUBSET S : s # {} /\ s \ {last[s]} \in P => s \in P

\* Induction on a set that is emptied one chosen element at a time.
LEMMA ByLast ==
    ASSUME NEW S, IsFiniteSet(S), NEW last, Chooses(last, S), NEW P, Reaches(P, last, S)
    PROVE  \A s \in SUBSET S : s \in P
<1> DEFINE Bad == {s \in SUBSET S : s \notin P}
<1> SUFFICES ASSUME Bad # {} PROVE FALSE
  OBVIOUS
<1>1. Bad \in SUBSET (SUBSET S)
  OBVIOUS
<1>2. PICK s \in Bad : \A t \in SUBSET s : t # s => t \notin Bad
  <2> HIDE DEF Bad
  <2> QED BY <1>1, SmallestSubset
<1>3. s \in SUBSET S /\ s \notin P /\ s # {}
  BY DEF Reaches
<1>4. s \ {last[s]} \in SUBSET s /\ s \ {last[s]} # s
  BY <1>3 DEF Chooses
<1>5. s \ {last[s]} \notin Bad /\ s \ {last[s]} \in SUBSET S
  BY <1>2, <1>3, <1>4
<1> QED BY <1>3, <1>5 DEF Reaches

\* f and g agree on the empty set, and on a set if they do on it without its last.
Alike(f, g, last, S) ==
    /\ f[{}] = g[{}]
    /\ \A s \in SUBSET S : s # {} /\ f[s \ {last[s]}] = g[s \ {last[s]}] => f[s] = g[s]

LEMMA AlikeEqual ==
    ASSUME NEW S, IsFiniteSet(S), NEW last, Chooses(last, S), NEW f, NEW g, Alike(f, g, last, S)
    PROVE  \A s \in SUBSET S : f[s] = g[s]
<1> DEFINE P == {s \in SUBSET S : f[s] = g[s]}
<1>1. {} \in P
  BY DEF Alike
<1>2. ASSUME NEW s \in SUBSET S, s # {}, s \ {last[s]} \in P PROVE s \in P
  BY <1>2 DEF Alike
<1> HIDE DEF P
<1>3. Reaches(P, last, S)
  BY <1>1, <1>2 DEF Reaches
<1>4. \A s \in SUBSET S : s \in P
  BY <1>3, ByLast
<1> QED BY <1>4 DEF P

\* f is the fold of step over the subsets of T, starting from base.
FoldsOn(f, T, base, last, step) ==
    \A s \in SUBSET T :
        f[s] = IF s = {} THEN base ELSE step[<<last[s], f[s \ {last[s]}]>>]

LEMMA FoldUnique ==
    ASSUME NEW S, IsFiniteSet(S), NEW base, NEW last, Chooses(last, S),
           NEW step, NEW A \in SUBSET S, NEW B \in SUBSET S,
           NEW f, FoldsOn(f, A, base, last, step), NEW g, FoldsOn(g, B, base, last, step)
    PROVE  \A s \in SUBSET (A \cap B) : f[s] = g[s]
<1> DEFINE T == A \cap B
<1>1. IsFiniteSet(T) /\ T \in SUBSET S
  BY FS_Subset
<1>2. Chooses(last, T)
  BY DEF Chooses
<1>3. Alike(f, g, last, T)
  BY DEF Alike, FoldsOn
<1> HIDE DEF T
<1>4. \A s \in SUBSET T : f[s] = g[s]
  BY <1>1, <1>2, <1>3, AlikeEqual
<1> QED BY <1>4 DEF T

\* Such a fold exists.
LEMMA FoldExists ==
    ASSUME NEW S, IsFiniteSet(S), NEW Value, NEW base \in Value,
           NEW last, Chooses(last, S),
           NEW step, \A x \in S, v \in Value : step[<<x, v>>] \in Value
    PROVE  \E f \in [SUBSET S -> Value] : FoldsOn(f, S, base, last, step)
<1> DEFINE Fold(T) == {f \in [SUBSET T -> Value] : FoldsOn(f, T, base, last, step)}
           Bad == {T \in SUBSET S : Fold(T) = {}}
<1> SUFFICES ASSUME Bad # {} PROVE FALSE
  OBVIOUS
<1>1. Bad \in SUBSET (SUBSET S)
  OBVIOUS
<1>2. PICK T \in Bad : \A t \in SUBSET T : t # T => t \notin Bad
  <2> HIDE DEF Bad
  <2> QED BY <1>1, SmallestSubset
<1>3. T \in SUBSET S /\ Fold(T) = {}
  OBVIOUS
<1> DEFINE of == [s \in SUBSET T |-> CHOOSE f \in Fold(s) : TRUE]
<1>4. ASSUME NEW s \in SUBSET T, s # T
      PROVE  of[s] \in [SUBSET s -> Value] /\ FoldsOn(of[s], s, base, last, step)
  <2>1. Fold(s) # {}
    BY <1>2, <1>4
  <2>2. of[s] \in Fold(s)
    BY <2>1
  <2> QED BY <2>2
<1> DEFINE h == [s \in SUBSET T |->
                   IF s = {} THEN base
                   ELSE step[<<last[s], of[s \ {last[s]}][s \ {last[s]}]>>]]
<1>5. ASSUME NEW s \in SUBSET T, s # T PROVE h[s] = of[s][s]
  <2> s \in SUBSET s
    OBVIOUS
  <2>1. FoldsOn(of[s], s, base, last, step)
    BY <1>4, <1>5
  <2>2. of[s][s] = IF s = {} THEN base ELSE step[<<last[s], of[s][s \ {last[s]}]>>]
    <3> HIDE DEF of
    <3> QED BY <2>1 DEF FoldsOn
  <2>3. CASE s = {}
    <3> HIDE DEF of
    <3> QED BY <2>2, <2>3
  <2>4. CASE s # {}
    <3> DEFINE t == s \ {last[s]}
    <3> HIDE DEF of
    <3>1. t \in SUBSET T /\ t # T /\ t \in SUBSET s
      BY <1>3, <2>4 DEF Chooses
    <3>2. of[s][s] = step[<<last[s], of[s][t]>>]
      BY <2>2, <2>4
    <3>3. h[s] = step[<<last[s], of[t][t]>>]
      BY <2>4
    <3> HIDE DEF t, h
    <3>4. of[s][t] = of[t][t]
      <4>1. s \in SUBSET S /\ t \in SUBSET S /\ t \in SUBSET (s \cap t)
        BY <1>3, <3>1
      <4>2. FoldsOn(of[s], s, base, last, step) /\ FoldsOn(of[t], t, base, last, step)
        BY <1>4, <2>1, <3>1
      <4> DEFINE f == of[s]
                 g == of[t]
      <4>3. FoldsOn(f, s, base, last, step) /\ FoldsOn(g, t, base, last, step)
        BY <4>2
      <4> HIDE DEF f, g, Fold, Bad, h
      <4>4. \A u \in SUBSET (s \cap t) : f[u] = g[u]
        BY <4>1, <4>3, FoldUnique
      <4> QED BY <4>1, <4>4 DEF f, g
    <3> QED BY <3>2, <3>3, <3>4
  <2> QED BY <2>3, <2>4
<1>6. ASSUME NEW s \in SUBSET T
      PROVE  h[s] = IF s = {} THEN base ELSE step[<<last[s], h[s \ {last[s]}]>>]
  <2>1. CASE s # {}
    <3> DEFINE t == s \ {last[s]}
    <3> HIDE DEF of
    <3>1. t \in SUBSET T /\ t # T
      BY <1>3, <2>1 DEF Chooses
    <3>2. h[s] = step[<<last[s], of[t][t]>>]
      BY <2>1
    <3> HIDE DEF t, h
    <3>3. h[t] = of[t][t]
      BY <1>5, <3>1
    <3> QED BY <2>1, <3>2, <3>3 DEF t
  <2>2. CASE s = {}
    BY <2>2
  <2> QED BY <2>1, <2>2
<1>7. ASSUME NEW s \in SUBSET T PROVE h[s] \in Value
  <2>1. CASE s # {}
    <3> DEFINE t == s \ {last[s]}
    <3> HIDE DEF of
    <3>1. t \in SUBSET T /\ t # T /\ last[s] \in S /\ t \in SUBSET t
      BY <1>3, <2>1 DEF Chooses
    <3>2. h[s] = step[<<last[s], of[t][t]>>]
      BY <2>1
    <3> HIDE DEF t, h
    <3>3. of[t] \in [SUBSET t -> Value]
      BY <1>4, <3>1
    <3>4. of[t][t] \in Value
      BY <3>1, <3>3
    <3> QED BY <3>1, <3>2, <3>4
  <2>2. CASE s = {}
    BY <2>2
  <2> QED BY <2>1, <2>2
<1>8. h \in [SUBSET T -> Value]
  <2>1. h = [s \in SUBSET T |-> h[s]]
    OBVIOUS
  <2> HIDE DEF h
  <2> QED BY <1>7, <2>1
<1>9. h \in Fold(T)
  <2> HIDE DEF h
  <2> QED BY <1>6, <1>8 DEF FoldsOn
<1> QED BY <1>3, <1>9

---------------------------------------------------------------------------
(* Composing what the requests say, and observing it one by one.           *)

\* Ranked lists, the lists of a batch, and what one list says of a key.
Lists  == UNION {[S -> Int] : S \in SUBSET Keys}
Boards == [Requests -> Lists \cup {None}]
Observations == [score : Int, weight : Int, whole : Int]

\* A finite set of numbers that is not empty has a largest.
LEMMA LargestIn ==
    ASSUME NEW S \in SUBSET Int, IsFiniteSet(S), S # {}
    PROVE  Largest(S) \in S /\ \A y \in S : Largest(S) >= y
<1> DEFINE From(x) == {y \in S : y >= x}
           Some == {From(x) : x \in S}
<1>1. Some \in SUBSET (SUBSET S) /\ Some # {}
  OBVIOUS
<1>2. PICK t \in Some : \A u \in SUBSET t : u # t => u \notin Some
  <2> HIDE DEF Some
  <2> QED BY <1>1, SmallestSubset
<1>3. PICK x \in S : t = From(x)
  OBVIOUS
<1>4. ASSUME NEW y \in S PROVE x >= y
  <2> SUFFICES ASSUME ~(x >= y) PROVE FALSE
    OBVIOUS
  <2>1. x \in Int /\ y \in Int /\ y > x
    OBVIOUS
  <2>2. x \in t /\ x \notin From(y)
    BY <1>3, <2>1
  <2>3. From(y) \in SUBSET t
    <3>1. ASSUME NEW z \in From(y) PROVE z \in S /\ z >= x
      <4>1. z \in Int /\ z >= y
        OBVIOUS
      <4> QED BY <2>1, <4>1
    <3> QED BY <1>3, <3>1
  <2>4. From(y) \in Some
    OBVIOUS
  <2> QED BY <1>2, <2>2, <2>3, <2>4
<1> QED BY <1>4 DEF Largest

\* The number of members of a finite set.
LEMMA Counted ==
    ASSUME NEW S, IsFiniteSet(S)
    PROVE  \A s \in SUBSET S : IsFiniteSet(s) /\ Cardinality(s) \in Nat
BY FS_Subset, FS_CardinalityType

LEMMA ObservationTyped ==
    ASSUME NEW list \in Lists, NEW k \in DOMAIN list
    PROVE  Observation(list, k) \in Observations
<1>1. PICK S \in SUBSET Keys : list \in [S -> Int]
  BY DEF Lists
<1>2. DOMAIN list = S /\ IsFiniteSet(S) /\ list[k] \in Int
  BY <1>1, FS_Subset, KeysAssumption
<1>3. Cardinality(S) \in Nat /\ Rank(list, k) \in Nat
  BY <1>2, Counted DEF Rank
<1>4. Grain(Cardinality(S)) \in Int
  BY <1>3 DEF Grain
<1> DEFINE grain == Grain(Cardinality(S))
           rank == Rank(list, k)
<1>5. Observation(list, k) = [score |-> list[k], weight |-> 3 * (grain - rank), whole |-> 10 * grain]
  BY <1>2 DEF Observation
<1>6. grain \in Int /\ rank \in Int
  BY <1>3, <1>4
<1> HIDE DEF grain, rank
<1> QED BY <1>2, <1>5, <1>6 DEF Observations

LEMMA ObserveTyped ==
    ASSUME NEW average \in Averages \cup {None}, NEW o \in Observations
    PROVE  Observe(average, o) \in Averages
BY NoneAssumption DEF Observe, Averages, Observations

LEMMA ComposeTyped ==
    ASSUME NEW update \in Updates \cup {None}, NEW o \in Observations
    PROVE  Compose(update, o) \in Updates
<1>1. Observe(None, o) \in Averages
  BY ObserveTyped
<1>2. CASE update = None
  BY <1>1, <1>2 DEF Compose, Updates, Observations
<1>3. CASE update # None
  <2>1. Observe(update.unseen, o) \in Averages
    BY <1>3, ObserveTyped DEF Updates
  <2> QED BY <1>3, <2>1 DEF Compose, Updates, Observations
<1> QED BY <1>2, <1>3

\* The two products of a composed update and of an observed average agree.
LEMMA Distributes ==
    ASSUME NEW keep \in Int, NEW gain \in Int, NEW decay \in Int, NEW offset \in Int,
           NEW whole \in Int, NEW num \in Int, NEW den \in Int
    PROVE  (keep * decay) * num + (keep * offset + gain * whole) * den
             = keep * (decay * num + offset * den) + gain * (whole * den)
OBVIOUS

\* Composing one more observation into an update is observing it after.
LEMMA ApplyCompose ==
    ASSUME NEW update \in Updates \cup {None}, NEW average \in Averages \cup {None},
           NEW o \in Observations
    PROVE  Apply(Compose(update, o), average) = Observe(Apply(update, average), o)
<1>1. Compose(update, o) # None
  BY ComposeTyped, NoneAssumption
<1>2. CASE update = None
  BY <1>1, <1>2 DEF Apply, Compose, Observe
<1>3. CASE update # None /\ average = None
  <2>1. update.unseen # None
    BY <1>3, NoneAssumption DEF Updates
  <2> QED BY <1>1, <1>3, <2>1 DEF Apply, Compose, Observe
<1>4. CASE update # None /\ average # None
  <2>1. Apply(update, average) = [num |-> update.decay * average.num + update.offset * average.den,
                                  den |-> update.whole * average.den]
    BY <1>4 DEF Apply
  <2>2. Apply(update, average) \in Averages
    BY <1>4, <2>1 DEF Averages, Updates
  <2>3. Apply(update, average) # None
    BY <2>2, NoneAssumption
  <2> DEFINE keep == o.whole - o.weight
             gain == o.weight * o.score
  <2>4. keep \in Int /\ gain \in Int /\ o.whole \in Int
    BY DEF Observations
  <2>5. update.decay \in Int /\ update.offset \in Int /\ update.whole \in Int
        /\ average.num \in Int /\ average.den \in Int
    BY <1>4 DEF Updates, Averages
  <2>6. Apply(Compose(update, o), average) =
          [num |-> (keep * update.decay) * average.num
                      + (keep * update.offset + gain * update.whole) * average.den,
           den |-> (o.whole * update.whole) * average.den]
    BY <1>1, <1>4 DEF Apply, Compose
  <2>7. Observe(Apply(update, average), o) =
          [num |-> keep * (update.decay * average.num + update.offset * average.den)
                      + gain * (update.whole * average.den),
           den |-> o.whole * (update.whole * average.den)]
    BY <2>1, <2>3 DEF Observe
  <2> HIDE DEF keep, gain
  <2>8. (o.whole * update.whole) * average.den = o.whole * (update.whole * average.den)
    BY <2>4, <2>5
  <2> QED BY <2>4, <2>5, <2>6, <2>7, <2>8, Distributes
<1> QED BY <1>2, <1>3, <1>4

LEMMA MentionsIn ==
    ASSUME NEW scores \in Boards, NEW k
    PROVE  LET M == Mentions(scores, k)
           IN  IsFiniteSet(M) /\ M \in SUBSET Requests /\ M \in SUBSET Int
<1>1. DOMAIN scores = Requests
  BY DEF Boards
<1>2. Mentions(scores, k) \in SUBSET Requests
  BY <1>1 DEF Mentions, Scored
<1>3. \A r \in Requests : r \in Int
  BY RequestsAssumption
<1> QED BY <1>2, <1>3, RequestsAssumption, FS_Subset

\* The order in which a fold takes numbers, and the step of the fold of Composed.
Lasts(S) == [s \in SUBSET S |-> Largest(s)]
Composes(scores, k) ==
    [p \in Mentions(scores, k) \X (Updates \cup {None}) |-> Compose(p[2], Observation(scores[p[1]], k))]

\* The updates composed over the requests that mention k, one request at a
\* time: the value of Composed at k.
LEMMA ComposedFolds ==
    ASSUME NEW scores \in Boards, NEW k \in Keys
    PROVE  \E f \in [SUBSET Mentions(scores, k) -> Updates \cup {None}] :
               /\ FoldsOn(f, Mentions(scores, k), None,
                          Lasts(Mentions(scores, k)), Composes(scores, k))
               /\ Composed(scores)[k] = f[Mentions(scores, k)]
<1> DEFINE M == Mentions(scores, k)
<1>1. IsFiniteSet(M) /\ M \in SUBSET Requests /\ M \in SUBSET Int
  BY MentionsIn
<1> DEFINE last == Lasts(M)
           step == Composes(scores, k)
<1>2. \A s \in SUBSET M : s # {} => Largest(s) \in s
  BY <1>1, LargestIn, FS_Subset
<1>3. Chooses(last, M)
  BY <1>2 DEF Chooses, Lasts
<1>4. ASSUME NEW r \in M PROVE Observation(scores[r], k) \in Observations
  BY ObservationTyped DEF Mentions, Scored, Boards
<1>5. ASSUME NEW r \in M, NEW v \in Updates \cup {None}
      PROVE  step[<<r, v>>] = Compose(v, Observation(scores[r], k)) /\ step[<<r, v>>] \in Updates
  BY <1>4, ComposeTyped DEF Composes
<1>a. \A s \in SUBSET M : last[s] = Largest(s)
  BY DEF Lasts
<1>b. Composed(scores)[k] = (CHOOSE f :
           f = [s \in SUBSET M |->
                   IF s = {} THEN None
                   ELSE Compose(f[s \ {Largest(s)}], Observation(scores[Largest(s)], k))])[M]
  BY DEF Composed, MapThenFoldSet
<1> HIDE DEF M, last, step
<1> DEFINE Folded(f) == f = [s \in SUBSET M |->
                                IF s = {} THEN None
                                ELSE Compose(f[s \ {Largest(s)}], Observation(scores[Largest(s)], k))]
<1>6. ASSUME NEW f, f \in [SUBSET M -> Updates \cup {None}], FoldsOn(f, M, None, last, step)
      PROVE  Folded(f)
  <2>1. ASSUME NEW s \in SUBSET M, s # {}
        PROVE  f[s] = Compose(f[s \ {Largest(s)}], Observation(scores[Largest(s)], k))
    <3>1. Largest(s) \in M /\ s \ {Largest(s)} \in SUBSET M /\ last[s] = Largest(s)
      BY <1>a, <1>2, <2>1
    <3>2. f[s \ {Largest(s)}] \in Updates \cup {None}
      BY <1>6, <3>1
    <3>3. f[s] = step[<<Largest(s), f[s \ {Largest(s)}]>>]
      BY <1>6, <2>1, <3>1 DEF FoldsOn
    <3> QED BY <1>5, <3>1, <3>2, <3>3
  <2>2. f[{}] = None
    BY <1>6 DEF FoldsOn
  <2> QED BY <1>6, <2>1, <2>2
<1>7. PICK f \in [SUBSET M -> Updates \cup {None}] : FoldsOn(f, M, None, last, step)
  <2>1. None \in Updates \cup {None} /\ \A x \in M, v \in Updates \cup {None} : step[<<x, v>>] \in Updates \cup {None}
    BY <1>5
  <2> QED BY <1>1, <1>3, <2>1, FoldExists
<1> DEFINE F == CHOOSE g : Folded(g)
<1>8. Folded(F)
  BY <1>6, <1>7
<1>9. Composed(scores)[k] = F[M]
  BY <1>b
<1>10. Folded(f)
  BY <1>6, <1>7
<1>11. Alike(F, f, last, M)
  <2> HIDE DEF F
  <2>1. F[{}] = None /\ f[{}] = None
    BY <1>8, <1>10
  <2>2. ASSUME NEW s \in SUBSET M, s # {}, F[s \ {last[s]}] = f[s \ {last[s]}] PROVE F[s] = f[s]
    <3>1. last[s] = Largest(s) /\ F[s \ {Largest(s)}] = f[s \ {Largest(s)}]
      BY <1>a, <2>2
    <3>2. /\ F[s] = Compose(F[s \ {Largest(s)}], Observation(scores[Largest(s)], k))
          /\ f[s] = Compose(f[s \ {Largest(s)}], Observation(scores[Largest(s)], k))
      BY <1>8, <1>10, <2>2
    <3> QED BY <3>1, <3>2
  <2> HIDE DEF Folded
  <2> QED BY <2>1, <2>2 DEF Alike
<1>12. F[M] = f[M]
  <2> HIDE DEF F, Folded
  <2> QED BY <1>1, <1>3, <1>11, AlikeEqual
<1> QED BY <1>7, <1>9, <1>12 DEF M, last, step

\* Applying what was composed over the requests is observing them one by one.
LEMMA ComposedAsObserved ==
    ASSUME NEW scores \in Boards, NEW averages \in [Keys -> Averages \cup {None}], NEW k \in Keys
    PROVE  Apply(Composed(scores)[k], averages[k]) = OneByOne(scores, averages)[k]
<1> DEFINE M == Mentions(scores, k)
<1>2. IsFiniteSet(M) /\ M \in SUBSET Requests /\ M \in SUBSET Int
  BY MentionsIn
<1> DEFINE last == Lasts(M)
           step == Composes(scores, k)
           start == averages[k]
<1>1. PICK u \in [SUBSET M -> Updates \cup {None}] :
          FoldsOn(u, M, None, last, step) /\ Composed(scores)[k] = u[M]
  BY ComposedFolds
<1>a. \A s \in SUBSET M : last[s] = Largest(s)
  BY DEF Lasts
<1>b. \A r \in M, v \in Updates \cup {None} :
          step[<<r, v>>] = Compose(v, Observation(scores[r], k))
  BY DEF Composes
<1>3. \A s \in SUBSET M : s # {} => Largest(s) \in s
  BY <1>2, LargestIn, FS_Subset
<1>4. ASSUME NEW r \in M PROVE Observation(scores[r], k) \in Observations
  BY ObservationTyped DEF Mentions, Scored, Boards
<1>5. start \in Averages \cup {None}
  OBVIOUS
<1> HIDE DEF M, last, step, start
<1> DEFINE Folded(f) == f = [s \in SUBSET M |->
                                IF s = {} THEN start
                                ELSE Observe(f[s \ {Largest(s)}], Observation(scores[Largest(s)], k))]
           a == [s \in SUBSET M |-> Apply(u[s], start)]
           F == CHOOSE g : Folded(g)
<1>6. u[{}] = None
  BY <1>1 DEF FoldsOn
<1>7. ASSUME NEW s \in SUBSET M, s # {}
      PROVE  /\ s \ {Largest(s)} \in SUBSET M
             /\ a[s] = Observe(a[s \ {Largest(s)}], Observation(scores[Largest(s)], k))
  <2> DEFINE x == Largest(s)
             o == Observation(scores[x], k)
             t == s \ {x}
  <2>1. x \in M /\ t \in SUBSET M /\ last[s] = x
    BY <1>a, <1>3, <1>7
  <2>2. u[s] = step[<<last[s], u[s \ {last[s]}]>>]
    BY <1>1, <1>7 DEF FoldsOn
  <2>3. u[t] \in Updates \cup {None} /\ o \in Observations
    BY <1>1, <1>4, <2>1
  <2>4. u[s] = Compose(u[t], o)
    BY <1>b, <2>1, <2>2, <2>3
  <2>5. a[s] = Apply(u[s], start) /\ a[t] = Apply(u[t], start)
    BY <2>1
  <2> HIDE DEF a, o
  <2>6. a[s] = Observe(a[t], o)
    BY <1>5, <2>3, <2>4, <2>5, ApplyCompose
  <2> QED BY <2>1, <2>6 DEF o
<1>8. a[{}] = start
  BY <1>6 DEF Apply
<1>9. Folded(a)
  <2>1. a = [s \in SUBSET M |-> a[s]]
    OBVIOUS
  <2> HIDE DEF a
  <2> QED BY <1>7, <1>8, <2>1
<1>10. Folded(F)
  BY <1>9
<1>11. OneByOne(scores, averages)[k] = F[M]
  BY DEF OneByOne, MapThenFoldSet, M, start
<1>12. Alike(F, a, last, M)
  <2> HIDE DEF F
  <2>1. F[{}] = start /\ a[{}] = start
    BY <1>8, <1>10
  <2>2. ASSUME NEW s \in SUBSET M, s # {}, F[s \ {last[s]}] = a[s \ {last[s]}] PROVE F[s] = a[s]
    <3> HIDE DEF a
    <3>1. last[s] = Largest(s) /\ F[s \ {Largest(s)}] = a[s \ {Largest(s)}]
      BY <1>a, <2>2
    <3>2. F[s] = Observe(F[s \ {Largest(s)}], Observation(scores[Largest(s)], k))
      BY <1>10, <2>2
    <3>3. a[s] = Observe(a[s \ {Largest(s)}], Observation(scores[Largest(s)], k))
      BY <1>7, <2>2
    <3> QED BY <3>1, <3>2, <3>3
  <2> HIDE DEF Folded, a, last
  <2> QED BY <2>1, <2>2 DEF Alike
<1>13. F[M] = a[M]
  <2>1. Chooses(last, M)
    BY <1>a, <1>3 DEF Chooses
  <2> HIDE DEF F, Folded, a, last, step
  <2> QED BY <1>2, <1>12, <2>1, AlikeEqual
<1>14. a[M] = Apply(Composed(scores)[k], start)
  BY <1>1
<1> QED BY <1>11, <1>13, <1>14 DEF start

---------------------------------------------------------------------------
(* Sums.                                                                   *)

Part(f, s) == [y \in s |-> f[y]]

\* The order in which SumOf takes the arguments of f, and its step.
Picks(S)   == [s \in SUBSET S |-> CHOOSE x \in s : TRUE]
Adds(f, S) == [p \in S \X Int |-> f[p[1]] + p[2]]

\* g is one fold that gives the sum of every part of f.
Sums(g, f, S) ==
    /\ g \in [SUBSET S -> Int]
    /\ FoldsOn(g, S, 0, Picks(S), Adds(f, S))
    /\ \A s \in SUBSET S : SumOf(Part(f, s)) = g[s]

LEMMA SumFolds ==
    ASSUME NEW S, IsFiniteSet(S), NEW f \in [S -> Int]
    PROVE  \E g : Sums(g, f, S)
<1> DEFINE last == Picks(S)
           step == Adds(f, S)
<1>1. \A s \in SUBSET S : last[s] = (CHOOSE x \in s : TRUE) /\ (s # {} => last[s] \in s)
  BY DEF Picks
<1>2. Chooses(last, S)
  <2> HIDE DEF last
  <2> QED BY <1>1 DEF Chooses
<1>3. \A x \in S, v \in Int : step[<<x, v>>] = f[x] + v /\ step[<<x, v>>] \in Int
  BY DEF Adds
<1> HIDE DEF last, step
<1>4. PICK g \in [SUBSET S -> Int] : FoldsOn(g, S, 0, last, step)
  <2>1. 0 \in Int /\ \A x \in S, v \in Int : step[<<x, v>>] \in Int
    BY <1>3
  <2> QED BY <1>2, <2>1, FoldExists
<1>5. ASSUME NEW t \in SUBSET S PROVE SumOf(Part(f, t)) = g[t]
  <2> DEFINE e == Part(f, t)
             Folded(h) == h = [s \in SUBSET t |->
                                  IF s = {} THEN 0
                                  ELSE e[CHOOSE x \in s : TRUE] + h[s \ {CHOOSE x \in s : TRUE}]]
             H == CHOOSE h : Folded(h)
             a == [s \in SUBSET t |-> g[s]]
  <2>1. DOMAIN e = t /\ \A y \in t : e[y] = f[y]
    BY DEF Part
  <2>2. SumOf(e) = H[t]
    <3>1. DOMAIN e = t
      BY <2>1
    <3> HIDE DEF e
    <3>2. SumOf(e) = (CHOOSE h : h = [s \in SUBSET DOMAIN e |->
                                  IF s = {} THEN 0
                                  ELSE e[CHOOSE x \in s : TRUE] + h[s \ {CHOOSE x \in s : TRUE}]])[DOMAIN e]
      BY DEF SumOf, FoldFunction, FoldFunctionOnSet, MapThenFoldSet
    <3> QED BY <3>1, <3>2
  <2> HIDE DEF e
  <2>3. ASSUME NEW s \in SUBSET t, s # {}
        PROVE  /\ last[s] = (CHOOSE x \in s : TRUE) /\ s \ {last[s]} \in SUBSET t
               /\ g[s] = e[last[s]] + g[s \ {last[s]}]
    <3>1. last[s] = (CHOOSE x \in s : TRUE) /\ last[s] \in s
      BY <1>1, <2>3
    <3>2. s \ {last[s]} \in SUBSET S /\ g[s \ {last[s]}] \in Int
      BY <1>4
    <3>3. g[s] = step[<<last[s], g[s \ {last[s]}]>>]
      BY <1>4, <2>3 DEF FoldsOn
    <3> QED BY <1>3, <2>1, <3>1, <3>2, <3>3
  <2>4. g[{}] = 0
    BY <1>4 DEF FoldsOn
  <2>5. Folded(a)
    <3>1. a = [s \in SUBSET t |-> a[s]] /\ \A s \in SUBSET t : a[s] = g[s]
      OBVIOUS
    <3> HIDE DEF a
    <3>2. ASSUME NEW s \in SUBSET t
          PROVE  a[s] = IF s = {} THEN 0
                        ELSE e[CHOOSE x \in s : TRUE] + a[s \ {CHOOSE x \in s : TRUE}]
      <4>1. CASE s = {}
        BY <2>4, <3>1, <4>1
      <4>2. CASE s # {}
        BY <2>3, <3>1, <4>2
      <4> QED BY <4>1, <4>2
    <3> QED BY <3>1, <3>2
  <2>6. Folded(H)
    BY <2>5
  <2> HIDE DEF H
  <2>7. Alike(H, g, last, t)
    <3>1. H[{}] = 0
      BY <2>6
    <3>2. ASSUME NEW s \in SUBSET t, s # {}, H[s \ {last[s]}] = g[s \ {last[s]}] PROVE H[s] = g[s]
      <4>1. H[s] = e[CHOOSE x \in s : TRUE] + H[s \ {CHOOSE x \in s : TRUE}]
        BY <2>6, <3>2
      <4> QED BY <2>3, <3>2, <4>1
    <3> HIDE DEF Folded
    <3> QED BY <2>4, <3>1, <3>2 DEF Alike
  <2>8. IsFiniteSet(t) /\ Chooses(last, t)
    BY <1>2, FS_Subset DEF Chooses
  <2>9. H[t] = g[t]
    <3> HIDE DEF Folded, a
    <3> QED BY <2>7, <2>8, AlikeEqual
  <2> QED BY <2>2, <2>9 DEF e
<1> QED BY <1>4, <1>5 DEF last, step, Sums

\* A sum is what one argument adds to the sum of the others, and is zero without any.
LEMMA SumGrows ==
    ASSUME NEW S, IsFiniteSet(S), NEW f \in [S -> Int]
    PROVE  /\ SumOf(Part(f, {})) = 0
           /\ \A s \in SUBSET S : SumOf(Part(f, s)) \in Int
           /\ \A s \in SUBSET S, x \in S :
                  x \in s => SumOf(Part(f, s)) = f[x] + SumOf(Part(f, s \ {x}))
<1>0. PICK g : Sums(g, f, S)
  BY SumFolds
<1> DEFINE last == Picks(S)
           step == Adds(f, S)
<1>1. /\ g \in [SUBSET S -> Int]
      /\ FoldsOn(g, S, 0, last, step)
      /\ \A s \in SUBSET S : SumOf(Part(f, s)) = g[s]
  BY <1>0 DEF Sums
<1>2. \A s \in SUBSET S : s # {} => last[s] \in s
  BY DEF Picks
<1>3. \A x \in S, v \in Int : step[<<x, v>>] = f[x] + v
  BY DEF Adds
<1> HIDE DEF last, step
<1>4. ASSUME NEW s \in SUBSET S, s # {}
      PROVE  g[s] = f[last[s]] + g[s \ {last[s]}]
  <2>1. last[s] \in S /\ s \ {last[s]} \in SUBSET S
    BY <1>2, <1>4
  <2>2. g[s] = step[<<last[s], g[s \ {last[s]}]>>]
    <3>1. FoldsOn(g, S, 0, last, step)
      BY <1>1
    <3> QED BY <1>4, <3>1 DEF FoldsOn
  <2> QED BY <1>1, <1>3, <2>1, <2>2
<1> DEFINE Bad == {s \in SUBSET S : \E x \in s : g[s] # f[x] + g[s \ {x}]}
<1>5. Bad = {}
  <2> SUFFICES ASSUME Bad # {} PROVE FALSE
    OBVIOUS
  <2>1. PICK s \in Bad : \A t \in SUBSET s : t # s => t \notin Bad
    <3>1. Bad \in SUBSET (SUBSET S)
      OBVIOUS
    <3> HIDE DEF Bad
    <3> QED BY <3>1, SmallestSubset
  <2>2. PICK x \in s : g[s] # f[x] + g[s \ {x}]
    OBVIOUS
  <2> DEFINE l == last[s]
             t == s \ {l}
             u == s \ {x}
             v == t \ {x}
  <2>3. s \in SUBSET S /\ s # {} /\ l \in s /\ x \in S /\ l \in S
    BY <1>2, <2>2
  <2>4. l # x
    BY <1>4, <2>2, <2>3
  <2>5. t \in SUBSET s /\ u \in SUBSET s /\ t # s /\ u # s /\ x \in t /\ l \in u /\ v = u \ {l}
        /\ t \in SUBSET S /\ u \in SUBSET S /\ v \in SUBSET S
    BY <2>3, <2>4
  <2>6. g[t] = f[x] + g[v]
    BY <2>1, <2>5
  <2>7. g[u] = f[l] + g[v]
    <3>1. u \notin Bad /\ u \in SUBSET S /\ l \in u
      BY <2>1, <2>5
    <3>2. g[u] = f[l] + g[u \ {l}]
      BY <3>1
    <3>3. v = u \ {l}
      BY <2>5
    <3> HIDE DEF u, v, l
    <3> QED BY <3>2, <3>3
  <2>8. g[s] = f[l] + g[t]
    BY <1>4, <2>3
  <2>9. f[l] \in Int /\ f[x] \in Int /\ g[v] \in Int
    BY <1>1, <2>3, <2>5
  <2> HIDE DEF l, t, u, v, Bad
  <2>10. f[l] + (f[x] + g[v]) = f[x] + (f[l] + g[v])
    BY <2>9
  <2>11. g[s] # f[x] + g[u]
    BY <2>2 DEF u
  <2> QED BY <2>6, <2>7, <2>8, <2>10, <2>11
<1>6. g[{}] = 0
  BY <1>1 DEF FoldsOn
<1>7. ASSUME NEW s \in SUBSET S, NEW x \in S, x \in s
      PROVE  SumOf(Part(f, s)) = f[x] + SumOf(Part(f, s \ {x}))
  <2>1. g[s] = f[x] + g[s \ {x}]
    BY <1>5, <1>7
  <2>2. s \ {x} \in SUBSET S
    OBVIOUS
  <2> QED BY <1>1, <2>1, <2>2
<1> QED BY <1>1, <1>6, <1>7

\* Multiples of n.
LEMMA MultipleHolds ==
    ASSUME NEW n \in Nat \ {0}, NEW x \in Int, x % n = 0
    PROVE  x \div n \in Int /\ x = n * (x \div n)
OBVIOUS

LEMMA MultipleDivides ==
    ASSUME NEW n \in Nat \ {0}, NEW c \in Int
    PROVE  (n * c) % n = 0 /\ (n * c) \div n = c
OBVIOUS

LEMMA DivisibleAdds ==
    ASSUME NEW n \in Nat \ {0}, NEW x \in Int, NEW y \in Int, x % n = 0, y % n = 0
    PROVE  (x + y) % n = 0
<1> DEFINE a == x \div n
           b == y \div n
<1>1. a \in Int /\ b \in Int /\ x = n * a /\ y = n * b
  BY MultipleHolds
<1> HIDE DEF a, b
<1>2. x + y = n * (a + b)
  BY <1>1
<1> QED BY <1>1, <1>2, MultipleDivides

\* A sum of multiples is a multiple.
LEMMA SumDivisible ==
    ASSUME NEW S, IsFiniteSet(S), NEW f \in [S -> Int], NEW n \in Nat \ {0},
           \A x \in S : f[x] % n = 0
    PROVE  \A s \in SUBSET S : SumOf(Part(f, s)) % n = 0
<1> DEFINE P == {s \in SUBSET S : SumOf(Part(f, s)) % n = 0}
           last == Picks(S)
<1>1. \A s \in SUBSET S : s # {} => last[s] \in s
  BY DEF Picks
<1> HIDE DEF last
<1>2. {} \in P
  <2>1. 0 % n = 0
    OBVIOUS
  <2> QED BY <2>1, SumGrows
<1>3. ASSUME NEW s \in SUBSET S, s # {}, s \ {last[s]} \in P PROVE s \in P
  <2> DEFINE x == last[s]
             t == s \ {x}
  <2>1. x \in S /\ x \in s /\ t \in SUBSET S
    BY <1>1, <1>3
  <2>2. SumOf(Part(f, s)) = f[x] + SumOf(Part(f, t)) /\ SumOf(Part(f, t)) \in Int
    BY <2>1, SumGrows
  <2>3. SumOf(Part(f, t)) % n = 0 /\ f[x] % n = 0 /\ f[x] \in Int
    BY <1>3, <2>1
  <2> HIDE DEF x, t
  <2>4. (f[x] + SumOf(Part(f, t))) % n = 0
    BY <2>2, <2>3, DivisibleAdds
  <2> QED BY <2>2, <2>4
<1>4. Reaches(P, last, S) /\ Chooses(last, S)
  <2> HIDE DEF P
  <2> QED BY <1>1, <1>2, <1>3 DEF Reaches, Chooses
<1>5. \A s \in SUBSET S : s \in P
  <2> HIDE DEF P
  <2> QED BY <1>4, ByLast
<1> QED BY <1>5

---------------------------------------------------------------------------
(* The invariant.                                                          *)

\* What a worker captures of a request: scores of all the summaries it has.
Captures == UNION {[S -> Scores] : S \in Pools}

PipelineTyped ==
    /\ deployment \in Deployments /\ Accepts(deployment)
    /\ captured \in [Workers -> [Requests -> Captures \cup {None}]]
    /\ reported \in SUBSET Workers
    /\ before \in [Keys -> Averages \cup {None}]

\* The keys that all workers of B have scored for r, and what they make of one.
Common(B, r) == {k \in Keys : \A w \in B : k \in DOMAIN captured[w][r]}
JointScore(B, r, k) ==
    IF deployment.reduction = "mean"
    THEN SumOf([w \in B |-> captured[w][r][k]]) \div Cardinality(B)
    ELSE Largest({captured[w][r][k] : w \in B})
Joint(B, r) == [k \in Common(B, r) |-> JointScore(B, r, k)]

\* The workers of B that captured r.
Scorers(B, r) == {w \in B : captured[w][r] # None}

\* What meta holds of r is what the workers of B that captured it make of it.
Gathered(meta, B, r) ==
    /\ meta.workers[r] = Cardinality(Scorers(B, r))
    /\ meta.heads[r] = Cardinality(Scorers(B, r)) * HeadsPerWorker
    /\ meta.scores[r] = IF Scorers(B, r) = {} THEN None ELSE Joint(Scorers(B, r), r)

\* A worker alone reports for the group; of several none reports updates.
AsReported ==
    reported # {} =>
        IF deployment.tp = 1 THEN aggregated = WorkerMeta(1)
        ELSE /\ aggregated.updates = NoUpdates
             /\ aggregated.contributors = Cardinality(reported)
             /\ \A r \in Requests : Gathered(aggregated, reported, r)

EmaKept ==
    /\ ~applied => ema = before
    /\ applied => reported = Workers /\ ema = OneByOne(WholeGroup, before)

PipelineInv == PipelineTyped /\ AsReported /\ EmaKept

---------------------------------------------------------------------------
(* What several workers make of a request.                                 *)

LEMMA Group ==
    ASSUME PipelineTyped
    PROVE  /\ deployment \in Deployment /\ deployment.world = deployment.tp
           /\ deployment.tp \in Nat \ {0}
           /\ IsFiniteSet(Workers) /\ Cardinality(Workers) = deployment.world
           /\ deployment.tp = 1 => Workers = {1}
<1>1. deployment \in Deployment /\ deployment.world = deployment.tp /\ deployment.world \in Nat \ {0}
  BY DeploymentsAssumption DEF PipelineTyped, Accepts, Deployment
<1> DEFINE n == deployment.world
<1>2. n \in Nat \ {0}
  BY <1>1
<1> HIDE DEF n
<1>3. IsFiniteSet(1 .. n) /\ Cardinality(1 .. n) = n
  BY <1>2, FS_Interval
<1>4. n = 1 => 1 .. n = {1}
  OBVIOUS
<1> QED BY <1>1, <1>3, <1>4 DEF n, Workers

LEMMA HeadsPositive ==
    ASSUME PipelineTyped
    PROVE  HeadsPerWorker \in Nat \ {0}
<1>1. deployment.kvHeads \in Nat \ {0} /\ deployment.tp \in Nat \ {0}
  BY Group DEF Deployment
<1> DEFINE a == deployment.kvHeads
           b == deployment.tp
<1>2. a > b => a \div b \in Nat \ {0}
  <2> HIDE DEF a, b
  <2>1. a \in Nat /\ b \in Nat \ {0}
    BY <1>1 DEF a, b
  <2> QED BY <2>1
<1> QED BY <1>2 DEF HeadsPerWorker

LEMMA CapturedList ==
    ASSUME PipelineTyped, NEW w \in Workers, NEW r \in Requests, captured[w][r] # None
    PROVE  LET list == captured[w][r]
           IN  /\ list \in Lists
               /\ DOMAIN list \in SUBSET Keys /\ DOMAIN list # {}
               /\ list = [k \in DOMAIN list |-> list[k]]
               /\ \A k \in DOMAIN list :
                      list[k] \in Int /\ \A n \in 1 .. deployment.world : list[k] % n = 0
<1>1. captured[w][r] \in Captures
  BY DEF PipelineTyped
<1>2. PICK S \in Pools : captured[w][r] \in [S -> Scores]
  BY <1>1 DEF Captures
<1>3. S \in SUBSET Keys /\ S # {} /\ Scores \in SUBSET Int
  BY PoolsAssumption, ScoresAssumption
<1>4. \A x \in Scores : \A n \in 1 .. deployment.world : x % n = 0
  BY ScoresAssumption DEF PipelineTyped
<1> DEFINE list == captured[w][r]
<1>5. list \in [S -> Scores]
  BY <1>2
<1> HIDE DEF list
<1>6. list \in [S -> Int] /\ DOMAIN list = S
  BY <1>3, <1>5
<1>7. list \in Lists
  BY <1>3, <1>6 DEF Lists
<1>8. \A k \in S : list[k] \in Int /\ \A n \in 1 .. deployment.world : list[k] % n = 0
  BY <1>3, <1>4, <1>5
<1> QED BY <1>3, <1>6, <1>7, <1>8 DEF list

\* One worker makes of a request what it has captured.
LEMMA JointOne ==
    ASSUME PipelineTyped, NEW w \in Workers, NEW r \in Requests, captured[w][r] # None
    PROVE  Joint({w}, r) = captured[w][r]
<1> DEFINE list == captured[w][r]
<1>1. /\ DOMAIN list \in SUBSET Keys
      /\ list = [k \in DOMAIN list |-> list[k]]
      /\ \A k \in DOMAIN list : list[k] \in Int
  BY CapturedList
<1>2. Common({w}, r) = DOMAIN list
  BY <1>1 DEF Common
<1>3. ASSUME NEW k \in DOMAIN list PROVE JointScore({w}, r, k) = list[k]
  <2> DEFINE f == [v \in {w} |-> captured[v][r][k]]
  <2>1. f \in [{w} -> Int] /\ f[w] = list[k] /\ IsFiniteSet({w}) /\ Cardinality({w}) = 1
    BY <1>1, FS_Singleton
  <2>2. Part(f, {w}) = f
    BY DEF Part
  <2> DEFINE x == list[k]
  <2>3. x \in Int
    BY <1>1
  <2>4. SumOf(f) = x + 0
    <3> HIDE DEF f, list
    <3>1. SumOf(Part(f, {w})) = f[w] + SumOf(Part(f, {w} \ {w}))
      BY <2>1, SumGrows
    <3>2. {w} \ {w} = {} /\ SumOf(Part(f, {})) = 0
      BY <2>1, SumGrows
    <3> QED BY <2>1, <2>2, <3>1, <3>2
  <2>5. (x + 0) \div 1 = x
    <3> HIDE DEF x
    <3> QED BY <2>3
  <2>6. Largest({x}) = x
    <3> HIDE DEF x
    <3>1. IsFiniteSet({x}) /\ {x} \in SUBSET Int
      BY <2>3, FS_Singleton
    <3> QED BY <3>1, LargestIn
  <2>7. {captured[v][r][k] : v \in {w}} = {x}
    OBVIOUS
  <2> HIDE DEF f, x
  <2>8. JointScore({w}, r, k) = IF deployment.reduction = "mean" THEN SumOf(f) \div 1 ELSE Largest({x})
    BY <2>1, <2>7 DEF JointScore, f
  <2> QED BY <2>4, <2>5, <2>6, <2>8 DEF x
<1> HIDE DEF list
<1>4. Joint({w}, r) = [k \in DOMAIN list |-> list[k]]
  BY <1>2, <1>3 DEF Joint
<1> QED BY <1>1, <1>4 DEF list

LEMMA LargestIs ==
    ASSUME NEW S \in SUBSET Int, NEW x \in S, \A y \in S : x >= y
    PROVE  Largest(S) = x
<1>1. Largest(S) \in S /\ \A y \in S : Largest(S) >= y
  BY DEF Largest
<1>2. Largest(S) >= x /\ x >= Largest(S) /\ Largest(S) \in Int /\ x \in Int
  BY <1>1
<1> QED BY <1>2

\* A mean over count workers of equal weight, and one worker more.
LEMMA MeanGrows ==
    ASSUME NEW count \in Nat \ {0}, NEW heads \in Nat \ {0}, NEW sum \in Int, NEW y \in Int,
           sum % count = 0, (y + sum) % (count + 1) = 0
    PROVE  Mean(sum \div count, count * heads, y, heads) = (y + sum) \div (count + 1)
<1> DEFINE x == sum \div count
           z == (y + sum) \div (count + 1)
<1>1. x \in Int /\ sum = count * x
  BY MultipleHolds
<1>2. z \in Int /\ y + sum = (count + 1) * z
  <2> DEFINE n == count + 1
             t == y + sum
  <2>1. n \in Nat \ {0} /\ t \in Int /\ t % n = 0
    OBVIOUS
  <2> HIDE DEF n, t
  <2>2. t \div n \in Int /\ t = n * (t \div n)
    BY <2>1, MultipleHolds
  <2> QED BY <2>2 DEF n, t
<1> HIDE DEF x, z
<1>3. x * (count * heads) + y * heads = (y + count * x) * heads
  BY <1>1
<1>4. (y + count * x) * heads = ((count + 1) * z) * heads
  BY <1>1, <1>2
<1>5. ((count + 1) * z) * heads = ((count + 1) * heads) * z
  BY <1>2
<1>6. count * heads + heads = (count + 1) * heads
  OBVIOUS
<1>7. (count + 1) * heads \in Nat \ {0}
  <2>1. count + 1 \in Nat \ {0}
    OBVIOUS
  <2> DEFINE n == count + 1
  <2>2. n \in Nat \ {0}
    BY <2>1
  <2> HIDE DEF n
  <2>3. n * heads \in Nat \ {0}
    BY <2>2
  <2> QED BY <2>3 DEF n
<1> DEFINE d == (count + 1) * heads
<1> HIDE DEF d
<1>8. d \in Nat \ {0} /\ (d * z) \div d = z
  BY <1>2, <1>7, MultipleDivides DEF d
<1>9. Mean(x, count * heads, y, heads) = (x * (count * heads) + y * heads) \div (count * heads + heads)
  BY DEF Mean
<1>10. x * (count * heads) + y * heads = d * z
  BY <1>3, <1>4, <1>5 DEF d
<1>11. count * heads + heads = d
  BY <1>6 DEF d
<1>12. Mean(x, count * heads, y, heads) = z
  <2> DEFINE top == x * (count * heads) + y * heads
             low == count * heads + heads
  <2>1. Mean(x, count * heads, y, heads) = top \div low
    BY <1>9
  <2>2. top = d * z /\ low = d
    BY <1>10, <1>11
  <2> HIDE DEF top, low
  <2> QED BY <1>8, <2>1, <2>2
<1> QED BY <1>12 DEF x, z

LEMMA JointTyped ==
    ASSUME PipelineTyped, NEW B \in SUBSET Workers, B # {}, NEW r \in Requests,
           \A v \in B : captured[v][r] # None, NEW k \in Common(B, r)
    PROVE  JointScore(B, r, k) \in Int
<1>1. IsFiniteSet(B) /\ Cardinality(B) \in Nat \ {0}
  BY Group, FS_Subset, FS_EmptySet, FS_CardinalityType
<1>2. \A v \in B : captured[v][r][k] \in Int
  BY CapturedList DEF Common
<1> DEFINE f == [v \in B |-> captured[v][r][k]]
           S == {captured[v][r][k] : v \in B}
<1>3. f \in [B -> Int] /\ Part(f, B) = f
  BY <1>2 DEF Part
<1>4. SumOf(f) \in Int
  <2> HIDE DEF f
  <2>1. SumOf(Part(f, B)) \in Int
    BY <1>1, <1>3, SumGrows
  <2> QED BY <1>3, <2>1
<1>5. SumOf(f) \div Cardinality(B) \in Int
  <2> DEFINE n == Cardinality(B)
             x == SumOf(f)
  <2>1. n \in Nat \ {0} /\ x \in Int
    BY <1>1, <1>4
  <2> HIDE DEF n, x
  <2>2. x \div n \in Int
    BY <2>1
  <2> QED BY <2>2 DEF n, x
<1>6. Largest(S) \in Int
  <2>1. f \in Surjection(B, S) /\ S \in SUBSET Int /\ S # {}
    BY <1>2 DEF Surjection
  <2> HIDE DEF f, S
  <2>2. IsFiniteSet(S)
    BY <1>1, <2>1, FS_Surjection
  <2> QED BY <2>1, <2>2, LargestIn
<1> QED BY <1>5, <1>6 DEF JointScore

\* What one worker more makes of a score, weighted by its heads.
LEMMA JointGrows ==
    ASSUME PipelineTyped, NEW B \in SUBSET Workers, B # {}, NEW w \in Workers \ B,
           NEW r \in Requests, \A v \in B \cup {w} : captured[v][r] # None,
           NEW k \in Common(B \cup {w}, r)
    PROVE  Reduce(JointScore(B, r, k), Cardinality(B) * HeadsPerWorker,
                  captured[w][r][k], HeadsPerWorker) = JointScore(B \cup {w}, r, k)
<1> DEFINE C == B \cup {w}
           f == [v \in C |-> captured[v][r][k]]
<1>1. /\ IsFiniteSet(B) /\ IsFiniteSet(C) /\ C \in SUBSET Workers /\ B \in SUBSET C /\ w \in C
      /\ C \ {w} = B
      /\ Cardinality(B) \in Nat \ {0} /\ Cardinality(C) = Cardinality(B) + 1
  BY Group, FS_Subset, FS_AddElement, FS_EmptySet, FS_CardinalityType
<1>2. Cardinality(C) \in 1 .. deployment.world /\ Cardinality(B) \in 1 .. deployment.world
  <2>1. Cardinality(C) <= Cardinality(Workers) /\ Cardinality(Workers) = deployment.world
    BY <1>1, Group, FS_Subset
  <2>2. deployment.world \in Nat
    BY Group
  <2> QED BY <1>1, <2>1, <2>2
<1>3. \A v \in C : captured[v][r][k] \in Int
                   /\ \A n \in 1 .. deployment.world : captured[v][r][k] % n = 0
  <2> TAKE v \in C
  <2>1. v \in Workers /\ captured[v][r] # None /\ k \in DOMAIN captured[v][r]
    BY <1>1 DEF Common
  <2> QED BY <2>1, CapturedList
<1>4. f \in [C -> Int] /\ f[w] = captured[w][r][k]
  BY <1>3
<1>5. CASE deployment.reduction = "mean"
  <2> DEFINE count == Cardinality(B)
             sum == SumOf(Part(f, B))
             all == SumOf(Part(f, C))
  <2>1. all = f[w] + sum /\ sum \in Int
    <3> HIDE DEF C, f
    <3> QED BY <1>1, <1>4, SumGrows
  <2>2. sum % count = 0 /\ all % (count + 1) = 0
    <3>1. \A v \in C : f[v] % count = 0 /\ f[v] % (count + 1) = 0
      BY <1>1, <1>2, <1>3
    <3>2. count \in Nat \ {0} /\ count + 1 \in Nat \ {0}
      BY <1>1
    <3> DEFINE m == count + 1
    <3> HIDE DEF C, f, count, m
    <3>3. \A s \in SUBSET C : SumOf(Part(f, s)) % count = 0
      BY <1>1, <1>4, <3>1, <3>2, SumDivisible
    <3>4. \A s \in SUBSET C : SumOf(Part(f, s)) % m = 0
      BY <1>1, <1>4, <3>1, <3>2, SumDivisible DEF m
    <3> QED BY <1>1, <3>3, <3>4 DEF m
  <2>3. JointScore(B, r, k) = sum \div count
    <3>1. Part(f, B) = [v \in B |-> captured[v][r][k]]
      BY <1>1 DEF Part
    <3> QED BY <1>5, <3>1 DEF JointScore
  <2>4. JointScore(C, r, k) = all \div (count + 1)
    <3>1. Part(f, C) = [v \in C |-> captured[v][r][k]]
      BY DEF Part
    <3> QED BY <1>1, <1>5, <3>1 DEF JointScore
  <2> DEFINE y == captured[w][r][k]
  <2>5. y \in Int /\ all = y + sum /\ count \in Nat \ {0}
    BY <1>1, <1>4, <2>1
  <2> HIDE DEF count, sum, all, y, C, f
  <2>6. Mean(sum \div count, count * HeadsPerWorker, y, HeadsPerWorker) = (y + sum) \div (count + 1)
    <3> DEFINE heads == HeadsPerWorker
    <3>1. heads \in Nat \ {0} /\ (y + sum) % (count + 1) = 0 /\ sum \in Int /\ sum % count = 0
      BY <2>1, <2>2, <2>5, HeadsPositive
    <3> HIDE DEF heads
    <3>2. Mean(sum \div count, count * heads, y, heads) = (y + sum) \div (count + 1)
      BY <2>5, <3>1, MeanGrows
    <3> QED BY <3>2 DEF heads
  <2> QED BY <1>5, <2>3, <2>4, <2>5, <2>6 DEF Reduce, count, y, C
<1>6. CASE deployment.reduction # "mean"
  <2> DEFINE few == {captured[v][r][k] : v \in B}
             many == {captured[v][r][k] : v \in C}
             x == Largest(few)
             y == captured[w][r][k]
  <2>1. few \in SUBSET Int /\ few # {} /\ many = few \cup {y} /\ y \in Int
    BY <1>1, <1>3
  <2>2. IsFiniteSet(few)
    <3> DEFINE g == [v \in B |-> captured[v][r][k]]
    <3>1. g \in Surjection(B, few)
      BY DEF Surjection
    <3> HIDE DEF g, few
    <3> QED BY <1>1, <3>1, FS_Surjection
  <2>3. JointScore(B, r, k) = x /\ JointScore(C, r, k) = Largest(many)
    BY <1>6 DEF JointScore
  <2> HIDE DEF few, many, y, f
  <2>4. x \in few /\ \A z \in few : x >= z
    BY <2>1, <2>2, LargestIn
  <2> HIDE DEF x
  <2>5. Largest(many) = IF x > y THEN x ELSE y
    <3>1. x \in Int /\ many \in SUBSET Int /\ \A z \in few : z \in Int
      BY <2>1, <2>4
    <3>2. CASE x > y
      <4>1. x \in many /\ \A z \in many : x >= z
        BY <2>1, <2>4, <3>1, <3>2
      <4> QED BY <3>1, <3>2, <4>1, LargestIs
    <3>3. CASE ~(x > y)
      <4>1. y \in many /\ \A z \in many : y >= z
        BY <2>1, <2>4, <3>1, <3>3
      <4> QED BY <3>1, <3>3, <4>1, LargestIs
    <3> QED BY <3>2, <3>3
  <2> QED BY <1>6, <2>3, <2>5 DEF Reduce, y, C
<1> QED BY <1>5, <1>6

---------------------------------------------------------------------------
(* What metadata gathers, one worker after the other.                      *)

\* One of several workers reports what it captured.
LEMMA FirstGathered ==
    ASSUME PipelineTyped, deployment.tp # 1, NEW w \in Workers
    PROVE  /\ WorkerMeta(w).updates = NoUpdates
           /\ WorkerMeta(w).contributors = 1
           /\ \A r \in Requests :
                  /\ WorkerMeta(w).scores[r] = captured[w][r]
                  /\ WorkerMeta(w).heads[r] = (IF captured[w][r] = None THEN 0 ELSE HeadsPerWorker)
                  /\ WorkerMeta(w).workers[r] = (IF captured[w][r] = None THEN 0 ELSE 1)
                  /\ Gathered(WorkerMeta(w), {w}, r)
<1> DEFINE meta == WorkerMeta(w)
<1>1. /\ meta.updates = NoUpdates /\ meta.contributors = 1
      /\ \A r \in Requests :
             /\ meta.scores[r] = captured[w][r]
             /\ meta.heads[r] = (IF captured[w][r] = None THEN 0 ELSE HeadsPerWorker)
             /\ meta.workers[r] = (IF captured[w][r] = None THEN 0 ELSE 1)
  BY DEF WorkerMeta, Compacts
<1> HIDE DEF meta
<1>2. ASSUME NEW r \in Requests PROVE Gathered(meta, {w}, r)
  <2>1. HeadsPerWorker \in Nat
    BY HeadsPositive
  <2>2. CASE captured[w][r] = None
    <3>1. Scorers({w}, r) = {}
      BY <2>2 DEF Scorers
    <3>2. Cardinality({}) = 0 /\ 0 * HeadsPerWorker = 0
      BY <2>1, FS_EmptySet
    <3> QED BY <1>1, <2>2, <3>1, <3>2 DEF Gathered
  <2>3. CASE captured[w][r] # None
    <3>1. Scorers({w}, r) = {w}
      BY <2>3 DEF Scorers
    <3>2. Cardinality({w}) = 1 /\ 1 * HeadsPerWorker = HeadsPerWorker
      BY <2>1, FS_Singleton
    <3> QED BY <1>1, <2>3, <3>1, <3>2, JointOne DEF Gathered
  <2> QED BY <2>2, <2>3
<1> QED BY <1>1, <1>2 DEF meta

\* Aggregating one worker more gathers what all of them make of a request.
LEMMA NextGathered ==
    ASSUME PipelineTyped, deployment.tp # 1, NEW B \in SUBSET Workers, NEW w \in Workers \ B,
           NEW meta, NEW r \in Requests, Gathered(meta, B, r)
    PROVE  Gathered(Aggregate(meta, WorkerMeta(w)), B \cup {w}, r)
<1> DEFINE right == WorkerMeta(w)
           both == Aggregate(meta, right)
           few == Scorers(B, r)
           many == Scorers(B \cup {w}, r)
           x == meta.scores[r]
           y == captured[w][r]
<1>1. /\ right.scores[r] = y
      /\ right.heads[r] = (IF y = None THEN 0 ELSE HeadsPerWorker)
      /\ right.workers[r] = (IF y = None THEN 0 ELSE 1)
  BY FirstGathered
<1> HIDE DEF right
<1>2. /\ both.workers[r] = meta.workers[r] + right.workers[r]
      /\ both.heads[r] = meta.heads[r] + right.heads[r]
      /\ both.scores[r] = IF y = None THEN x ELSE IF x = None THEN y
                          ELSE [k \in DOMAIN x \cap DOMAIN y |->
                                   Reduce(x[k], meta.heads[r], y[k], right.heads[r])]
  BY <1>1 DEF Aggregate, Count
<1>3. HeadsPerWorker \in Nat \ {0}
  BY HeadsPositive
<1>4. few \in SUBSET Workers /\ IsFiniteSet(few) /\ Cardinality(few) \in Nat
      /\ \A v \in few : captured[v][r] # None
  BY Group, FS_Subset, FS_CardinalityType DEF Scorers
<1> SUFFICES Gathered(both, B \cup {w}, r)
  BY DEF right
<1> DEFINE c == Cardinality(few) * HeadsPerWorker
<1>7. /\ meta.workers[r] = Cardinality(few) /\ meta.heads[r] = c
      /\ x = IF few = {} THEN None ELSE Joint(few, r)
  BY DEF Gathered
<1>8. c \in Int /\ c + 0 = c /\ Cardinality(few) + 0 = Cardinality(few)
  BY <1>3, <1>4
<1>9. ASSUME /\ both.workers[r] = Cardinality(many)
             /\ both.heads[r] = Cardinality(many) * HeadsPerWorker
             /\ both.scores[r] = IF many = {} THEN None ELSE Joint(many, r)
      PROVE  Gathered(both, B \cup {w}, r)
  <2> HIDE DEF both
  <2> QED BY <1>9 DEF Gathered
<1>5. CASE y = None
  <2>1. many = few
    BY <1>5 DEF Scorers
  <2>2. both.workers[r] = Cardinality(few) + 0 /\ both.heads[r] = c + 0 /\ both.scores[r] = x
    <3> HIDE DEF both, c, few
    <3> QED BY <1>1, <1>2, <1>5, <1>7
  <2>3. /\ both.workers[r] = Cardinality(many) /\ both.heads[r] = Cardinality(many) * HeadsPerWorker
        /\ both.scores[r] = IF many = {} THEN None ELSE Joint(many, r)
    <3>1. both.workers[r] = Cardinality(few)
      BY <1>8, <2>2
    <3>2. both.heads[r] = c
      <4> HIDE DEF c
      <4> QED BY <1>8, <2>2
    <3> HIDE DEF both, few, many, x
    <3>3. both.scores[r] = IF many = {} THEN None ELSE Joint(many, r)
      BY <1>7, <2>1, <2>2
    <3>4. both.workers[r] = Cardinality(many)
      BY <2>1, <3>1
    <3>5. c = Cardinality(many) * HeadsPerWorker
      BY <2>1
    <3> HIDE DEF c
    <3> QED BY <3>2, <3>3, <3>4, <3>5
  <2> HIDE DEF both, few, many, x, y, c
  <2> QED BY <1>9, <2>3
<1>6. CASE y # None
  <2>1. many = few \cup {w} /\ w \notin few
    BY <1>6 DEF Scorers
  <2>2. Cardinality(many) = Cardinality(few) + 1
    BY <1>4, <2>1, FS_AddElement
  <2>3. Cardinality(few) * HeadsPerWorker + HeadsPerWorker = (Cardinality(few) + 1) * HeadsPerWorker
    BY <1>3, <1>4
  <2>6. both.workers[r] = Cardinality(many) /\ both.heads[r] = Cardinality(many) * HeadsPerWorker
    <3>1. both.workers[r] = Cardinality(few) + 1 /\ both.heads[r] = c + HeadsPerWorker
      <4> HIDE DEF both, c, few
      <4> QED BY <1>1, <1>2, <1>6, <1>7
    <3> HIDE DEF both, few, many
    <3> QED BY <2>2, <2>3, <3>1
  <2>4. CASE few = {}
    <3>1. x = None /\ many = {w}
      BY <2>1, <2>4 DEF Gathered
    <3>2. both.scores[r] = Joint(many, r)
      BY <1>2, <1>6, <3>1, JointOne
    <3>3. many # {}
      BY <2>1
    <3>4. both.scores[r] = IF many = {} THEN None ELSE Joint(many, r)
      <4> HIDE DEF both, many
      <4> QED BY <3>2, <3>3
    <3> HIDE DEF both, few, many, x, y, c
    <3> QED BY <1>9, <2>6, <3>4
  <2>5. CASE few # {}
    <3>1. x = Joint(few, r)
      BY <2>5 DEF Gathered
    <3>2. \E v \in few : captured[v][r] # None
      BY <1>4, <2>5
    <3>3. y \in Lists /\ DOMAIN y \in SUBSET Keys
      BY <1>6, CapturedList
    <3>4. DOMAIN x = Common(few, r)
      BY <3>1 DEF Joint
    <3>5. x # None
      <4>1. Common(few, r) \in SUBSET Keys
        BY DEF Common
      <4>2. ASSUME NEW k \in Common(few, r) PROVE JointScore(few, r, k) \in Int
        BY <1>4, <2>5, <4>2, JointTyped
      <4>3. Joint(few, r) \in [Common(few, r) -> Int]
        BY <4>2 DEF Joint
      <4> QED BY <3>1, <4>1, <4>3, NoneAssumption
    <3>6. DOMAIN x \cap DOMAIN y = Common(many, r)
      BY <2>1, <3>3, <3>4 DEF Common
    <3>7. ASSUME NEW k \in Common(many, r)
          PROVE  Reduce(x[k], meta.heads[r], y[k], right.heads[r]) = JointScore(many, r, k)
      <4>1. k \in Common(few, r)
        BY <3>4, <3>6, <3>7
      <4>2. x[k] = JointScore(few, r, k)
        BY <3>1, <4>1 DEF Joint
      <4>3. meta.heads[r] = Cardinality(few) * HeadsPerWorker /\ right.heads[r] = HeadsPerWorker
        BY <1>1, <1>6 DEF Gathered
      <4>4. \A v \in few \cup {w} : captured[v][r] # None
        BY <1>4, <1>6
      <4> HIDE DEF few, many, x
      <4>5. Reduce(JointScore(few, r, k), Cardinality(few) * HeadsPerWorker, y[k], HeadsPerWorker)
              = JointScore(few \cup {w}, r, k)
        BY <1>4, <2>1, <2>5, <3>7, <4>4, JointGrows
      <4> QED BY <2>1, <4>2, <4>3, <4>5
    <3>8. both.scores[r] = Joint(many, r)
      <4> HIDE DEF both, few, many, x, y
      <4>1. both.scores[r] = [k \in DOMAIN x \cap DOMAIN y |->
                                   Reduce(x[k], meta.heads[r], y[k], right.heads[r])]
        BY <1>2, <1>6, <3>5
      <4> QED BY <3>6, <3>7, <4>1 DEF Joint
    <3>9. many # {}
      BY <2>1
    <3>10. both.scores[r] = IF many = {} THEN None ELSE Joint(many, r)
      <4> HIDE DEF both, many
      <4> QED BY <3>8, <3>9
    <3> HIDE DEF both, few, many, x, y, c
    <3> QED BY <1>9, <2>6, <3>10
  <2> QED BY <2>4, <2>5
<1> QED BY <1>5, <1>6

---------------------------------------------------------------------------
(* What is complete.                                                       *)

LEMMA CapturedBoard ==
    ASSUME PipelineTyped, NEW w \in Workers
    PROVE  captured[w] \in Boards
<1>1. captured[w] \in [Requests -> Captures \cup {None}]
  BY DEF PipelineTyped
<1>2. \A r \in Requests : captured[w][r] \in Lists \cup {None}
  BY CapturedList
<1> QED BY <1>1, <1>2 DEF Boards

\* What the whole group says of a request.
LEMMA WholeJoint ==
    ASSUME PipelineTyped, NEW r \in Requests
    PROVE  WholeGroup[r] = IF \E w \in Workers : captured[w][r] = None THEN None
                           ELSE Joint(Workers, r)
<1>1. Cardinality(Workers) = deployment.world
  BY Group
<1>2. ASSUME NEW k \in Common(Workers, r)
      PROVE  (LET score == [w \in Workers |-> captured[w][r][k]]
              IN  IF deployment.reduction = "mean"
                  THEN SumOf(score) \div deployment.world
                  ELSE Largest({score[w] : w \in Workers})) = JointScore(Workers, r, k)
  <2> DEFINE score == [w \in Workers |-> captured[w][r][k]]
  <2>1. {score[w] : w \in Workers} = {captured[w][r][k] : w \in Workers}
    OBVIOUS
  <2> QED BY <1>1, <2>1 DEF JointScore
<1>3. WholeGroup[r] =
        IF \E w \in Workers : captured[w][r] = None THEN None
        ELSE [k \in Common(Workers, r) |->
                LET score == [w \in Workers |-> captured[w][r][k]]
                IN  IF deployment.reduction = "mean"
                    THEN SumOf(score) \div deployment.world
                    ELSE Largest({score[w] : w \in Workers})]
  BY DEF WholeGroup, Common
<1> DEFINE J == [k \in Common(Workers, r) |->
                LET score == [w \in Workers |-> captured[w][r][k]]
                IN  IF deployment.reduction = "mean"
                    THEN SumOf(score) \div deployment.world
                    ELSE Largest({score[w] : w \in Workers})]
<1>4. J = Joint(Workers, r)
  BY <1>2 DEF Joint
<1> HIDE DEF J
<1> QED BY <1>3, <1>4 DEF J

\* What is composed of a request that mentions a key is an update of it.
LEMMA ComposedUpdates ==
    ASSUME NEW scores \in Boards, NEW k \in Keys, Mentions(scores, k) # {}
    PROVE  Composed(scores)[k] # None
<1> DEFINE M == Mentions(scores, k)
<1>1. PICK f \in [SUBSET M -> Updates \cup {None}] :
          FoldsOn(f, M, None, Lasts(M), Composes(scores, k)) /\ Composed(scores)[k] = f[M]
  BY ComposedFolds
<1>2. IsFiniteSet(M) /\ M \in SUBSET Int /\ M # {}
  BY MentionsIn
<1>3. Largest(M) \in M /\ Lasts(M)[M] = Largest(M)
  BY <1>2, LargestIn DEF Lasts
<1> DEFINE r == Largest(M)
           v == f[M \ {r}]
<1>4. v \in Updates \cup {None} /\ Observation(scores[r], k) \in Observations
  <2>1. r \in M /\ M \ {r} \in SUBSET M
    BY <1>3
  <2>2. scores[r] \in Lists /\ k \in DOMAIN scores[r]
    BY <2>1 DEF Mentions, Scored, Boards
  <2> QED BY <1>1, <2>1, <2>2, ObservationTyped
<1>5. f[M] = Composes(scores, k)[<<r, v>>]
  <2> HIDE DEF M
  <2> QED BY <1>1, <1>2, <1>3 DEF FoldsOn
<1>6. Composes(scores, k)[<<r, v>>] = Compose(v, Observation(scores[r], k))
  <2>1. <<r, v>> \in M \X (Updates \cup {None})
    BY <1>3, <1>4
  <2> HIDE DEF r, v
  <2> QED BY <2>1 DEF Composes
<1>7. Composed(scores)[k] \in Updates
  <2> HIDE DEF M, r, v
  <2> QED BY <1>1, <1>4, <1>5, <1>6, ComposeTyped
<1> QED BY <1>7, NoneAssumption

\* Without composed updates, what is complete is what the whole group says.
LEMMA CompleteIsWhole ==
    ASSUME PipelineTyped, AsReported, reported = Workers, aggregated.updates = NoUpdates
    PROVE  CompleteScores(aggregated) = WholeGroup
<1>1. /\ deployment.tp \in Nat \ {0} /\ Cardinality(Workers) = deployment.tp /\ IsFiniteSet(Workers)
      /\ deployment.tp = 1 => Workers = {1}
  BY Group
<1>2. reported # {}
  BY <1>1, FS_EmptySet
<1>3. ASSUME NEW r \in Requests
      PROVE  CompleteScores(aggregated)[r] = WholeGroup[r]
  <2> DEFINE whole == IF \E w \in Workers : captured[w][r] = None THEN None ELSE Joint(Workers, r)
  <2>0. WholeGroup[r] = whole
    BY WholeJoint
  <2>1. CompleteScores(aggregated)[r] =
          IF aggregated.contributors = deployment.tp /\ aggregated.workers[r] = deployment.tp
          THEN aggregated.scores[r] ELSE None
    BY DEF CompleteScores
  <2>2. CASE deployment.tp = 1
    <3>1. Workers = {1} /\ aggregated = WorkerMeta(1) /\ 1 \in Workers
      BY <1>1, <1>2, <2>2 DEF AsReported
    <3>2. ~Compacts(captured[1])
      <4> SUFFICES ASSUME Compacts(captured[1]) PROVE FALSE
        OBVIOUS
      <4>1. Composed(captured[1]) = NoUpdates
        BY <3>1 DEF WorkerMeta
      <4>2. captured[1] \in Boards
        BY <3>1, CapturedBoard
      <4>3. PICK q \in Requests : captured[1][q] # None
        <5>1. DOMAIN captured[1] = Requests
          BY <4>2 DEF Boards
        <5>2. Scored(captured[1]) # {}
          BY FS_EmptySet DEF Compacts
        <5> QED BY <5>1, <5>2 DEF Scored
      <4>4. PICK k \in Keys : k \in DOMAIN captured[1][q]
        BY <3>1, <4>3, CapturedList
      <4>5. q \in Mentions(captured[1], k)
        BY <4>2, <4>3, <4>4 DEF Mentions, Scored, Boards
      <4> QED BY <4>1, <4>2, <4>5, ComposedUpdates DEF NoUpdates
    <3>3. /\ aggregated.contributors = 1
          /\ aggregated.workers[r] = (IF captured[1][r] = None THEN 0 ELSE 1)
          /\ aggregated.scores[r] = captured[1][r]
      BY <3>1, <3>2 DEF WorkerMeta
    <3>4. captured[1][r] # None => Joint(Workers, r) = captured[1][r]
      BY <3>1, JointOne
    <3>5. whole = captured[1][r]
      BY <3>1, <3>4
    <3> HIDE DEF whole
    <3> QED BY <2>0, <2>1, <2>2, <3>3, <3>5
  <2>3. CASE deployment.tp # 1
    <3> DEFINE B == Scorers(Workers, r)
    <3>1. aggregated.contributors = deployment.tp /\ Gathered(aggregated, Workers, r)
      BY <1>1, <1>2, <2>3 DEF AsReported
    <3>2. B \in SUBSET Workers
      BY DEF Scorers
    <3>3. Cardinality(B) = deployment.tp <=> B = Workers
      BY <1>1, <3>2, FS_Subset
    <3>4. B = Workers <=> ~(\E w \in Workers : captured[w][r] = None)
      BY DEF Scorers
    <3>5. /\ aggregated.workers[r] = Cardinality(B)
          /\ aggregated.scores[r] = IF B = {} THEN None ELSE Joint(B, r)
      BY <3>1 DEF Gathered
    <3>6. Workers # {}
      BY <1>2
    <3>7. CASE B = Workers
      <4>1. whole = Joint(Workers, r)
        BY <3>4, <3>7
      <4>2. aggregated.scores[r] = Joint(Workers, r) /\ aggregated.workers[r] = deployment.tp
        <5> HIDE DEF B
        <5> QED BY <3>3, <3>5, <3>6, <3>7
      <4> HIDE DEF B, whole
      <4> QED BY <2>0, <2>1, <3>1, <4>1, <4>2
    <3>8. CASE B # Workers
      <4>1. whole = None
        BY <3>4, <3>8
      <4>2. aggregated.workers[r] # deployment.tp
        <5> HIDE DEF B
        <5> QED BY <3>3, <3>5, <3>8
      <4> HIDE DEF B, whole
      <4> QED BY <2>0, <2>1, <4>1, <4>2
    <3> QED BY <3>7, <3>8
  <2> QED BY <2>2, <2>3
<1>4. CompleteScores(aggregated) = [r \in Requests |-> CompleteScores(aggregated)[r]]
  BY DEF CompleteScores
<1>5. WholeGroup = [r \in Requests |-> WholeGroup[r]]
  BY DEF WholeGroup
<1> DEFINE a == CompleteScores(aggregated)
           b == WholeGroup
<1> HIDE DEF a, b
<1>6. a = b
  BY <1>3, <1>4, <1>5 DEF a, b
<1> QED BY <1>6 DEF a, b

\* What the whole group says is lists of scores.
LEMMA WholeBoard ==
    ASSUME PipelineTyped
    PROVE  WholeGroup \in Boards
<1>1. Workers # {}
  BY Group, FS_EmptySet
<1>2. ASSUME NEW r \in Requests PROVE WholeGroup[r] \in Lists \cup {None}
  <2>1. CASE \E w \in Workers : captured[w][r] = None
    BY <2>1, WholeJoint
  <2>2. CASE ~(\E w \in Workers : captured[w][r] = None)
    <3>1. ASSUME NEW k \in Common(Workers, r) PROVE JointScore(Workers, r, k) \in Int
      BY <1>1, <2>2, <3>1, JointTyped
    <3>2. Common(Workers, r) \in SUBSET Keys
      BY DEF Common
    <3>3. Joint(Workers, r) \in [Common(Workers, r) -> Int]
      BY <3>1 DEF Joint
    <3>4. Joint(Workers, r) \in Lists
      BY <3>2, <3>3 DEF Lists
    <3> QED BY <2>2, <3>4, WholeJoint
  <2> QED BY <2>1, <2>2
<1>3. WholeGroup = [r \in Requests |-> WholeGroup[r]]
  BY DEF WholeGroup
<1> DEFINE b == WholeGroup
<1>4. b = [r \in Requests |-> b[r]] /\ \A r \in Requests : b[r] \in Lists \cup {None}
  BY <1>2, <1>3
<1> HIDE DEF b
<1>5. b \in Boards
  BY <1>4 DEF Boards
<1> QED BY <1>5 DEF b

\* A worker alone is the whole group.
LEMMA AloneIsWhole ==
    ASSUME PipelineTyped, deployment.tp = 1
    PROVE  WholeGroup = captured[1]
<1>1. Workers = {1} /\ 1 \in Workers
  BY Group
<1>2. ASSUME NEW r \in Requests PROVE WholeGroup[r] = captured[1][r]
  <2>1. CASE captured[1][r] = None
    BY <1>1, <2>1, WholeJoint
  <2>2. CASE captured[1][r] # None
    <3>1. Joint(Workers, r) = captured[1][r]
      BY <1>1, <2>2, JointOne
    <3> QED BY <1>1, <2>2, <3>1, WholeJoint
  <2> QED BY <2>1, <2>2
<1>3. WholeGroup = [r \in Requests |-> WholeGroup[r]]
  BY DEF WholeGroup
<1>4. captured[1] = [r \in Requests |-> captured[1][r]]
  BY <1>1, CapturedBoard DEF Boards
<1> DEFINE a == captured[1]
           b == WholeGroup
<1>5. b = [r \in Requests |-> b[r]] /\ a = [r \in Requests |-> a[r]] /\ \A r \in Requests : b[r] = a[r]
  BY <1>2, <1>3, <1>4
<1> HIDE DEF a, b
<1>6. b = a
  BY <1>5
<1> QED BY <1>6 DEF a, b

---------------------------------------------------------------------------
(* The steps.                                                              *)

LEMMA PipelineInit ==
    ASSUME Init
    PROVE  PipelineInv
<1>1. PipelineTyped
  <2>1. deployment \in Deployments /\ Accepts(deployment) /\ reported \in SUBSET Workers
    BY DEF Init
  <2>2. captured \in [Workers -> [Requests -> Captures \cup {None}]]
    BY DEF Init
  <2>3. before \in [Keys -> Averages \cup {None}]
    BY RelevancesAssumption DEF Init
  <2> QED BY <2>1, <2>2, <2>3 DEF PipelineTyped
<1>2. AsReported /\ EmaKept
  BY DEF Init, AsReported, EmaKept
<1> QED BY <1>1, <1>2 DEF PipelineInv

\* What a group of workers makes of a request does not change while their captures do not.
LEMMA JointKept ==
    ASSUME deployment' = deployment, NEW B, \A v \in B : captured'[v] = captured[v], NEW meta, NEW r
    PROVE  Gathered(meta, B, r)' <=> Gathered(meta, B, r)
<1>1. Scorers(B, r)' = Scorers(B, r) /\ HeadsPerWorker' = HeadsPerWorker
  BY DEF Scorers, HeadsPerWorker
<1>2. ASSUME NEW A \in SUBSET B PROVE Joint(A, r)' = Joint(A, r)
  <2>1. Common(A, r)' = Common(A, r)
    BY DEF Common
  <2>2. ASSUME NEW k PROVE JointScore(A, r, k)' = JointScore(A, r, k)
    <3>1. [v \in A |-> captured'[v][r][k]] = [v \in A |-> captured[v][r][k]]
      OBVIOUS
    <3>2. {captured'[v][r][k] : v \in A} = {captured[v][r][k] : v \in A}
      OBVIOUS
    <3> QED BY <3>1, <3>2 DEF JointScore
  <2> QED BY <2>1, <2>2 DEF Joint
<1>3. Scorers(B, r) \in SUBSET B
  BY DEF Scorers
<1> QED BY <1>1, <1>2, <1>3 DEF Gathered

LEMMA CaptureKeeps ==
    ASSUME PipelineInv, NEW w \in Workers, Capture(w)
    PROVE  PipelineInv'
<1>1. /\ w \notin reported
      /\ UNCHANGED <<deployment, reported, aggregated, before, ema, applied>>
  BY DEF Capture
<1>0. PICK reqs \in SUBSET Batch, summaries \in Pools :
          \E score \in [reqs -> [summaries -> Scores]] :
              captured' = [captured EXCEPT ![w] =
                  [r \in Requests |-> IF r \in reqs THEN score[r] ELSE None]]
  BY DEF Capture
<1>2. PICK score \in [reqs -> [summaries -> Scores]] :
          captured' = [captured EXCEPT ![w] =
              [r \in Requests |-> IF r \in reqs THEN score[r] ELSE None]]
  BY <1>0
<1>3. Workers' = Workers
  BY <1>1 DEF Workers
<1>4. PipelineTyped'
  <2> DEFINE new == [r \in Requests |-> IF r \in reqs THEN score[r] ELSE None]
  <2>1. new \in [Requests -> Captures \cup {None}]
    <3>1. \A r \in reqs : score[r] \in Captures
      BY DEF Captures
    <3> QED BY <3>1
  <2>2. captured' = [captured EXCEPT ![w] = new]
    BY <1>2
  <2> HIDE DEF new
  <2>3. captured' \in [Workers -> [Requests -> Captures \cup {None}]]
    BY <2>1, <2>2 DEF PipelineInv, PipelineTyped
  <2>4. Accepts(deployment')
    BY <1>1 DEF PipelineInv, PipelineTyped
  <2> QED BY <1>1, <1>3, <2>3, <2>4 DEF PipelineInv, PipelineTyped
<1>5. AsReported'
  <2>1. CASE reported = {}
    BY <1>1, <2>1 DEF AsReported
  <2>2. CASE reported # {}
    <3>1. deployment.tp # 1
      BY <1>1, <2>2, Group DEF PipelineInv, PipelineTyped
    <3>2. \A v \in reported : captured'[v] = captured[v]
      BY <1>1, <1>2 DEF PipelineInv, PipelineTyped
    <3>3. ASSUME NEW r \in Requests PROVE Gathered(aggregated, reported, r)'
      <4>1. PICK meta : meta = aggregated
        OBVIOUS
      <4>2. PICK B : B = reported
        OBVIOUS
      <4>3. Gathered(meta, B, r)
        BY <2>2, <3>1, <4>1, <4>2 DEF PipelineInv, AsReported
      <4>4. Gathered(meta, B, r)'
        BY <1>1, <3>2, <4>2, <4>3, JointKept
      <4>5. meta = aggregated' /\ B = reported'
        BY <1>1, <4>1, <4>2
      <4> QED BY <4>4, <4>5
    <3> QED BY <1>1, <2>2, <3>1, <3>3 DEF PipelineInv, AsReported, NoUpdates
  <2> QED BY <2>1, <2>2
<1>6. EmaKept'
  <2>1. ~applied /\ ema = before
    BY <1>1 DEF PipelineInv, EmaKept
  <2> QED BY <1>1, <2>1 DEF EmaKept
<1> QED BY <1>4, <1>5, <1>6 DEF PipelineInv

LEMMA ReportKeeps ==
    ASSUME PipelineInv, NEW w \in Workers, Report(w)
    PROVE  PipelineInv'
<1>1. /\ w \notin reported /\ reported' = reported \cup {w}
      /\ UNCHANGED <<deployment, captured, before, ema, applied>>
  BY DEF Report
<1>2. Workers' = Workers
  BY <1>1 DEF Workers
<1>3. PipelineTyped'
  BY <1>1, <1>2 DEF PipelineInv, PipelineTyped, Accepts
<1>4. AsReported'
  <2>1. CASE deployment.tp = 1
    <3>1. Workers = {1} /\ reported = {} /\ w = 1
      BY <1>1, <2>1, Group DEF PipelineInv, PipelineTyped
    <3>2. aggregated' = WorkerMeta(1)
      BY <3>1 DEF Report
    <3>3. WorkerMeta(1)' = WorkerMeta(1)
      BY <1>1 DEF WorkerMeta, Compacts, HeadsPerWorker
    <3> QED BY <1>1, <2>1, <3>2, <3>3 DEF AsReported
  <2>2. CASE deployment.tp # 1
    <3>1. /\ WorkerMeta(w).updates = NoUpdates /\ WorkerMeta(w).contributors = 1
          /\ \A r \in Requests : Gathered(WorkerMeta(w), {w}, r)
      BY <2>2, FirstGathered DEF PipelineInv
    <3>2. IsFiniteSet(reported) /\ Cardinality(reported) \in Nat
          /\ Cardinality(reported \cup {w}) = Cardinality(reported) + 1
      BY <1>1, Group, FS_Subset, FS_AddElement, FS_CardinalityType DEF PipelineInv, PipelineTyped
    <3>3. /\ aggregated'.updates = NoUpdates
          /\ aggregated'.contributors = Cardinality(reported')
          /\ \A r \in Requests : Gathered(aggregated', reported \cup {w}, r)
      <4>1. CASE reported = {}
        <5>1. aggregated' = WorkerMeta(w) /\ reported \cup {w} = {w}
          BY <4>1 DEF Report
        <5>2. Cardinality({w}) = 1
          BY FS_Singleton
        <5> QED BY <1>1, <3>1, <5>1, <5>2
      <4>2. CASE reported # {}
        <5>1. aggregated' = Aggregate(aggregated, WorkerMeta(w))
          BY <4>2 DEF Report
        <5>2. /\ aggregated.updates = NoUpdates
              /\ aggregated.contributors = Cardinality(reported)
              /\ \A r \in Requests : Gathered(aggregated, reported, r)
          BY <2>2, <4>2 DEF PipelineInv, AsReported
        <5>3. \A r \in Requests : Gathered(Aggregate(aggregated, WorkerMeta(w)), reported \cup {w}, r)
          <6> TAKE r \in Requests
          <6>1. reported \in SUBSET Workers /\ w \in Workers \ reported /\ PipelineTyped
            BY <1>1 DEF PipelineInv, PipelineTyped
          <6> QED BY <2>2, <5>2, <6>1, NextGathered
        <5>4. /\ Aggregate(aggregated, WorkerMeta(w)).updates = NoUpdates
              /\ Aggregate(aggregated, WorkerMeta(w)).contributors = Cardinality(reported) + 1
          BY <3>1, <5>2 DEF Aggregate, Count
        <5> QED BY <1>1, <3>2, <5>1, <5>3, <5>4
      <4> QED BY <4>1, <4>2
    <3>4. ASSUME NEW r \in Requests PROVE Gathered(aggregated, reported, r)'
      <4>1. PICK meta : meta = aggregated'
        OBVIOUS
      <4>2. PICK B : B = reported'
        OBVIOUS
      <4>3. Gathered(meta, B, r)
        BY <1>1, <3>3, <4>1, <4>2
      <4>4. Gathered(meta, B, r)'
        BY <1>1, <4>3, JointKept
      <4> QED BY <4>1, <4>2, <4>4
    <3> QED BY <1>1, <2>2, <3>3, <3>4 DEF AsReported, NoUpdates
  <2> QED BY <2>1, <2>2
<1>5. EmaKept'
  <2>1. ~applied /\ ema = before
    BY <1>1 DEF PipelineInv, PipelineTyped, EmaKept
  <2> QED BY <1>1, <2>1 DEF EmaKept
<1> QED BY <1>3, <1>4, <1>5 DEF PipelineInv

LEMMA UpdateKeeps ==
    ASSUME PipelineInv, UpdateConnectorOutput
    PROVE  PipelineInv'
<1> DEFINE complete == CompleteScores(aggregated)
<1>1. /\ reported = Workers /\ ~applied /\ applied' = TRUE
      /\ UNCHANGED <<deployment, captured, reported, aggregated, before>>
      /\ ema' = IF aggregated.updates # NoUpdates
                THEN [k \in Keys |-> Apply(aggregated.updates[k], ema[k])]
                ELSE IF Cardinality(Scored(complete)) > 1
                THEN [k \in Keys |-> Apply(Composed(complete)[k], ema[k])]
                ELSE OneByOne(complete, ema)
  BY DEF UpdateConnectorOutput
<1>2. PipelineTyped /\ AsReported /\ ema = before /\ before \in [Keys -> Averages \cup {None}]
  BY <1>1 DEF PipelineInv, PipelineTyped, EmaKept
<1>3. Workers' = Workers /\ WholeGroup' = WholeGroup
  BY <1>1 DEF Workers, WholeGroup
<1>4. PipelineTyped'
  BY <1>1, <1>2, <1>3 DEF PipelineTyped, Accepts
<1>5. AsReported'
  <2>1. ASSUME NEW r \in Requests, Gathered(aggregated, reported, r)
        PROVE  Gathered(aggregated, reported, r)'
    <3>1. PICK meta : meta = aggregated
      OBVIOUS
    <3>2. PICK B : B = reported
      OBVIOUS
    <3>3. Gathered(meta, B, r)'
      BY <1>1, <2>1, <3>1, <3>2, JointKept
    <3> QED BY <1>1, <3>1, <3>2, <3>3
  <2>2. WorkerMeta(1)' = WorkerMeta(1)
    BY <1>1 DEF WorkerMeta, Compacts, HeadsPerWorker
  <2> QED BY <1>1, <1>2, <2>1, <2>2 DEF AsReported, NoUpdates
<1>6. ASSUME NEW scores \in Boards
      PROVE  [k \in Keys |-> Apply(Composed(scores)[k], before[k])] = OneByOne(scores, before)
  <2>1. \A k \in Keys : Apply(Composed(scores)[k], before[k]) = OneByOne(scores, before)[k]
    BY <1>2, ComposedAsObserved
  <2>2. OneByOne(scores, before) = [k \in Keys |-> OneByOne(scores, before)[k]]
    BY DEF OneByOne
  <2> QED BY <2>1, <2>2
<1> HIDE DEF complete
<1>7. ema' = OneByOne(WholeGroup, before)
  <2>1. CASE aggregated.updates # NoUpdates
    <3>1. ema' = [k \in Keys |-> Apply(aggregated.updates[k], before[k])]
      BY <1>1, <1>2, <2>1
    <3>2. deployment.tp = 1 /\ aggregated = WorkerMeta(1) /\ 1 \in Workers
      <4>1. reported # {}
        BY <1>1, <1>2, Group, FS_EmptySet
      <4>2. deployment.tp = 1
        BY <1>2, <2>1, <4>1 DEF AsReported
      <4> QED BY <1>2, <4>1, <4>2, Group DEF AsReported
    <3>3. aggregated.updates = Composed(captured[1])
      BY <2>1, <3>2 DEF WorkerMeta
    <3>4. captured[1] \in Boards /\ WholeGroup = captured[1]
      BY <1>2, <3>2, CapturedBoard, AloneIsWhole
    <3>5. [k \in Keys |-> Apply(Composed(captured[1])[k], before[k])] = OneByOne(captured[1], before)
      BY <1>6, <3>4
    <3> QED BY <3>1, <3>3, <3>4, <3>5
  <2>2. CASE aggregated.updates = NoUpdates
    <3>1. complete = WholeGroup
      BY <1>1, <1>2, <2>2, CompleteIsWhole DEF complete
    <3>2. [k \in Keys |-> Apply(Composed(complete)[k], before[k])] = OneByOne(complete, before)
      BY <1>2, <1>6, <3>1, WholeBoard
    <3> QED BY <1>1, <1>2, <2>2, <3>1, <3>2
  <2> QED BY <2>1, <2>2
<1>8. EmaKept'
  BY <1>1, <1>3, <1>7 DEF EmaKept
<1> QED BY <1>4, <1>5, <1>8 DEF PipelineInv

LEMMA StutterKeeps ==
    ASSUME PipelineInv, UNCHANGED vars
    PROVE  PipelineInv'
<1>1. UNCHANGED <<deployment, captured, reported, aggregated, before, ema, applied>>
  BY DEF vars
<1>2. Workers' = Workers /\ WholeGroup' = WholeGroup /\ WorkerMeta(1)' = WorkerMeta(1)
  BY <1>1 DEF Workers, WholeGroup, WorkerMeta, Compacts, HeadsPerWorker
<1>3. PipelineTyped'
  BY <1>1, <1>2 DEF PipelineInv, PipelineTyped, Accepts
<1>4. ASSUME NEW r \in Requests, Gathered(aggregated, reported, r)
      PROVE  Gathered(aggregated, reported, r)'
  <2>1. PICK meta : meta = aggregated
    OBVIOUS
  <2>2. PICK B : B = reported
    OBVIOUS
  <2>3. Gathered(meta, B, r)'
    BY <1>1, <1>4, <2>1, <2>2, JointKept
  <2> QED BY <1>1, <2>1, <2>2, <2>3
<1>5. AsReported'
  BY <1>1, <1>2, <1>4 DEF PipelineInv, AsReported, NoUpdates
<1>6. EmaKept'
  BY <1>1, <1>2 DEF PipelineInv, EmaKept
<1> QED BY <1>3, <1>5, <1>6 DEF PipelineInv

\* Every step of the pipeline keeps the invariant.
LEMMA PipelineCorrect == Spec => []PipelineInv
<1>1. Init => PipelineInv
  BY PipelineInit
<1>2. PipelineInv /\ [Next]_vars => PipelineInv'
  BY CaptureKeeps, ReportKeeps, UpdateKeeps, StutterKeeps DEF Next
<1> QED BY <1>1, <1>2, PTL DEF Spec

---------------------------------------------------------------------------
(* What follows.                                                           *)

\* The workers of a group can always be aggregated, in any order.
THEOREM NeverRefusedHolds == Spec => []NeverRefused
<1>1. PipelineInv => NeverRefused
  <2> SUFFICES ASSUME PipelineInv, reported # {}, NEW w \in Workers \ reported
               PROVE  Aggregable(aggregated, WorkerMeta(w))
    BY DEF NeverRefused
  <2>1. deployment.tp # 1
    BY Group DEF PipelineInv, PipelineTyped
  <2>2. aggregated.updates = NoUpdates
    BY <2>1 DEF PipelineInv, AsReported
  <2>3. WorkerMeta(w).updates = NoUpdates
    BY <2>1, FirstGathered DEF PipelineInv
  <2> QED BY <2>2, <2>3 DEF Aggregable
<1> QED BY <1>1, PipelineCorrect, PTL

\* Whatever the order the metadata came in, what is complete is what the group says.
THEOREM AggregationCorrect == Spec => []AggregatesExactly
<1>1. PipelineInv => AggregatesExactly
  BY CompleteIsWhole DEF PipelineInv, AggregatesExactly
<1> QED BY <1>1, PipelineCorrect, PTL

\* Composed or one by one, a step changes relevance as observing the group does.
THEOREM RelevanceCorrect == Spec => []AppliedAsObserved
<1>1. PipelineInv => AppliedAsObserved
  BY DEF PipelineInv, EmaKept, AppliedAsObserved
<1> QED BY <1>1, PipelineCorrect, PTL

=================================================================================
