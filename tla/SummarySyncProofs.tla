---------------------------- MODULE SummarySyncProofs ----------------------------
(***************************************************************************)
(* Proofs about SummarySync, for any keys, capacity, jobs and lag: the     *)
(* stack of a worker follows its summaries, and its summaries follow the   *)
(* tier.                                                                   *)
(*                                                                         *)
(* What the scheduler tells and the worker has not yet heard stands in a   *)
(* line of packets: packet 0 is what the worker has received, then comes   *)
(* the metadata under way, and last what the scheduler gathers for the     *)
(* next.  The invariants are about this line: which notices stand behind   *)
(* which layouts, and what the worker will know after each packet.         *)
(***************************************************************************)
EXTENDS SummarySync, FiniteSetTheorems, SequenceTheorems, TLAPS

Packets == [jobs : SUBSET Jobs, layouts : [Jobs -> Seq(Keys) \cup {None}],
            evicted : SUBSET Keys, reset : BOOLEAN]
BlankPacket == [jobs |-> {}, layouts |-> NoLayout, evicted |-> {}, reset |-> FALSE]

Taken == [jobs |-> received, layouts |-> worker.jobBlocks, evicted |-> {}, reset |-> FALSE]
Gathered == [jobs |-> unsent, layouts |-> pendingJobBlocks, evicted |-> pendingEvicted,
             reset |-> resetPending]
End  == Len(metadata) + 1
Line == [i \in 0 .. End |->
            IF i = 0 THEN Taken ELSE IF i = End THEN Gathered ELSE metadata[i]]

LayoutKeys(layouts, j) == IF layouts[j] = None THEN {} ELSE Range(layouts[j])
KeysOf(layouts) == UNION {LayoutKeys(layouts, j) : j \in Jobs}

\* No reset stands behind packet i.
NoResetAfter(i) == \A q \in i + 1 .. End : ~Line[q].reset

---------------------------------------------------------------------------
SyncTyped ==
    /\ ref \in [Keys -> References] /\ pendingEvicted \subseteq Keys
    /\ metadata \in Seq(Packets)
    /\ storeKeys \in [Jobs -> SUBSET Keys]
    /\ pendingJobBlocks \in [Jobs -> Seq(Keys) \cup {None}]
    /\ unsent \subseteq Jobs /\ received \subseteq Jobs /\ submitted \subseteq Jobs
    /\ resetPending \in BOOLEAN /\ lossy \in BOOLEAN
    /\ Cardinality(Resident) <= Capacity

WorkerSound == StackConsistent /\ Len(worker.durable) <= Capacity

\* A job stands in one place, and a layout where its job does.
JobsPlaced ==
    /\ \A i, p \in 0 .. End : i # p => Line[i].jobs \cap Line[p].jobs = {}
    /\ \A i \in 0 .. End : Line[i].jobs \cap submitted = {}
    /\ \A i \in 0 .. End, j \in Jobs : Line[i].layouts[j] # None =>
          j \in Line[i].jobs /\ IsInjective(Line[i].layouts[j])

\* What a job stores is storing, and no other job stores it.
StoresApart ==
    /\ \A j \in Jobs : storeKeys[j] \subseteq Storing
    /\ \A i, j \in Jobs : i # j => storeKeys[i] \cap storeKeys[j] = {}
\* A layout is that of its job, unless a reset is under way behind it.
LayoutsLive ==
    \A i \in 0 .. End, j \in Jobs : NoResetAfter(i) /\ Line[i].layouts[j] # None =>
        Range(Line[i].layouts[j]) = storeKeys[j]
\* No notice of an eviction stands behind a layout that names the key, but for
\* a reset between them.
NoLateNotice ==
    \A i, p \in 0 .. End : i < p /\ (\A q \in i + 1 .. p : ~Line[q].reset) =>
        Line[p].evicted \cap KeysOf(Line[i].layouts) = {}

\* What the worker may have summaries of, and what it will after a packet.
Known == Summarised(worker) \cup KeysOf(worker.jobBlocks)
After(S, m) == (IF m.reset THEN {} ELSE S \ m.evicted) \cup KeysOf(m.layouts)
\* After each packet this fits into the tier, and in the end it is in the tier.
Fits(V) ==
    /\ Known \subseteq V[0]
    /\ \A i \in 1 .. End : After(V[i - 1], Line[i]) \subseteq V[i]
    /\ \A i \in 0 .. End : Cardinality(V[i]) <= Capacity
    /\ V[End] \subseteq Resident
ViewsFit == \E V \in [0 .. End -> SUBSET Keys] : Fits(V)

\* A key with a summary that nothing under way tells the worker to forget.
Lasting(k, i) == \A q \in i + 1 .. End : k \notin Line[q].evicted /\ ~Line[q].reset
ReadyKept ==
    \A k \in Keys : ref[k] \notin {None, -1} => k \in Summarised(worker) /\ Lasting(k, 0)
SubmittedKept ==
    \A j \in submitted : \A k \in storeKeys[j] : k \in Summarised(worker) /\ Lasting(k, 0)
UnderwayKept ==
    \A i \in 0 .. End : \A j \in Line[i].jobs : storeKeys[j] # {} =>
        /\ Line[i].layouts[j] # None
        /\ \A k \in storeKeys[j] : Lasting(k, i)
KeptInv == ~lossy => ViewsFit /\ ReadyKept /\ SubmittedKept /\ UnderwayKept

SyncInv ==
    /\ SyncTyped /\ WorkerSound /\ JobsPlaced
    /\ StoresApart /\ LayoutsLive /\ NoLateNotice /\ KeptInv

---------------------------------------------------------------------------
(* Sequences of keys, and their rows.                                      *)

LEMMA UpTo ==
    ASSUME NEW n \in Nat
    PROVE  IsFiniteSet(1 .. n) /\ Cardinality(1 .. n) = n
BY FS_Interval

\* Ascending(P) names every element of P once.
LEMMA AscendingOnce ==
    ASSUME NEW P \in SUBSET Nat, IsFiniteSet(P)
    PROVE  /\ Ascending(P) \in [1 .. Cardinality(P) -> P]
           /\ \A m, n \in 1 .. Cardinality(P) : Ascending(P)[m] = Ascending(P)[n] => m = n
           /\ \A i \in P : \E n \in 1 .. Cardinality(P) : Ascending(P)[n] = i
<1> DEFINE upTo(i) == {j \in P : j <= i}
           rank == [i \in P |-> Cardinality(upTo(i))]
           N == Cardinality(P)
<1>1. N \in Nat
  BY FS_CardinalityType
<1>2. \A i \in P : /\ IsFiniteSet(upTo(i)) /\ rank[i] = Cardinality(upTo(i))
                   /\ rank[i] \in Nat /\ rank[i] <= N
  <2> TAKE i \in P
  <2>1. upTo(i) \in SUBSET P
    OBVIOUS
  <2>2. IsFiniteSet(upTo(i)) /\ Cardinality(upTo(i)) <= N
    BY <2>1, FS_Subset
  <2> QED BY <2>2, FS_CardinalityType
<1>3. \A i \in P : rank[i] \in 1 .. N
  <2> TAKE i \in P
  <2>1. i \in upTo(i)
    OBVIOUS
  <2>2. rank[i] # 0
    BY <1>2, <2>1, FS_EmptySet
  <2> QED BY <1>1, <1>2, <2>2
<1>4. ASSUME NEW i \in P, NEW j \in P, i < j PROVE rank[i] # rank[j]
  <2>1. upTo(i) \in SUBSET upTo(j)
    <3>1. \A x \in P : x <= i => x <= j
      BY <1>4
    <3> QED BY <3>1
  <2>2. j \in upTo(j) /\ j \notin upTo(i)
    BY <1>4
  <2>3. Cardinality(upTo(i)) # Cardinality(upTo(j))
    BY <1>2, <2>1, <2>2, FS_Subset
  <2> QED BY <1>2, <2>3
<1>5. \A i, j \in P : rank[i] = rank[j] => i = j
  BY <1>4
<1>6. rank \in Injection(P, 1 .. N)
  BY <1>3, <1>5 DEF Injection, IsInjective
<1>7. rank \in Surjection(P, 1 .. N)
  <2>1. IsFiniteSet(1 .. N) /\ Cardinality(1 .. N) = N
    BY <1>1, FS_Interval
  <2> QED BY <1>6, <2>1, FS_Injection
<1>8. \A n \in 1 .. N : \E i \in P : rank[i] = n
  BY <1>7 DEF Surjection
<1>9. \A n \in 1 .. N : Ascending(P)[n] \in P /\ rank[Ascending(P)[n]] = n
  <2> TAKE n \in 1 .. N
  <2>1. Ascending(P)[n] = CHOOSE i \in P : Cardinality(upTo(i)) = n
    BY DEF Ascending
  <2>2. \E i \in P : Cardinality(upTo(i)) = n
    BY <1>8, <1>2
  <2> QED BY <1>2, <2>1, <2>2
<1>10. Ascending(P) \in [1 .. N -> P]
  BY <1>9 DEF Ascending
<1>11. \A i \in P : Ascending(P)[rank[i]] = i
  BY <1>3, <1>5, <1>9
<1> HIDE DEF rank, N
<1>12. Ascending(P) \in [1 .. N -> P] /\ (\A m, n \in 1 .. N : Ascending(P)[m] = Ascending(P)[n] => m = n)
       /\ \A i \in P : \E n \in 1 .. N : Ascending(P)[n] = i
  BY <1>3, <1>9, <1>10, <1>11
<1> QED BY <1>12 DEF N

\* The rows left when some positions are taken out: the rest, each once.
LEMMA WithoutKeeps ==
    ASSUME NEW S, NEW s \in Seq(S), IsInjective(s), NEW keys
    PROVE  /\ Without(s, keys) \in Seq(S) /\ IsInjective(Without(s, keys))
           /\ Range(Without(s, keys)) = Range(s) \ keys
           /\ Len(Without(s, keys)) = Cardinality({i \in 1 .. Len(s) : s[i] \notin keys})
<1> DEFINE P == {i \in 1 .. Len(s) : s[i] \notin keys}
           left == Ascending(P)
           t == Without(s, keys)
<1>1. P \in SUBSET Nat /\ IsFiniteSet(P) /\ Cardinality(P) \in Nat
  <2>1. Len(s) \in Nat /\ P \in SUBSET (1 .. Len(s))
    OBVIOUS
  <2>2. IsFiniteSet(1 .. Len(s))
    BY <2>1, FS_Interval
  <2> QED BY <2>1, <2>2, FS_Subset, FS_CardinalityType
<1>2. /\ left \in [1 .. Cardinality(P) -> P]
      /\ \A m, n \in 1 .. Cardinality(P) : left[m] = left[n] => m = n
      /\ \A i \in P : \E n \in 1 .. Cardinality(P) : left[n] = i
  <2> HIDE DEF P
  <2> QED BY <1>1, AscendingOnce
<1>3. Len(left) = Cardinality(P)
  BY <1>1, <1>2
<1>4. t = [n \in 1 .. Cardinality(P) |-> s[left[n]]]
  BY <1>3 DEF Without
<1> HIDE DEF left, t
<1>5. \A n \in 1 .. Cardinality(P) : left[n] \in P
  BY <1>2
<1>6. t \in Seq(S) /\ Len(t) = Cardinality(P)
  BY <1>1, <1>4, <1>5
<1>7. IsInjective(t)
  BY <1>2, <1>4, <1>5 DEF IsInjective
<1>8. Range(t) = Range(s) \ keys
  <2>1. \A x \in Range(t) : x \in Range(s) \ keys
    BY <1>4, <1>5 DEF Range
  <2>2. ASSUME NEW x \in Range(s), x \notin keys PROVE x \in Range(t)
    <3>1. PICK i \in 1 .. Len(s) : s[i] = x
      BY DEF Range
    <3>2. PICK n \in 1 .. Cardinality(P) : left[n] = i
      BY <1>2, <2>2, <3>1
    <3> QED BY <1>4, <3>1, <3>2 DEF Range
  <2> QED BY <2>1, <2>2
<1> QED BY <1>6, <1>7, <1>8 DEF t

\* Every row has one index, and every key with an index its row.
LEMMA IndexFinds ==
    ASSUME NEW s \in Seq(Keys), IsInjective(s)
    PROVE  /\ IndexOf(s) \in [Keys -> Nat]
           /\ \A i \in 1 .. Len(s) : IndexOf(s)[s[i]] = i
           /\ \A k \in Keys : IndexOf(s)[k] # 0 =>
                 IndexOf(s)[k] \in 1 .. Len(s) /\ s[IndexOf(s)[k]] = k
           /\ \A k \in Keys : IndexOf(s)[k] # 0 <=> k \in Range(s)
<1>1. ASSUME NEW k \in Keys, NEW i \in 1 .. Len(s), s[i] = k
      PROVE  IndexOf(s)[k] \in 1 .. Len(s) /\ s[IndexOf(s)[k]] = k
  <2>1. IndexOf(s)[k] = CHOOSE n \in 1 .. Len(s) : s[n] = k
    BY <1>1 DEF IndexOf
  <2> QED BY <1>1, <2>1
<1>2. ASSUME NEW k \in Keys, k \notin Range(s)
      PROVE  IndexOf(s)[k] = 0
  BY <1>2 DEF IndexOf, Range
<1>3. \A k \in Keys : k \in Range(s) => IndexOf(s)[k] \in 1 .. Len(s) /\ s[IndexOf(s)[k]] = k
  BY <1>1 DEF Range
<1>4. \A i \in 1 .. Len(s) : s[i] \in Range(s) /\ s[i] \in Keys
  BY DEF Range
<1>5. IndexOf(s) = [k \in Keys |-> IndexOf(s)[k]]
  BY DEF IndexOf
<1> HIDE DEF IndexOf
<1>6. \A k \in Keys : IndexOf(s)[k] \in Nat
  BY <1>2, <1>3
<1>7. \A k \in Keys : k \in Range(s) => IndexOf(s)[k] # 0
  BY <1>3
<1>8. \A i \in 1 .. Len(s) : IndexOf(s)[s[i]] = i
  BY <1>3, <1>4 DEF IsInjective
<1> QED BY <1>2, <1>3, <1>5, <1>6, <1>7, <1>8

\* SetToSeq(S) names every element of S once.
LEMMA SetToSeqOnce ==
    ASSUME NEW S, IsFiniteSet(S)
    PROVE  /\ SetToSeq(S) \in Seq(S) /\ IsInjective(SetToSeq(S)) /\ Range(SetToSeq(S)) = S
           /\ Len(SetToSeq(S)) = Cardinality(S)
<1> DEFINE N == Cardinality(S)
           f == SetToSeq(S)
<1>1. N \in Nat /\ ExistsBijection(1 .. N, S)
  BY FS_CardinalityType
<1>2. \E g \in [1 .. N -> S] : IsInjective(g)
  BY <1>1 DEF ExistsBijection, Bijection, Injection
<1>3. f \in [1 .. N -> S] /\ IsInjective(f)
  BY <1>2 DEF SetToSeq
<1> HIDE DEF f
<1>4. f \in Surjection(1 .. N, S)
  <2>1. f \in Injection(1 .. N, S)
    BY <1>3 DEF Injection
  <2>2. Cardinality(1 .. N) = N
    BY <1>1, FS_Interval
  <2> QED BY <2>1, <2>2, FS_Injection
<1>5. Range(f) = S
  BY <1>3, <1>4 DEF Surjection, Range
<1>6. f \in Seq(S) /\ Len(f) = N
  BY <1>1, <1>3
<1> QED BY <1>3, <1>5, <1>6 DEF f

LEMMA InjectiveLen ==
    ASSUME NEW S, NEW s \in Seq(S), IsInjective(s)
    PROVE  IsFiniteSet(Range(s)) /\ Cardinality(Range(s)) = Len(s)
<1>1. s \in Bijection(1 .. Len(s), Range(s))
  <2>1. s \in [1 .. Len(s) -> Range(s)]
    BY DEF Range
  <2>2. \A k \in Range(s) : \E i \in 1 .. Len(s) : s[i] = k
    BY DEF Range
  <2> QED BY <2>1, <2>2 DEF Bijection, Injection, Surjection
<1>2. IsFiniteSet(1 .. Len(s)) /\ Cardinality(1 .. Len(s)) = Len(s)
  <2>1. Len(s) \in Nat
    OBVIOUS
  <2> QED BY <2>1, UpTo
<1> QED BY <1>1, <1>2, FS_Bijection DEF ExistsBijection

\* Two lists without a key in common make one.
LEMMA ConcatOnce ==
    ASSUME NEW s \in Seq(Keys), IsInjective(s), NEW t \in Seq(Keys), IsInjective(t),
           Range(s) \cap Range(t) = {}
    PROVE  /\ s \o t \in Seq(Keys) /\ IsInjective(s \o t)
           /\ Range(s \o t) = Range(s) \cup Range(t)
<1> DEFINE m == Len(s)
           n == Len(t)
           u == s \o t
<1>1. m \in Nat /\ n \in Nat /\ u \in Seq(Keys) /\ Len(u) = m + n
  OBVIOUS
<1>2. /\ \A i \in 1 .. m : u[i] = s[i] /\ u[i] \in Range(s)
      /\ \A i \in 1 .. m + n : i > m => u[i] = t[i - m] /\ i - m \in 1 .. n /\ u[i] \in Range(t)
  BY DEF Range
<1> HIDE DEF u
<1>3. ASSUME NEW i \in 1 .. m + n, NEW j \in 1 .. m + n, u[i] = u[j] PROVE i = j
  <2>1. CASE i <= m /\ j <= m
    <3>1. i \in 1 .. m /\ j \in 1 .. m
      BY <1>1, <2>1
    <3>2. s[i] = s[j]
      BY <1>2, <1>3, <3>1
    <3> QED BY <3>1, <3>2 DEF IsInjective
  <2>2. CASE i > m /\ j > m
    <3>1. i - m = j - m
      BY <1>1, <1>2, <1>3, <2>2 DEF IsInjective
    <3> HIDE DEF m, n
    <3> QED BY <1>1, <3>1
  <2>3. CASE i <= m /\ j > m
    <3>1. u[i] \in Range(s) /\ u[j] \in Range(t)
      BY <1>1, <1>2, <2>3
    <3> QED BY <1>3, <3>1
  <2>4. CASE i > m /\ j <= m
    <3>1. u[j] \in Range(s) /\ u[i] \in Range(t)
      BY <1>1, <1>2, <2>4
    <3> QED BY <1>3, <3>1
  <2> QED BY <1>1, <2>1, <2>2, <2>3, <2>4
<1>4. Range(u) \subseteq Range(s) \cup Range(t)
  BY <1>1, <1>2 DEF Range
<1>5. Range(s) \subseteq Range(u)
  BY <1>1, <1>2 DEF Range
<1>6. ASSUME NEW k \in Range(t) PROVE k \in Range(u)
  <2>1. PICK i \in 1 .. n : t[i] = k
    BY DEF Range
  <2>2. m + i \in 1 .. m + n /\ m + i > m /\ m + i - m = i
    BY <1>1
  <2>3. u[m + i] = k
    BY <1>2, <2>1, <2>2
  <2> QED BY <1>1, <2>2, <2>3 DEF Range
<1>7. IsInjective(u)
  BY <1>1, <1>3 DEF IsInjective
<1> QED BY <1>1, <1>4, <1>5, <1>6, <1>7 DEF u

---------------------------------------------------------------------------
(* The stack of a worker.                                                  *)

StackShape(w) ==
    /\ w \in Worker /\ IsInjective(w.durable) /\ IsInjective(w.stackKeys)
    /\ Len(w.stackRows) = Len(w.stackKeys)
    /\ w.index = IndexOf(w.stackKeys)
    /\ w.insert \subseteq Summarised(w)
Follows(w) ==
    \A k \in Keys :
        /\ HasRow(w, k) /\ k \notin w.remove =>
              /\ k \in Summarised(w) \ w.insert
              /\ w.stackRows[w.index[k]] = "current"
        /\ k \in Summarised(w) => k \in w.insert \/ (HasRow(w, k) /\ k \notin w.remove)
DirtyIfBehind(w) == ~w.dirty => w.insert = {} /\ w.remove = {}
StackInv(w) == StackShape(w) /\ Follows(w) /\ DirtyIfBehind(w)

LEMMA StackIs == StackConsistent <=> StackInv(worker)
BY DEF StackConsistent, StackInv, StackShape, Follows, DirtyIfBehind

LEMMA NewFollows == StackInv(NewWorker)
<1>1. NewWorker \in Worker
  BY DEF NewWorker, Worker
<1>2. IndexOf(<<>>) = [k \in Keys |-> 0]
  BY DEF IndexOf
<1>3. IsInjective(NewWorker.durable) /\ IsInjective(NewWorker.stackKeys)
  BY DEF IsInjective, NewWorker
<1>4. StackShape(NewWorker)
  BY <1>1, <1>2, <1>3 DEF StackShape, NewWorker
<1>5. \A k : k \notin Summarised(NewWorker)
  BY DEF Summarised, NewWorker, Range
<1>6. Follows(NewWorker)
  BY <1>5 DEF Follows, HasRow, NewWorker
<1>7. DirtyIfBehind(NewWorker)
  BY DEF DirtyIfBehind, NewWorker
<1> QED BY <1>4, <1>6, <1>7 DEF StackInv

\* New layouts change nothing of the stack.
LEMMA LayoutsFollow ==
    ASSUME NEW w, StackInv(w), NEW blocks \in [Jobs -> Seq(Keys) \cup {None}]
    PROVE  StackInv([w EXCEPT !.jobBlocks = blocks])
<1> DEFINE v == [w EXCEPT !.jobBlocks = blocks]
<1>1. w \in Worker
  BY DEF StackInv, StackShape
<1>2. v \in Worker
  BY <1>1 DEF Worker
<1>3. /\ v.durable = w.durable /\ v.stackKeys = w.stackKeys /\ v.stackRows = w.stackRows
      /\ v.index = w.index /\ v.insert = w.insert /\ v.remove = w.remove /\ v.dirty = w.dirty
  BY <1>1 DEF Worker
<1> HIDE DEF v
<1>4. StackShape(v)
  BY <1>2, <1>3 DEF StackInv, StackShape, Summarised
<1>5. Follows(v)
  BY <1>3 DEF StackInv, Follows, Summarised, HasRow
<1>6. DirtyIfBehind(v)
  BY <1>3 DEF StackInv, DirtyIfBehind
<1> QED BY <1>4, <1>5, <1>6 DEF StackInv, v

\* Summaries go: those that have a row wait to be removed from the stack.
LEMMA RemovalFollows ==
    ASSUME NEW w, StackInv(w), NEW gone \in SUBSET Keys
    PROVE  LET v == MarkRemoved([w EXCEPT !.durable = Without(@, gone)], gone \cap Summarised(w))
           IN  /\ StackInv(v) /\ v.jobBlocks = w.jobBlocks
               /\ v.durable = Without(w.durable, gone)
               /\ Summarised(v) = Summarised(w) \ gone
<1> DEFINE u == [w EXCEPT !.durable = Without(@, gone)]
           out == gone \cap Summarised(w)
           v == MarkRemoved(u, out)
<1>1. w \in Worker /\ StackShape(w) /\ Follows(w) /\ DirtyIfBehind(w)
  BY DEF StackInv, StackShape
<1>2. /\ w.durable \in Seq(Keys) /\ IsInjective(w.durable)
      /\ w.insert \subseteq Keys /\ w.remove \subseteq Keys
      /\ w.stackKeys \in Seq(Keys) /\ w.index \in [Keys -> Nat]
  BY <1>1 DEF Worker, StackShape
<1>3. /\ Without(w.durable, gone) \in Seq(Keys) /\ IsInjective(Without(w.durable, gone))
      /\ Range(Without(w.durable, gone)) = Range(w.durable) \ gone
  BY <1>2, WithoutKeeps
<1>4. /\ u \in Worker /\ u.durable = Without(w.durable, gone) /\ u.jobBlocks = w.jobBlocks
      /\ u.stackKeys = w.stackKeys /\ u.stackRows = w.stackRows
      /\ u.index = w.index /\ u.insert = w.insert /\ u.remove = w.remove /\ u.dirty = w.dirty
  BY <1>1, <1>3 DEF Worker
<1>5. Summarised(u) = Summarised(w) \ gone
  BY <1>3, <1>4 DEF Summarised
<1> HIDE DEF u
<1>6. CASE out = {}
  <2>1. v = u /\ Summarised(u) = Summarised(w)
    BY <1>5, <1>6 DEF MarkRemoved
  <2>2. StackShape(u)
    BY <1>1, <1>3, <1>4, <2>1 DEF StackShape
  <2>3. Follows(u)
    BY <1>1, <1>4, <2>1 DEF Follows, HasRow
  <2>4. DirtyIfBehind(u)
    BY <1>1, <1>4 DEF DirtyIfBehind
  <2> QED BY <1>4, <1>5, <2>1, <2>2, <2>3, <2>4 DEF StackInv, u
<1>7. CASE out # {}
  <2>1. v = [u EXCEPT !.insert = @ \ out,
                      !.remove = @ \cup {k \in out : HasRow(u, k)},
                      !.dirty = TRUE]
    BY <1>7 DEF MarkRemoved
  <2>2. out \subseteq Keys
    OBVIOUS
  <2>3. /\ v \in Worker /\ v.durable = u.durable /\ v.jobBlocks = w.jobBlocks
        /\ v.stackKeys = w.stackKeys /\ v.stackRows = w.stackRows /\ v.index = w.index
        /\ v.insert = w.insert \ out /\ v.dirty = TRUE
        /\ v.remove = w.remove \cup {k \in out : HasRow(w, k)}
    BY <1>2, <1>4, <2>1, <2>2 DEF Worker, HasRow
  <2> HIDE DEF v, out
  <2>4. Summarised(v) = Summarised(w) \ gone
    BY <1>5, <2>3 DEF Summarised
  <2>5. StackShape(v)
    <3>1. v.insert \subseteq Summarised(v)
      BY <1>1, <2>3, <2>4 DEF StackShape, out
    <3> QED BY <1>1, <1>3, <1>4, <2>3, <3>1 DEF StackShape
  <2>6. Follows(v)
    <3> SUFFICES ASSUME NEW k \in Keys
                 PROVE  /\ HasRow(v, k) /\ k \notin v.remove =>
                              /\ k \in Summarised(v) \ v.insert
                              /\ v.stackRows[v.index[k]] = "current"
                        /\ k \in Summarised(v) =>
                              k \in v.insert \/ (HasRow(v, k) /\ k \notin v.remove)
      BY DEF Follows
    <3>1. HasRow(v, k) <=> HasRow(w, k)
      BY <2>3 DEF HasRow
    <3>2. /\ HasRow(w, k) /\ k \notin w.remove =>
                /\ k \in Summarised(w) \ w.insert
                /\ w.stackRows[w.index[k]] = "current"
          /\ k \in Summarised(w) => k \in w.insert \/ (HasRow(w, k) /\ k \notin w.remove)
      BY <1>1 DEF Follows
    <3> QED BY <2>3, <2>4, <3>1, <3>2 DEF out
  <2>7. DirtyIfBehind(v)
    BY <2>3 DEF DirtyIfBehind
  <2> QED BY <1>4, <2>3, <2>4, <2>5, <2>6, <2>7 DEF StackInv, v, u, out
<1> QED BY <1>6, <1>7

\* The cap takes the oldest summaries, exactly as many as there are too many.
LEMMA PruneFollows ==
    ASSUME NEW w, StackInv(w)
    PROVE  /\ StackInv(Prune(w)) /\ Prune(w).jobBlocks = w.jobBlocks
           /\ Summarised(Prune(w)) \subseteq Summarised(w)
           /\ Len(Prune(w).durable) <= Capacity
           /\ Cardinality(Summarised(w)) <= Capacity => Summarised(Prune(w)) = Summarised(w)
<1> DEFINE d == w.durable
           n == Len(d)
           overflow == n - Capacity
           pruned == Range(SubSeq(d, 1, overflow))
<1>1. d \in Seq(Keys) /\ IsInjective(d) /\ n \in Nat /\ Capacity \in Nat
  BY CapacityAssumption DEF StackInv, StackShape, Worker
<1>2. Cardinality(Summarised(w)) = n
  BY <1>1, InjectiveLen DEF Summarised
<1>3. CASE overflow <= 0
  <2>1. Prune(w) = w
    BY <1>3 DEF Prune
  <2>2. n <= Capacity
    BY <1>1, <1>3
  <2> QED BY <2>1, <2>2
<1>4. CASE overflow > 0
  <2>1. /\ SubSeq(d, 1, overflow) \in Seq(Keys) /\ Len(SubSeq(d, 1, overflow)) = overflow
        /\ \A i \in 1 .. overflow : SubSeq(d, 1, overflow)[i] = d[i]
        /\ overflow \in Nat /\ overflow <= n
    BY <1>1, <1>4
  <2>2. pruned = {d[i] : i \in 1 .. overflow}
    <3> DEFINE oldest == SubSeq(d, 1, overflow)
    <3>1. DOMAIN oldest = 1 .. overflow /\ \A i \in 1 .. overflow : oldest[i] = d[i]
      BY <2>1
    <3>2. pruned = {oldest[i] : i \in DOMAIN oldest}
      BY DEF Range
    <3> HIDE DEF oldest, pruned, overflow
    <3> QED BY <3>1, <3>2
  <2>3. pruned \subseteq Range(d) /\ pruned \in SUBSET Keys
    BY <1>1, <2>1, <2>2 DEF Range
  <2>4. Prune(w) = MarkRemoved([w EXCEPT !.durable = Without(@, pruned)], pruned \cap Summarised(w))
    <3>1. pruned \cap Summarised(w) = pruned
      BY <2>3 DEF Summarised
    <3>2. Prune(w) = MarkRemoved([w EXCEPT !.durable = Without(@, pruned)], pruned)
      BY <1>1, <1>4 DEF Prune
    <3> QED BY <3>1, <3>2
  <2> HIDE DEF pruned
  <2>5. /\ StackInv(Prune(w)) /\ Prune(w).jobBlocks = w.jobBlocks
        /\ Prune(w).durable = Without(d, pruned)
        /\ Summarised(Prune(w)) = Summarised(w) \ pruned
    BY <2>3, <2>4, RemovalFollows
  <2>6. Len(Without(d, pruned)) = Cardinality({i \in 1 .. n : d[i] \notin pruned})
    BY <1>1, WithoutKeeps
  <2>7. {i \in 1 .. n : d[i] \notin pruned} = overflow + 1 .. n
    <3>1. ASSUME NEW i \in 1 .. n PROVE d[i] \in pruned <=> i <= overflow
      <4>1. ASSUME d[i] \in pruned PROVE i <= overflow
        <5>1. PICK m \in 1 .. overflow : d[m] = d[i]
          BY <2>2, <4>1
        <5>2. m \in 1 .. n
          BY <1>1, <2>1
        <5>3. m = i
          BY <1>1, <5>1, <5>2 DEF IsInjective
        <5> QED BY <2>1, <5>3
      <4>2. ASSUME i <= overflow PROVE d[i] \in pruned
        BY <1>1, <2>1, <2>2, <4>2
      <4> QED BY <4>1, <4>2
    <3> QED BY <1>1, <2>1, <3>1
  <2>8. Cardinality(overflow + 1 .. n) = Capacity
    <3>1. overflow + 1 \in Int /\ n \in Int /\ overflow = n - Capacity
      BY <1>1, <2>1
    <3> HIDE DEF overflow, n
    <3>2. Cardinality(overflow + 1 .. n) =
            IF overflow + 1 > n THEN 0 ELSE n - (overflow + 1) + 1
      BY <3>1, FS_Interval
    <3>3. CASE Capacity = 0
      <4>1. overflow + 1 > n
        BY <3>1, <3>3
      <4> QED BY <3>2, <3>3, <4>1
    <3>4. CASE Capacity # 0
      <4>1. ~(overflow + 1 > n) /\ n - (overflow + 1) + 1 = Capacity
        BY <1>1, <3>1, <3>4
      <4> QED BY <3>2, <4>1
    <3> QED BY <3>3, <3>4
  <2>9. Len(Prune(w).durable) = Capacity
    BY <2>5, <2>6, <2>7, <2>8
  <2>10. ~(Cardinality(Summarised(w)) <= Capacity)
    BY <1>1, <1>2, <1>4
  <2> QED BY <1>1, <2>5, <2>9, <2>10
<1> QED BY <1>1, <1>3, <1>4

\* A store gives each of its keys a new summary, and each row of an older one
\* of these keys waits to be removed.
LEMMA StoreFollows ==
    ASSUME NEW w, StackInv(w), NEW j \in Jobs,
           w.jobBlocks[j] # None => IsInjective(w.jobBlocks[j])
    PROVE  LET v == SubmitStore(w, j)
               all == Summarised(w) \cup LayoutKeys(w.jobBlocks, j)
           IN  /\ StackInv(v) /\ v.jobBlocks = [w.jobBlocks EXCEPT ![j] = None]
               /\ Summarised(v) \subseteq all
               /\ Cardinality(all) <= Capacity => Summarised(v) = all
               /\ w.jobBlocks[j] = None => v = w
               /\ Len(w.durable) <= Capacity => Len(v.durable) <= Capacity
<1> DEFINE v == SubmitStore(w, j)
           layout == w.jobBlocks[j]
           keys == Range(layout)
           fresh == Without(layout, Summarised(w))
           rows == [i \in 1 .. Len(w.stackRows) |->
                      IF w.stackKeys[i] \in keys THEN "old" ELSE w.stackRows[i]]
           built == [w EXCEPT !.jobBlocks[j] = None, !.durable = @ \o fresh, !.stackRows = rows]
           u == MarkInserted(built, keys)
<1>1. w \in Worker /\ StackShape(w) /\ Follows(w) /\ DirtyIfBehind(w)
  BY DEF StackInv, StackShape
<1>2. CASE layout = None
  <2>1. v = w
    BY <1>2 DEF SubmitStore
  <2>2. w.jobBlocks = [w.jobBlocks EXCEPT ![j] = None]
    BY <1>1, <1>2 DEF Worker
  <2>3. LayoutKeys(w.jobBlocks, j) = {}
    BY <1>2 DEF LayoutKeys
  <2> QED BY <1>2, <2>1, <2>2, <2>3
<1>3. CASE layout # None
  <2>1. /\ layout \in Seq(Keys) /\ IsInjective(layout)
        /\ w.durable \in Seq(Keys) /\ IsInjective(w.durable)
        /\ w.insert \subseteq Keys /\ w.remove \subseteq Keys
        /\ w.stackKeys \in Seq(Keys) /\ IsInjective(w.stackKeys) /\ w.index \in [Keys -> Nat]
        /\ w.stackRows \in Seq({"current", "old"}) /\ Len(w.stackRows) = Len(w.stackKeys)
        /\ w.index = IndexOf(w.stackKeys)
    BY <1>1, <1>3 DEF Worker, StackShape
  <2>2. keys \subseteq Keys /\ LayoutKeys(w.jobBlocks, j) = keys
    BY <1>3, <2>1 DEF LayoutKeys, Range
  <2>3. fresh \in Seq(Keys) /\ IsInjective(fresh) /\ Range(fresh) = keys \ Summarised(w)
    BY <2>1, WithoutKeeps
  <2>4. /\ w.durable \o fresh \in Seq(Keys) /\ IsInjective(w.durable \o fresh)
        /\ Range(w.durable \o fresh) = Summarised(w) \cup keys
    <3>1. Range(w.durable) \cap Range(fresh) = {}
      BY <2>3 DEF Summarised
    <3> QED BY <2>1, <2>3, <3>1, ConcatOnce DEF Summarised
  <2>5. rows \in Seq({"current", "old"}) /\ Len(rows) = Len(w.stackKeys)
    <3>1. Len(w.stackRows) \in Nat /\ \A i \in 1 .. Len(w.stackRows) : rows[i] \in {"current", "old"}
      BY <2>1
    <3> QED BY <2>1, <3>1
  <2>6. v = Prune(u)
    BY <1>3 DEF SubmitStore
  <2> HIDE DEF fresh, rows, keys
  <2>7. built = [w EXCEPT !.jobBlocks = [@ EXCEPT ![j] = None],
                          !.durable = @ \o fresh, !.stackRows = rows]
    BY <1>1 DEF Worker
  <2>8. /\ built \in Worker /\ built.jobBlocks = [w.jobBlocks EXCEPT ![j] = None]
        /\ built.durable = w.durable \o fresh /\ built.stackRows = rows
        /\ built.stackKeys = w.stackKeys /\ built.index = w.index
        /\ built.insert = w.insert /\ built.remove = w.remove
    BY <1>1, <2>4, <2>5, <2>7 DEF Worker
  <2> HIDE DEF built
  <2>9. /\ u \in Worker /\ u.jobBlocks = [w.jobBlocks EXCEPT ![j] = None]
        /\ u.durable = w.durable \o fresh /\ u.stackRows = rows
        /\ u.stackKeys = w.stackKeys /\ u.index = w.index
        /\ u.insert = w.insert \cup keys
        /\ u.remove = w.remove \cup {k \in keys : HasRow(w, k)} /\ u.dirty = TRUE
    BY <2>1, <2>2, <2>8 DEF Worker, MarkInserted, HasRow
  <2> HIDE DEF u
  <2>10. Summarised(u) = Summarised(w) \cup keys
    BY <2>4, <2>9 DEF Summarised
  <2>11. StackShape(u)
    <3>1. u.insert \subseteq Summarised(u)
      BY <1>1, <2>9, <2>10 DEF StackShape
    <3> QED BY <2>1, <2>4, <2>5, <2>9, <3>1 DEF StackShape
  <2>12. Follows(u)
    <3> SUFFICES ASSUME NEW k \in Keys
                 PROVE  /\ HasRow(u, k) /\ k \notin u.remove =>
                              /\ k \in Summarised(u) \ u.insert
                              /\ u.stackRows[u.index[k]] = "current"
                        /\ k \in Summarised(u) =>
                              k \in u.insert \/ (HasRow(u, k) /\ k \notin u.remove)
      BY DEF Follows
    <3>1. HasRow(u, k) <=> HasRow(w, k)
      BY <2>9 DEF HasRow
    <3>2. /\ HasRow(w, k) /\ k \notin w.remove =>
                /\ k \in Summarised(w) \ w.insert
                /\ w.stackRows[w.index[k]] = "current"
          /\ k \in Summarised(w) => k \in w.insert \/ (HasRow(w, k) /\ k \notin w.remove)
      BY <1>1 DEF Follows
    <3>3. ASSUME HasRow(w, k), k \notin keys PROVE rows[w.index[k]] = w.stackRows[w.index[k]]
      <4>1. w.index[k] \in 1 .. Len(w.stackKeys) /\ w.stackKeys[w.index[k]] = k
        BY <2>1, <3>3, IndexFinds DEF HasRow
      <4> QED BY <2>1, <3>3, <4>1 DEF rows
    <3> QED BY <2>9, <2>10, <3>1, <3>2, <3>3
  <2>13. StackInv(u)
    BY <2>9, <2>11, <2>12 DEF StackInv, DirtyIfBehind
  <2>14. /\ StackInv(Prune(u)) /\ Prune(u).jobBlocks = u.jobBlocks
         /\ Summarised(Prune(u)) \subseteq Summarised(u) /\ Len(Prune(u).durable) <= Capacity
         /\ Cardinality(Summarised(u)) <= Capacity => Summarised(Prune(u)) = Summarised(u)
    BY <2>13, PruneFollows
  <2> HIDE DEF v, layout
  <2> SUFFICES /\ StackInv(v) /\ v.jobBlocks = [w.jobBlocks EXCEPT ![j] = None]
               /\ Summarised(v) \subseteq Summarised(w) \cup keys
               /\ Cardinality(Summarised(w) \cup keys) <= Capacity =>
                     Summarised(v) = Summarised(w) \cup keys
               /\ Len(v.durable) <= Capacity
    BY <1>3, <2>2 DEF v, layout
  <2> QED BY <2>6, <2>9, <2>10, <2>14
<1> QED BY <1>2, <1>3

\* The removed rows are compacted out: a key keeps its row, with what it shows,
\* unless it waits to be removed.
LEMMA DropFollows ==
    ASSUME NEW w, StackInv(w)
    PROVE  LET v == DropRows(w)
           IN  /\ StackInv(v) /\ v.remove = {}
               /\ v.durable = w.durable /\ v.jobBlocks = w.jobBlocks
               /\ v.insert = w.insert
<1> DEFINE dropped == {w.index[k] : k \in w.remove}
           n == Len(w.stackKeys)
           P == (1 .. n) \ dropped
           left == Ascending(P)
           keys == [m \in 1 .. Len(left) |-> w.stackKeys[left[m]]]
           rows == [m \in 1 .. Len(left) |-> w.stackRows[left[m]]]
           v == DropRows(w)
<1>1. /\ w \in Worker /\ StackShape(w) /\ Follows(w) /\ DirtyIfBehind(w)
      /\ w.stackKeys \in Seq(Keys) /\ IsInjective(w.stackKeys) /\ n \in Nat
      /\ w.remove \subseteq Keys /\ w.index = IndexOf(w.stackKeys)
      /\ w.stackRows \in Seq({"current", "old"}) /\ Len(w.stackRows) = n
  BY DEF StackInv, StackShape, Worker
<1>2. CASE w.remove = {}
  BY <1>2 DEF DropRows
<1>3. CASE w.remove # {}
  <2>1. v = [w EXCEPT !.stackKeys = keys, !.stackRows = rows, !.index = IndexOf(keys),
                      !.remove = {}]
    BY <1>3 DEF DropRows
  <2>2. P \in SUBSET Nat /\ IsFiniteSet(P) /\ Cardinality(P) \in Nat /\ P \subseteq 1 .. n
    <3>1. P \in SUBSET (1 .. n) /\ IsFiniteSet(1 .. n)
      BY <1>1, FS_Interval
    <3>2. IsFiniteSet(P)
      BY <3>1, FS_Subset
    <3> QED BY <3>1, <3>2, FS_CardinalityType
  <2>3. /\ left \in [1 .. Cardinality(P) -> P]
        /\ \A x, y \in 1 .. Cardinality(P) : left[x] = left[y] => x = y
        /\ \A i \in P : \E m \in 1 .. Cardinality(P) : left[m] = i
    <3> HIDE DEF P
    <3> QED BY <2>2, AscendingOnce
  <2> DEFINE N == Cardinality(P)
  <2>4. Len(left) = N /\ N \in Nat
    BY <2>2, <2>3
  <2>5. \A i \in 1 .. n : i \in P <=> w.stackKeys[i] \notin w.remove
    <3> TAKE i \in 1 .. n
    <3>1. w.index[w.stackKeys[i]] = i /\ w.stackKeys[i] \in Keys
      BY <1>1, IndexFinds
    <3>2. ASSUME NEW k \in w.remove, w.index[k] = i PROVE w.stackKeys[i] = k
      <4>1. k \in Keys /\ w.index[k] # 0
        BY <1>1, <3>2
      <4> QED BY <1>1, <3>2, <4>1, IndexFinds
    <3> QED BY <3>1, <3>2
  <2>6. keys = [m \in 1 .. N |-> w.stackKeys[left[m]]] /\ rows = [m \in 1 .. N |-> w.stackRows[left[m]]]
    BY <2>4
  <2> HIDE DEF left, keys, rows, P, N
  <2>7. \A m \in 1 .. N : left[m] \in P /\ left[m] \in 1 .. n
    BY <2>2, <2>3 DEF N
  <2>8. keys \in Seq(Keys) /\ Len(keys) = N /\ rows \in Seq({"current", "old"}) /\ Len(rows) = N
    BY <1>1, <2>4, <2>6, <2>7
  <2>9. IsInjective(keys)
    <3>1. ASSUME NEW x \in 1 .. N, NEW y \in 1 .. N, keys[x] = keys[y] PROVE x = y
      <4>1. w.stackKeys[left[x]] = w.stackKeys[left[y]]
        BY <2>6, <3>1
      <4>2. left[x] = left[y]
        BY <1>1, <2>7, <4>1 DEF IsInjective
      <4> QED BY <2>3, <4>2 DEF N
    <3>2. DOMAIN keys = 1 .. N
      BY <2>6
    <3> QED BY <3>1, <3>2 DEF IsInjective
  <2>10. /\ v \in Worker /\ v.stackKeys = keys /\ v.stackRows = rows /\ v.index = IndexOf(keys)
         /\ v.remove = {} /\ v.insert = w.insert /\ v.dirty = w.dirty
         /\ v.durable = w.durable /\ v.jobBlocks = w.jobBlocks
    <3>1. IndexOf(keys) \in [Keys -> Nat]
      BY <2>8, <2>9, IndexFinds
    <3> QED BY <1>1, <2>1, <2>8, <3>1 DEF Worker
  <2> HIDE DEF v
  <2>11. StackShape(v)
    BY <1>1, <2>8, <2>9, <2>10 DEF StackShape, Summarised
  <2>12. ASSUME NEW k \in Keys, HasRow(v, k)
         PROVE  HasRow(w, k) /\ k \notin w.remove /\ rows[v.index[k]] = w.stackRows[w.index[k]]
    <3> DEFINE m == v.index[k]
    <3>1. m \in 1 .. N /\ keys[m] = k
      BY <2>8, <2>9, <2>10, <2>12, IndexFinds DEF HasRow
    <3>2. w.stackKeys[left[m]] = k /\ left[m] \in P /\ left[m] \in 1 .. n
      BY <2>6, <2>7, <3>1
    <3>3. w.index[k] = left[m] /\ k \notin w.remove
      BY <1>1, <2>5, <3>2, IndexFinds
    <3>4. left[m] # 0 /\ rows[m] = w.stackRows[left[m]]
      BY <1>1, <2>6, <3>1, <3>2
    <3> QED BY <3>3, <3>4 DEF HasRow
  <2>13. ASSUME NEW k \in Keys, HasRow(w, k), k \notin w.remove PROVE HasRow(v, k)
    <3>1. w.index[k] \in 1 .. n /\ w.stackKeys[w.index[k]] = k
      BY <1>1, <2>13, IndexFinds DEF HasRow
    <3>2. PICK m \in 1 .. N : left[m] = w.index[k]
      BY <2>3, <2>5, <2>13, <3>1 DEF N
    <3>3. keys[m] = k
      BY <2>6, <3>1, <3>2
    <3>4. v.index[k] = m /\ m # 0
      BY <2>8, <2>9, <2>10, <3>3, IndexFinds
    <3> QED BY <3>4 DEF HasRow
  <2>14. Follows(v)
    <3> SUFFICES ASSUME NEW k \in Keys
                 PROVE  /\ HasRow(v, k) /\ k \notin v.remove =>
                              /\ k \in Summarised(v) \ v.insert
                              /\ v.stackRows[v.index[k]] = "current"
                        /\ k \in Summarised(v) =>
                              k \in v.insert \/ (HasRow(v, k) /\ k \notin v.remove)
      BY DEF Follows
    <3>1. Summarised(v) = Summarised(w)
      BY <2>10 DEF Summarised
    <3>2. /\ HasRow(w, k) /\ k \notin w.remove =>
                /\ k \in Summarised(w) \ w.insert
                /\ w.stackRows[w.index[k]] = "current"
          /\ k \in Summarised(w) => k \in w.insert \/ (HasRow(w, k) /\ k \notin w.remove)
      BY <1>1 DEF Follows
    <3> QED BY <2>10, <2>12, <2>13, <3>1, <3>2
  <2>15. DirtyIfBehind(v)
    BY <1>1, <2>10 DEF DirtyIfBehind
  <2> QED BY <2>10, <2>11, <2>14, <2>15 DEF StackInv, v
<1> QED BY <1>2, <1>3

\* The new summaries get their rows.
LEMMA AppendFollows ==
    ASSUME NEW w, StackInv(w), w.remove = {}
    PROVE  LET v == [AppendRows(w) EXCEPT !.dirty = FALSE]
           IN  /\ StackInv(v) /\ v.durable = w.durable /\ v.jobBlocks = w.jobBlocks
<1> DEFINE ins == w.insert \cap Summarised(w)
           new == SetToSeq(ins)
           n == Len(w.stackKeys)
           keys == w.stackKeys \o new
           fresh == [m \in 1 .. Len(new) |-> "current"]
           rows == w.stackRows \o fresh
           index == [k \in Keys |->
                      IF \E m \in 1 .. Len(new) : new[m] = k
                      THEN n + CHOOSE m \in 1 .. Len(new) : new[m] = k
                      ELSE w.index[k]]
           v == [AppendRows(w) EXCEPT !.dirty = FALSE]
<1>1. /\ w \in Worker /\ StackShape(w) /\ Follows(w)
      /\ w.stackKeys \in Seq(Keys) /\ IsInjective(w.stackKeys) /\ n \in Nat
      /\ w.index \in [Keys -> Nat] /\ w.index = IndexOf(w.stackKeys)
      /\ w.stackRows \in Seq({"current", "old"}) /\ Len(w.stackRows) = n
      /\ w.insert \subseteq Keys
  BY DEF StackInv, StackShape, Worker
<1>2. /\ new \in Seq(ins) /\ IsInjective(new) /\ Range(new) = ins /\ ins = w.insert
      /\ ins \in SUBSET Keys
  <2>1. ins \in SUBSET Keys /\ ins = w.insert
    BY <1>1 DEF StackShape
  <2>2. IsFiniteSet(ins)
    BY <2>1, KeysAssumption, FS_Subset
  <2> HIDE DEF ins
  <2> QED BY <2>1, <2>2, SetToSeqOnce
<1>3. new \in Seq(Keys) /\ Len(new) \in Nat
  BY <1>2
<1>4. v = [w EXCEPT !.stackKeys = keys, !.stackRows = rows, !.index = index,
                    !.insert = {}, !.dirty = FALSE]
  BY <1>1 DEF AppendRows, Worker
<1> HIDE DEF new, ins
<1>5. Range(w.stackKeys) \cap Range(new) = {}
  <2>1. ASSUME NEW k \in Keys, k \in Range(w.stackKeys) PROVE k \notin w.insert
    <3>1. HasRow(w, k)
      BY <1>1, <2>1, IndexFinds DEF HasRow
    <3> QED BY <1>1, <3>1 DEF Follows
  <2> QED BY <1>2, <2>1
<1>6. /\ keys \in Seq(Keys) /\ IsInjective(keys)
      /\ Range(keys) = Range(w.stackKeys) \cup Range(new)
  BY <1>1, <1>2, <1>3, <1>5, ConcatOnce
<1>7. /\ Len(keys) = n + Len(new)
      /\ \A i \in 1 .. n : keys[i] = w.stackKeys[i]
      /\ \A m \in 1 .. Len(new) : keys[n + m] = new[m]
  <2>1. Len(keys) = n + Len(new)
    BY <1>1, <1>3
  <2>2. \A i \in 1 .. n : keys[i] = w.stackKeys[i]
    BY <1>1, <1>3
  <2>3. \A i \in 1 .. n + Len(new) : i > n => keys[i] = new[i - n]
    BY <1>1, <1>3
  <2> HIDE DEF keys
  <2>4. ASSUME NEW m \in 1 .. Len(new) PROVE keys[n + m] = new[m]
    <3>1. n + m \in 1 .. n + Len(new) /\ n + m > n /\ n + m - n = m
      BY <1>1, <1>3
    <3> QED BY <2>3, <3>1
  <2> QED BY <2>1, <2>2, <2>4
<1>8. /\ rows \in Seq({"current", "old"}) /\ Len(rows) = Len(keys)
      /\ \A i \in 1 .. n : rows[i] = w.stackRows[i]
      /\ \A i \in n + 1 .. Len(keys) : rows[i] = "current"
  <2>1. fresh \in Seq({"current", "old"}) /\ Len(fresh) = Len(new)
    BY <1>3
  <2>2. \A m \in 1 .. Len(new) : fresh[m] = "current"
    OBVIOUS
  <2> HIDE DEF fresh, keys
  <2>3. rows \in Seq({"current", "old"}) /\ Len(rows) = n + Len(new)
    <3>1. w.stackRows \in Seq({"current", "old"}) /\ Len(w.stackRows) = n
      BY <1>1
    <3> DEFINE S == {"current", "old"}
               old == w.stackRows
    <3>2. old \in Seq(S) /\ fresh \in Seq(S) /\ Len(old) = n /\ Len(fresh) = Len(new)
      BY <2>1, <3>1
    <3> HIDE DEF S, old
    <3>3. old \o fresh \in Seq(S) /\ Len(old \o fresh) = n + Len(new)
      BY <3>2
    <3> QED BY <3>3 DEF S, old
  <2>4. \A i \in 1 .. n : rows[i] = w.stackRows[i]
    BY <1>1, <2>1
  <2>5. ASSUME NEW i \in n + 1 .. Len(keys) PROVE rows[i] = "current"
    <3>1. i - n \in 1 .. Len(new) /\ i > n /\ i \in 1 .. n + Len(new)
      BY <1>1, <1>3, <1>7
    <3>2. rows[i] = fresh[i - n]
      BY <1>1, <2>1, <3>1
    <3> QED BY <2>2, <3>1, <3>2
  <2> QED BY <1>7, <2>3, <2>4, <2>5
<1> HIDE DEF keys, rows
<1>9. \A k \in Keys : index[k] = IndexOf(keys)[k]
  <2> TAKE k \in Keys
  <2>1. CASE \E m \in 1 .. Len(new) : new[m] = k
    <3> DEFINE m == CHOOSE m \in 1 .. Len(new) : new[m] = k
    <3>1. m \in 1 .. Len(new) /\ new[m] = k
      BY <2>1
    <3>2. index[k] = n + m
      BY <2>1
    <3> HIDE DEF m, index
    <3>3. n + m \in 1 .. Len(keys) /\ keys[n + m] = k
      BY <1>1, <1>3, <1>7, <3>1
    <3> QED BY <1>6, <3>2, <3>3, IndexFinds
  <2>2. CASE ~\E m \in 1 .. Len(new) : new[m] = k
    <3>1. index[k] = w.index[k]
      BY <2>2
    <3>2. k \notin Range(new)
      BY <1>3, <2>2 DEF Range
    <3> HIDE DEF index
    <3>3. CASE k \in Range(w.stackKeys)
      <4>1. w.index[k] \in 1 .. n /\ w.stackKeys[w.index[k]] = k
        BY <1>1, <3>3, IndexFinds
      <4>2. w.index[k] \in 1 .. Len(keys) /\ keys[w.index[k]] = k
        BY <1>1, <1>3, <1>7, <4>1
      <4> QED BY <1>6, <3>1, <4>2, IndexFinds
    <3>4. CASE k \notin Range(w.stackKeys)
      <4>1. w.index[k] = 0
        BY <1>1, <3>4, IndexFinds
      <4>2. IndexOf(keys)[k] = 0
        BY <1>6, <3>2, <3>4, IndexFinds
      <4> QED BY <3>1, <4>1, <4>2
    <3> QED BY <3>3, <3>4
  <2> QED BY <2>1, <2>2
<1>10. index = IndexOf(keys)
  <2>1. IndexOf(keys) = [k \in Keys |-> IndexOf(keys)[k]]
    BY DEF IndexOf
  <2> DEFINE other == IndexOf(keys)
  <2>2. \A k \in Keys : index[k] = other[k]
    BY <1>9
  <2>3. other = [k \in Keys |-> other[k]]
    BY <2>1
  <2> HIDE DEF other
  <2> QED BY <2>2, <2>3 DEF other
<1> HIDE DEF index
<1>11. /\ v \in Worker /\ v.stackKeys = keys /\ v.stackRows = rows /\ v.index = index
       /\ v.remove = {} /\ v.insert = {} /\ v.dirty = FALSE
       /\ v.durable = w.durable /\ v.jobBlocks = w.jobBlocks
  <2>1. index \in [Keys -> Nat]
    BY <1>6, <1>10, IndexFinds
  <2> QED BY <1>1, <1>4, <1>6, <1>8, <2>1 DEF Worker
<1> HIDE DEF v
<1>12. StackShape(v)
  BY <1>1, <1>6, <1>8, <1>10, <1>11 DEF StackShape, Summarised
<1>13. Follows(v)
  <2> SUFFICES ASSUME NEW k \in Keys
               PROVE  /\ HasRow(v, k) => k \in Summarised(v) /\ rows[index[k]] = "current"
                      /\ k \in Summarised(v) => HasRow(v, k)
    BY <1>11 DEF Follows
  <2>1. HasRow(v, k) <=> k \in Range(w.stackKeys) \/ k \in w.insert
    BY <1>2, <1>6, <1>10, <1>11, IndexFinds DEF HasRow
  <2>2. HasRow(w, k) <=> k \in Range(w.stackKeys)
    BY <1>1, IndexFinds DEF HasRow
  <2>3. /\ HasRow(w, k) => k \in Summarised(w) \ w.insert /\ w.stackRows[w.index[k]] = "current"
        /\ k \in Summarised(w) => k \in w.insert \/ HasRow(w, k)
    BY <1>1 DEF Follows
  <2>4. Summarised(v) = Summarised(w) /\ w.insert \subseteq Summarised(w)
    BY <1>1, <1>11 DEF Summarised, StackShape
  <2>5. ASSUME HasRow(v, k) PROVE rows[index[k]] = "current"
    <3>1. index[k] \in 1 .. Len(keys) /\ keys[index[k]] = k
      BY <1>6, <1>10, <1>11, <2>5, IndexFinds DEF HasRow
    <3>2. CASE index[k] \in 1 .. n
      <4>1. w.stackKeys[index[k]] = k
        BY <1>7, <3>1, <3>2
      <4>2. w.index[k] = index[k] /\ HasRow(w, k)
        BY <1>1, <3>2, <4>1, IndexFinds DEF HasRow
      <4> QED BY <1>8, <2>3, <3>2, <4>2
    <3>3. CASE index[k] \notin 1 .. n
      <4>1. index[k] \in n + 1 .. Len(keys)
        BY <1>1, <1>3, <1>7, <3>1, <3>3
      <4> QED BY <1>8, <4>1
    <3> QED BY <3>2, <3>3
  <2> QED BY <2>1, <2>2, <2>3, <2>4, <2>5
<1>14. DirtyIfBehind(v)
  BY <1>11 DEF DirtyIfBehind
<1> QED BY <1>11, <1>12, <1>13, <1>14 DEF StackInv, v

LEMMA CaptureFollows ==
    ASSUME NEW w, StackInv(w)
    PROVE  LET v == CaptureQueries(w)
           IN  /\ StackInv(v) /\ v.durable = w.durable /\ v.jobBlocks = w.jobBlocks
<1>1. LET v == RebuildStackCache(w)
      IN  /\ StackInv(v) /\ v.durable = w.durable /\ v.jobBlocks = w.jobBlocks
  BY DropFollows, AppendFollows DEF RebuildStackCache
<1> QED BY <1>1 DEF CaptureQueries

---------------------------------------------------------------------------
(* The line of packets.                                                    *)

LEMMA LineIs ==
    ASSUME SyncTyped, WorkerSound
    PROVE  /\ End \in Nat /\ End >= 1 /\ Line \in [0 .. End -> Packets]
           /\ Len(metadata) \in Nat /\ worker \in Worker /\ StackInv(worker)
           /\ Line[0] = Taken /\ Line[End] = Gathered
           /\ \A i \in 1 .. Len(metadata) : Line[i] = metadata[i]
<1>1. worker \in Worker /\ StackInv(worker)
  BY StackIs DEF WorkerSound, StackInv, StackShape
<1>2. Taken \in Packets
  BY <1>1 DEF Taken, Packets, SyncTyped, Worker
<1>3. Gathered \in Packets
  BY DEF Gathered, Packets, SyncTyped
<1>4. /\ metadata \in Seq(Packets) /\ Len(metadata) \in Nat
      /\ \A i \in 1 .. Len(metadata) : metadata[i] \in Packets
  BY DEF SyncTyped
<1>5. End \in Nat /\ End >= 1 /\ End = Len(metadata) + 1
  BY <1>4 DEF End
<1>6. /\ Line[0] = Taken /\ Line[End] = Gathered
      /\ \A i \in 1 .. Len(metadata) : Line[i] = metadata[i]
  BY <1>5 DEF Line
<1>7. \A i \in 0 .. End : Line[i] \in Packets
  BY <1>2, <1>3, <1>4, <1>5, <1>6
<1>8. Line = [i \in 0 .. End |-> Line[i]]
  BY DEF Line
<1> HIDE DEF Line
<1>9. Line \in [0 .. End -> Packets]
  BY <1>7, <1>8
<1> QED BY <1>1, <1>4, <1>5, <1>6, <1>9

\* The parts of a packet, and the keys that its layouts name.
LEMMA PacketParts ==
    ASSUME NEW m \in Packets
    PROVE  /\ m.jobs \subseteq Jobs /\ m.layouts \in [Jobs -> Seq(Keys) \cup {None}]
           /\ m.evicted \subseteq Keys /\ m.reset \in BOOLEAN
           /\ KeysOf(m.layouts) \subseteq Keys
<1>1. m.layouts \in [Jobs -> Seq(Keys) \cup {None}]
  BY DEF Packets
<1>2. \A j \in Jobs : LayoutKeys(m.layouts, j) \subseteq Keys
  <2> TAKE j \in Jobs
  <2>1. m.layouts[j] # None => m.layouts[j] \in Seq(Keys)
    BY <1>1
  <2>2. \A s \in Seq(Keys) : Range(s) \subseteq Keys
    BY DEF Range
  <2> QED BY <2>1, <2>2 DEF LayoutKeys
<1> QED BY <1>1, <1>2 DEF Packets, KeysOf

LEMMA BlankParts ==
    /\ BlankPacket.jobs = {} /\ BlankPacket.evicted = {} /\ BlankPacket.reset = FALSE
    /\ KeysOf(BlankPacket.layouts) = {} /\ \A j \in Jobs : BlankPacket.layouts[j] = None
BY DEF BlankPacket, NoLayout, KeysOf, LayoutKeys

---------------------------------------------------------------------------
(* build_connector_meta(): the line gets a blank packet at its end.        *)

LEMMA BuildLine ==
    ASSUME SyncTyped, WorkerSound, BuildConnectorMeta
    PROVE  /\ End' = End + 1 /\ Line'[End + 1] = BlankPacket
           /\ \A i \in 0 .. End : Line'[i] = Line[i]
           /\ metadata' \in Seq(Packets)
<1>1. /\ End \in Nat /\ End >= 1 /\ Line[0] = Taken /\ Line[End] = Gathered
      /\ \A i \in 1 .. Len(metadata) : Line[i] = metadata[i]
      /\ Len(metadata) \in Nat /\ End = Len(metadata) + 1
      /\ Gathered \in Packets
  <2>1. Line[End] \in Packets
    BY LineIs
  <2> QED BY <2>1, LineIs DEF End
<1>2. metadata' = Append(metadata, Gathered) /\ metadata \in Seq(Packets)
  BY DEF BuildConnectorMeta, Gathered, ResetFlag, SyncTyped
<1>3. /\ Len(metadata') = End /\ metadata'[End] = Gathered
      /\ \A i \in 1 .. Len(metadata) : metadata'[i] = metadata[i]
      /\ metadata' \in Seq(Packets)
  BY <1>1, <1>2
<1>4. Taken' = Taken
  BY DEF BuildConnectorMeta, workerVars, Taken
<1>5. Gathered' = BlankPacket
  BY DEF BuildConnectorMeta, EvictionsDrained, Gathered, BlankPacket
<1>6. End' = End + 1
  BY <1>3 DEF End
<1>7. Line' = [i \in 0 .. End' |->
                  IF i = 0 THEN Taken' ELSE IF i = End' THEN Gathered' ELSE metadata'[i]]
  BY DEF Line
<1>8. Line'[End + 1] = BlankPacket
  BY <1>1, <1>5, <1>6, <1>7
<1>9. ASSUME NEW i \in 0 .. End PROVE Line'[i] = Line[i]
  <2>1. CASE i = 0
    BY <1>1, <1>4, <1>6, <1>7, <2>1
  <2>2. CASE i = End
    BY <1>1, <1>3, <1>6, <1>7, <2>2
  <2>3. CASE i # 0 /\ i # End
    <3>1. i \in 1 .. Len(metadata) /\ i \in 0 .. End + 1 /\ i # End + 1
      BY <1>1, <2>3
    <3>2. Line'[i] = metadata'[i]
      BY <1>6, <1>7, <2>3, <3>1
    <3> QED BY <1>1, <1>3, <3>1, <3>2
  <2> QED BY <2>1, <2>2, <2>3
<1> QED BY <1>3, <1>6, <1>8, <1>9

LEMMA BuildKeeps ==
    ASSUME SyncInv, BuildConnectorMeta
    PROVE  SyncInv'
<1>1. /\ SyncTyped /\ WorkerSound /\ JobsPlaced
      /\ StoresApart /\ LayoutsLive /\ NoLateNotice /\ KeptInv
  BY DEF SyncInv
<1>2. /\ End' = End + 1 /\ Line'[End + 1] = BlankPacket
      /\ \A i \in 0 .. End : Line'[i] = Line[i]
      /\ metadata' \in Seq(Packets)
  BY <1>1, BuildLine
<1>3. End \in Nat /\ End >= 1 /\ Line \in [0 .. End -> Packets]
  BY <1>1, LineIs
<1>4. UNCHANGED <<lossy, storeKeys, worker, received, submitted, ref>>
  BY DEF BuildConnectorMeta, EvictionsDrained, workerVars
<1>5. UNCHANGED <<Resident, Storing, Known>>
  BY <1>4 DEF Resident, Storing, Known
<1>6. SyncTyped'
  BY <1>1, <1>2, <1>4, <1>5 DEF SyncTyped, BuildConnectorMeta, EvictionsDrained, NoLayout
<1>7. WorkerSound'
  BY <1>1, <1>4 DEF WorkerSound, StackConsistent
<1>8. \A i \in 0 .. End' : i \in 0 .. End \/ (i = End + 1 /\ Line'[i] = BlankPacket)
  BY <1>2, <1>3
<1>9. JobsPlaced'
  <2>1. \A i \in 0 .. End' : (i \in 0 .. End /\ Line'[i] = Line[i]) \/ Line'[i].jobs = {}
    BY <1>2, <1>8, BlankParts
  <2>2. ASSUME NEW i \in 0 .. End', NEW p \in 0 .. End', i # p
        PROVE  Line'[i].jobs \cap Line'[p].jobs = {}
    BY <1>1, <2>1, <2>2 DEF JobsPlaced
  <2>3. ASSUME NEW i \in 0 .. End' PROVE Line'[i].jobs \cap submitted = {}
    BY <1>1, <2>1 DEF JobsPlaced
  <2>4. ASSUME NEW i \in 0 .. End', NEW j \in Jobs, Line'[i].layouts[j] # None
        PROVE  j \in Line'[i].jobs /\ IsInjective(Line'[i].layouts[j])
    <3>1. i \in 0 .. End /\ Line'[i] = Line[i]
      BY <1>2, <1>8, <2>4, BlankParts
    <3> QED BY <1>1, <2>4, <3>1 DEF JobsPlaced
  <2> QED BY <1>4, <2>2, <2>3, <2>4 DEF JobsPlaced
<1>10. StoresApart'
  BY <1>1, <1>4, <1>5 DEF StoresApart
<1>11. ASSUME NEW i \in 0 .. End, NoResetAfter(i)' PROVE NoResetAfter(i)
  BY <1>2, <1>3, <1>11 DEF NoResetAfter
<1>12. LayoutsLive'
  <2> SUFFICES ASSUME NEW i \in 0 .. End', NEW j \in Jobs, NoResetAfter(i)',
                      Line'[i].layouts[j] # None
               PROVE  Range(Line'[i].layouts[j]) = storeKeys'[j]
    BY DEF LayoutsLive
  <2>1. i \in 0 .. End /\ Line'[i] = Line[i]
    BY <1>2, <1>8, BlankParts
  <2> QED BY <1>1, <1>4, <1>11, <2>1 DEF LayoutsLive
<1>13. NoLateNotice'
  <2> SUFFICES ASSUME NEW i \in 0 .. End', NEW p \in 0 .. End', i < p,
                      \A q \in i + 1 .. p : ~Line'[q].reset
               PROVE  Line'[p].evicted \cap KeysOf(Line'[i].layouts) = {}
    BY DEF NoLateNotice
  <2>1. CASE p = End + 1
    BY <1>2, <2>1, BlankParts
  <2>2. CASE p # End + 1
    <3>1. /\ p \in 0 .. End /\ i \in 0 .. End
          /\ \A q \in i + 1 .. p : q \in 0 .. End
      BY <1>2, <1>3, <2>2
    <3>2. Line'[p] = Line[p] /\ Line'[i] = Line[i] /\ \A q \in i + 1 .. p : ~Line[q].reset
      BY <1>2, <3>1
    <3> QED BY <1>1, <3>1, <3>2 DEF NoLateNotice
  <2> QED BY <2>1, <2>2
<1>14. ASSUME NEW i \in 0 .. End, NEW k, Lasting(k, i) PROVE Lasting(k, i)'
  <2> SUFFICES ASSUME NEW q \in i + 1 .. End'
               PROVE  k \notin Line'[q].evicted /\ ~Line'[q].reset
    BY DEF Lasting
  <2>1. CASE q = End + 1
    BY <1>2, <2>1, BlankParts
  <2>2. CASE q # End + 1
    <3>1. q \in 0 .. End /\ q \in i + 1 .. End
      BY <1>2, <1>3, <2>2
    <3> QED BY <1>2, <1>14, <3>1 DEF Lasting
  <2> QED BY <2>1, <2>2
<1>15. ASSUME ~lossy PROVE ViewsFit'
  <2>1. PICK V \in [0 .. End -> SUBSET Keys] : Fits(V)
    BY <1>1, <1>15 DEF KeptInv, ViewsFit
  <2>2. PICK W \in [0 .. End' -> SUBSET Keys] :
           W[End + 1] = V[End] /\ \A i \in 0 .. End : W[i] = V[i]
    <3> DEFINE X == [i \in 0 .. End' |-> IF i = End + 1 THEN V[End] ELSE V[i]]
    <3>1. /\ X \in [0 .. End' -> SUBSET Keys]
          /\ X[End + 1] = V[End] /\ \A i \in 0 .. End : X[i] = V[i]
      BY <1>2, <1>3
    <3> HIDE DEF X
    <3> QED BY <3>1
  <2>3. Known' \subseteq W[0]
    BY <1>3, <1>5, <2>1, <2>2 DEF Fits
  <2>4. ASSUME NEW i \in 1 .. End' PROVE After(W[i - 1], Line'[i]) \subseteq W[i]
    <3>1. CASE i = End + 1
      <4>1. After(V[End], BlankPacket) = V[End]
        BY BlankParts DEF After
      <4>2. i - 1 = End
        BY <1>3, <3>1
      <4> QED BY <1>2, <1>3, <2>2, <3>1, <4>1, <4>2
    <3>2. CASE i # End + 1
      <4>1. i \in 1 .. End /\ i - 1 \in 0 .. End /\ i \in 0 .. End
        BY <1>2, <1>3, <3>2
      <4> QED BY <1>2, <2>1, <2>2, <4>1 DEF Fits
    <3> QED BY <3>1, <3>2
  <2>5. ASSUME NEW i \in 0 .. End' PROVE Cardinality(W[i]) <= Capacity
    <3>1. i \in 0 .. End \/ i = End + 1
      BY <1>2, <1>3
    <3>2. End \in 0 .. End
      BY <1>3
    <3> QED BY <2>1, <2>2, <3>1, <3>2 DEF Fits
  <2>6. W[End'] \subseteq Resident'
    BY <1>2, <1>5, <2>1, <2>2 DEF Fits
  <2>7. Fits(W)'
    BY <2>3, <2>4, <2>5, <2>6 DEF Fits
  <2> QED BY <2>2, <2>7 DEF ViewsFit
<1>16. ASSUME ~lossy PROVE ReadyKept' /\ SubmittedKept'
  <2>1. Summarised(worker)' = Summarised(worker) /\ 0 \in 0 .. End
    BY <1>3, <1>4
  <2>2. ReadyKept /\ SubmittedKept
    BY <1>1, <1>16 DEF KeptInv
  <2>3. ReadyKept'
    BY <1>4, <1>14, <2>1, <2>2 DEF ReadyKept
  <2>4. SubmittedKept'
    BY <1>4, <1>14, <2>1, <2>2 DEF SubmittedKept
  <2> QED BY <2>3, <2>4
<1>17. ASSUME ~lossy PROVE UnderwayKept'
  <2> SUFFICES ASSUME NEW i \in 0 .. End', NEW j \in Line'[i].jobs, storeKeys'[j] # {}
               PROVE  Line'[i].layouts[j] # None /\ \A k \in storeKeys'[j] : Lasting(k, i)'
    BY DEF UnderwayKept
  <2>1. i \in 0 .. End /\ Line'[i] = Line[i]
    BY <1>2, <1>8, BlankParts
  <2> QED BY <1>1, <1>4, <1>14, <1>17, <2>1 DEF KeptInv, UnderwayKept
<1>18. KeptInv'
  BY <1>4, <1>15, <1>16, <1>17 DEF KeptInv
<1> QED BY <1>6, <1>7, <1>9, <1>10, <1>12, <1>13, <1>18 DEF SyncInv

---------------------------------------------------------------------------
(* bind_connector_metadata(): the worker takes the first packet.           *)

\* What the worker knows after it, where the stack still follows.
LEMMA ReceiveFollows ==
    ASSUME NEW w, StackInv(w), NEW m \in Packets
    PROVE  LET v == Receive(w, m)
           IN  /\ StackInv(v)
               /\ Summarised(v) = IF m.reset THEN {} ELSE Summarised(w) \ m.evicted
               /\ v.jobBlocks \in [Jobs -> Seq(Keys) \cup {None}]
               /\ \A j \in Jobs : v.jobBlocks[j] =
                     IF m.layouts[j] # None THEN m.layouts[j]
                     ELSE IF m.reset THEN None ELSE w.jobBlocks[j]
               /\ Len(w.durable) <= Capacity => Len(v.durable) <= Capacity
<1> DEFINE fresh == IF m.reset THEN ResetSemanticState(w) ELSE w
           blocks == [j \in Jobs |-> IF m.layouts[j] # None THEN m.layouts[j]
                                     ELSE fresh.jobBlocks[j]]
           told == [fresh EXCEPT !.jobBlocks = blocks]
           v == Receive(w, m)
<1>1. /\ m.layouts \in [Jobs -> Seq(Keys) \cup {None}] /\ m.evicted \in SUBSET Keys
      /\ m.reset \in BOOLEAN
  BY PacketParts
<1>2. /\ m.reset => fresh = NewWorker
      /\ ~m.reset => fresh = w
  BY DEF ResetSemanticState
<1>3. StackInv(fresh)
  <2>1. CASE m.reset
    BY <1>2, <2>1, NewFollows
  <2>2. CASE ~m.reset
    BY <1>2, <2>2
  <2> QED BY <2>1, <2>2
<1>4. /\ m.reset => /\ Summarised(fresh) = {} /\ Len(fresh.durable) = 0
                    /\ \A j \in Jobs : fresh.jobBlocks[j] = None
      /\ ~m.reset => fresh = w
  <2>1. /\ Summarised(NewWorker) = {} /\ Len(NewWorker.durable) = 0
        /\ \A j \in Jobs : NewWorker.jobBlocks[j] = None
    BY DEF Summarised, Range, NewWorker
  <2> QED BY <1>2, <2>1
<1> HIDE DEF fresh
<1>5. fresh \in Worker
  BY <1>3 DEF StackInv, StackShape
<1>6. blocks \in [Jobs -> Seq(Keys) \cup {None}]
  BY <1>1, <1>5 DEF Worker
<1>7. StackInv(told)
  <2> HIDE DEF blocks
  <2> QED BY <1>3, <1>6, LayoutsFollow
<1>8. told.jobBlocks = blocks /\ told.durable = fresh.durable
  BY <1>5 DEF Worker
<1>9. ReceiveJobBlocks(fresh, m.layouts) = told
  BY <1>5 DEF ReceiveJobBlocks, Worker
<1> HIDE DEF told, blocks
<1>10. v = MarkRemoved([told EXCEPT !.durable = Without(@, m.evicted)],
                       m.evicted \cap Summarised(told))
  BY <1>9 DEF Receive, ReceiveEvictedKeys, fresh
<1> HIDE DEF v
<1>11. /\ StackInv(v) /\ v.jobBlocks = blocks
       /\ v.durable = Without(fresh.durable, m.evicted)
       /\ Summarised(v) = Summarised(fresh) \ m.evicted
  <2>1. Summarised(told) = Summarised(fresh)
    BY <1>8 DEF Summarised
  <2> DEFINE gone == m.evicted
             u == MarkRemoved([told EXCEPT !.durable = Without(@, gone)], gone \cap Summarised(told))
  <2>2. gone \in SUBSET Keys
    BY <1>1
  <2> HIDE DEF gone
  <2>3. /\ StackInv(u) /\ u.jobBlocks = told.jobBlocks
        /\ u.durable = Without(told.durable, gone)
        /\ Summarised(u) = Summarised(told) \ gone
    BY <1>7, <2>2, RemovalFollows
  <2>4. v = u
    BY <1>10 DEF gone
  <2> HIDE DEF u
  <2> QED BY <1>8, <2>1, <2>3, <2>4 DEF gone
<1>12. Len(v.durable) <= Len(fresh.durable)
  <2> DEFINE d == fresh.durable
             gone == m.evicted
  <2>1. d \in Seq(Keys) /\ IsInjective(d)
    BY <1>3 DEF StackInv, StackShape, Worker
  <2> HIDE DEF d, gone
  <2>2. Len(Without(d, gone)) = Cardinality({i \in 1 .. Len(d) : d[i] \notin gone})
    BY <2>1, WithoutKeeps
  <2>3. Len(d) \in Nat /\ IsFiniteSet(1 .. Len(d)) /\ Cardinality(1 .. Len(d)) = Len(d)
    <3>1. Len(d) \in Nat
      BY <2>1
    <3> QED BY <3>1, UpTo
  <2>4. {i \in 1 .. Len(d) : d[i] \notin gone} \in SUBSET (1 .. Len(d))
    OBVIOUS
  <2>5. Cardinality({i \in 1 .. Len(d) : d[i] \notin gone}) <= Len(d)
    BY <2>3, <2>4, FS_Subset
  <2> QED BY <1>11, <2>2, <2>5 DEF d, gone
<1>13. Len(w.durable) <= Capacity => Len(v.durable) <= Capacity
  <2> DEFINE a == Len(v.durable)
             b == Len(fresh.durable)
             c == Len(w.durable)
  <2>1. StackInv(w) /\ StackInv(v) /\ StackInv(fresh)
    BY <1>3, <1>11
  <2>2. a \in Nat /\ b \in Nat /\ c \in Nat /\ Capacity \in Nat
    BY <2>1, CapacityAssumption DEF StackInv, StackShape, Worker
  <2>3. b = 0 \/ b = c
    BY <1>4
  <2>4. a <= b
    BY <1>12
  <2> HIDE DEF a, b, c
  <2>5. c <= Capacity => a <= Capacity
    BY <2>2, <2>3, <2>4
  <2> QED BY <2>5 DEF a, c
<1>14. Summarised(v) = IF m.reset THEN {} ELSE Summarised(w) \ m.evicted
  BY <1>4, <1>11
<1>15. \A j \in Jobs : blocks[j] =
          IF m.layouts[j] # None THEN m.layouts[j]
          ELSE IF m.reset THEN None ELSE w.jobBlocks[j]
  <2> TAKE j \in Jobs
  <2>1. blocks[j] = IF m.layouts[j] # None THEN m.layouts[j] ELSE fresh.jobBlocks[j]
    BY DEF blocks
  <2> QED BY <1>4, <2>1
<1> QED BY <1>6, <1>11, <1>13, <1>14, <1>15 DEF v

LEMMA BindLine ==
    ASSUME SyncTyped, WorkerSound, BindConnectorMetadata
    PROVE  /\ End' = End - 1 /\ End >= 2 /\ Line'[0] = Taken'
           /\ worker' = Receive(worker, Line[1]) /\ received' = received \cup Line[1].jobs
           /\ \A i \in 1 .. End - 1 : Line'[i] = Line[i + 1]
           /\ metadata' \in Seq(Packets)
<1>1. /\ End \in Nat /\ End >= 1 /\ Line[End] = Gathered
      /\ \A i \in 1 .. Len(metadata) : Line[i] = metadata[i]
      /\ Len(metadata) \in Nat /\ End = Len(metadata) + 1
  BY LineIs DEF End
<1>2. /\ metadata # <<>> /\ metadata' = Tail(metadata) /\ metadata \in Seq(Packets)
      /\ worker' = Receive(worker, Head(metadata))
      /\ received' = received \cup Head(metadata).jobs
  BY DEF BindConnectorMetadata, SyncTyped
<1>3. /\ Len(metadata) >= 1 /\ Len(metadata') = Len(metadata) - 1
      /\ \A i \in 1 .. Len(metadata) - 1 : metadata'[i] = metadata[i + 1]
      /\ metadata' \in Seq(Packets) /\ Head(metadata) = metadata[1]
  BY <1>1, <1>2
<1>4. Gathered' = Gathered
  BY DEF BindConnectorMetadata, tierVars, schedulerVars, Gathered
<1>5. End' = End - 1 /\ End >= 2
  BY <1>1, <1>3 DEF End
<1>6. Line' = [i \in 0 .. End' |->
                  IF i = 0 THEN Taken' ELSE IF i = End' THEN Gathered' ELSE metadata'[i]]
  BY DEF Line
<1>7. Line'[0] = Taken'
  BY <1>1, <1>5, <1>6
<1>8. ASSUME NEW i \in 1 .. End - 1 PROVE Line'[i] = Line[i + 1]
  <2>1. CASE i = End - 1
    BY <1>1, <1>4, <1>5, <1>6, <2>1
  <2>2. CASE i # End - 1
    <3>1. i \in 1 .. Len(metadata) - 1 /\ i \in 0 .. End' /\ i # 0 /\ i # End'
          /\ i + 1 \in 1 .. Len(metadata)
      BY <1>1, <1>5, <2>2
    <3>2. Line'[i] = metadata'[i]
      BY <1>6, <3>1
    <3> QED BY <1>1, <1>3, <3>1, <3>2
  <2> QED BY <2>1, <2>2
<1>9. Head(metadata) = Line[1]
  BY <1>1, <1>3
<1> QED BY <1>2, <1>3, <1>5, <1>7, <1>8, <1>9

LEMMA BindKeeps ==
    ASSUME SyncInv, BindConnectorMetadata
    PROVE  SyncInv'
<1> DEFINE m == Line[1]
<1>1. /\ SyncTyped /\ WorkerSound /\ JobsPlaced
      /\ StoresApart /\ LayoutsLive /\ NoLateNotice /\ KeptInv
  BY DEF SyncInv
<1>2. /\ End' = End - 1 /\ End >= 2 /\ Line'[0] = Taken'
      /\ worker' = Receive(worker, m) /\ received' = received \cup m.jobs
      /\ \A i \in 1 .. End - 1 : Line'[i] = Line[i + 1]
      /\ metadata' \in Seq(Packets)
  BY <1>1, BindLine
<1>3. /\ End \in Nat /\ Line \in [0 .. End -> Packets]
      /\ Line[0] = Taken /\ StackInv(worker)
  BY <1>1, LineIs
<1>4. m \in Packets
  BY <1>2, <1>3
<1> HIDE DEF m
<1>5. /\ m.jobs \subseteq Jobs /\ m.layouts \in [Jobs -> Seq(Keys) \cup {None}]
      /\ m.evicted \subseteq Keys /\ m.reset \in BOOLEAN
  BY <1>4, PacketParts
<1>6. UNCHANGED <<lossy, storeKeys, submitted, ref, pendingEvicted, unsent,
                  pendingJobBlocks, resetPending>>
  BY DEF BindConnectorMetadata, tierVars, schedulerVars
<1>7. UNCHANGED <<Resident, Storing>>
  BY <1>6 DEF Resident, Storing
<1>8. /\ StackInv(worker')
      /\ Summarised(worker') = IF m.reset THEN {} ELSE Summarised(worker) \ m.evicted
      /\ worker'.jobBlocks \in [Jobs -> Seq(Keys) \cup {None}]
      /\ \A j \in Jobs : worker'.jobBlocks[j] =
            IF m.layouts[j] # None THEN m.layouts[j]
            ELSE IF m.reset THEN None ELSE worker.jobBlocks[j]
      /\ Len(worker.durable) <= Capacity => Len(worker'.durable) <= Capacity
  BY <1>2, <1>3, <1>4, ReceiveFollows
<1>9. SyncTyped'
  BY <1>1, <1>2, <1>5, <1>6, <1>7 DEF SyncTyped
<1>10. WorkerSound'
  <2>1. StackInv(worker)'
    BY <1>8 DEF StackInv, StackShape, Follows, DirtyIfBehind, Summarised, HasRow
  <2>2. StackConsistent'
    BY <2>1 DEF StackConsistent, StackInv, StackShape, Follows, DirtyIfBehind
  <2> QED BY <1>1, <1>8, <2>2 DEF WorkerSound
<1>11. /\ Line'[0].jobs = Line[0].jobs \cup m.jobs
       /\ Line'[0].layouts = worker'.jobBlocks /\ Line[0].layouts = worker.jobBlocks
       /\ Line'[0].evicted = {} /\ Line'[0].reset = FALSE
  BY <1>2, <1>3 DEF Taken
<1>12. ASSUME NEW j \in Jobs, Line'[0].layouts[j] # None
       PROVE  \/ Line'[0].layouts[j] = m.layouts[j] /\ m.layouts[j] # None
              \/ Line'[0].layouts[j] = Line[0].layouts[j] /\ Line[0].layouts[j] # None /\ ~m.reset
  BY <1>8, <1>11, <1>12
<1>13. /\ KeysOf(Line'[0].layouts) \subseteq KeysOf(m.layouts) \cup KeysOf(Line[0].layouts)
       /\ m.reset => KeysOf(Line'[0].layouts) \subseteq KeysOf(m.layouts)
  BY <1>12 DEF KeysOf, LayoutKeys
<1>14. /\ \A i \in 0 .. End' : i = 0 \/ (i \in 1 .. End - 1 /\ i + 1 \in 2 .. End /\ Line'[i] = Line[i + 1])
       /\ 0 \in 0 .. End /\ 1 \in 0 .. End
  BY <1>2, <1>3
<1>15. JobsPlaced'
  <2>1. /\ \A i, p \in 0 .. End : i # p => Line[i].jobs \cap Line[p].jobs = {}
        /\ \A i \in 0 .. End : Line[i].jobs \cap submitted = {}
        /\ \A i \in 0 .. End, j \in Jobs : Line[i].layouts[j] # None =>
              j \in Line[i].jobs /\ IsInjective(Line[i].layouts[j])
    BY <1>1 DEF JobsPlaced
  <2>2. ASSUME NEW i \in 0 .. End', NEW p \in 0 .. End', i # p
        PROVE  Line'[i].jobs \cap Line'[p].jobs = {}
    <3>1. ASSUME NEW q \in 1 .. End - 1 PROVE Line'[0].jobs \cap Line'[q].jobs = {}
      <4>1. q + 1 \in 0 .. End /\ q + 1 # 0 /\ q + 1 # 1 /\ Line'[q] = Line[q + 1]
        BY <1>2, <1>3
      <4>2. /\ Line[0].jobs \cap Line[q + 1].jobs = {}
            /\ m.jobs \cap Line[q + 1].jobs = {}
        BY <1>14, <2>1, <4>1 DEF m
      <4> QED BY <1>11, <4>1, <4>2
    <3>2. CASE i = 0
      BY <1>14, <2>2, <3>1, <3>2
    <3>3. CASE p = 0
      BY <1>14, <2>2, <3>1, <3>3
    <3>4. CASE i # 0 /\ p # 0
      <4>1. i + 1 \in 0 .. End /\ p + 1 \in 0 .. End /\ i + 1 # p + 1
        BY <1>2, <1>3, <2>2, <3>4
      <4> QED BY <1>14, <2>1, <3>4, <4>1
    <3> QED BY <3>2, <3>3, <3>4
  <2>3. ASSUME NEW i \in 0 .. End' PROVE Line'[i].jobs \cap submitted = {}
    <3>1. CASE i = 0
      BY <1>11, <1>14, <2>1, <3>1 DEF m
    <3>2. CASE i # 0
      <4>1. i + 1 \in 0 .. End /\ Line'[i] = Line[i + 1]
        BY <1>2, <1>3, <3>2
      <4> QED BY <2>1, <4>1
    <3> QED BY <3>1, <3>2
  <2>4. ASSUME NEW i \in 0 .. End', NEW j \in Jobs, Line'[i].layouts[j] # None
        PROVE  j \in Line'[i].jobs /\ IsInjective(Line'[i].layouts[j])
    <3>1. CASE i = 0
      BY <1>11, <1>12, <1>14, <2>1, <2>4, <3>1 DEF m
    <3>2. CASE i # 0
      <4>1. i + 1 \in 0 .. End /\ Line'[i] = Line[i + 1]
        BY <1>2, <1>3, <3>2
      <4> QED BY <2>1, <2>4, <4>1
    <3> QED BY <3>1, <3>2
  <2> QED BY <1>6, <2>2, <2>3, <2>4 DEF JobsPlaced
<1>16. StoresApart'
  BY <1>1, <1>6, <1>7 DEF StoresApart
\* What stands behind a packet stays behind it.
<1>17. /\ \A i \in 1 .. End - 1 : NoResetAfter(i)' => NoResetAfter(i + 1)
       /\ NoResetAfter(0)' => NoResetAfter(1)
  <2>1. ASSUME NEW i \in 0 .. End - 1, NoResetAfter(i)' PROVE NoResetAfter(i + 1)
    <3> SUFFICES ASSUME NEW q \in i + 2 .. End PROVE ~Line[q].reset
      BY <1>3 DEF NoResetAfter
    <3>1. q - 1 \in i + 1 .. End' /\ q - 1 \in 1 .. End - 1 /\ q - 1 + 1 = q
      BY <1>2, <1>3
    <3> QED BY <1>2, <2>1, <3>1 DEF NoResetAfter
  <2>2. 0 \in 0 .. End - 1 /\ 0 + 1 = 1
    BY <1>2, <1>3
  <2> QED BY <1>3, <2>1, <2>2
<1>18. LayoutsLive'
  <2> SUFFICES ASSUME NEW i \in 0 .. End', NEW j \in Jobs, NoResetAfter(i)',
                      Line'[i].layouts[j] # None
               PROVE  Range(Line'[i].layouts[j]) = storeKeys'[j]
    BY DEF LayoutsLive
  <2>1. CASE i = 0
    <3>1. NoResetAfter(1)
      BY <1>17, <2>1
    <3>2. ~m.reset => NoResetAfter(0)
      <4> SUFFICES ASSUME ~m.reset, NEW q \in 1 .. End PROVE ~Line[q].reset
        BY <1>3 DEF NoResetAfter
      <4>1. q = 1 \/ q \in 2 .. End
        BY <1>3
      <4> QED BY <3>1, <4>1 DEF m, NoResetAfter
    <3>3. \A p \in 0 .. End : NoResetAfter(p) /\ Line[p].layouts[j] # None =>
              Range(Line[p].layouts[j]) = storeKeys[j]
      BY <1>1 DEF LayoutsLive
    <3>4. CASE Line'[0].layouts[j] = m.layouts[j] /\ m.layouts[j] # None
      BY <1>6, <1>14, <2>1, <3>1, <3>3, <3>4 DEF m
    <3>5. CASE Line'[0].layouts[j] = Line[0].layouts[j] /\ Line[0].layouts[j] # None /\ ~m.reset
      BY <1>6, <1>14, <2>1, <3>2, <3>3, <3>5
    <3> QED BY <1>12, <2>1, <3>4, <3>5
  <2>2. CASE i # 0
    <3>1. i \in 1 .. End - 1 /\ i + 1 \in 0 .. End /\ Line'[i] = Line[i + 1]
      BY <1>2, <1>3, <2>2
    <3>2. NoResetAfter(i + 1)
      BY <1>17, <3>1
    <3> QED BY <1>1, <1>6, <3>1, <3>2 DEF LayoutsLive
  <2> QED BY <2>1, <2>2
<1>19. NoLateNotice'
  <2> SUFFICES ASSUME NEW i \in 0 .. End', NEW p \in 0 .. End', i < p,
                      \A q \in i + 1 .. p : ~Line'[q].reset
               PROVE  Line'[p].evicted \cap KeysOf(Line'[i].layouts) = {}
    BY DEF NoLateNotice
  <2>1. p \in 1 .. End - 1 /\ p + 1 \in 0 .. End /\ Line'[p] = Line[p + 1]
    BY <1>2, <1>3
  <2>2. ASSUME NEW q \in i + 2 .. p + 1 PROVE ~Line[q].reset
    <3>1. q - 1 \in i + 1 .. p /\ q - 1 \in 1 .. End - 1 /\ q - 1 + 1 = q
      BY <1>2, <1>3
    <3> QED BY <1>2, <3>1
  <2>3. /\ i + 1 \in 0 .. End /\ i + 1 < p + 1 /\ i + 1 + 1 = i + 2
        /\ Line[p + 1].evicted \cap KeysOf(Line[i + 1].layouts) = {}
    <3>1. i + 1 \in 0 .. End /\ i + 1 < p + 1 /\ i + 1 + 1 = i + 2
      BY <1>2, <1>3, <2>1
    <3> QED BY <1>1, <2>1, <2>2, <3>1 DEF NoLateNotice
  <2>4. CASE i # 0
    BY <1>14, <2>1, <2>3, <2>4
  <2>5. CASE i = 0
    <3>1. Line[p + 1].evicted \cap KeysOf(m.layouts) = {}
      BY <2>3, <2>5 DEF m
    <3>2. ASSUME ~m.reset PROVE Line[p + 1].evicted \cap KeysOf(Line[0].layouts) = {}
      <4>1. \A q \in 1 .. p + 1 : ~Line[q].reset
        <5> TAKE q \in 1 .. p + 1
        <5>1. q = 1 \/ q \in i + 2 .. p + 1
          BY <2>1, <2>5
        <5> QED BY <2>2, <3>2, <5>1 DEF m
      <4>2. 0 < p + 1 /\ 0 + 1 = 1
        BY <2>1
      <4> QED BY <1>1, <1>14, <2>1, <4>1, <4>2 DEF NoLateNotice
    <3> QED BY <1>13, <2>1, <2>5, <3>1, <3>2
  <2> QED BY <2>4, <2>5
\* The notices and resets behind what the worker has taken.
<1>20. ASSUME NEW k, NEW i \in 1 .. End, Lasting(k, i) PROVE Lasting(k, i - 1)'
  <2> SUFFICES ASSUME NEW q \in i .. End'
               PROVE  k \notin Line'[q].evicted /\ ~Line'[q].reset
    BY <1>3 DEF Lasting
  <2>1. q \in 1 .. End - 1 /\ q + 1 \in i + 1 .. End /\ Line'[q] = Line[q + 1]
    BY <1>2, <1>3
  <2> QED BY <1>20, <2>1 DEF Lasting
<1>21. ASSUME NEW k, Lasting(k, 0)
       PROVE  k \notin m.evicted /\ ~m.reset /\ Lasting(k, 0)'
  <2>1. 1 \in 0 + 1 .. End /\ 1 \in 1 .. End /\ 1 - 1 = 0
    BY <1>2, <1>3
  <2>2. Lasting(k, 1)
    <3>1. \A q \in 1 + 1 .. End : q \in 0 + 1 .. End
      BY <1>3
    <3> QED BY <1>21, <3>1 DEF Lasting
  <2>3. Lasting(k, 1 - 1)'
    BY <1>20, <2>1, <2>2
  <2>4. Lasting(k, 0)'
    BY <2>3
  <2> QED BY <1>21, <2>1, <2>4 DEF Lasting, m
<1>22. ASSUME ~lossy PROVE ViewsFit'
  <2>1. PICK V \in [0 .. End -> SUBSET Keys] : Fits(V)
    BY <1>1, <1>22 DEF KeptInv, ViewsFit
  <2>2. PICK W \in [0 .. End' -> SUBSET Keys] : \A i \in 0 .. End' : W[i] = V[i + 1]
    <3> DEFINE X == [i \in 0 .. End' |-> V[i + 1]]
    <3>1. X \in [0 .. End' -> SUBSET Keys] /\ \A i \in 0 .. End' : X[i] = V[i + 1]
      BY <1>2, <1>3
    <3> HIDE DEF X
    <3> QED BY <3>1
  <2>3. Known' \subseteq W[0]
    <3>1. After(V[0], m) \subseteq V[1] /\ Known \subseteq V[0]
      <4>1. 1 \in 1 .. End /\ 1 - 1 = 0
        BY <1>2, <1>3
      <4>2. After(V[1 - 1], Line[1]) \subseteq V[1] /\ Known \subseteq V[0]
        BY <2>1, <4>1 DEF Fits
      <4> QED BY <4>1, <4>2 DEF m
    <3>2. W[0] = V[1]
      <4>1. 0 \in 0 .. End' /\ 0 + 1 = 1
        BY <1>2, <1>3
      <4> QED BY <2>2, <4>1
    <3>3. Known' = Summarised(worker') \cup KeysOf(Line'[0].layouts)
      BY <1>11 DEF Known, Summarised
    <3>4. Known = Summarised(worker) \cup KeysOf(Line[0].layouts)
      BY <1>11 DEF Known
    <3>5. CASE m.reset
      BY <1>8, <1>13, <3>1, <3>2, <3>3, <3>5 DEF After
    <3>6. CASE ~m.reset
      <4>1. m.evicted \cap KeysOf(Line[0].layouts) = {}
        <5>1. \A q \in 0 + 1 .. 1 : ~Line[q].reset
          BY <3>6 DEF m
        <5> QED BY <1>1, <1>14, <5>1 DEF NoLateNotice, m
      <4>2. After(V[0], m) = (V[0] \ m.evicted) \cup KeysOf(m.layouts)
        BY <3>6 DEF After
      <4> QED BY <1>8, <1>13, <3>1, <3>2, <3>3, <3>4, <3>6, <4>1, <4>2
    <3> QED BY <3>5, <3>6
  <2>4. ASSUME NEW i \in 1 .. End' PROVE After(W[i - 1], Line'[i]) \subseteq W[i]
    <3>1. /\ i \in 1 .. End - 1 /\ i + 1 \in 1 .. End /\ i + 1 - 1 = i
          /\ i - 1 \in 0 .. End' /\ i - 1 + 1 = i /\ i \in 0 .. End'
      BY <1>2, <1>3
    <3>2. After(V[i + 1 - 1], Line[i + 1]) \subseteq V[i + 1]
      BY <2>1, <3>1 DEF Fits
    <3> QED BY <1>2, <2>2, <3>1, <3>2
  <2>5. ASSUME NEW i \in 0 .. End' PROVE Cardinality(W[i]) <= Capacity
    <3>1. i + 1 \in 0 .. End
      BY <1>2, <1>3
    <3> QED BY <2>1, <2>2, <3>1 DEF Fits
  <2>6. W[End'] \subseteq Resident'
    <3>1. End' \in 0 .. End' /\ End' + 1 = End
      BY <1>2, <1>3
    <3> QED BY <1>7, <2>1, <2>2, <3>1 DEF Fits
  <2> QED BY <2>2, <2>3, <2>4, <2>5, <2>6 DEF ViewsFit, Fits
<1>23. ASSUME NEW k, k \in Summarised(worker), Lasting(k, 0)
       PROVE  k \in Summarised(worker)' /\ Lasting(k, 0)'
  <2>1. Summarised(worker)' = Summarised(worker')
    BY DEF Summarised
  <2> QED BY <1>8, <1>21, <1>23, <2>1
<1>24. ASSUME ~lossy PROVE ReadyKept' /\ SubmittedKept'
  <2>1. ReadyKept /\ SubmittedKept
    BY <1>1, <1>24 DEF KeptInv
  <2>2. ReadyKept'
    BY <1>6, <1>23, <2>1 DEF ReadyKept
  <2>3. SubmittedKept'
    BY <1>6, <1>23, <2>1 DEF SubmittedKept
  <2> QED BY <2>2, <2>3
<1>25. ASSUME ~lossy PROVE UnderwayKept'
  <2> SUFFICES ASSUME NEW i \in 0 .. End', NEW j \in Line'[i].jobs, storeKeys'[j] # {}
               PROVE  Line'[i].layouts[j] # None /\ \A k \in storeKeys'[j] : Lasting(k, i)'
    BY DEF UnderwayKept
  <2>1. \A p \in 0 .. End : j \in Line[p].jobs =>
            /\ Line[p].layouts[j] # None
            /\ \A k \in storeKeys[j] : Lasting(k, p)
    BY <1>1, <1>6, <1>25 DEF KeptInv, UnderwayKept
  <2>2. CASE i # 0
    <3>1. i + 1 \in 1 .. End /\ i + 1 \in 0 .. End /\ Line'[i] = Line[i + 1] /\ i + 1 - 1 = i
      BY <1>2, <1>3, <2>2
    <3>2. \A k \in storeKeys[j] : Lasting(k, i + 1 - 1)'
      BY <1>20, <2>1, <3>1
    <3>3. \A k \in storeKeys[j] : Lasting(k, i)'
      BY <3>1, <3>2
    <3> QED BY <1>6, <2>1, <3>1, <3>3
  <2>3. CASE i = 0 /\ j \in m.jobs
    <3>1. j \in Jobs /\ m.layouts[j] # None /\ \A k \in storeKeys[j] : Lasting(k, 1)
      BY <1>5, <1>14, <2>1, <2>3 DEF m
    <3>2. 1 \in 1 .. End /\ 1 - 1 = 0
      BY <1>2, <1>3
    <3>3. \A k \in storeKeys[j] : Lasting(k, 1 - 1)'
      BY <1>20, <3>1, <3>2
    <3>4. \A k \in storeKeys[j] : Lasting(k, 0)'
      BY <3>2, <3>3
    <3> QED BY <1>6, <1>8, <1>11, <2>3, <3>1, <3>4
  <2>4. CASE i = 0 /\ j \in Line[0].jobs
    <3>1. Line[0].layouts[j] # None /\ \A k \in storeKeys[j] : Lasting(k, 0)
      BY <1>14, <2>1, <2>4
    <3>2. \A k \in storeKeys[j] : ~m.reset /\ Lasting(k, 0)'
      BY <1>21, <3>1
    <3>3. ~m.reset
      BY <1>6, <3>2
    <3>4. j \in Jobs
      BY <1>3, <1>14, <2>4, PacketParts
    <3> QED BY <1>6, <1>8, <1>11, <2>4, <3>1, <3>2, <3>3, <3>4
  <2> QED BY <1>11, <2>2, <2>3, <2>4
<1>26. KeptInv'
  BY <1>6, <1>22, <1>24, <1>25 DEF KeptInv
<1> QED BY <1>9, <1>10, <1>15, <1>16, <1>18, <1>19, <1>26 DEF SyncInv

---------------------------------------------------------------------------
(* prepare_store(): the last packet gets a job, its layout and the notices *)
(* of what was evicted for it.                                             *)

LEMMA StoreLine ==
    ASSUME SyncTyped, WorkerSound, NEW j \in Jobs, NEW new \in SUBSET (Keys \ Resident),
           NEW victims \in SUBSET Idle, NEW layout \in {Layout(new)} \cup {None},
           UNCHANGED <<metadata, workerVars, resetPending>>,
           unsent' = unsent \cup {j},
           pendingJobBlocks' = [pendingJobBlocks EXCEPT ![j] = layout],
           pendingEvicted' = pendingEvicted \cup victims
    PROVE  /\ End' = End /\ \A i \in 0 .. End : i # End => Line'[i] = Line[i]
           /\ Line'[End].jobs = Line[End].jobs \cup {j}
           /\ Line'[End].layouts = [Line[End].layouts EXCEPT ![j] = layout]
           /\ Line'[End].evicted = Line[End].evicted \cup victims
           /\ \A i \in 0 .. End : Line'[i].reset = Line[i].reset
<1>1. /\ End \in Nat /\ End >= 1 /\ Line[End] = Gathered
  BY LineIs
<1>2. End' = End
  BY DEF End
<1>3. Taken' = Taken
  BY DEF workerVars, Taken
<1>4. Line' = [i \in 0 .. End |->
                  IF i = 0 THEN Taken ELSE IF i = End THEN Gathered' ELSE metadata[i]]
  BY <1>2, <1>3 DEF Line
<1>5. \A i \in 0 .. End : i # End => Line'[i] = Line[i]
  BY <1>4 DEF Line
<1>6. Line'[End] = Gathered'
  BY <1>1, <1>4
<1>7. /\ Gathered'.jobs = Gathered.jobs \cup {j}
      /\ Gathered'.layouts = [Gathered.layouts EXCEPT ![j] = layout]
      /\ Gathered'.evicted = Gathered.evicted \cup victims
      /\ Gathered'.reset = Gathered.reset
  BY DEF Gathered
<1>8. \A i \in 0 .. End : Line'[i].reset = Line[i].reset
  <2> TAKE i \in 0 .. End
  <2>1. CASE i = End
    BY <1>1, <1>6, <1>7, <2>1
  <2> QED BY <1>5, <2>1
<1> QED BY <1>1, <1>2, <1>5, <1>6, <1>7, <1>8

\* What is stored fits: as many keys are evicted as there is no room for.
LEMMA StoreFits ==
    ASSUME SyncTyped, NEW new \in SUBSET Keys, NEW victims \in SUBSET Keys,
           StoreEvicting(new, victims)
    PROVE  /\ ref' \in [Keys -> References]
           /\ Resident' = (Resident \ victims) \cup new
           /\ Storing' = Storing \cup new
           /\ Cardinality(Resident') <= Capacity
           /\ victims \subseteq Idle
<1>1. /\ ref \in [Keys -> References] /\ Cardinality(Resident) <= Capacity
      /\ new \cap Resident = {} /\ victims \subseteq Idle
      /\ Cardinality(victims) =
           IF Cardinality(new) > Room THEN Cardinality(new) - Room ELSE 0
      /\ ref' = [k \in Keys |->
                   IF k \in new THEN -1 ELSE IF k \in victims THEN None ELSE ref[k]]
  BY DEF SyncTyped, StoreEvicting
<1>2. None # -1 /\ None # 0 /\ -1 \in References /\ None \in References
  BY TierNoneAssumption, LoadsAssumption DEF References
<1>3. \A k \in Keys : ref'[k] = IF k \in new THEN -1 ELSE IF k \in victims THEN None ELSE ref[k]
  BY <1>1
<1>4. ref' \in [Keys -> References]
  BY <1>1, <1>2
<1>5. /\ Resident' = (Resident \ victims) \cup new
      /\ Storing' = Storing \cup new
  BY <1>1, <1>2, <1>3 DEF Resident, Storing, Idle
<1>6. victims \subseteq Resident
  BY <1>1, <1>2 DEF Idle, Resident
<1>7. Cardinality(Resident') <= Capacity
  <2>1. IsFiniteSet(new) /\ IsFiniteSet(victims) /\ IsFiniteSet(Resident)
    <3>1. Resident \in SUBSET Keys
      BY DEF Resident
    <3> QED BY <3>1, KeysAssumption, FS_Subset
  <2>2. /\ IsFiniteSet(Resident \ victims)
        /\ Cardinality(Resident \ victims) = Cardinality(Resident) - Cardinality(victims)
    <3>1. Resident \cap victims = victims
      BY <1>6
    <3> QED BY <2>1, <3>1, FS_Difference
  <2>3. /\ Cardinality((Resident \ victims) \cup new) =
             Cardinality(Resident \ victims) + Cardinality(new)
                - Cardinality((Resident \ victims) \cap new)
    BY <2>1, <2>2, FS_Union
  <2>4. (Resident \ victims) \cap new = {} /\ Cardinality({}) = 0
    BY <1>1, FS_EmptySet
  <2>5. /\ Cardinality(new) \in Nat /\ Cardinality(victims) \in Nat /\ Cardinality(Resident) \in Nat
        /\ Capacity \in Nat /\ Room = Capacity - Cardinality(Resident)
    BY <2>1, FS_CardinalityType, CapacityAssumption DEF Room
  <2>6. Cardinality((Resident \ victims) \cup new) =
          Cardinality(Resident) - Cardinality(victims) + Cardinality(new)
    <3> DEFINE left == Cardinality(Resident \ victims)
               both == Cardinality((Resident \ victims) \cap new)
               sum == Cardinality((Resident \ victims) \cup new)
               old == Cardinality(Resident)
               out == Cardinality(victims)
               in == Cardinality(new)
    <3>1. sum = left + in - both /\ both = 0 /\ left = old - out
      BY <2>2, <2>3, <2>4
    <3>2. in \in Nat /\ out \in Nat /\ old \in Nat
      BY <2>5
    <3> HIDE DEF left, both, sum, old, out, in
    <3>3. sum = old - out + in
      BY <3>1, <3>2
    <3> QED BY <3>3 DEF sum, old, out, in
  <2> DEFINE a == Cardinality(Resident)
             b == Cardinality(victims)
             c == Cardinality(new)
  <2>7. a \in Nat /\ b \in Nat /\ c \in Nat /\ a <= Capacity /\ Capacity \in Nat
        /\ b = IF c > Capacity - a THEN c - (Capacity - a) ELSE 0
    BY <1>1, <2>5
  <2> HIDE DEF a, b, c
  <2>8. a - b + c <= Capacity
    BY <2>7
  <2> QED BY <1>5, <2>6, <2>8 DEF a, b, c
<1> QED BY <1>1, <1>4, <1>5, <1>7

LEMMA StoreKeeps ==
    ASSUME SyncInv, NEW j \in Jobs, Store(j)
    PROVE  SyncInv'
<1>1. /\ SyncTyped /\ WorkerSound /\ JobsPlaced
      /\ StoresApart /\ LayoutsLive /\ NoLateNotice /\ KeptInv
  BY DEF SyncInv
<1>2. PICK new \in SUBSET (Keys \ Resident), victims \in SUBSET Idle :
         /\ j \in FreshJobs
         /\ StoreEvicting(new, victims)
         /\ storeKeys' = [storeKeys EXCEPT ![j] = new]
         /\ unsent' = unsent \cup {j}
         /\ \E layout \in {Layout(new)} \cup IF lossy THEN {None} ELSE {} :
               pendingJobBlocks' = [pendingJobBlocks EXCEPT ![j] = layout]
         /\ UNCHANGED <<lossy, resetPending, metadata, workerVars>>
  BY DEF Store
<1>3. PICK layout \in {Layout(new)} \cup {None} :
         /\ pendingJobBlocks' = [pendingJobBlocks EXCEPT ![j] = layout]
         /\ layout = None => lossy
  <2>1. PICK layout \in {Layout(new)} \cup IF lossy THEN {None} ELSE {} :
           pendingJobBlocks' = [pendingJobBlocks EXCEPT ![j] = layout]
    BY <1>2
  <2>2. layout = Layout(new) \/ (layout = None /\ lossy)
    BY <2>1
  <2>3. CASE layout = None /\ lossy
    BY <2>1, <2>3
  <2>4. CASE layout = Layout(new) /\ layout # None
    BY <2>1, <2>4
  <2>5. CASE layout = Layout(new) /\ layout = None
    <3>1. new \in SUBSET Keys /\ IsFiniteSet(new)
      BY KeysAssumption, FS_Subset
    <3>2. Layout(new) \in Seq(new)
      BY <3>1, SetToSeqOnce DEF Layout
    <3>3. Layout(new) \in Seq(Keys)
      BY <3>1, <3>2
    <3> QED BY <2>5, <3>3, KeysAssumption
  <2> QED BY <2>2, <2>3, <2>4, <2>5
<1>4. /\ Layout(new) \in Seq(Keys) /\ IsInjective(Layout(new)) /\ Range(Layout(new)) = new
      /\ new \in SUBSET Keys /\ victims \in SUBSET Keys
  <2>1. new \in SUBSET Keys /\ IsFiniteSet(new)
    BY KeysAssumption, FS_Subset
  <2>2. /\ Layout(new) \in Seq(new) /\ IsInjective(Layout(new)) /\ Range(Layout(new)) = new
    BY <2>1, SetToSeqOnce DEF Layout
  <2> QED BY <2>1, <2>2 DEF Idle
<1>5. pendingEvicted' = pendingEvicted \cup victims
  BY <1>2 DEF StoreEvicting
<1>6. /\ End' = End /\ \A i \in 0 .. End : i # End => Line'[i] = Line[i]
      /\ Line'[End].jobs = Line[End].jobs \cup {j}
      /\ Line'[End].layouts = [Line[End].layouts EXCEPT ![j] = layout]
      /\ Line'[End].evicted = Line[End].evicted \cup victims
      /\ \A i \in 0 .. End : Line'[i].reset = Line[i].reset
  BY <1>1, <1>2, <1>3, <1>5, StoreLine
<1>7. /\ End \in Nat /\ End >= 1 /\ Line \in [0 .. End -> Packets]
      /\ Line[0] = Taken /\ Line[End] = Gathered /\ Len(metadata) \in Nat
      /\ \A i \in 1 .. Len(metadata) : Line[i] = metadata[i]
  BY <1>1, LineIs
<1>8. UNCHANGED <<lossy, metadata, worker, received, submitted, resetPending>>
  BY <1>2 DEF workerVars
<1>9. /\ ref' \in [Keys -> References]
      /\ Resident' = (Resident \ victims) \cup new
      /\ Storing' = Storing \cup new
      /\ Cardinality(Resident') <= Capacity
      /\ victims \subseteq Idle
  BY <1>1, <1>2, <1>4, StoreFits
<1>10. \A k \in Keys : ref'[k] = IF k \in new THEN -1 ELSE IF k \in victims THEN None ELSE ref[k]
  BY <1>2 DEF StoreEvicting
<1>11. victims \cap Storing = {} /\ new \cap Storing = {}
  BY <1>9, TierNoneAssumption DEF Idle, Storing, Resident
<1>12. SyncTyped'
  <2>1. layout \in Seq(Keys) \cup {None}
    BY <1>4
  <2>2. /\ pendingJobBlocks' \in [Jobs -> Seq(Keys) \cup {None}]
        /\ storeKeys' \in [Jobs -> SUBSET Keys]
    BY <1>1, <1>2, <1>3, <1>4, <2>1 DEF SyncTyped
  <2> QED BY <1>1, <1>2, <1>4, <1>5, <1>8, <1>9, <2>2 DEF SyncTyped
<1>13. WorkerSound'
  BY <1>1, <1>8 DEF WorkerSound, StackConsistent
\* The job is new to the line.
<1>14. j \notin submitted /\ \A i \in 0 .. End : j \notin Line[i].jobs /\ Line[i].layouts[j] = None
  <2>1. /\ j \notin unsent /\ j \notin received /\ j \notin submitted
        /\ \A i \in 1 .. Len(metadata) : j \notin metadata[i].jobs
    BY <1>2 DEF FreshJobs
  <2>2. ASSUME NEW i \in 0 .. End PROVE j \notin Line[i].jobs
    <3>1. CASE i = 0
      BY <1>7, <2>1, <3>1 DEF Taken
    <3>2. CASE i = End
      BY <1>7, <2>1, <3>2 DEF Gathered
    <3>3. CASE i # 0 /\ i # End
      <4>1. i \in 1 .. Len(metadata)
        BY <1>7, <3>3 DEF End
      <4> QED BY <1>7, <2>1, <4>1
    <3> QED BY <3>1, <3>2, <3>3
  <2>3. \A i \in 0 .. End : Line[i].layouts[j] = None
    BY <1>1, <2>2 DEF JobsPlaced
  <2> QED BY <2>1, <2>2, <2>3
<1>15. /\ \A i \in 0 .. End : Line'[i].jobs = Line[i].jobs \/ (i = End /\ Line'[i].jobs = Line[i].jobs \cup {j})
       /\ \A i \in 0 .. End, h \in Jobs : h # j => Line'[i].layouts[h] = Line[i].layouts[h]
       /\ \A i \in 0 .. End : i # End => Line'[i].layouts[j] = None
       /\ Line'[End].layouts[j] = layout
       /\ \A i \in 0 .. End : Line[i].layouts \in [Jobs -> Seq(Keys) \cup {None}]
       /\ 0 \in 0 .. End /\ End \in 0 .. End /\ 0 # End
  <2>1. \A i \in 0 .. End : Line[i].layouts \in [Jobs -> Seq(Keys) \cup {None}]
    BY <1>7, PacketParts
  <2>2. 0 \in 0 .. End /\ End \in 0 .. End /\ 0 # End
    BY <1>7
  <2> QED BY <1>6, <1>14, <2>1, <2>2
<1>16. JobsPlaced'
  <2>1. /\ \A i, p \in 0 .. End : i # p => Line[i].jobs \cap Line[p].jobs = {}
        /\ \A i \in 0 .. End : Line[i].jobs \cap submitted = {}
        /\ \A i \in 0 .. End, h \in Jobs : Line[i].layouts[h] # None =>
              h \in Line[i].jobs /\ IsInjective(Line[i].layouts[h])
    BY <1>1 DEF JobsPlaced
  <2>2. ASSUME NEW i \in 0 .. End, NEW p \in 0 .. End, i # p
        PROVE  Line'[i].jobs \cap Line'[p].jobs = {}
    BY <1>14, <1>15, <2>1, <2>2
  <2>3. ASSUME NEW i \in 0 .. End PROVE Line'[i].jobs \cap submitted = {}
    BY <1>14, <1>15, <2>1
  <2>4. ASSUME NEW i \in 0 .. End, NEW h \in Jobs, Line'[i].layouts[h] # None
        PROVE  h \in Line'[i].jobs /\ IsInjective(Line'[i].layouts[h])
    <3>1. CASE h # j
      BY <1>15, <2>1, <2>4, <3>1
    <3>2. CASE h = j
      <4>1. i = End /\ layout = Layout(new)
        BY <1>15, <2>4, <3>2
      <4> QED BY <1>4, <1>6, <1>15, <3>2, <4>1
    <3> QED BY <3>1, <3>2
  <2> QED BY <1>6, <1>8, <2>2, <2>3, <2>4 DEF JobsPlaced
<1>17. storeKeys'[j] = new /\ \A h \in Jobs : h # j => storeKeys'[h] = storeKeys[h]
  BY <1>1, <1>2 DEF SyncTyped
<1>18. StoresApart'
  <2>1. /\ \A h \in Jobs : storeKeys[h] \subseteq Storing
        /\ \A i, h \in Jobs : i # h => storeKeys[i] \cap storeKeys[h] = {}
    BY <1>1 DEF StoresApart
  <2>2. \A h \in Jobs : storeKeys'[h] \subseteq Storing'
    BY <1>9, <1>17, <2>1
  <2>3. \A h \in Jobs : h # j => storeKeys'[h] \cap new = {}
    BY <1>11, <1>17, <2>1
  <2>4. ASSUME NEW i \in Jobs, NEW h \in Jobs, i # h PROVE storeKeys'[i] \cap storeKeys'[h] = {}
    BY <1>17, <2>1, <2>3, <2>4
  <2> QED BY <2>2, <2>4 DEF StoresApart
<1>19. \A i \in 0 .. End : NoResetAfter(i)' => NoResetAfter(i)
  <2> TAKE i \in 0 .. End
  <2> SUFFICES ASSUME NoResetAfter(i)', NEW q \in i + 1 .. End PROVE ~Line[q].reset
    BY DEF NoResetAfter
  <2>1. q \in 0 .. End
    BY <1>7
  <2> QED BY <1>6, <2>1 DEF NoResetAfter
<1>20. LayoutsLive'
  <2> SUFFICES ASSUME NEW i \in 0 .. End, NEW h \in Jobs, NoResetAfter(i)',
                      Line'[i].layouts[h] # None
               PROVE  Range(Line'[i].layouts[h]) = storeKeys'[h]
    BY <1>6 DEF LayoutsLive
  <2>1. CASE h # j
    BY <1>1, <1>15, <1>17, <1>19, <2>1 DEF LayoutsLive
  <2>2. CASE h = j
    BY <1>4, <1>15, <1>17, <2>2
  <2> QED BY <2>1, <2>2
\* No live layout names a victim: what it names is being stored.
<1>21. ASSUME NEW i \in 0 .. End, NoResetAfter(i) PROVE victims \cap KeysOf(Line[i].layouts) = {}
  <2>1. ASSUME NEW h \in Jobs PROVE LayoutKeys(Line[i].layouts, h) \subseteq Storing
    <3>1. CASE Line[i].layouts[h] # None
      <4>1. Range(Line[i].layouts[h]) = storeKeys[h]
        BY <1>1, <1>21, <3>1 DEF LayoutsLive
      <4> QED BY <1>1, <3>1, <4>1 DEF StoresApart, LayoutKeys
    <3>2. CASE Line[i].layouts[h] = None
      BY <3>2 DEF LayoutKeys
    <3> QED BY <3>1, <3>2
  <2>2. KeysOf(Line[i].layouts) \subseteq Storing
    BY <2>1 DEF KeysOf
  <2> QED BY <1>11, <2>2
<1>22. NoLateNotice'
  <2> SUFFICES ASSUME NEW i \in 0 .. End, NEW p \in 0 .. End, i < p,
                      \A q \in i + 1 .. p : ~Line'[q].reset
               PROVE  Line'[p].evicted \cap KeysOf(Line'[i].layouts) = {}
    BY <1>6 DEF NoLateNotice
  <2>1. \A q \in i + 1 .. p : q \in 0 .. End
    BY <1>7
  <2>2. \A q \in i + 1 .. p : ~Line[q].reset
    BY <1>6, <2>1
  <2>3. i # End /\ Line'[i] = Line[i]
    BY <1>6, <1>7
  <2>4. Line[p].evicted \cap KeysOf(Line[i].layouts) = {}
    BY <1>1, <2>2 DEF NoLateNotice
  <2>5. CASE p # End
    BY <1>6, <2>3, <2>4, <2>5
  <2>6. CASE p = End
    <3>1. NoResetAfter(i)
      BY <2>2, <2>6 DEF NoResetAfter
    <3>2. victims \cap KeysOf(Line[i].layouts) = {}
      BY <1>21, <3>1
    <3> QED BY <1>6, <2>3, <2>4, <2>6, <3>2
  <2> QED BY <2>5, <2>6
<1>23. ASSUME NEW i \in 0 .. End, NEW k, k \notin victims, Lasting(k, i) PROVE Lasting(k, i)'
  <2> SUFFICES ASSUME NEW q \in i + 1 .. End
               PROVE  k \notin Line'[q].evicted /\ ~Line'[q].reset
    BY <1>6 DEF Lasting
  <2>1. q \in 0 .. End /\ k \notin Line[q].evicted /\ ~Line[q].reset
    BY <1>7, <1>23 DEF Lasting
  <2> QED BY <1>6, <1>23, <2>1
<1>24. ASSUME ~lossy PROVE ViewsFit'
  <2>1. PICK V \in [0 .. End -> SUBSET Keys] : Fits(V)
    BY <1>1, <1>24 DEF KeptInv, ViewsFit
  <2>2. PICK W \in [0 .. End -> SUBSET Keys] :
           W[End] = (V[End] \ victims) \cup new /\ \A i \in 0 .. End : i # End => W[i] = V[i]
    <3> DEFINE X == [i \in 0 .. End |-> IF i = End THEN (V[End] \ victims) \cup new ELSE V[i]]
    <3>1. V[End] \in SUBSET Keys
      BY <1>15
    <3>2. X \in [0 .. End -> SUBSET Keys]
      BY <1>4, <3>1
    <3>3. X[End] = (V[End] \ victims) \cup new /\ \A i \in 0 .. End : i # End => X[i] = V[i]
      BY <1>15
    <3> HIDE DEF X
    <3> QED BY <3>2, <3>3
  <2>3. Known' \subseteq W[0]
    <3>1. Known' = Known
      BY <1>8 DEF Known
    <3> QED BY <1>15, <2>1, <2>2, <3>1 DEF Fits
  <2>4. ASSUME NEW i \in 1 .. End PROVE After(W[i - 1], Line'[i]) \subseteq W[i]
    <3>1. i \in 0 .. End /\ i - 1 \in 0 .. End /\ i - 1 # End
      BY <1>7
    <3>2. W[i - 1] = V[i - 1] /\ After(V[i - 1], Line[i]) \subseteq V[i]
      BY <2>1, <2>2, <3>1 DEF Fits
    <3>3. CASE i # End
      BY <1>6, <2>2, <3>1, <3>2, <3>3
    <3>4. CASE i = End
      <4>1. KeysOf(Line'[End].layouts) \subseteq KeysOf(Line[End].layouts) \cup new
        <5>1. LayoutKeys(Line'[End].layouts, j) \subseteq new
          BY <1>4, <1>15 DEF LayoutKeys
        <5>2. \A h \in Jobs : h # j =>
                 LayoutKeys(Line'[End].layouts, h) = LayoutKeys(Line[End].layouts, h)
          BY <1>15 DEF LayoutKeys
        <5> QED BY <5>1, <5>2 DEF KeysOf
      <4>2. NoResetAfter(End)
        BY <1>7 DEF NoResetAfter
      <4>3. victims \cap KeysOf(Line[End].layouts) = {}
        BY <1>15, <1>21, <4>2
      <4>4. CASE Line[End].reset
        BY <1>6, <1>15, <2>2, <3>2, <3>4, <4>1, <4>3, <4>4 DEF After
      <4>5. CASE ~Line[End].reset
        BY <1>6, <1>15, <2>2, <3>2, <3>4, <4>1, <4>3, <4>5 DEF After
      <4> QED BY <4>4, <4>5
    <3> QED BY <3>3, <3>4
  <2>5. W[End] \subseteq Resident'
    BY <1>9, <2>1, <2>2 DEF Fits
  <2>6. ASSUME NEW i \in 0 .. End PROVE Cardinality(W[i]) <= Capacity
    <3>1. CASE i # End
      BY <2>1, <2>2, <3>1 DEF Fits
    <3>2. CASE i = End
      <4>1. Resident' \in SUBSET Keys
        BY DEF Resident
      <4>2. IsFiniteSet(Resident') /\ W[End] \in SUBSET Resident'
        BY <2>5, <4>1, KeysAssumption, FS_Subset
      <4>3. /\ Cardinality(W[End]) <= Cardinality(Resident') /\ IsFiniteSet(W[End])
        BY <4>2, FS_Subset
      <4>4. Cardinality(W[End]) \in Nat /\ Cardinality(Resident') \in Nat /\ Capacity \in Nat
        BY <4>2, <4>3, FS_CardinalityType, CapacityAssumption
      <4> DEFINE a == Cardinality(W[End])
                 b == Cardinality(Resident')
      <4>5. a \in Nat /\ b \in Nat /\ Capacity \in Nat /\ a <= b /\ b <= Capacity
        BY <1>9, <4>3, <4>4
      <4> HIDE DEF a, b
      <4>6. a <= Capacity
        BY <4>5
      <4> QED BY <3>2, <4>6 DEF a
    <3> QED BY <3>1, <3>2
  <2> QED BY <1>6, <2>2, <2>3, <2>4, <2>5, <2>6 DEF ViewsFit, Fits
<1>25. ASSUME ~lossy PROVE ReadyKept' /\ SubmittedKept' /\ UnderwayKept'
  <2>1. ReadyKept /\ SubmittedKept /\ UnderwayKept
    BY <1>1, <1>25 DEF KeptInv
  <2>2. Summarised(worker)' = Summarised(worker)
    BY <1>8
  <2>3. ReadyKept'
    <3> SUFFICES ASSUME NEW k \in Keys, ref'[k] \notin {None, -1}
                 PROVE  k \in Summarised(worker)' /\ Lasting(k, 0)'
      BY DEF ReadyKept
    <3>1. k \notin victims /\ ref[k] \notin {None, -1}
      BY <1>10
    <3> QED BY <1>15, <1>23, <2>1, <2>2, <3>1 DEF ReadyKept
  <2>4. ASSUME NEW h \in Jobs, NEW k \in storeKeys[h] PROVE k \notin victims
    BY <1>1, <1>11 DEF StoresApart
  <2>5. SubmittedKept'
    <3> SUFFICES ASSUME NEW h \in submitted, NEW k \in storeKeys'[h]
                 PROVE  k \in Summarised(worker)' /\ Lasting(k, 0)'
      BY <1>8 DEF SubmittedKept
    <3>1. h \in Jobs /\ h # j
      BY <1>1, <1>14 DEF SyncTyped
    <3>2. k \in storeKeys[h] /\ k \notin victims
      BY <1>17, <2>4, <3>1
    <3> QED BY <1>15, <1>23, <2>1, <2>2, <3>2 DEF SubmittedKept
  <2>6. UnderwayKept'
    <3> SUFFICES ASSUME NEW i \in 0 .. End, NEW h \in Line'[i].jobs, storeKeys'[h] # {}
                 PROVE  Line'[i].layouts[h] # None /\ \A k \in storeKeys'[h] : Lasting(k, i)'
      BY <1>6 DEF UnderwayKept
    <3>1. CASE h # j
      <4>1. h \in Line[i].jobs
        BY <1>15, <3>1
      <4>2. h \in Jobs
        BY <1>7, <4>1, PacketParts
      <4>3. Line[i].layouts[h] # None /\ \A k \in storeKeys[h] : Lasting(k, i)
        BY <1>17, <2>1, <3>1, <4>1, <4>2 DEF UnderwayKept
      <4> QED BY <1>15, <1>17, <1>23, <2>4, <3>1, <4>2, <4>3
    <3>2. CASE h = j
      <4>1. i = End
        BY <1>14, <1>15, <3>2
      <4>2. Line'[i].layouts[h] # None
        BY <1>3, <1>15, <1>25, <3>2, <4>1
      <4>3. \A k : Lasting(k, End)
        BY <1>7 DEF Lasting
      <4>4. \A k \in new : k \notin victims
        BY <1>9, TierNoneAssumption DEF Idle, Resident
      <4> QED BY <1>15, <1>17, <1>23, <3>2, <4>1, <4>2, <4>3, <4>4
    <3> QED BY <3>1, <3>2
  <2> QED BY <2>3, <2>5, <2>6
<1>26. KeptInv'
  BY <1>8, <1>24, <1>25 DEF KeptInv
<1> QED BY <1>12, <1>13, <1>16, <1>18, <1>20, <1>22, <1>26 DEF SyncInv

---------------------------------------------------------------------------
(* The worker submits a store, and captures queries: only packet 0 changes. *)

LEMMA WorkerLine ==
    ASSUME SyncTyped, WorkerSound,
           UNCHANGED <<metadata, unsent, pendingJobBlocks, pendingEvicted, resetPending>>
    PROVE  /\ End' = End /\ Line'[0] = Taken'
           /\ \A i \in 1 .. End : Line'[i] = Line[i]
<1>1. End \in Nat /\ End >= 1
  BY LineIs
<1>2. End' = End
  BY DEF End
<1>3. Gathered' = Gathered
  BY DEF Gathered
<1>4. Line' = [i \in 0 .. End |->
                  IF i = 0 THEN Taken' ELSE IF i = End THEN Gathered ELSE metadata[i]]
  BY <1>2, <1>3 DEF Line
<1>5. Line = [i \in 0 .. End |->
                  IF i = 0 THEN Taken ELSE IF i = End THEN Gathered ELSE metadata[i]]
  BY DEF Line
<1>6. ASSUME NEW i \in 1 .. End PROVE Line'[i] = Line[i]
  <2>1. i \in 0 .. End /\ i # 0
    BY <1>1
  <2> QED BY <1>4, <1>5, <2>1
<1>7. Line'[0] = Taken'
  BY <1>1, <1>4
<1> QED BY <1>2, <1>6, <1>7

LEMMA SubmitKeeps ==
    ASSUME SyncInv, NEW j \in Jobs, Submit(j)
    PROVE  SyncInv'
<1>1. /\ SyncTyped /\ WorkerSound /\ JobsPlaced
      /\ StoresApart /\ LayoutsLive /\ NoLateNotice /\ KeptInv
  BY DEF SyncInv
<1>2. /\ End \in Nat /\ End >= 1 /\ Line \in [0 .. End -> Packets]
      /\ Line[0] = Taken /\ StackInv(worker) /\ worker \in Worker
  BY <1>1, LineIs
<1>3. /\ j \in received /\ worker' = SubmitStore(worker, j) /\ received' = received \ {j}
      /\ submitted' = submitted \cup {j}
      /\ UNCHANGED <<ref, pendingEvicted, lossy, storeKeys, pendingJobBlocks, unsent,
                     resetPending, metadata>>
  BY DEF Submit, tierVars, schedulerVars
<1>4. /\ End' = End /\ Line'[0] = Taken'
      /\ \A i \in 1 .. End : Line'[i] = Line[i]
  BY <1>1, <1>3, WorkerLine
<1>5. UNCHANGED <<Resident, Storing>>
  BY <1>3 DEF Resident, Storing
<1>6. /\ Line[0].jobs = received /\ Line[0].layouts = worker.jobBlocks
      /\ Line'[0].jobs = received' /\ Line'[0].layouts = worker'.jobBlocks
      /\ Line'[0].evicted = {} /\ Line'[0].reset = FALSE
      /\ Line[0].evicted = {} /\ Line[0].reset = FALSE
      /\ 0 \in 0 .. End
  BY <1>2, <1>4 DEF Taken
<1>7. worker.jobBlocks \in [Jobs -> Seq(Keys) \cup {None}]
  BY <1>2 DEF Worker
<1>8. worker.jobBlocks[j] # None => IsInjective(worker.jobBlocks[j])
  BY <1>1, <1>6 DEF JobsPlaced
<1> DEFINE all == Summarised(worker) \cup LayoutKeys(worker.jobBlocks, j)
<1>9. /\ StackInv(worker') /\ worker'.jobBlocks = [worker.jobBlocks EXCEPT ![j] = None]
      /\ Summarised(worker') \subseteq all
      /\ Cardinality(all) <= Capacity => Summarised(worker') = all
      /\ Len(worker.durable) <= Capacity => Len(worker'.durable) <= Capacity
  BY <1>2, <1>3, <1>8, StoreFollows
<1>10. SyncTyped'
  BY <1>1, <1>3, <1>5 DEF SyncTyped
<1>11. WorkerSound'
  <2>1. StackConsistent'
    BY <1>9 DEF StackConsistent, StackInv, StackShape, Follows, DirtyIfBehind
  <2> QED BY <1>1, <1>9, <2>1 DEF WorkerSound
<1>12. /\ \A i \in 0 .. End : i = 0 \/ (i \in 1 .. End /\ Line'[i] = Line[i])
       /\ Line'[0].jobs = Line[0].jobs \ {j}
       /\ Line'[0].layouts = [Line[0].layouts EXCEPT ![j] = None]
  BY <1>2, <1>3, <1>4, <1>6, <1>9
<1>13. /\ \A i \in 0 .. End : Line'[i].jobs \subseteq Line[i].jobs
       /\ \A i \in 0 .. End, h \in Jobs : Line'[i].layouts[h] # None =>
             /\ Line'[i].layouts[h] = Line[i].layouts[h]
             /\ h \in Line[i].jobs => h \in Line'[i].jobs
  <2>1. \A h \in Jobs : Line'[0].layouts[h] # None =>
             h # j /\ Line'[0].layouts[h] = Line[0].layouts[h]
    BY <1>6, <1>7, <1>12
  <2>2. ASSUME NEW i \in 0 .. End PROVE Line'[i].jobs \subseteq Line[i].jobs
    BY <1>12
  <2>3. ASSUME NEW i \in 0 .. End, NEW h \in Jobs, Line'[i].layouts[h] # None
        PROVE  /\ Line'[i].layouts[h] = Line[i].layouts[h]
               /\ h \in Line[i].jobs => h \in Line'[i].jobs
    BY <1>12, <2>1, <2>3
  <2> QED BY <2>2, <2>3
<1>14. /\ \A i \in 0 .. End : KeysOf(Line'[i].layouts) \subseteq KeysOf(Line[i].layouts)
       /\ \A i \in 0 .. End : j \notin Line'[i].jobs
  <2>1. ASSUME NEW i \in 0 .. End PROVE KeysOf(Line'[i].layouts) \subseteq KeysOf(Line[i].layouts)
    BY <1>13 DEF KeysOf, LayoutKeys
  <2>2. ASSUME NEW i \in 0 .. End PROVE j \notin Line'[i].jobs
    <3>1. \A p \in 0 .. End : p # 0 => Line[0].jobs \cap Line[p].jobs = {}
      BY <1>1, <1>6 DEF JobsPlaced
    <3> QED BY <1>3, <1>6, <1>12, <3>1
  <2> QED BY <2>1, <2>2
<1>15. JobsPlaced'
  <2>1. ASSUME NEW i \in 0 .. End, NEW p \in 0 .. End, i # p
        PROVE  Line'[i].jobs \cap Line'[p].jobs = {}
    <3>1. Line[i].jobs \cap Line[p].jobs = {}
      BY <1>1, <2>1 DEF JobsPlaced
    <3> QED BY <1>13, <3>1
  <2>2. ASSUME NEW i \in 0 .. End PROVE Line'[i].jobs \cap submitted' = {}
    <3>1. Line[i].jobs \cap submitted = {}
      BY <1>1 DEF JobsPlaced
    <3> QED BY <1>3, <1>13, <1>14, <3>1
  <2>3. ASSUME NEW i \in 0 .. End, NEW h \in Jobs, Line'[i].layouts[h] # None
        PROVE  h \in Line'[i].jobs /\ IsInjective(Line'[i].layouts[h])
    BY <1>1, <1>13, <2>3 DEF JobsPlaced
  <2> QED BY <1>4, <2>1, <2>2, <2>3 DEF JobsPlaced
<1>16. StoresApart'
  BY <1>1, <1>3, <1>5 DEF StoresApart
<1>17. \A i \in 0 .. End : NoResetAfter(i)' => NoResetAfter(i)
  <2> SUFFICES ASSUME NEW i \in 0 .. End, NoResetAfter(i)', NEW q \in i + 1 .. End
               PROVE  ~Line[q].reset
    BY DEF NoResetAfter
  <2>1. q \in 1 .. End
    BY <1>2
  <2> QED BY <1>4, <2>1 DEF NoResetAfter
<1>18. LayoutsLive'
  <2> SUFFICES ASSUME NEW i \in 0 .. End, NEW h \in Jobs, NoResetAfter(i)',
                      Line'[i].layouts[h] # None
               PROVE  Range(Line'[i].layouts[h]) = storeKeys[h]
    BY <1>3, <1>4 DEF LayoutsLive
  <2> QED BY <1>1, <1>13, <1>17 DEF LayoutsLive
<1>19. NoLateNotice'
  <2> SUFFICES ASSUME NEW i \in 0 .. End, NEW p \in 0 .. End, i < p,
                      \A q \in i + 1 .. p : ~Line'[q].reset
               PROVE  Line'[p].evicted \cap KeysOf(Line'[i].layouts) = {}
    BY <1>4 DEF NoLateNotice
  <2>1. p \in 1 .. End /\ \A q \in i + 1 .. p : q \in 1 .. End
    BY <1>2
  <2>2. Line'[p] = Line[p] /\ \A q \in i + 1 .. p : ~Line[q].reset
    BY <1>4, <2>1
  <2>3. Line[p].evicted \cap KeysOf(Line[i].layouts) = {}
    BY <1>1, <2>2 DEF NoLateNotice
  <2> QED BY <1>14, <2>2, <2>3
<1>20. ASSUME NEW i \in 0 .. End, NEW k PROVE Lasting(k, i)' <=> Lasting(k, i)
  <2>1. \A q \in i + 1 .. End : q \in 1 .. End
    BY <1>2
  <2> QED BY <1>4, <2>1 DEF Lasting
\* Where stores succeed nothing is pruned: what the worker knows fits.
<1>21. ASSUME ~lossy PROVE ViewsFit' /\ Summarised(worker') = all
  <2>1. PICK V \in [0 .. End -> SUBSET Keys] : Fits(V)
    BY <1>1, <1>21 DEF KeptInv, ViewsFit
  <2>2. all \subseteq Known
    BY DEF Known, KeysOf
  <2>3. KeysOf(worker'.jobBlocks) \subseteq KeysOf(worker.jobBlocks)
    BY <1>6, <1>14
  <2>4. Known' \subseteq Known
    <3>1. Known' = Summarised(worker') \cup KeysOf(worker'.jobBlocks)
      BY DEF Known, Summarised
    <3> QED BY <1>9, <2>2, <2>3, <3>1 DEF Known
  <2>5. Cardinality(all) <= Capacity
    <3>1. V[0] \in SUBSET Keys /\ all \in SUBSET V[0] /\ Cardinality(V[0]) <= Capacity
      BY <1>6, <2>1, <2>2 DEF Fits
    <3>2. IsFiniteSet(V[0])
      BY <3>1, KeysAssumption, FS_Subset
    <3>3. Cardinality(all) <= Cardinality(V[0]) /\ IsFiniteSet(all)
      BY <3>1, <3>2, FS_Subset
    <3> DEFINE a == Cardinality(all)
               b == Cardinality(V[0])
    <3>4. a \in Nat /\ b \in Nat /\ Capacity \in Nat /\ a <= b /\ b <= Capacity
      BY <3>1, <3>2, <3>3, FS_CardinalityType, CapacityAssumption
    <3> HIDE DEF a, b
    <3>5. a <= Capacity
      BY <3>4
    <3> QED BY <3>5 DEF a
  <2>6. Known' \subseteq V[0]
    BY <2>1, <2>4 DEF Fits
  <2>7. \A i \in 1 .. End : After(V[i - 1], Line'[i]) \subseteq V[i]
    BY <1>4, <2>1 DEF Fits
  <2>8. (\A i \in 0 .. End : Cardinality(V[i]) <= Capacity) /\ V[End] \subseteq Resident'
    BY <1>5, <2>1 DEF Fits
  <2> QED BY <1>4, <1>9, <2>5, <2>6, <2>7, <2>8 DEF ViewsFit, Fits
<1>22. ASSUME ~lossy PROVE ReadyKept' /\ SubmittedKept' /\ UnderwayKept'
  <2>1. ReadyKept /\ SubmittedKept /\ UnderwayKept
    BY <1>1, <1>22 DEF KeptInv
  <2>2. Summarised(worker)' = Summarised(worker) \cup LayoutKeys(worker.jobBlocks, j)
    BY <1>21, <1>22 DEF Summarised
  <2>3. ReadyKept'
    BY <1>3, <1>6, <1>20, <2>1, <2>2 DEF ReadyKept
  <2>4. ASSUME NEW k \in storeKeys[j] PROVE k \in Summarised(worker)' /\ Lasting(k, 0)'
    <3>1. worker.jobBlocks[j] # None /\ Lasting(k, 0)
      BY <1>3, <1>6, <2>1 DEF UnderwayKept
    <3>2. NoResetAfter(0)
      BY <3>1 DEF Lasting, NoResetAfter
    <3>3. Range(worker.jobBlocks[j]) = storeKeys[j]
      BY <1>1, <1>6, <3>1, <3>2 DEF LayoutsLive
    <3> QED BY <1>6, <1>20, <2>2, <3>1, <3>3 DEF LayoutKeys
  <2>5. SubmittedKept'
    <3> SUFFICES ASSUME NEW h \in submitted', NEW k \in storeKeys[h]
                 PROVE  k \in Summarised(worker)' /\ Lasting(k, 0)'
      BY <1>3 DEF SubmittedKept
    <3>1. CASE h = j
      BY <2>4, <3>1
    <3>2. CASE h # j
      BY <1>3, <1>6, <1>20, <2>1, <2>2, <3>2 DEF SubmittedKept
    <3> QED BY <3>1, <3>2
  <2>6. UnderwayKept'
    <3> SUFFICES ASSUME NEW i \in 0 .. End, NEW h \in Line'[i].jobs, storeKeys[h] # {}
                 PROVE  Line'[i].layouts[h] # None /\ \A k \in storeKeys[h] : Lasting(k, i)'
      BY <1>3, <1>4 DEF UnderwayKept
    <3>1. h \in Line[i].jobs /\ h # j
      BY <1>13, <1>14
    <3>2. Line[i].layouts[h] # None /\ \A k \in storeKeys[h] : Lasting(k, i)
      BY <2>1, <3>1 DEF UnderwayKept
    <3>3. Line'[i].layouts[h] = Line[i].layouts[h]
      <4>1. CASE i = 0
        <5>1. Line[0].layouts \in [Jobs -> Seq(Keys) \cup {None}]
          BY <1>6, <1>7
        <5>2. h \in Jobs
          BY <1>1, <1>6, <3>1, <4>1 DEF SyncTyped
        <5> QED BY <1>12, <3>1, <4>1, <5>1, <5>2
      <4> QED BY <1>12, <4>1
    <3> QED BY <1>20, <3>2, <3>3
  <2> QED BY <2>3, <2>5, <2>6
<1>23. KeptInv'
  BY <1>3, <1>21, <1>22 DEF KeptInv
<1> QED BY <1>10, <1>11, <1>15, <1>16, <1>18, <1>19, <1>23 DEF SyncInv

LEMMA CaptureKeeps ==
    ASSUME SyncInv, Capture
    PROVE  SyncInv'
<1>1. /\ SyncTyped /\ WorkerSound /\ JobsPlaced
      /\ StoresApart /\ LayoutsLive /\ NoLateNotice /\ KeptInv
  BY DEF SyncInv
<1>2. End \in Nat /\ Line[0] = Taken /\ StackInv(worker)
  BY <1>1, LineIs
<1>3. /\ worker' = CaptureQueries(worker)
      /\ UNCHANGED <<ref, pendingEvicted, schedulerVars, metadata, received, submitted>>
      /\ UNCHANGED <<lossy, storeKeys, unsent, pendingJobBlocks, resetPending>>
  BY DEF Capture, tierVars, schedulerVars
<1>4. /\ StackInv(worker') /\ worker'.durable = worker.durable
      /\ worker'.jobBlocks = worker.jobBlocks
  BY <1>2, <1>3, CaptureFollows
<1>5. WorkerSound'
  <2>1. StackConsistent'
    BY <1>4 DEF StackConsistent, StackInv, StackShape, Follows, DirtyIfBehind
  <2> QED BY <1>1, <1>4, <2>1 DEF WorkerSound
<1>6. End' = End /\ Line'[0] = Taken' /\ \A i \in 1 .. End : Line'[i] = Line[i]
  BY <1>1, <1>3, WorkerLine
<1>7. \A i \in 0 .. End : Line'[i] = Line[i]
  <2>1. Taken' = Taken
    BY <1>3, <1>4 DEF Taken
  <2>2. \A i \in 0 .. End : i = 0 \/ i \in 1 .. End
    BY <1>2
  <2> QED BY <1>2, <1>6, <2>1, <2>2
<1>8. UNCHANGED <<Resident, Storing>> /\ Summarised(worker)' = Summarised(worker) /\ Known' = Known
  BY <1>3, <1>4 DEF Resident, Storing, Summarised, Known
<1>9. /\ SyncTyped' /\ StoresApart'
  BY <1>1, <1>3, <1>8 DEF SyncTyped, StoresApart
<1>10. JobsPlaced'
  BY <1>1, <1>3, <1>6, <1>7 DEF JobsPlaced
<1>11. \A i \in 0 .. End : \A q \in i + 1 .. End : Line'[q] = Line[q]
  BY <1>2, <1>6
<1>12. \A i \in 0 .. End : (NoResetAfter(i)' <=> NoResetAfter(i))
  BY <1>6, <1>11 DEF NoResetAfter
<1>13. LayoutsLive'
  BY <1>1, <1>3, <1>6, <1>7, <1>12 DEF LayoutsLive
<1>14. NoLateNotice'
  <2>1. \A i, p \in 0 .. End : \A q \in i + 1 .. p : q \in 1 .. End
    BY <1>2
  <2>2. \A i, p \in 0 .. End : \A q \in i + 1 .. p : Line'[q] = Line[q]
    BY <1>6, <2>1
  <2> QED BY <1>1, <1>6, <1>7, <2>2 DEF NoLateNotice
<1>15. \A i \in 0 .. End : \A k : Lasting(k, i)' <=> Lasting(k, i)
  BY <1>6, <1>11 DEF Lasting
<1>16. 0 \in 0 .. End
  BY <1>2
<1>17. ViewsFit => ViewsFit'
  BY <1>6, <1>8 DEF ViewsFit, Fits
<1>18. ReadyKept => ReadyKept'
  BY <1>3, <1>8, <1>15, <1>16 DEF ReadyKept
<1>19. SubmittedKept => SubmittedKept'
  BY <1>3, <1>8, <1>15, <1>16 DEF SubmittedKept
<1>20. UnderwayKept => UnderwayKept'
  BY <1>3, <1>6, <1>7, <1>15 DEF UnderwayKept
<1>21. KeptInv'
  BY <1>1, <1>3, <1>17, <1>18, <1>19, <1>20 DEF KeptInv
<1> QED BY <1>5, <1>9, <1>10, <1>13, <1>14, <1>21 DEF SyncInv

---------------------------------------------------------------------------
(* A store is completed, and the cache is reset, by the scheduler.         *)

LEMMA CompleteKeeps ==
    ASSUME SyncInv, NEW j \in Jobs, NEW success \in BOOLEAN, CompleteStore(j, success)
    PROVE  SyncInv'
<1>1. /\ SyncTyped /\ WorkerSound /\ JobsPlaced
      /\ StoresApart /\ LayoutsLive /\ NoLateNotice /\ KeptInv
  BY DEF SyncInv
<1>2. End \in Nat /\ End >= 1 /\ Line \in [0 .. End -> Packets]
  BY <1>1, LineIs
<1>3. /\ j \in submitted /\ submitted' = submitted \ {j}
      /\ storeKeys' = [storeKeys EXCEPT ![j] = {}]
      /\ ~success => lossy
      /\ UNCHANGED <<lossy, pendingJobBlocks, unsent, resetPending, metadata, worker, received>>
  BY DEF CompleteStore
<1>4. storeKeys'[j] = {} /\ \A h \in Jobs : h # j => storeKeys'[h] = storeKeys[h]
  BY <1>1, <1>3 DEF SyncTyped
<1>5. storeKeys[j] \subseteq Storing /\ storeKeys[j] \in SUBSET Keys
  BY <1>1 DEF StoresApart, SyncTyped
<1>6. None # -1 /\ None # 0 /\ 0 \in References /\ None \in References
  BY TierNoneAssumption, LoadsAssumption DEF References
\* What the completion does to the tier.
<1>7. /\ ref' \in [Keys -> References]
      /\ pendingEvicted' = pendingEvicted
      /\ \A k \in Keys : k \notin storeKeys[j] => ref'[k] = ref[k]
      /\ success => \A k \in storeKeys[j] : ref'[k] = 0
      /\ ~success => \A k \in storeKeys[j] : ref'[k] = None
  <2>1. ref \in [Keys -> References]
    BY <1>1 DEF SyncTyped
  <2>2. CASE storeKeys[j] = {}
    <3>1. UNCHANGED tierVars
      BY <2>2 DEF CompleteStore
    <3> QED BY <2>1, <2>2, <3>1 DEF tierVars
  <2>3. CASE storeKeys[j] # {} /\ success
    <3>1. StoreCompleted(storeKeys[j])
      BY <2>3 DEF CompleteStore
    <3>2. ref' = [k \in Keys |-> IF k \in storeKeys[j] THEN 0 ELSE ref[k]]
          /\ pendingEvicted' = pendingEvicted
      BY <3>1 DEF StoreCompleted
    <3> QED BY <1>5, <1>6, <2>1, <2>3, <3>2
  <2>4. CASE storeKeys[j] # {} /\ ~success
    <3>1. StoreFailed(storeKeys[j])
      BY <2>4 DEF CompleteStore
    <3>2. ref' = [k \in Keys |-> IF k \in storeKeys[j] THEN None ELSE ref[k]]
          /\ pendingEvicted' = pendingEvicted
      BY <3>1 DEF StoreFailed
    <3> QED BY <1>5, <1>6, <2>1, <2>4, <3>2
  <2> QED BY <2>2, <2>3, <2>4
<1>8. Storing' = Storing \ storeKeys[j]
  <2>1. \A k \in storeKeys[j] : ref'[k] # -1
    BY <1>6, <1>7
  <2>2. \A k \in Keys : ref'[k] = -1 <=> ref[k] = -1 /\ k \notin storeKeys[j]
    BY <1>7, <2>1
  <2> QED BY <2>2 DEF Storing
<1>9. Resident' \subseteq Resident /\ (success => Resident' = Resident)
  <2>1. \A k \in storeKeys[j] : ref[k] = -1 /\ ref[k] # None
    BY <1>5, <1>6 DEF Storing
  <2>2. \A k \in Keys : ref'[k] # None => ref[k] # None
    BY <1>7, <2>1
  <2>3. success => \A k \in Keys : ref[k] # None => ref'[k] # None
    BY <1>6, <1>7
  <2> QED BY <2>2, <2>3 DEF Resident
<1>10. Cardinality(Resident') <= Capacity
  <2>1. Resident \in SUBSET Keys /\ IsFiniteSet(Resident)
    <3>1. Resident \in SUBSET Keys
      BY DEF Resident
    <3> QED BY <3>1, KeysAssumption, FS_Subset
  <2>2. Cardinality(Resident') <= Cardinality(Resident) /\ IsFiniteSet(Resident')
    BY <1>9, <2>1, FS_Subset
  <2> DEFINE a == Cardinality(Resident')
             b == Cardinality(Resident)
  <2>3. a \in Nat /\ b \in Nat /\ Capacity \in Nat /\ a <= b /\ b <= Capacity
    BY <1>1, <2>1, <2>2, FS_CardinalityType, CapacityAssumption DEF SyncTyped
  <2> HIDE DEF a, b
  <2>4. a <= Capacity
    BY <2>3
  <2> QED BY <2>4 DEF a
<1>11. SyncTyped'
  <2>1. storeKeys' \in [Jobs -> SUBSET Keys]
    BY <1>1, <1>3 DEF SyncTyped
  <2> QED BY <1>1, <1>3, <1>7, <1>10, <2>1 DEF SyncTyped
<1>12. WorkerSound'
  BY <1>1, <1>3 DEF WorkerSound, StackConsistent
<1>13. End' = End /\ Line' = Line
  BY <1>3, <1>7 DEF End, Line, Taken, Gathered
<1>14. JobsPlaced'
  <2>1. \A i \in 0 .. End : Line[i].jobs \cap submitted' = {}
    BY <1>1, <1>3 DEF JobsPlaced
  <2> QED BY <1>1, <1>13, <2>1 DEF JobsPlaced
<1>15. StoresApart'
  <2>1. /\ \A h \in Jobs : storeKeys[h] \subseteq Storing
        /\ \A i, h \in Jobs : i # h => storeKeys[i] \cap storeKeys[h] = {}
    BY <1>1 DEF StoresApart
  <2>2. \A h \in Jobs : storeKeys'[h] \subseteq Storing'
    BY <1>4, <1>8, <2>1
  <2>3. \A i, h \in Jobs : i # h => storeKeys'[i] \cap storeKeys'[h] = {}
    BY <1>4, <2>1
  <2> QED BY <2>2, <2>3 DEF StoresApart
\* The job has left the line.
<1>16. \A i \in 0 .. End : j \notin Line[i].jobs /\ Line[i].layouts[j] = None
  BY <1>1, <1>3 DEF JobsPlaced
<1>17. (\A i : NoResetAfter(i)' <=> NoResetAfter(i)) /\ \A k, i : Lasting(k, i)' <=> Lasting(k, i)
  BY <1>13 DEF NoResetAfter, Lasting
<1>18. LayoutsLive'
  <2> SUFFICES ASSUME NEW i \in 0 .. End, NEW h \in Jobs, NoResetAfter(i),
                      Line[i].layouts[h] # None
               PROVE  Range(Line[i].layouts[h]) = storeKeys'[h]
    BY <1>13, <1>17 DEF LayoutsLive
  <2>1. h # j
    BY <1>16
  <2> QED BY <1>1, <1>4, <2>1 DEF LayoutsLive
<1>19. NoLateNotice'
  BY <1>1, <1>13 DEF NoLateNotice
<1>20. ASSUME ~lossy PROVE ViewsFit' /\ ReadyKept' /\ SubmittedKept' /\ UnderwayKept'
  <2>1. success /\ ViewsFit /\ ReadyKept /\ SubmittedKept /\ UnderwayKept
    BY <1>1, <1>3, <1>20 DEF KeptInv
  <2>2. Resident' = Resident /\ Known' = Known /\ Summarised(worker)' = Summarised(worker)
    BY <1>3, <1>9, <2>1 DEF Known
  <2>3. ViewsFit'
    BY <1>13, <2>1, <2>2 DEF ViewsFit, Fits
  <2>4. ReadyKept'
    <3> SUFFICES ASSUME NEW k \in Keys, ref'[k] \notin {None, -1}
                 PROVE  k \in Summarised(worker) /\ Lasting(k, 0)
      BY <1>17, <2>2 DEF ReadyKept
    <3>1. CASE k \in storeKeys[j]
      BY <1>3, <2>1, <3>1 DEF SubmittedKept
    <3>2. CASE k \notin storeKeys[j]
      BY <1>7, <2>1, <3>2 DEF ReadyKept
    <3> QED BY <3>1, <3>2
  <2>5. SubmittedKept'
    <3> SUFFICES ASSUME NEW h \in submitted', NEW k \in storeKeys'[h]
                 PROVE  k \in Summarised(worker) /\ Lasting(k, 0)
      BY <1>17, <2>2 DEF SubmittedKept
    <3>1. h \in submitted /\ h # j /\ h \in Jobs
      BY <1>1, <1>3 DEF SyncTyped
    <3> QED BY <1>4, <2>1, <3>1 DEF SubmittedKept
  <2>6. UnderwayKept'
    <3> SUFFICES ASSUME NEW i \in 0 .. End, NEW h \in Line[i].jobs, storeKeys'[h] # {}
                 PROVE  Line[i].layouts[h] # None /\ \A k \in storeKeys'[h] : Lasting(k, i)
      BY <1>13, <1>17 DEF UnderwayKept
    <3>1. h # j /\ h \in Jobs
      BY <1>2, <1>16, PacketParts
    <3> QED BY <1>4, <2>1, <3>1 DEF UnderwayKept
  <2> QED BY <2>3, <2>4, <2>5, <2>6
<1>21. KeptInv'
  BY <1>3, <1>20 DEF KeptInv
<1> QED BY <1>11, <1>12, <1>14, <1>15, <1>18, <1>19, <1>21 DEF SyncInv

LEMMA ResetKeeps ==
    ASSUME SyncInv, ResetCache
    PROVE  SyncInv'
<1>1. /\ SyncTyped /\ WorkerSound /\ JobsPlaced
      /\ StoresApart /\ LayoutsLive /\ NoLateNotice /\ KeptInv
  BY DEF SyncInv
<1>2. /\ End \in Nat /\ End >= 1 /\ Line \in [0 .. End -> Packets]
      /\ 0 \in 0 .. End /\ End \in 0 .. End /\ End \in 1 .. End
  BY <1>1, LineIs
<1>3. /\ unsent = {} /\ unsent' = unsent /\ pendingEvicted' = {} /\ resetPending' = TRUE
      /\ pendingJobBlocks' = NoLayout /\ storeKeys' = [j \in Jobs |-> {}]
      /\ ref' = [k \in Keys |-> None]
      /\ UNCHANGED <<lossy, metadata, worker, received, submitted>>
  BY DEF ResetCache, TierReset, workerVars
<1>4. /\ End' = End /\ \A i \in 0 .. End : i # End => Line'[i] = Line[i]
      /\ Line'[End] = [jobs |-> {}, layouts |-> NoLayout, evicted |-> {}, reset |-> TRUE]
  <2>1. End' = End
    BY <1>3 DEF End
  <2>2. Taken' = Taken
    BY <1>3 DEF Taken
  <2>3. Gathered' = [jobs |-> {}, layouts |-> NoLayout, evicted |-> {}, reset |-> TRUE]
    BY <1>3 DEF Gathered
  <2>4. Line' = [i \in 0 .. End |->
                    IF i = 0 THEN Taken ELSE IF i = End THEN Gathered' ELSE metadata[i]]
    BY <1>3, <2>1, <2>2 DEF Line
  <2>5. Line = [i \in 0 .. End |->
                    IF i = 0 THEN Taken ELSE IF i = End THEN Gathered ELSE metadata[i]]
    BY DEF Line
  <2>6. \A i \in 0 .. End : i # End => Line'[i] = Line[i]
    BY <2>4, <2>5
  <2>7. Line'[End] = Gathered'
    BY <1>2, <2>4
  <2> QED BY <2>1, <2>3, <2>6, <2>7
<1>5. /\ Line'[End].jobs = {} /\ Line'[End].evicted = {} /\ Line'[End].reset
      /\ KeysOf(Line'[End].layouts) = {} /\ \A j \in Jobs : Line'[End].layouts[j] = None
  BY <1>4 DEF NoLayout, KeysOf, LayoutKeys
<1>6. Resident' = {}
  BY <1>3 DEF Resident
<1>7. Cardinality(Resident') <= Capacity /\ Cardinality({}) <= Capacity
  BY <1>6, FS_EmptySet, CapacityAssumption
<1>8. SyncTyped'
  <2>1. ref' \in [Keys -> References]
    BY <1>3 DEF References
  <2>2. pendingJobBlocks' \in [Jobs -> Seq(Keys) \cup {None}]
    BY <1>3 DEF NoLayout
  <2>3. storeKeys' \in [Jobs -> SUBSET Keys]
    BY <1>3
  <2> QED BY <1>1, <1>3, <1>7, <2>1, <2>2, <2>3 DEF SyncTyped
<1>9. WorkerSound'
  BY <1>1, <1>3 DEF WorkerSound, StackConsistent
<1>10. JobsPlaced'
  <2>1. /\ \A i, p \in 0 .. End : i # p => Line[i].jobs \cap Line[p].jobs = {}
        /\ \A i \in 0 .. End : Line[i].jobs \cap submitted = {}
        /\ \A i \in 0 .. End, j \in Jobs : Line[i].layouts[j] # None =>
              j \in Line[i].jobs /\ IsInjective(Line[i].layouts[j])
    BY <1>1 DEF JobsPlaced
  <2>2. ASSUME NEW i \in 0 .. End, NEW p \in 0 .. End, i # p
        PROVE  Line'[i].jobs \cap Line'[p].jobs = {}
    BY <1>4, <1>5, <2>1, <2>2
  <2>3. ASSUME NEW i \in 0 .. End PROVE Line'[i].jobs \cap submitted = {}
    BY <1>4, <1>5, <2>1
  <2>4. ASSUME NEW i \in 0 .. End, NEW j \in Jobs, Line'[i].layouts[j] # None
        PROVE  j \in Line'[i].jobs /\ IsInjective(Line'[i].layouts[j])
    BY <1>4, <1>5, <2>1, <2>4
  <2> QED BY <1>3, <1>4, <2>2, <2>3, <2>4 DEF JobsPlaced
<1>11. \A j \in Jobs : storeKeys'[j] = {}
  BY <1>3
<1>12. StoresApart'
  BY <1>11 DEF StoresApart
\* The reset stands behind everything but itself.
<1>13. LayoutsLive'
  <2> SUFFICES ASSUME NEW i \in 0 .. End, NEW j \in Jobs, NoResetAfter(i)',
                      Line'[i].layouts[j] # None
               PROVE  FALSE
    BY <1>4 DEF LayoutsLive
  <2>1. i # End
    BY <1>5
  <2>2. End \in i + 1 .. End
    BY <1>2, <2>1
  <2>3. ~Line'[End].reset
    BY <1>4, <2>2 DEF NoResetAfter
  <2> QED BY <1>5, <2>3
<1>14. NoLateNotice'
  <2> SUFFICES ASSUME NEW i \in 0 .. End, NEW p \in 0 .. End, i < p,
                      \A q \in i + 1 .. p : ~Line'[q].reset
               PROVE  Line'[p].evicted \cap KeysOf(Line'[i].layouts) = {}
    BY <1>4 DEF NoLateNotice
  <2>1. p # End
    <3>1. p \in i + 1 .. p
      BY <1>2
    <3> QED BY <1>5, <3>1
  <2>2. i # End /\ \A q \in i + 1 .. p : q \in 0 .. End /\ q # End
    BY <1>2, <2>1
  <2>3. Line'[p] = Line[p] /\ Line'[i] = Line[i] /\ \A q \in i + 1 .. p : ~Line[q].reset
    BY <1>4, <2>1, <2>2
  <2> QED BY <1>1, <2>3 DEF NoLateNotice
<1>15. ASSUME ~lossy PROVE ViewsFit'
  <2>1. PICK V \in [0 .. End -> SUBSET Keys] : Fits(V)
    BY <1>1, <1>15 DEF KeptInv, ViewsFit
  <2>2. PICK W \in [0 .. End -> SUBSET Keys] :
           W[End] = {} /\ \A i \in 0 .. End : i # End => W[i] = V[i]
    <3> DEFINE X == [i \in 0 .. End |-> IF i = End THEN {} ELSE V[i]]
    <3>1. X \in [0 .. End -> SUBSET Keys]
      OBVIOUS
    <3>2. X[End] = {} /\ \A i \in 0 .. End : i # End => X[i] = V[i]
      BY <1>2
    <3> HIDE DEF X
    <3> QED BY <3>1, <3>2
  <2>3. Known' = Known /\ 0 # End
    BY <1>2, <1>3 DEF Known
  <2>4. Known' \subseteq W[0]
    BY <1>2, <2>1, <2>2, <2>3 DEF Fits
  <2>5. ASSUME NEW i \in 1 .. End PROVE After(W[i - 1], Line'[i]) \subseteq W[i]
    <3>1. CASE i = End
      <4>1. After(W[i - 1], Line'[End]) = {}
        BY <1>5 DEF After
      <4> QED BY <3>1, <4>1
    <3>2. CASE i # End
      <4>1. i - 1 \in 0 .. End /\ i \in 0 .. End /\ i - 1 # End
        BY <1>2
      <4>2. W[i - 1] = V[i - 1] /\ W[i] = V[i] /\ Line'[i] = Line[i]
        BY <1>4, <2>2, <3>2, <4>1
      <4> QED BY <2>1, <4>2 DEF Fits
    <3> QED BY <3>1, <3>2
  <2>6. ASSUME NEW i \in 0 .. End PROVE Cardinality(W[i]) <= Capacity
    <3>1. CASE i = End
      BY <1>7, <2>2, <3>1
    <3>2. CASE i # End
      BY <2>1, <2>2, <3>2 DEF Fits
    <3> QED BY <3>1, <3>2
  <2>7. W[End] \subseteq Resident'
    BY <2>2
  <2> QED BY <1>4, <2>2, <2>4, <2>5, <2>6, <2>7 DEF ViewsFit, Fits
<1>16. ReadyKept'
  BY <1>3 DEF ReadyKept
<1>17. SubmittedKept'
  BY <1>1, <1>3, <1>11 DEF SubmittedKept, SyncTyped
<1>18. UnderwayKept'
  <2>1. ASSUME NEW i \in 0 .. End, NEW j \in Line'[i].jobs PROVE j \in Jobs
    BY <1>2, <1>4, <1>5, PacketParts
  <2> QED BY <1>4, <1>11, <2>1 DEF UnderwayKept
<1>19. KeptInv'
  BY <1>3, <1>15, <1>16, <1>17, <1>18 DEF KeptInv
<1> QED BY <1>8, <1>9, <1>10, <1>12, <1>13, <1>14, <1>19 DEF SyncInv

---------------------------------------------------------------------------
(* The invariant, and what it says.                                        *)

LEMMA SyncInit == Init => SyncInv
<1> SUFFICES ASSUME Init PROVE SyncInv
  OBVIOUS
<1>1. /\ ref = [k \in Keys |-> None] /\ pendingEvicted = {} /\ metadata = <<>>
      /\ storeKeys = [j \in Jobs |-> {}] /\ pendingJobBlocks = NoLayout /\ unsent = {}
      /\ resetPending = FALSE /\ worker = NewWorker /\ received = {} /\ submitted = {}
      /\ lossy \in BOOLEAN
  BY FailAssumption DEF Init, TierInit
<1>2. Resident = {} /\ Cardinality(Resident) <= Capacity /\ Cardinality({}) <= Capacity
  <2>1. Resident = {}
    BY <1>1 DEF Resident
  <2> QED BY <2>1, FS_EmptySet, CapacityAssumption
<1>3. SyncTyped
  <2>1. ref \in [Keys -> References] /\ pendingJobBlocks \in [Jobs -> Seq(Keys) \cup {None}]
    BY <1>1 DEF References, NoLayout
  <2>2. metadata \in Seq(Packets)
    BY <1>1
  <2> QED BY <1>1, <1>2, <2>1, <2>2 DEF SyncTyped
<1>4. WorkerSound
  <2>1. StackConsistent
    BY <1>1, NewFollows, StackIs
  <2>2. Len(worker.durable) = 0
    BY <1>1 DEF NewWorker
  <2> QED BY <2>1, <2>2, CapacityAssumption DEF WorkerSound
<1>5. End = 1
  BY <1>1 DEF End
<1>6. Taken = BlankPacket /\ Gathered = BlankPacket
  BY <1>1 DEF Taken, Gathered, BlankPacket, NewWorker, NoLayout
<1>7. \A i \in 0 .. End : Line[i] = BlankPacket
  BY <1>5, <1>6 DEF Line
<1>8. JobsPlaced
  BY <1>7, BlankParts DEF JobsPlaced
<1>9. StoresApart
  BY <1>1 DEF StoresApart
<1>10. LayoutsLive
  BY <1>7, BlankParts DEF LayoutsLive
<1>11. NoLateNotice
  BY <1>7, BlankParts DEF NoLateNotice
<1>12. ViewsFit
  <2>1. Known = {}
    BY <1>1 DEF Known, NewWorker, Summarised, Range, KeysOf, LayoutKeys
  <2>2. PICK V \in [0 .. End -> SUBSET Keys] : \A i \in 0 .. End : V[i] = {}
    <3>1. [i \in 0 .. End |-> {}] \in [0 .. End -> SUBSET Keys]
      OBVIOUS
    <3> QED BY <3>1
  <2>3. 0 \in 0 .. End /\ End \in 0 .. End /\ \A i \in 1 .. End : i - 1 \in 0 .. End /\ i \in 0 .. End
    BY <1>5
  <2>4. After({}, BlankPacket) = {}
    BY BlankParts DEF After
  <2>5. Fits(V)
    BY <1>2, <1>7, <2>1, <2>2, <2>3, <2>4 DEF Fits
  <2> QED BY <2>5 DEF ViewsFit
<1>13. ReadyKept
  BY <1>1 DEF ReadyKept
<1>14. SubmittedKept
  BY <1>1 DEF SubmittedKept
<1>15. UnderwayKept
  BY <1>7, BlankParts DEF UnderwayKept
<1> QED BY <1>3, <1>4, <1>8, <1>9, <1>10, <1>11, <1>12, <1>13, <1>14, <1>15 DEF SyncInv, KeptInv

LEMMA SyncStutters ==
    ASSUME SyncInv, UNCHANGED vars
    PROVE  SyncInv'
<1>1. UNCHANGED <<ref, pendingEvicted, lossy, storeKeys, pendingJobBlocks, unsent, resetPending,
                  metadata, worker, received, submitted>>
  BY DEF vars, tierVars, schedulerVars, workerVars
<1>2. UNCHANGED <<End, Line, Resident, Storing, Known>> /\ Summarised(worker)' = Summarised(worker)
  BY <1>1 DEF End, Line, Taken, Gathered, Resident, Storing, Known
<1>3. (\A i : NoResetAfter(i)' <=> NoResetAfter(i)) /\ \A k, i : Lasting(k, i)' <=> Lasting(k, i)
  BY <1>2 DEF NoResetAfter, Lasting
<1>4. SyncTyped' /\ WorkerSound'
  BY <1>1, <1>2 DEF SyncInv, SyncTyped, WorkerSound, StackConsistent
<1>5. JobsPlaced' /\ StoresApart' /\ LayoutsLive' /\ NoLateNotice'
  BY <1>1, <1>2, <1>3 DEF SyncInv, JobsPlaced, StoresApart, LayoutsLive, NoLateNotice
<1>6. KeptInv'
  <2>1. ViewsFit => ViewsFit'
    BY <1>2 DEF ViewsFit, Fits
  <2>2. ReadyKept => ReadyKept'
    BY <1>1, <1>2, <1>3 DEF ReadyKept
  <2>3. SubmittedKept => SubmittedKept'
    BY <1>1, <1>2, <1>3 DEF SubmittedKept
  <2>4. UnderwayKept => UnderwayKept'
    BY <1>1, <1>2, <1>3 DEF UnderwayKept
  <2> QED BY <1>1, <2>1, <2>2, <2>3, <2>4 DEF SyncInv, KeptInv
<1> QED BY <1>4, <1>5, <1>6 DEF SyncInv

LEMMA SyncHolds == Spec => []SyncInv
<1>1. SyncInv /\ [Next]_vars => SyncInv'
  <2> SUFFICES ASSUME SyncInv, [Next]_vars PROVE SyncInv'
    OBVIOUS
  <2>1. CASE \E j \in Jobs : Store(j)
    BY <2>1, StoreKeeps
  <2>2. CASE \E j \in Jobs : Submit(j)
    BY <2>2, SubmitKeeps
  <2>3. CASE \E j \in Jobs : CompleteStore(j, TRUE) \/ CompleteStore(j, FALSE)
    BY <2>3, CompleteKeeps
  <2>4. CASE BuildConnectorMeta
    BY <2>4, BuildKeeps
  <2>5. CASE ResetCache
    BY <2>5, ResetKeeps
  <2>6. CASE BindConnectorMetadata
    BY <2>6, BindKeeps
  <2>7. CASE Capture
    BY <2>7, CaptureKeeps
  <2>8. CASE UNCHANGED vars
    BY <2>8, SyncStutters
  <2> QED BY <2>1, <2>2, <2>3, <2>4, <2>5, <2>6, <2>7, <2>8 DEF Next
<1> QED BY <1>1, SyncInit, PTL DEF Spec

\* A set of numbers that is not empty has a least.
LEMMA LeastOf ==
    ASSUME NEW P \in SUBSET Nat, P # {}
    PROVE  \E n \in P : \A i \in P : n <= i
<1> DEFINE R == OpToRel(<, Nat)
<1>1. IsWellFoundedOn(R, Nat)
  BY NatLessThanWellFounded
<1>2. \A x, y \in Nat : x < y => <<x, y>> \in R
  BY DEF OpToRel
<1> HIDE DEF R
<1>3. PICK n \in P : \A i \in P : ~(<<i, n>> \in R)
  BY <1>1, WFMin
<1>4. \A i \in P : n \in Nat /\ i \in Nat /\ ~(i < n)
  BY <1>2, <1>3
<1> QED BY <1>4

\* The stack of the worker follows its summaries, whatever the order in which
\* stores, evictions and resets reach it and queries are captured.
THEOREM StackCorrect == Spec => []StackConsistent
<1>1. SyncInv => StackConsistent
  BY DEF SyncInv, WorkerSound
<1> QED BY <1>1, SyncHolds, PTL

\* The summaries fit the tier, and where stores succeed each is of a key that
\* the tier holds or whose eviction is under way: a key that no packet tells the
\* worker to forget is still known after the last one.
THEOREM SummariesCorrect == Spec => []SummariesBacked
<1>1. ASSUME SyncInv, ~lossy, ~ResetUnderway, NEW k \in Summarised(worker), k \notin Resident
      PROVE  k \in Announced
  <2>1. SyncTyped /\ WorkerSound /\ KeptInv
    BY <1>1 DEF SyncInv
  <2>2. /\ End \in Nat /\ End >= 1 /\ Line[End] = Gathered /\ Len(metadata) \in Nat
        /\ \A i \in 1 .. Len(metadata) : Line[i] = metadata[i]
    BY <2>1, LineIs
  <2>3. PICK V \in [0 .. End -> SUBSET Keys] : Fits(V)
    BY <1>1, <2>1 DEF KeptInv, ViewsFit
  <2> DEFINE P == {i \in 0 .. End : k \notin V[i]}
  <2>4. P \in SUBSET Nat /\ End \in P
    BY <1>1, <2>2, <2>3 DEF Fits
  <2>5. PICK n \in P : \A i \in P : n <= i
    BY <2>4, LeastOf
  <2>6. 0 \notin P
    BY <2>3 DEF Fits, Known
  <2>7. n \in 1 .. End /\ n - 1 \in 0 .. End /\ n - 1 \notin P
    BY <2>2, <2>5, <2>6
  <2>8. k \in V[n - 1] /\ k \notin V[n]
    BY <2>5, <2>7
  <2>9. After(V[n - 1], Line[n]) \subseteq V[n]
    BY <2>3, <2>7 DEF Fits
  <2>10. CASE n = End
    <3>1. ~Line[n].reset
      BY <1>1, <2>2, <2>10 DEF Gathered, ResetUnderway
    <3>2. k \in Line[n].evicted
      BY <2>8, <2>9, <3>1 DEF After
    <3> QED BY <2>2, <2>10, <3>2 DEF Gathered, Announced
  <2>11. CASE n # End
    <3>1. n \in 1 .. Len(metadata)
      BY <2>2, <2>7, <2>11 DEF End
    <3>2. ~Line[n].reset
      BY <1>1, <2>2, <3>1 DEF ResetUnderway
    <3>3. k \in Line[n].evicted
      BY <2>8, <2>9, <3>2 DEF After
    <3> QED BY <2>2, <3>1, <3>3 DEF Announced
  <2> QED BY <2>10, <2>11
<1>2. SyncInv => SummariesBacked
  BY <1>1 DEF SummariesBacked, SyncInv, WorkerSound
<1> QED BY <1>2, SyncHolds, PTL

\* Where stores succeed, a key that is ready in the tier has a summary, and no
\* notice or reset under way takes it.
THEOREM ReadyCorrect == Spec => []ReadyKeysSummarised
<1>1. ASSUME SyncInv PROVE ReadyKeysSummarised
  <2>1. ~lossy => ReadyKept
    BY <1>1 DEF SyncInv, KeptInv
  <2> QED BY <2>1 DEF ReadyKeysSummarised, ReadyKept, Resident
<1> QED BY <1>1, SyncHolds, PTL

=================================================================================
