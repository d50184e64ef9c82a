--------------------------- MODULE QueryCaptureProofs ---------------------------
(***************************************************************************)
(* Proofs about QueryCapture, for any number of threads, handles and       *)
(* runners.                                                                *)
(*                                                                         *)
(* The inductive invariant has two halves.  StepsInv needs nothing: it     *)
(* counts the threads inside each wrapper and follows the layout through   *)
(* a step.  OwnerInv is about who owns the runner class; it is inductive   *)
(* only when at most one thread closes handles (OneCloser), and the run    *)
(* capture_two_closers shows why.                                          *)
(***************************************************************************)
EXTENDS QueryCapture, FiniteSetTheorems, TLAPS

OneCloser == \A t, u \in Closers : t = u

\* A thread is in a call exactly when it is not idle, and in a context of its
\* own exactly while it is inside a wrapper.
ShapeOf(t) ==
    /\ pc[t] = "idle" <=> call[t] = None
    /\ pc[t] = "entering" => call[t].wrapper \in Handles
    /\ currentHandle[t] = IF pc[t] \in {"running", "prepared"} THEN call[t].wrapper
                          ELSE None
CallShape == \A t \in Threads : ShapeOf(t)

\* The counter close() waits on is the number of threads inside.
Counted ==
    \A h \in Handles :
        /\ executionThreads[h] = Inside(h)
        /\ activeExecutions[h] = Cardinality(Inside(h))

\* A layout appears when the inputs are prepared and is gone once captured.
LayoutIn(t) ==
    /\ pc[t] # "prepared" \/ call[t].wrapper = None => currentLayout[t] = None
    /\ pc[t] \in {"entering", "running"} => captured[t] = {}
    /\ pc[t] = "prepared" =>
         \/ captured[t] = {} /\ currentLayout[t] \in {None, Batch(t)}
         \/ captured[t] = {<<0, Batch(t)>>} /\ currentLayout[t] = None
LayoutInv == \A t \in Threads : LayoutIn(t)

NotifiedWait == \A t \in notified : waiting[t] # None

StepsInv ==
    /\ TypeOK
    /\ CallShape
    /\ Counted
    /\ ExecutionsOwned
    /\ LayoutInv
    /\ NotifiedWait

---------------------------------------------------------------------------
\* Sets of threads are finite, so entering and leaving a wrapper moves the
\* counter by one.
LEMMA CountThreads ==
    ASSUME NEW S \in SUBSET Threads
    PROVE  /\ IsFiniteSet(S)
           /\ Cardinality(S) \in Nat
           /\ Cardinality(S) = 0 <=> S = {}
           /\ \A t \in Threads : t \notin S => Cardinality(S \cup {t}) = Cardinality(S) + 1
           /\ \A t \in S : Cardinality(S \ {t}) = Cardinality(S) - 1
    <1>1. IsFiniteSet(S)
      BY ThreadsAssumption, FS_Subset
    <1>2. Cardinality(S) \in Nat /\ (Cardinality(S) = 0 <=> S = {})
      BY <1>1, FS_CardinalityType, FS_EmptySet
    <1>3. \A t \in Threads : t \notin S => Cardinality(S \cup {t}) = Cardinality(S) + 1
      BY <1>1, FS_AddElement
    <1>4. \A t \in S : Cardinality(S \ {t}) = Cardinality(S) - 1
      BY <1>1, FS_RemoveElement
    <1> QED BY <1>1, <1>2, <1>3, <1>4

LEMMA StepsInit == Init => StepsInv
    <1> SUFFICES ASSUME Init PROVE StepsInv
      OBVIOUS
    <1>1. TypeOK
      BY MethodsAssumption DEF Init, TypeOK, Methods
    <1>2. CallShape /\ NotifiedWait /\ ExecutionsOwned /\ LayoutInv
      BY DEF Init, CallShape, ShapeOf, NotifiedWait, ExecutionsOwned, Inside, LayoutInv,
             LayoutIn
    <1>3. \A h \in Handles : Inside(h) = {}
      BY DEF Init, Inside
    <1>4. Counted
      BY <1>3, FS_EmptySet DEF Init, Counted
    <1> QED BY <1>1, <1>2, <1>4 DEF StepsInv

LEMMA TypePreserved == StepsInv /\ [Next]_vars => TypeOK'
    <1> SUFFICES ASSUME StepsInv, [Next]_vars PROVE TypeOK'
      OBVIOUS
    <1> USE DEF StepsInv, TypeOK, classVars, handleVars, stepVars, waitVars
    <1>1. CASE UNCHANGED vars
      BY <1>1 DEF vars
    <1>2. ASSUME NEW t \in Threads, NEW h \in Handles, Install(t, h) PROVE TypeOK'
      BY <1>2 DEF Install, Patch, Methods
    <1>3. ASSUME NEW t \in Threads, NEW h \in Handles, Close(t, h) PROVE TypeOK'
      BY <1>3 DEF Close, Unpatch, Restored, NotifyAll, Patch, Methods
    <1>4. ASSUME NEW t \in Threads, NEW r \in Runners, CallExecute(t, r) PROVE TypeOK'
      <2>1. batch' \in [Threads -> {0, 1}] /\ captured' = [captured EXCEPT ![t] = {}]
        BY <1>4 DEF CallExecute
      <2>2. captured' \in [Threads -> SUBSET (Nat \X Layout)]
        BY <2>1
      <2>3. \E w \in Handles \cup {None} :
              call' = [call EXCEPT ![t] = [wrapper |-> w, runner |-> r]]
        BY <1>4 DEF CallExecute
      <2>4. call' \in [Threads -> Call \cup {None}]
        BY <2>3 DEF Call
      <2>5. pc' \in [Threads -> {"idle", "entering", "running", "prepared"}]
        BY <1>4 DEF CallExecute
      <2> QED BY <1>4, <2>1, <2>2, <2>4, <2>5 DEF CallExecute
    <1>5. ASSUME NEW t \in Threads, BeginExecution(t) PROVE TypeOK'
      BY <1>5, NoneAssumption DEF BeginExecution, CallShape, ShapeOf, Call, SetLayout
    <1>6. ASSUME NEW t \in Threads, RefuseExecution(t) PROVE TypeOK'
      BY <1>6 DEF RefuseExecution
    <1>7. ASSUME NEW t \in Threads, PrepareInputs(t) PROVE TypeOK'
      BY <1>7 DEF PrepareInputs, SetLayout, Batch, Layout, CallShape, ShapeOf, Call
    <1>8. ASSUME NEW t \in Threads, Probe(t) PROVE TypeOK'
      <2>1. captured[t] = {} /\ Cardinality(captured[t]) = 0
        BY <1>8, FS_EmptySet DEF Probe, LayoutInv, LayoutIn
      <2>2. <<0, currentLayout[t]>> \in Nat \X Layout
        BY <1>8 DEF Probe
      <2> QED BY <1>8, <2>1, <2>2 DEF Probe, SetLayout
    <1>9. ASSUME NEW t \in Threads, EndExecution(t) PROVE TypeOK'
      <2>1. CASE call[t].wrapper = None
        BY <1>9, <2>1 DEF EndExecution
      <2>2. CASE call[t].wrapper # None
        <3> DEFINE h == call[t].wrapper
        <3>1. h \in Handles /\ t \in Inside(h)
          BY <1>9, <2>2 DEF EndExecution, CallShape, ShapeOf, Call, Inside
        <3>2. Cardinality(Inside(h)) \in Nat \ {0}
          BY <3>1, CountThreads DEF Inside
        <3>3. activeExecutions[h] - 1 \in Nat
          BY <3>1, <3>2 DEF Counted
        <3> QED BY <1>9, <2>2, <3>1, <3>3 DEF EndExecution, SetLayout, NotifyAll
      <2> QED BY <2>1, <2>2
    <1>10. ASSUME NEW t \in Threads, Wake(t) PROVE TypeOK'
      BY <1>10 DEF Wake, Unpatch, Restored, NotifyAll, Patch, Methods, NotifiedWait
    <1>11. CASE ReplacePrepare \/ ReplaceExecute
      BY <1>11 DEF ReplacePrepare, ReplaceExecute, Methods
    <1> QED
      BY <1>1, <1>2, <1>3, <1>4, <1>5, <1>6, <1>7, <1>8, <1>9, <1>10, <1>11 DEF Next

\* Opening and closing an installation, and replacing methods, leave the
\* threads where they are.
LEMMA OtherActions ==
    ASSUME [Next]_vars
    PROVE  \/ UNCHANGED stepVars
           \/ \E t \in Threads :
                \/ \E r \in Runners : CallExecute(t, r)
                \/ BeginExecution(t)
                \/ RefuseExecution(t)
                \/ PrepareInputs(t)
                \/ Probe(t)
                \/ EndExecution(t)
    BY DEF Next, vars, Install, Close, Wake, ReplacePrepare, ReplaceExecute

LEMMA ShapePreserved == StepsInv /\ [Next]_vars => CallShape'
    <1> SUFFICES ASSUME StepsInv, [Next]_vars, NEW u \in Threads PROVE ShapeOf(u)'
      BY DEF CallShape
    <1> USE DEF StepsInv, TypeOK, CallShape, ShapeOf
    <1>1. CASE UNCHANGED stepVars
      BY <1>1 DEF stepVars
    <1>2. ASSUME NEW t \in Threads, NEW r \in Runners, CallExecute(t, r) PROVE ShapeOf(u)'
      <2>1. CASE u = t
        BY <1>2, <2>1, NoneAssumption DEF CallExecute, Call
      <2>2. CASE u # t
        BY <1>2, <2>2 DEF CallExecute
      <2> QED BY <2>1, <2>2
    <1>3. ASSUME NEW t \in Threads, BeginExecution(t) PROVE ShapeOf(u)'
      BY <1>3 DEF BeginExecution
    <1>4. ASSUME NEW t \in Threads, RefuseExecution(t) PROVE ShapeOf(u)'
      BY <1>4 DEF RefuseExecution
    <1>5. ASSUME NEW t \in Threads, PrepareInputs(t) PROVE ShapeOf(u)'
      BY <1>5 DEF PrepareInputs
    <1>6. ASSUME NEW t \in Threads, Probe(t) PROVE ShapeOf(u)'
      BY <1>6 DEF Probe
    <1>7. ASSUME NEW t \in Threads, EndExecution(t) PROVE ShapeOf(u)'
      BY <1>7 DEF EndExecution
    <1> QED BY <1>1, <1>2, <1>3, <1>4, <1>5, <1>6, <1>7, OtherActions

\* How each action moves the threads inside a wrapper.
LEMMA InsideMoves ==
    ASSUME StepsInv, [Next]_vars, NEW h \in Handles
    PROVE  \/ /\ Inside(h)' = Inside(h)
              /\ activeExecutions'[h] = activeExecutions[h]
              /\ executionThreads'[h] = executionThreads[h]
           \/ \E t \in Threads \ Inside(h) :
                /\ BeginExecution(t) /\ call[t].wrapper = h
                /\ Inside(h)' = Inside(h) \cup {t}
                /\ activeExecutions'[h] = activeExecutions[h] + 1
                /\ executionThreads'[h] = executionThreads[h] \cup {t}
           \/ \E t \in Inside(h) :
                /\ EndExecution(t)
                /\ Inside(h)' = Inside(h) \ {t}
                /\ activeExecutions'[h] = activeExecutions[h] - 1
                /\ executionThreads'[h] = executionThreads[h] \ {t}
    <1> USE DEF StepsInv, TypeOK, CallShape, ShapeOf, Inside
    <1> DEFINE Same == /\ Inside(h)' = Inside(h)
                       /\ activeExecutions'[h] = activeExecutions[h]
                       /\ executionThreads'[h] = executionThreads[h]
    <1>1. CASE UNCHANGED stepVars
      <2>1. UNCHANGED <<activeExecutions, executionThreads>>
        BY <1>1 DEF Next, vars, stepVars, handleVars, Install, Close, Wake, ReplacePrepare,
                    ReplaceExecute, CallExecute, BeginExecution, RefuseExecution,
                    PrepareInputs, Probe, EndExecution
      <2> QED BY <1>1, <2>1 DEF stepVars
    <1>2. ASSUME NEW t \in Threads, NEW r \in Runners, CallExecute(t, r) PROVE Same
      BY <1>2, NoneAssumption DEF CallExecute, handleVars, Methods
    <1>3. ASSUME NEW t \in Threads, BeginExecution(t), call[t].wrapper = h
          PROVE  /\ t \notin Inside(h)
                 /\ Inside(h)' = Inside(h) \cup {t}
                 /\ activeExecutions'[h] = activeExecutions[h] + 1
                 /\ executionThreads'[h] = executionThreads[h] \cup {t}
      BY <1>3 DEF BeginExecution
    <1>4. ASSUME NEW t \in Threads, BeginExecution(t), call[t].wrapper # h PROVE Same
      BY <1>4 DEF BeginExecution
    <1>5. ASSUME NEW t \in Threads, RefuseExecution(t) \/ PrepareInputs(t) \/ Probe(t)
          PROVE Same
      BY <1>5 DEF RefuseExecution, PrepareInputs, Probe, handleVars
    <1>6. ASSUME NEW t \in Threads, EndExecution(t), call[t].wrapper = h
          PROVE  /\ t \in Inside(h)
                 /\ Inside(h)' = Inside(h) \ {t}
                 /\ activeExecutions'[h] = activeExecutions[h] - 1
                 /\ executionThreads'[h] = executionThreads[h] \ {t}
      BY <1>6, NoneAssumption DEF EndExecution, Methods
    <1>7. ASSUME NEW t \in Threads, EndExecution(t), call[t].wrapper # h PROVE Same
      BY <1>7 DEF EndExecution, handleVars
    <1> QED BY <1>1, <1>2, <1>3, <1>4, <1>5, <1>6, <1>7, OtherActions

LEMMA CountedPreserved == StepsInv /\ [Next]_vars => Counted'
    <1> SUFFICES ASSUME StepsInv, [Next]_vars, NEW h \in Handles
                 PROVE  /\ executionThreads'[h] = Inside(h)'
                        /\ activeExecutions'[h] = Cardinality(Inside(h)')
      BY DEF Counted, Inside
    <1>1. /\ executionThreads[h] = Inside(h)
          /\ activeExecutions[h] = Cardinality(Inside(h))
          /\ Inside(h) \in SUBSET Threads
      BY DEF StepsInv, Counted, Inside
    <1>2. CASE UNCHANGED Inside(h) /\ activeExecutions'[h] = activeExecutions[h]
               /\ executionThreads'[h] = executionThreads[h]
      BY <1>1, <1>2
    <1>3. ASSUME NEW t \in Threads \ Inside(h),
                 Inside(h)' = Inside(h) \cup {t},
                 activeExecutions'[h] = activeExecutions[h] + 1,
                 executionThreads'[h] = executionThreads[h] \cup {t}
          PROVE  /\ executionThreads'[h] = Inside(h)'
                 /\ activeExecutions'[h] = Cardinality(Inside(h)')
      <2>1. Cardinality(Inside(h) \cup {t}) = Cardinality(Inside(h)) + 1
        BY <1>1, CountThreads
      <2> QED BY <1>1, <1>3, <2>1
    <1>4. ASSUME NEW t \in Inside(h),
                 Inside(h)' = Inside(h) \ {t},
                 activeExecutions'[h] = activeExecutions[h] - 1,
                 executionThreads'[h] = executionThreads[h] \ {t}
          PROVE  /\ executionThreads'[h] = Inside(h)'
                 /\ activeExecutions'[h] = Cardinality(Inside(h)')
      <2>1. Cardinality(Inside(h) \ {t}) = Cardinality(Inside(h)) - 1
        BY <1>1, CountThreads
      <2> QED BY <1>1, <1>4, <2>1
    <1> QED BY <1>2, <1>3, <1>4, InsideMoves

\* Unpatching touches the runner and the closed flag of a handle only when
\* nobody is inside it.
LEMMA ExecutionsPreserved == StepsInv /\ [Next]_vars => ExecutionsOwned'
    <1> SUFFICES ASSUME StepsInv, [Next]_vars,
                        NEW h \in Handles, NEW u \in Threads, (u \in Inside(h))'
                 PROVE  ~closed'[h] /\ runner'[h] = call'[u].runner
      BY DEF ExecutionsOwned, Inside
    <1> USE DEF StepsInv, TypeOK
    <1>1. CASE UNCHANGED <<closed, runner>> /\ u \in Inside(h) /\ call'[u] = call[u]
      BY <1>1 DEF ExecutionsOwned
    <1>2. ASSUME NEW t \in Threads, BeginExecution(t) PROVE ~closed'[h] /\ runner'[h] = call'[u].runner
      BY <1>2, NoneAssumption DEF BeginExecution, Admits, ExecutionsOwned, Inside, CallShape, ShapeOf, Call
    <1>3. ASSUME NEW t \in Threads, NEW g \in Handles, Close(t, g)
          PROVE ~closed'[h] /\ runner'[h] = call'[u].runner
      <2>1. u \in Inside(h) /\ call'[u] = call[u]
        BY <1>3 DEF Close, stepVars, Inside
      <2>2. CASE g = h /\ Quiescent(g)
        BY <2>1, <2>2, CountThreads DEF Quiescent, Counted, Inside
      <2>3. CASE g # h \/ ~Quiescent(g)
        BY <1>3, <2>1, <2>3 DEF Close, Unpatch, ExecutionsOwned
      <2> QED BY <2>2, <2>3
    <1>4. ASSUME NEW t \in Threads, Wake(t)
          PROVE ~closed'[h] /\ runner'[h] = call'[u].runner
      <2>1. u \in Inside(h) /\ call'[u] = call[u]
        BY <1>4 DEF Wake, stepVars, Inside
      <2>2. CASE waiting[t] = h /\ Quiescent(h)
        BY <2>1, <2>2, CountThreads DEF Quiescent, Counted, Inside
      <2>3. CASE waiting[t] # h \/ ~Quiescent(h)
        BY <1>4, <2>1, <2>3 DEF Wake, Unpatch, ExecutionsOwned
      <2> QED BY <2>2, <2>3
    <1>5. ASSUME NEW t \in Threads,
                 \/ \E r \in Runners : CallExecute(t, r)
                 \/ RefuseExecution(t) \/ PrepareInputs(t) \/ Probe(t) \/ EndExecution(t)
          PROVE UNCHANGED <<closed, runner>> /\ u \in Inside(h) /\ call'[u] = call[u]
      BY <1>5, NoneAssumption DEF CallExecute, RefuseExecution, PrepareInputs, Probe,
         EndExecution, handleVars, Inside, Methods, CallShape, ShapeOf
    <1>6. CASE UNCHANGED vars \/ ReplacePrepare \/ ReplaceExecute
               \/ \E t \in Threads, g \in Handles : Install(t, g)
      BY <1>1, <1>6 DEF vars, stepVars, handleVars, ReplacePrepare, ReplaceExecute, Install,
         Inside
    <1> QED BY <1>1, <1>2, <1>3, <1>4, <1>5, <1>6 DEF Next

LEMMA LayoutPreserved == StepsInv /\ [Next]_vars => LayoutInv'
    <1> SUFFICES ASSUME StepsInv, [Next]_vars, NEW u \in Threads PROVE LayoutIn(u)'
      BY DEF LayoutInv
    <1> USE DEF StepsInv, TypeOK, LayoutInv, LayoutIn, Batch, SetLayout
    <1>1. CASE UNCHANGED stepVars
      BY <1>1 DEF stepVars
    <1>2. ASSUME NEW t \in Threads, NEW r \in Runners, CallExecute(t, r) PROVE LayoutIn(u)'
      BY <1>2 DEF CallExecute
    <1>3. ASSUME NEW t \in Threads, BeginExecution(t) PROVE LayoutIn(u)'
      BY <1>3 DEF BeginExecution
    <1>4. ASSUME NEW t \in Threads, RefuseExecution(t) PROVE LayoutIn(u)'
      BY <1>4 DEF RefuseExecution
    <1>5. ASSUME NEW t \in Threads, PrepareInputs(t) PROVE LayoutIn(u)'
      BY <1>5, NoneAssumption DEF PrepareInputs, CallShape, ShapeOf, Methods
    <1>6. ASSUME NEW t \in Threads, Probe(t) PROVE LayoutIn(u)'
      <2>1. pc[t] = "prepared" /\ captured[t] = {} /\ currentLayout[t] = Batch(t)
        BY <1>6 DEF Probe
      <2>2. Cardinality(captured[t]) = 0
        BY <2>1, FS_EmptySet
      <2>3. CASE u = t
        BY <1>6, <2>1, <2>2, <2>3 DEF Probe
      <2>4. CASE u # t
        BY <1>6, <2>4 DEF Probe
      <2> QED BY <2>3, <2>4
    <1>7. ASSUME NEW t \in Threads, EndExecution(t) PROVE LayoutIn(u)'
      BY <1>7, NoneAssumption DEF EndExecution, CallShape, ShapeOf
    <1> QED BY <1>1, <1>2, <1>3, <1>4, <1>5, <1>6, <1>7, OtherActions

LEMMA NotifiedPreserved == StepsInv /\ [Next]_vars => NotifiedWait'
    <1> SUFFICES ASSUME StepsInv, [Next]_vars PROVE NotifiedWait'
      OBVIOUS
    <1> USE DEF StepsInv, TypeOK, NotifiedWait, NotifyAll
    <1>1. CASE UNCHANGED waitVars
      BY <1>1 DEF waitVars
    <1>2. ASSUME NEW t \in Threads, NEW h \in Handles, Close(t, h) PROVE NotifiedWait'
      BY <1>2, NoneAssumption DEF Close, Methods
    <1>3. ASSUME NEW t \in Threads, Wake(t) PROVE NotifiedWait'
      BY <1>3 DEF Wake
    <1>4. ASSUME NEW t \in Threads, EndExecution(t) PROVE NotifiedWait'
      BY <1>4 DEF EndExecution, waitVars
    <1> QED
      BY <1>1, <1>2, <1>3, <1>4 DEF Next, vars, waitVars, Install, CallExecute, BeginExecution,
         RefuseExecution, PrepareInputs, Probe, ReplacePrepare, ReplaceExecute

LEMMA StepsInductive == Spec => []StepsInv
    <1>1. StepsInv /\ [Next]_vars => StepsInv'
      BY TypePreserved, ShapePreserved, CountedPreserved, ExecutionsPreserved,
         LayoutPreserved, NotifiedPreserved DEF StepsInv
    <1> QED BY <1>1, StepsInit, PTL DEF Spec

\* Every variable keeps its type; in particular the counter close() waits on
\* never goes below zero (82-105).
THEOREM TypeCorrect == Spec => []TypeOK
    <1>1. StepsInv => TypeOK
      BY DEF StepsInv
    <1> QED BY <1>1, StepsInductive, PTL

\* close() never leaves an execution inside the wrapper of a closed handle,
\* whoever else closes or installs, and a wrapper only runs for the runner its
\* handle has bound (82-128).
THEOREM ExecutionsCorrect == Spec => []ExecutionsOwned
    <1>1. StepsInv => ExecutionsOwned
      BY DEF StepsInv
    <1> QED BY <1>1, StepsInductive, PTL

\* A query is captured with its own step's layout and at most once (149-161,
\* 325-353).
THEOREM LayoutsCorrect == Spec => []LayoutOfThisStep
    <1>1. StepsInv => LayoutOfThisStep
      BY DEF StepsInv, LayoutInv, LayoutIn, LayoutOfThisStep
    <1> QED BY <1>1, StepsInductive, PTL

---------------------------------------------------------------------------
(***************************************************************************)
(* Ownership of the runner class, when one thread does all the closing.    *)
(***************************************************************************)

\* An active handle is open, and only installed handles are ever closed.
ActiveOpen ==
    /\ activeHandle # None => activeHandle \in installed /\ ~closed[activeHandle]
    /\ \A h \in Handles : closed[h] => h \in installed

\* A close() that waits still has its handle to close.
WaitingOpen ==
    \A t \in Threads : waiting[t] # None =>
        t \in Closers /\ waiting[t] \in installed /\ ~closed[waiting[t]]

\* What a method is without this package.
Underneath(name) == IF name \in replaced THEN "external" ELSE "original"

\* While a handle is active its wrapper sits on what it will put back, unless
\* somebody has replaced the wrapper.
OnTop(name, method, before) ==
    \/ method = activeHandle /\ before = Underneath(name)
    \/ method = "external" /\ name \in replaced

PatchOnTop ==
    activeHandle # None =>
        /\ OnTop("prepare", prepareMethod, runnerPatch.prepare)
        /\ OnTop("execute", executeMethod, runnerPatch.execute)

OwnerInv == InstallationOwned /\ MethodsRestored /\ ActiveOpen /\ WaitingOpen /\ PatchOnTop

LEMMA OwnerInit == Init => OwnerInv
    BY DEF Init, OwnerInv, InstallationOwned, MethodsRestored, ActiveOpen, WaitingOpen, PatchOnTop

\* Installing over an unowned class.
LEMMA InstallOwned ==
    ASSUME StepsInv, OwnerInv, NEW t \in Threads, NEW h \in Handles, Install(t, h)
    PROVE  OwnerInv'
    <1> USE DEF StepsInv, TypeOK, OwnerInv
    <1>1. ~closed[h] /\ \A g \in installed : closed[g]
      BY NoneAssumption DEF Install, Installable, ActiveOpen, InstallationOwned, Methods
    <1>2. InstallationOwned'
      BY <1>1, NoneAssumption DEF Install, InstallationOwned, Patch, Methods
    <1>3. MethodsRestored' /\ ActiveOpen' /\ WaitingOpen'
      BY <1>1, NoneAssumption DEF Install, MethodsRestored, ActiveOpen, WaitingOpen, waitVars, Methods
    <1>4. PatchOnTop'
      BY DEF Install, Installable, MethodsRestored, PatchOnTop, OnTop, Underneath
    <1> QED BY <1>2, <1>3, <1>4

\* Closing the active handle, as the only thread that closes.
LEMMA UnpatchOwned ==
    ASSUME StepsInv, OwnerInv, NEW h \in Handles, h \in installed, ~closed[h], Unpatch(h),
           \A t \in Threads : waiting'[t] = None, UNCHANGED <<installed, replaced>>
    PROVE  OwnerInv'
    <1> USE DEF StepsInv, TypeOK, OwnerInv
    <1>1. activeHandle = h /\ owner = h /\ runnerPatch \in Patch /\ runnerPatch.by = h
      BY DEF InstallationOwned
    <1>2. \A g \in installed : closed'[g]
      BY <1>1 DEF Unpatch, InstallationOwned
    <1>3. InstallationOwned' /\ ActiveOpen' /\ WaitingOpen' /\ PatchOnTop'
      BY <1>1, <1>2, NoneAssumption DEF Unpatch, InstallationOwned, ActiveOpen, WaitingOpen, PatchOnTop
    <1>4. MethodsRestored'
      BY <1>1, NoneAssumption, MethodsAssumption DEF Unpatch, Restored, MethodsRestored,
         PatchOnTop, OnTop, Underneath, Methods
    <1> QED BY <1>3, <1>4

LEMMA OwnerPreserved ==
    ASSUME OneCloser, StepsInv, OwnerInv, [Next]_vars
    PROVE  OwnerInv'
    <1> USE DEF StepsInv, TypeOK, OwnerInv
    <1>1. ASSUME NEW t \in Threads, NEW h \in Handles, Close(t, h) PROVE OwnerInv'
      <2>1. h \in installed /\ ~closed[h] /\ \A u \in Threads : waiting[u] = None
        BY <1>1, NoneAssumption DEF Close, MayClose, ActiveOpen, WaitingOpen, OneCloser, Methods
      <2>2. CASE Quiescent(h)
        BY <1>1, <2>1, <2>2, UnpatchOwned DEF Close
      <2>3. CASE ~Quiescent(h)
        BY <1>1, <2>1, <2>3 DEF Close, classVars, InstallationOwned, MethodsRestored, ActiveOpen,
           WaitingOpen, PatchOnTop, OnTop, Underneath
      <2> QED BY <2>2, <2>3
    <1>2. ASSUME NEW t \in Threads, Wake(t) PROVE OwnerInv'
      <2> DEFINE h == waiting[t]
      <2>1. h \in Handles /\ h \in installed /\ ~closed[h]
        BY <1>2 DEF Wake, NotifiedWait, WaitingOpen
      <2>2. \A u \in Threads : u # t => waiting[u] = None
        BY <1>2 DEF Wake, NotifiedWait, WaitingOpen, OneCloser
      <2>3. CASE Quiescent(h)
        <3>1. Unpatch(h) /\ (\A u \in Threads : waiting'[u] = None)
              /\ UNCHANGED <<installed, replaced>>
          BY <1>2, <2>2, <2>3 DEF Wake
        <3> QED BY <2>1, <3>1, UnpatchOwned
      <2>4. CASE ~Quiescent(h)
        BY <1>2, <2>4 DEF Wake, classVars, InstallationOwned, MethodsRestored, ActiveOpen,
           WaitingOpen, PatchOnTop, OnTop, Underneath
      <2> QED BY <2>3, <2>4
    <1>3. CASE ReplacePrepare \/ ReplaceExecute
      BY <1>3, NoneAssumption DEF ReplacePrepare, ReplaceExecute, handleVars, waitVars,
         InstallationOwned, MethodsRestored, ActiveOpen, WaitingOpen, PatchOnTop, OnTop, Underneath
    <1>4. CASE UNCHANGED <<classVars, replaced, installed, closed, waiting>>
      BY <1>4 DEF classVars, InstallationOwned, MethodsRestored, ActiveOpen, WaitingOpen,
         PatchOnTop, OnTop, Underneath
    <1>5. ASSUME NEW t \in Threads,
                 \/ \E r \in Runners : CallExecute(t, r)
                 \/ BeginExecution(t) \/ RefuseExecution(t) \/ PrepareInputs(t)
                 \/ Probe(t) \/ EndExecution(t)
          PROVE UNCHANGED <<classVars, replaced, installed, closed, waiting>>
      BY <1>5 DEF CallExecute, BeginExecution, RefuseExecution, PrepareInputs, Probe,
         EndExecution, handleVars, waitVars
    <1>6. CASE UNCHANGED vars
      BY <1>4, <1>6 DEF vars, handleVars, waitVars
    <1> QED BY <1>1, <1>2, <1>3, <1>4, <1>5, <1>6, InstallOwned DEF Next

LEMMA OwnerInvariant ==
    ASSUME OneCloser
    PROVE  Spec => []OwnerInv
    <1>1. Init => OwnerInv
      BY OwnerInit
    <1>2. StepsInv /\ OwnerInv /\ [Next]_vars => OwnerInv'
      BY OwnerPreserved
    <1> QED BY <1>1, <1>2, StepsInductive, PTL DEF Spec

\* With one closing thread the process has one owner at a time, and an open
\* handle keeps its installation (67, 107-128).
THEOREM OwnershipCorrect ==
    ASSUME OneCloser
    PROVE  Spec => []InstallationOwned
    <1>1. OwnerInv => InstallationOwned
      BY DEF OwnerInv
    <1> QED BY <1>1, OwnerInvariant, PTL

\* With one closing thread a class that nobody owns has its methods back, the
\* ones others have replaced in the meantime included (189-214, 247-261).
THEOREM MethodsCorrect ==
    ASSUME OneCloser
    PROVE  Spec => []MethodsRestored
    <1>1. OwnerInv => MethodsRestored
      BY DEF OwnerInv
    <1> QED BY <1>1, OwnerInvariant, PTL
================================================================================
