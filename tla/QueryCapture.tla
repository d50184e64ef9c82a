------------------------------ MODULE QueryCapture ------------------------------
(***************************************************************************)
(* The life of a query-capture installation (semantic_offload/             *)
(* query_capture.py): install() wraps two methods of the GPUModelRunner    *)
(* class, model steps run through the wrappers on any thread, and close()  *)
(* waits for the steps inside them before it puts the methods back.        *)
(*                                                                         *)
(* Every region under _lifecycle_condition is one action.  The wrappers    *)
(* are looked up without it, so a step may enter a wrapper that is being,  *)
(* or has been, removed.                                                   *)
(***************************************************************************)
EXTENDS Integers, FiniteSets, Sequences

CONSTANTS
    Threads,
    Handles,    \* QueryCaptureHandles, one per call of install()
    Runners,    \* GPUModelRunner instances
    Config,     \* the vllm_config of each handle and of each runner
    Closers,    \* the threads that call close()
    MaxProbes,  \* bound: attention calls of the probe layer in one step
    None

ASSUME ThreadsAssumption == IsFiniteSet(Threads) /\ Closers \subseteq Threads
ASSUME MethodsAssumption == {"original", "external"} \cap Handles = {}
ASSUME ProbesAssumption == MaxProbes \in Nat

VARIABLES
    \* --- process-wide, under _lifecycle_condition
    activeHandle,       \* _active_handle
    runnerPatch,        \* _runner_patch: who patched, and what was there before
    owner,              \* GPUModelRunner._semantic_query_capture_owner
    prepareMethod,      \* GPUModelRunner.prepare_inputs
    executeMethod,      \* GPUModelRunner.execute_model
    replaced,           \* methods that somebody else has replaced
    \* --- per handle
    installed,          \* the handles install() has returned
    runner,             \* _runner
    activeExecutions,   \* _active_executions
    executionThreads,   \* keys of _execution_threads
    closing, closed,    \* _closing, _closed
    \* --- per thread
    pc,
    call,               \* the execute_model call the thread is in
    batch,              \* the batch of its current step (modulo 2)
    currentHandle,      \* _current_handle
    currentLayout,      \* _current_layout: the batch it describes
    captured,           \* layouts with which on_query fired in this step
    waiting,            \* the handle whose close() it is waiting in
    notified            \* waiting threads that were notified

classVars  == <<activeHandle, runnerPatch, owner, prepareMethod, executeMethod>>
handleVars == <<installed, runner, activeExecutions, executionThreads, closing, closed>>
stepVars   == <<pc, call, batch, currentHandle, currentLayout, captured>>
waitVars   == <<waiting, notified>>
vars == <<classVars, replaced, handleVars, stepVars, waitVars>>

---------------------------------------------------------------------------
Methods == Handles \cup {"original", "external"}
Patch   == [by : Handles, prepare : Methods, execute : Methods]
Call    == [wrapper : Handles \cup {None}, runner : Runners]

Layout  == Threads \X Runners \X {0, 1}   \* a batch layout, by its batch

ASSUME NoneAssumption == None \notin Runners \cup Methods \cup Patch \cup Call \cup Layout

\* The batch a thread is working on; a layout is identified by its batch.
Batch(t) == <<t, call[t].runner, batch[t]>>

Init ==
    /\ activeHandle = None
    /\ runnerPatch = None
    /\ owner = None
    /\ prepareMethod = "original"
    /\ executeMethod = "original"
    /\ replaced = {}
    /\ installed = {}
    /\ runner = [h \in Handles |-> None]
    /\ activeExecutions = [h \in Handles |-> 0]
    /\ executionThreads = [h \in Handles |-> {}]
    /\ closing = [h \in Handles |-> FALSE]
    /\ closed = [h \in Handles |-> FALSE]
    /\ pc = [t \in Threads |-> "idle"]
    /\ call = [t \in Threads |-> None]
    /\ batch = [t \in Threads |-> 0]
    /\ currentHandle = [t \in Threads |-> None]
    /\ currentLayout = [t \in Threads |-> None]
    /\ captured = [t \in Threads |-> {}]
    /\ waiting = [t \in Threads |-> None]
    /\ notified = {}

---------------------------------------------------------------------------
\* Faulty: forgets to look for another installation.
InstallableUnchecked(h) == h \notin installed
\* preflight_install, once more under the lock by install itself.
Installable(h) ==
    /\ h \notin installed
    /\ activeHandle = None
    /\ runnerPatch = None
    /\ owner = None

\* install: wrap whatever methods the class has now.
Install(t, h) ==
    /\ pc[t] = "idle" /\ waiting[t] = None
    /\ Installable(h)
    /\ runnerPatch' = [by |-> h, prepare |-> prepareMethod, execute |-> executeMethod]
    /\ prepareMethod' = h
    /\ executeMethod' = h
    /\ owner' = h
    /\ activeHandle' = h
    /\ installed' = installed \cup {h}
    /\ UNCHANGED <<replaced, runner, activeExecutions, executionThreads, closing, closed,
                   stepVars, waitVars>>

\* Somebody else replaces a method of the class, once each.
ReplacePrepare ==
    /\ "prepare" \notin replaced
    /\ replaced' = replaced \cup {"prepare"}
    /\ prepareMethod' = "external"
    /\ UNCHANGED <<activeHandle, runnerPatch, owner, executeMethod, handleVars, stepVars,
                   waitVars>>

ReplaceExecute ==
    /\ "execute" \notin replaced
    /\ replaced' = replaced \cup {"execute"}
    /\ executeMethod' = "external"
    /\ UNCHANGED <<activeHandle, runnerPatch, owner, prepareMethod, handleVars, stepVars,
                   waitVars>>

---------------------------------------------------------------------------
(***************************************************************************)
(* A model step: execute_model, with prepare_inputs and the attention      *)
(* calls of the probe layer inside it.                                     *)
(***************************************************************************)

\* The thread looks the method up and enters it; a runner with another config
\* goes straight to the original.
CallExecute(t, r) ==
    /\ pc[t] = "idle" /\ waiting[t] = None
    /\ batch' = [batch EXCEPT ![t] = 1 - @]
    /\ captured' = [captured EXCEPT ![t] = {}]
    /\ IF executeMethod \in Handles /\ Config[executeMethod] = Config[r]
       THEN /\ pc' = [pc EXCEPT ![t] = "entering"]
            /\ call' = [call EXCEPT ![t] = [wrapper |-> executeMethod, runner |-> r]]
       ELSE /\ pc' = [pc EXCEPT ![t] = "running"]
            /\ call' = [call EXCEPT ![t] = [wrapper |-> None, runner |-> r]]
    /\ UNCHANGED <<classVars, replaced, handleVars, currentHandle, currentLayout, waitVars>>

\* _begin_execution refuses a handle that is closing and a second runner.
Admits(h, r) ==
    /\ ~closing[h] /\ ~closed[h]
    /\ runner[h] \in {None, r}

\* Faulty: a layout that is global to the process.
SetLayoutGlobally(t, layout) == [u \in Threads |-> layout]
\* Each thread has a context, hence a layout, of its own.
SetLayout(t, layout) == [currentLayout EXCEPT ![t] = layout]

BeginExecution(t) ==
    /\ pc[t] = "entering" /\ waiting[t] = None
    /\ LET h == call[t].wrapper IN
         /\ Admits(h, call[t].runner)
         /\ runner' = [runner EXCEPT ![h] = call[t].runner]
         /\ activeExecutions' = [activeExecutions EXCEPT ![h] = @ + 1]
         /\ executionThreads' = [executionThreads EXCEPT ![h] = @ \cup {t}]
         /\ currentHandle' = [currentHandle EXCEPT ![t] = h]
    /\ currentLayout' = SetLayout(t, None)
    /\ pc' = [pc EXCEPT ![t] = "running"]
    /\ UNCHANGED <<classVars, replaced, installed, closing, closed, call, batch, captured,
                   waitVars>>

\* Faulty: begins inside the try block, whose finally then ends what never began.
RefuseExecutionInTry(t) ==
    /\ pc[t] = "entering" /\ waiting[t] = None
    /\ ~Admits(call[t].wrapper, call[t].runner)
    /\ pc' = [pc EXCEPT ![t] = "idle"]
    /\ call' = [call EXCEPT ![t] = None]
    /\ activeExecutions' = [activeExecutions EXCEPT ![call[t].wrapper] = @ - 1]
    /\ UNCHANGED <<classVars, replaced, installed, runner, executionThreads, closing, closed,
                   batch, currentHandle, currentLayout, captured, waitVars>>
\* execute_model raises: the step never runs.
RefuseExecution(t) ==
    /\ pc[t] = "entering" /\ waiting[t] = None
    /\ ~Admits(call[t].wrapper, call[t].runner)
    /\ pc' = [pc EXCEPT ![t] = "idle"]
    /\ call' = [call EXCEPT ![t] = None]
    /\ UNCHANGED <<classVars, replaced, handleVars, batch, currentHandle, currentLayout,
                   captured, waitVars>>

\* prepare_inputs, looked up afresh: only the step of the handle whose wrapper
\* this is, on that handle's runner, gets a layout.
PrepareInputs(t) ==
    /\ pc[t] = "running" /\ waiting[t] = None
    /\ pc' = [pc EXCEPT ![t] = "prepared"]
    /\ currentLayout' =
         IF /\ prepareMethod \in Handles
            /\ currentHandle[t] = prepareMethod
            /\ runner[prepareMethod] = call[t].runner
         THEN SetLayout(t, Batch(t))
         ELSE currentLayout
    /\ UNCHANGED <<classVars, replaced, handleVars, call, batch, currentHandle, captured,
                   waitVars>>

\* The probe layer's attention under the dispatch mode of the step's handle.
\* The layout is consumed even when on_query does not fire: the step is not
\* sampled, the query is too short, or the callback raises.
Probe(t) ==
    /\ pc[t] \in {"running", "prepared"} /\ waiting[t] = None
    /\ call[t].wrapper # None
    /\ currentLayout[t] # None
    /\ Cardinality(captured[t]) < MaxProbes
    /\ currentLayout' = SetLayout(t, None)
    /\ \/ captured' = [captured EXCEPT ![t] =
                          @ \cup {<<Cardinality(@), currentLayout[t]>>}]
       \/ UNCHANGED captured
    /\ UNCHANGED <<classVars, replaced, handleVars, pc, call, batch, currentHandle, waitVars>>

\* Faulty: nobody is notified.
NotifyNobody == {}
NotifyAll == {t \in Threads : waiting[t] # None}

\* The step returns or raises, and leaves the wrapper if it was in one.
EndExecution(t) ==
    /\ pc[t] \in {"running", "prepared"} /\ waiting[t] = None
    /\ pc' = [pc EXCEPT ![t] = "idle"]
    /\ call' = [call EXCEPT ![t] = None]
    /\ IF call[t].wrapper = None
       THEN UNCHANGED <<handleVars, currentHandle, currentLayout, waitVars>>
       ELSE LET h == call[t].wrapper IN
              /\ currentLayout' = SetLayout(t, None)
              /\ currentHandle' = [currentHandle EXCEPT ![t] = None]
              /\ activeExecutions' = [activeExecutions EXCEPT ![h] = @ - 1]
              /\ executionThreads' = [executionThreads EXCEPT ![h] = @ \ {t}]
              /\ notified' = NotifyAll
              /\ UNCHANGED <<installed, runner, closing, closed, waiting>>
    /\ UNCHANGED <<classVars, replaced, batch, captured>>

---------------------------------------------------------------------------
(***************************************************************************)
(* close()                                                                 *)
(***************************************************************************)

\* Faulty: puts back what it found whatever is there now.
RestoredBlindly(method, before) == before
\* A method that is no longer the wrapper of the patch is left as it is.
Restored(method, before) == IF method = runnerPatch.by THEN before ELSE method

\* _unpatch_runner and the end of close.
Unpatch(h) ==
    /\ IF runnerPatch = None
       THEN UNCHANGED <<prepareMethod, executeMethod, owner>>
       ELSE /\ prepareMethod' = Restored(prepareMethod, runnerPatch.prepare)
            /\ executeMethod' = Restored(executeMethod, runnerPatch.execute)
            /\ owner' = IF owner = h THEN None ELSE owner
    /\ runnerPatch' = None
    /\ activeHandle' = None
    /\ runner' = [runner EXCEPT ![h] = None]
    /\ closed' = [closed EXCEPT ![h] = TRUE]

\* Otherwise close returns at once (closed) or raises (no longer the active
\* handle, or called from one of its own executions).
MayClose(t, h) ==
    /\ ~closed[h]
    /\ activeHandle = h
    /\ t \notin executionThreads[h]

\* Faulty: the methods go back whatever is still running.
QuiescentAlways(h) == TRUE
Quiescent(h) == activeExecutions[h] = 0

Close(t, h) ==
    /\ t \in Closers /\ waiting[t] = None
    /\ MayClose(t, h)
    /\ closing' = [closing EXCEPT ![h] = TRUE]
    /\ IF Quiescent(h)
       THEN /\ Unpatch(h)
            /\ notified' = NotifyAll
            /\ UNCHANGED waiting
       ELSE /\ waiting' = [waiting EXCEPT ![t] = h]
            /\ UNCHANGED <<classVars, runner, closed, notified>>
    /\ UNCHANGED <<replaced, installed, activeExecutions, executionThreads, stepVars>>

\* A notified closer holds the lock again.  It does not look at _closed anew.
Wake(t) ==
    /\ t \in notified
    /\ LET h == waiting[t] IN
         IF Quiescent(h)
         THEN /\ Unpatch(h)
              /\ waiting' = [waiting EXCEPT ![t] = None]
              /\ notified' = NotifyAll \ {t}
         ELSE /\ notified' = notified \ {t}
              /\ UNCHANGED <<classVars, runner, closed, waiting>>
    /\ UNCHANGED <<replaced, installed, activeExecutions, executionThreads, closing, stepVars>>

---------------------------------------------------------------------------
Next ==
    \/ \E t \in Threads :
         \/ \E h \in Handles : Install(t, h) \/ Close(t, h)
         \/ \E r \in Runners : CallExecute(t, r)
         \/ BeginExecution(t) \/ RefuseExecution(t)
         \/ PrepareInputs(t) \/ Probe(t) \/ EndExecution(t)
         \/ Wake(t)
    \/ ReplacePrepare \/ ReplaceExecute

Spec == Init /\ [][Next]_vars

\* A step that began ends, and a notified thread gets the lock; nobody has to
\* start a step or to close.
Fairness ==
    \A t \in Threads : /\ WF_vars(EndExecution(t))
                       /\ WF_vars(Wake(t))

FairSpec == Spec /\ Fairness

---------------------------------------------------------------------------
TypeOK ==
    /\ activeHandle \in Handles \cup {None}
    /\ runnerPatch \in Patch \cup {None}
    /\ owner \in Handles \cup {None}
    /\ prepareMethod \in Methods
    /\ executeMethod \in Methods
    /\ replaced \in SUBSET {"prepare", "execute"}
    /\ installed \in SUBSET Handles
    /\ runner \in [Handles -> Runners \cup {None}]
    /\ activeExecutions \in [Handles -> Nat]
    /\ executionThreads \in [Handles -> SUBSET Threads]
    /\ closing \in [Handles -> BOOLEAN]
    /\ closed \in [Handles -> BOOLEAN]
    /\ pc \in [Threads -> {"idle", "entering", "running", "prepared"}]
    /\ call \in [Threads -> Call \cup {None}]
    /\ batch \in [Threads -> {0, 1}]
    /\ currentHandle \in [Threads -> Handles \cup {None}]
    /\ currentLayout \in [Threads -> Layout \cup {None}]
    /\ captured \in [Threads -> SUBSET (Nat \X Layout)]
    /\ waiting \in [Threads -> Handles \cup {None}]
    /\ notified \in SUBSET Threads

\* The threads inside the wrapper of h.
Inside(h) == {t \in Threads : pc[t] \in {"running", "prepared"} /\ call[t].wrapper = h}

\* The process belongs to one installation at a time, and to no other handle
\* until that one is closed (67, and CP-002 in docs/cache-policy-issues.md).
InstallationOwned ==
    /\ \A h \in installed : ~closed[h] =>
          /\ activeHandle = h
          /\ owner = h
          /\ runnerPatch # None /\ runnerPatch.by = h
    /\ activeHandle = None => runnerPatch = None /\ owner = None

\* Once no handle is active the class has the methods it would have without
\* this package: those of others where they were replaced (test_query_capture
\* 329-346), the original ones elsewhere.
MethodsRestored ==
    activeHandle = None =>
        /\ prepareMethod = IF "prepare" \in replaced THEN "external" ELSE "original"
        /\ executeMethod = IF "execute" \in replaced THEN "external" ELSE "original"

\* A closed handle has no execution left inside its wrapper, and every
\* execution inside a wrapper is of the one runner its handle has bound (6-10,
\* 82-94).
ExecutionsOwned ==
    \A h \in Handles : \A t \in Inside(h) :
        /\ ~closed[h]
        /\ runner[h] = call[t].runner

\* Queries are only ever captured with the layout of the very step they come
\* from, and at most once per step (_current_layout, 325-353).
LayoutOfThisStep ==
    \A t \in Threads :
        pc[t] \in {"running", "prepared"} =>
            captured[t] \in SUBSET {<<0, Batch(t)>>}

\* A waiting close() returns: the steps inside drain and someone notifies it;
\* it is never waiting for itself (107-128).
CloseReturns == \A t \in Threads : waiting[t] # None ~> waiting[t] = None
=================================================================================
