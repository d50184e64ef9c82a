------------------------------ MODULE HarnessProofs ------------------------------
(***************************************************************************)
(* Proofs about Harness, for any number of cells, cases, polls, transfers  *)
(* and tags: which server answers, what a verdict speaks of, and what a    *)
(* probe reports.                                                          *)
(***************************************************************************)
EXTENDS Harness, TLAPS

Cells    == 1 .. MaxCells
Process  == {"none", "starting", "serving", "stopping", "killed", "exited"}
Ended    == {"idle", "shutdown", "terminating"}
Measuring == {"settling", "recall", "measure"}
Counters == [load : Nat, store : Nat]
Verdicts == {"hit", "miss", "partial", "not_pressured"}
Outcomes == Verdicts \cup Tags \cup {None, "no splice"}

---------------------------------------------------------------------------
(* The servers.                                                            *)

ServersTyped ==
    /\ server \in [Cells -> Process]
    /\ cell \in 0 .. MaxCells
    /\ pc \in Ended \cup Measuring \cup {"polling", "ready", "case", "probe"}
\* The servers of earlier cells have ended or are being killed, and so has the
\* driver's own whenever the driver is between two cells.
OldServersGone ==
    /\ \A n \in Cells :
          /\ n < cell => server[n] \in {"killed", "exited"}
          /\ n > cell => server[n] = "none"
    /\ pc = "idle" => \A n \in Cells : n = cell => server[n] \in {"killed", "exited"}
    /\ pc # "idle" => cell \in Cells

ServersInv == ServersTyped /\ OldServersGone

LEMMA ServersInit == Init => ServersInv
<1> SUFFICES ASSUME Init PROVE ServersInv
  OBVIOUS
<1>1. server = [n \in Cells |-> "none"] /\ cell = 0 /\ pc = "idle"
  BY DEF Init, Cells
<1> QED
  BY <1>1, BoundsAssumption DEF ServersInv, ServersTyped, OldServersGone, Cells, Process, Ended

\* Most of the harness leaves the processes alone, and stays within its cell.
WithinCell ==
    /\ server' = server /\ cell' = cell
    /\ pc' = pc \/ (pc # "idle" /\ pc' # "idle")
    /\ pc' \in {pc, "ready", "case", "probe", "shutdown"} \cup Measuring

LEMMA MostStepsWithin ==
    ASSUME [Next]_vars
    PROVE  \/ WithinCell
           \/ LaunchServer \/ PollReady \/ Shutdown \/ Terminated
           \/ \E n \in Cells : ServerReady(n) \/ ServerExit(n) \/ ServerDies(n)
<1> USE DEF WithinCell, Measuring
<1>1. CASE ReadyTimeout \/ NextCase \/ CaseFails \/ EndCell
  BY <1>1 DEF ReadyTimeout, LateServer, NextCase, CaseFails, EndCell
<1>2. CASE BeginDrain \/ Recall \/ Measure
  BY <1>2 DEF BeginDrain, Recall, Measure
<1>3. CASE DrainStoreCounter
  BY <1>3 DEF DrainStoreCounter
<1>4. CASE BeginProbe \/ EndProbe
  BY <1>4 DEF BeginProbe, EndProbe
<1>5. CASE Distract \/ OtherTraffic \/ OthersEnd("streams") \/ OthersEnd("stray") \/ StoreCompletes
  BY <1>5 DEF Distract, OtherTraffic, OthersEnd, StoreCompletes
<1>6. ASSUME NEW t \in Tags,
             \/ PostTagged(t) \/ LogSplice(t, 0) \/ LogSplice(t, 1) \/ RequestDone(t)
             \/ OpenLog(t) \/ ReadLine(t) \/ WatchTimeout(t)
      PROVE  WithinCell
  BY <1>6 DEF PostTagged, LogSplice, RequestDone, OpenLog, ReadLine, WatchTimeout
<1>7. CASE UNCHANGED vars
  BY <1>7 DEF vars
<1> QED
  BY <1>1, <1>2, <1>3, <1>4, <1>5, <1>6, <1>7 DEF Next, Driver, Watch, Cells

LEMMA ServersStep == ServersInv /\ [Next]_vars => ServersInv'
<1> SUFFICES ASSUME ServersInv, [Next]_vars PROVE ServersInv'
  OBVIOUS
<1> USE DEF ServersInv, ServersTyped, OldServersGone
<1>1. CASE WithinCell
  BY <1>1 DEF WithinCell, Ended, Measuring
<1>2. CASE LaunchServer
  <2>1. /\ pc = "idle" /\ pc' = "polling" /\ cell' = cell + 1 /\ cell < MaxCells
        /\ server' = [server EXCEPT ![cell + 1] = "starting"]
    BY <1>2 DEF LaunchServer
  <2>2. cell + 1 \in Cells /\ cell' \in 0 .. MaxCells
    BY <2>1, BoundsAssumption DEF Cells
  <2> QED BY <2>1, <2>2, BoundsAssumption DEF Cells, Process
<1>3. CASE PollReady
  BY <1>3 DEF PollReady, Exited, Ended
<1>4. CASE Shutdown
  <2>1. /\ pc = "shutdown" /\ pc' \in {"idle", "terminating"} /\ cell' = cell
        /\ pc' = "idle" => server[cell] = "exited" /\ server' = server
        /\ pc' # "idle" => \E state \in {"stopping", server[cell]} :
              server' = [server EXCEPT ![cell] = state]
    BY <1>4 DEF Shutdown, Exited
  <2> QED BY <2>1 DEF Ended, Process
<1>5. CASE Terminated
  <2>1. /\ pc = "terminating" /\ pc' = "idle" /\ cell' = cell
        /\ \/ server[cell] = "exited" /\ server' = server
           \/ server' = [server EXCEPT ![cell] = "killed"]
    BY <1>5 DEF Terminated, OutOfPatience, Exited
  <2> QED BY <2>1 DEF Ended, Process
<1>6. ASSUME NEW n \in Cells, ServerReady(n) \/ ServerExit(n) \/ ServerDies(n)
      PROVE  ServersInv'
  <2>1. /\ pc' = pc /\ cell' = cell /\ server[n] # "none"
        /\ \/ server' = [server EXCEPT ![n] = "exited"]
           \/ server[n] = "starting" /\ server' = [server EXCEPT ![n] = "serving"]
    BY <1>6 DEF ServerReady, ServerExit, ServerDies, Becomes
  <2> QED BY <2>1 DEF Process
<1> QED
  BY <1>1, <1>2, <1>3, <1>4, <1>5, <1>6, MostStepsWithin

\* No server but the driver's own ever answers on the port: each launch finds
\* the server of the cell before it exited or under SIGKILL, as long as nobody
\* interrupts the driver (server.py:97-135).
THEOREM ServersCorrect == Spec => []OnlyOwnServer
<1>1. ServersInv => OnlyOwnServer
  BY DEF ServersInv, ServersTyped, OldServersGone, OnlyOwnServer, Serving, Cells
<1> QED BY <1>1, ServersInit, ServersStep, PTL DEF Spec

---------------------------------------------------------------------------
(* The verdict of a needle case.                                           *)

CaseTyped ==
    /\ underway \in Nat /\ counters \in Counters
    /\ prev \in Counters /\ inFlight \in Nat
    /\ disturbed \in BOOLEAN
    /\ outcome \in Outcomes
One(what) == IF what \in recall THEN 1 ELSE 0
\* The polls lag behind the counters.  As long as others keep still, what was
\* under way at a poll is counted or under way ever after; a baseline that is
\* settled leaves nothing under way, and only the recall adds to it.
CountersFit ==
    /\ prev.load <= counters.load /\ prev.store <= counters.store
    /\ pc = "settling" /\ ~disturbed =>
          underway + counters.store = inFlight + prev.store
    /\ pc = "recall" /\ ~disturbed =>
          /\ counters.load = prev.load
          /\ baseline = "settled" => underway = 0 /\ counters.store = prev.store
    /\ pc = "measure" =>
          /\ "loaded" \in recall => prev.load < counters.load
          /\ ~disturbed =>
                /\ counters.load = prev.load + One("loaded")
                /\ baseline = "settled" =>
                      underway + counters.store = prev.store + One("stored")
NoVerdictYet ==
    pc \in Measuring \cup {"case"} => outcome \notin Verdicts

CaseInv == CaseTyped /\ CountersFit /\ NoVerdictYet /\ VerdictAttributed

\* Without a verdict there is nothing to attribute.
LEMMA NoVerdict ==
    ASSUME outcome \notin Verdicts
    PROVE  NoVerdictYet /\ VerdictAttributed
  BY DEF NoVerdictYet, VerdictAttributed, Verdicts

LEMMA NoVerdictNext ==
    ASSUME outcome' \notin Verdicts
    PROVE  NoVerdictYet' /\ VerdictAttributed'
  BY DEF NoVerdictYet, VerdictAttributed, Verdicts

LEMMA NoneIsNoVerdict == None \notin Verdicts /\ None \in Outcomes
  BY TagsAssumption DEF Verdicts, Outcomes

LEMMA CaseInit == Init => CaseInv
<1> SUFFICES ASSUME Init PROVE CaseInv
  OBVIOUS
<1>1. /\ pc = "idle" /\ underway = 0 /\ counters = Zero /\ prev = Zero /\ inFlight = 0
      /\ disturbed = FALSE /\ outcome = None
  BY DEF Init
<1>2. CaseTyped
  BY <1>1, NoneIsNoVerdict DEF CaseTyped, Zero, Counters
<1>3. CountersFit
  BY <1>1 DEF CountersFit, Zero
<1> QED
  BY <1>1, <1>2, <1>3, NoVerdict, NoneIsNoVerdict DEF CaseInv

\* A new case has neither polled nor recalled anything.
LEMMA CaseFresh ==
    ASSUME CaseInv, LaunchServer \/ NextCase
    PROVE  CaseInv'
<1>1. /\ prev' = Zero /\ inFlight' = 0 /\ disturbed' = FALSE /\ outcome' = None
      /\ pc' \in {"polling", "case"}
  BY DEF LaunchServer, NextCase, FreshCase
<1>2. underway' \in Nat /\ counters' \in Counters
  BY DEF LaunchServer, NextCase, FreshServer, CaseInv, CaseTyped, Zero, Counters
<1>3. CaseTyped'
  BY <1>1, <1>2, NoneIsNoVerdict DEF CaseTyped, Zero, Counters
<1>4. CountersFit'
  BY <1>1, <1>2 DEF CountersFit, Zero, Counters
<1> QED
  BY <1>1, <1>3, <1>4, NoVerdictNext, NoneIsNoVerdict DEF CaseInv

LEMMA Moved ==
    ASSUME counters \in Counters, underway \in Nat,
           NEW loads \in {0, 1}, NEW stores \in {0, 1}, Moves(loads, stores)
    PROVE  /\ underway' \in Nat /\ underway' = underway + stores
           /\ counters' \in Counters /\ counters.load <= counters'.load
           /\ counters'.load = counters.load + loads /\ counters'.store = counters.store
  BY DEF Moves, Counters

\* Steps that no verdict depends on.
VerdictKept ==
    /\ UNCHANGED <<underway, counters, prev, inFlight, baseline, disturbed, recall>>
    /\ outcome' = outcome \/ outcome' \in Tags \cup {"no splice"}
    /\ pc' \in Ended \cup {pc, "ready", "probe"}

LEMMA MostStepsKeepVerdict ==
    ASSUME [Next]_vars
    PROVE  \/ VerdictKept
           \/ LaunchServer \/ NextCase
           \/ BeginDrain \/ DrainStoreCounter \/ Recall \/ Measure
           \/ Distract \/ OtherTraffic \/ StoreCompletes
<1> USE DEF VerdictKept, Ended
<1>1. CASE PollReady \/ ReadyTimeout \/ CaseFails \/ EndCell
  BY <1>1 DEF PollReady, ReadyTimeout, LateServer, CaseFails, EndCell, caseVars, serverVars, pollVars
<1>2. CASE Shutdown \/ Terminated
  BY <1>2 DEF Shutdown, Terminated, caseVars, serverVars, pollVars
<1>3. CASE BeginProbe
  BY <1>3 DEF BeginProbe, caseVars, serverVars, pollVars
<1>4. CASE EndProbe
  BY <1>4 DEF EndProbe, serverVars, pollVars
<1>5. CASE OthersEnd("streams") \/ OthersEnd("stray")
  BY <1>5 DEF OthersEnd, pollVars
<1>6. ASSUME NEW t \in Tags,
             PostTagged(t) \/ RequestDone(t) \/ OpenLog(t) \/ ReadLine(t) \/ WatchTimeout(t)
      PROVE  VerdictKept
  BY <1>6 DEF PostTagged, RequestDone, OpenLog, ReadLine, WatchTimeout, caseVars, serverVars, pollVars
<1>7. ASSUME NEW t \in Tags, LogSplice(t, 0) \/ LogSplice(t, 1)
      PROVE  VerdictKept
  BY <1>7 DEF LogSplice, caseVars, serverVars, pollVars
<1>8. ASSUME NEW n \in Cells, ServerReady(n) \/ ServerExit(n) \/ ServerDies(n)
      PROVE  VerdictKept
  BY <1>8 DEF ServerReady, ServerExit, ServerDies, Becomes, caseVars, serverVars, pollVars
<1>9. CASE UNCHANGED vars
  BY <1>9 DEF vars, caseVars, serverVars, pollVars
<1> QED
  BY <1>1, <1>2, <1>3, <1>4, <1>5, <1>6, <1>7, <1>8, <1>9 DEF Next, Driver, Watch, Cells

LEMMA CaseStep == CaseInv /\ [Next]_vars => CaseInv'
<1> SUFFICES ASSUME CaseInv, [Next]_vars PROVE CaseInv'
  OBVIOUS
<1>0. CaseTyped /\ CountersFit /\ NoVerdictYet /\ VerdictAttributed
  BY DEF CaseInv
<1>1. CASE VerdictKept
  <2>1. /\ UNCHANGED <<underway, counters, prev, inFlight, baseline, disturbed, recall>>
        /\ outcome' = outcome \/ outcome' \in Tags \cup {"no splice"}
        /\ pc' \in Ended \cup {pc, "ready", "probe"}
    BY <1>1 DEF VerdictKept
  <2>2. outcome' \in Outcomes /\ (outcome' = outcome \/ outcome' \notin Verdicts)
    BY <1>0, <2>1, TagsAssumption DEF CaseTyped, Outcomes, Verdicts
  <2>3. CaseTyped' /\ CountersFit'
    BY <1>0, <2>1, <2>2 DEF CaseTyped, CountersFit, One, Ended
  <2>4. NoVerdictYet' /\ VerdictAttributed'
    BY <1>0, <2>1, <2>2 DEF NoVerdictYet, VerdictAttributed, Verdicts, Measuring, Ended
  <2> QED BY <2>3, <2>4 DEF CaseInv
<1>2. CASE Distract
  <2>1. PICK loads \in {0, 1}, stores \in {0, 1} : Moves(loads, stores)
    BY <1>2 DEF Distract
  <2>2. /\ pc = "case" /\ pc' = pc
        /\ UNCHANGED <<prev, inFlight, baseline, disturbed, recall, outcome>>
    BY <1>2 DEF Distract, pollVars
  <2>3. outcome' \notin Verdicts
    BY <1>0, <2>2 DEF NoVerdictYet
  <2>4. /\ underway' \in Nat /\ counters' \in Counters
        /\ counters.load <= counters'.load /\ counters.store = counters'.store
    BY <1>0, <2>1, Moved DEF CaseTyped
  <2>5. CaseTyped'
    BY <1>0, <2>2, <2>4 DEF CaseTyped
  <2>6. CountersFit'
    BY <1>0, <2>2, <2>4 DEF CaseTyped, CountersFit, Counters
  <2> QED BY <2>3, <2>5, <2>6, NoVerdictNext DEF CaseInv
<1>3. CASE OtherTraffic
  <2>1. PICK loads \in {0, 1}, stores \in {0, 1} : Moves(loads, stores)
    BY <1>3 DEF OtherTraffic
  <2>2. /\ disturbed' = (disturbed \/ pc \in Measuring) /\ pc' = pc
        /\ UNCHANGED <<prev, inFlight, baseline, recall, outcome>>
    BY <1>3 DEF OtherTraffic, Measuring
  <2>3. /\ underway' \in Nat /\ counters' \in Counters
        /\ counters.load <= counters'.load /\ counters.store = counters'.store
    BY <1>0, <2>1, Moved DEF CaseTyped
  <2>4. CaseTyped'
    BY <1>0, <2>2, <2>3 DEF CaseTyped
  <2>5. pc \in Measuring => disturbed'
    BY <2>2
  <2>6. CountersFit'
    BY <1>0, <2>2, <2>3, <2>5 DEF CaseTyped, CountersFit, Counters, Measuring
  <2>7. NoVerdictYet' /\ VerdictAttributed'
    BY <1>0, <2>2 DEF CaseTyped, NoVerdictYet, VerdictAttributed
  <2> QED BY <2>4, <2>6, <2>7 DEF CaseInv
<1>4. CASE BeginDrain
  <2>1. /\ pc = "case" /\ prev' = counters /\ inFlight' = underway
        /\ \/ pc' = "settling"
           \/ pc' = "recall" /\ baseline' = "exhausted"
        /\ UNCHANGED <<underway, counters, disturbed, recall, outcome>>
    BY <1>4 DEF BeginDrain, serverVars
  <2>2. outcome' \notin Verdicts
    BY <1>0, <2>1 DEF NoVerdictYet
  <2>3. CaseTyped' /\ CountersFit'
    BY <1>0, <2>1 DEF CaseTyped, CountersFit, Counters
  <2> QED BY <2>2, <2>3, NoVerdictNext DEF CaseInv
<1>5. CASE DrainStoreCounter
  <2>1. /\ pc = "settling" /\ prev' = counters /\ inFlight' = underway
        /\ pc' \in {"settling", "recall"}
        /\ disturbed' = (disturbed /\ pc' = "recall")
        /\ UNCHANGED <<underway, counters, recall, outcome>>
    BY <1>5 DEF DrainStoreCounter, serverVars
  <2>2. baseline' = "settled" => counters.store = prev.store /\ ~(inFlight > 0)
    BY <1>5 DEF DrainStoreCounter, StandsStill, Stalled
  <2>3. outcome' \notin Verdicts
    BY <1>0, <2>1 DEF NoVerdictYet, Measuring
  <2>4. ~disturbed /\ baseline' = "settled" => underway = 0
    BY <1>0, <2>1, <2>2 DEF CaseTyped, CountersFit, Counters
  <2>5. disturbed' \in BOOLEAN /\ (~disturbed' /\ pc' = "recall" => ~disturbed)
    BY <1>0, <2>1 DEF CaseTyped
  <2>6. CaseTyped' /\ CountersFit'
    BY <1>0, <2>1, <2>4, <2>5 DEF CaseTyped, CountersFit, Counters
  <2> QED BY <2>3, <2>6, NoVerdictNext DEF CaseInv
<1>6. CASE StoreCompletes
  <2>1. /\ underway > 0 /\ underway' = underway - 1
        /\ counters' = [counters EXCEPT !.store = @ + 1]
        /\ UNCHANGED <<pc, prev, inFlight, baseline, disturbed, recall, outcome>>
    BY <1>6 DEF StoreCompletes, pollVars
  <2>2. /\ counters' \in Counters
        /\ counters'.load = counters.load /\ counters'.store = counters.store + 1
    BY <1>0, <2>1 DEF CaseTyped, Counters
  <2>3. CaseTyped' /\ CountersFit'
    BY <1>0, <2>1, <2>2 DEF CaseTyped, CountersFit, Counters, One
  <2>4. NoVerdictYet' /\ VerdictAttributed'
    BY <1>0, <2>1 DEF NoVerdictYet, VerdictAttributed
  <2> QED BY <2>3, <2>4 DEF CaseInv
<1>7. CASE Recall
  <2>1. PICK loads \in {0, 1}, stores \in {0, 1} :
          /\ Moves(loads, stores)
          /\ recall' = (IF loads = 1 THEN {"loaded"} ELSE {})
                       \cup (IF stores = 1 THEN {"stored"} ELSE {})
    BY <1>7 DEF Recall
  <2>2. /\ pc = "recall" /\ pc' = "measure"
        /\ UNCHANGED <<prev, inFlight, baseline, disturbed, outcome>>
    BY <1>7 DEF Recall, pollVars
  <2>3. /\ loads = One("loaded")' /\ stores = One("stored")'
        /\ "loaded" \in recall' => loads = 1
    BY <2>1 DEF One
  <2>4. outcome' \notin Verdicts
    BY <1>0, <2>2 DEF NoVerdictYet, Measuring
  <2>5. /\ underway' = underway + stores /\ counters' \in Counters
        /\ counters'.load = counters.load + loads /\ counters'.store = counters.store
    BY <1>0, <2>1, Moved DEF CaseTyped
  <2>6. CaseTyped' /\ CountersFit'
    BY <1>0, <2>2, <2>3, <2>5 DEF CaseTyped, CountersFit, Counters
  <2> QED BY <2>4, <2>6, NoVerdictNext DEF CaseInv
<1>8. CASE Measure
  <2>1. /\ pc = "measure" /\ pc' = "ready"
        /\ outcome' = Classify(counters.load - prev.load, counters.store - prev.store)
        /\ UNCHANGED <<underway, counters, prev, inFlight, baseline, disturbed, recall>>
    BY <1>8 DEF Measure, serverVars, pollVars
  <2>2. /\ outcome' \in Outcomes
        /\ outcome' \in {"hit", "partial"} <=> counters.load - prev.load > 0
        /\ outcome' \in {"miss", "partial"} <=> counters.store - prev.store > 0
    BY <2>1 DEF Classify, Verdicts, Outcomes
  <2>3. "loaded" \in recall => outcome' \in {"hit", "partial"}
    BY <1>0, <2>1, <2>2 DEF CaseTyped, CountersFit, Counters
  <2>4. ~disturbed /\ outcome' \in {"hit", "partial"} => "loaded" \in recall
    BY <1>0, <2>1, <2>2 DEF CaseTyped, CountersFit, Counters, One
  <2>5. ~disturbed /\ baseline = "settled" /\ outcome' \in {"miss", "partial"} =>
           "stored" \in recall
    BY <1>0, <2>1, <2>2 DEF CaseTyped, CountersFit, Counters, One
  <2>6. VerdictAttributed'
    BY <2>1, <2>3, <2>4, <2>5 DEF VerdictAttributed
  <2>7. CaseTyped' /\ CountersFit' /\ NoVerdictYet'
    BY <1>0, <2>1, <2>2 DEF CaseTyped, CountersFit, NoVerdictYet, Measuring
  <2> QED BY <2>6, <2>7 DEF CaseInv
<1> QED
  BY <1>1, <1>2, <1>3, <1>4, <1>5, <1>6, <1>7, <1>8, CaseFresh, MostStepsKeepVerdict

\* A load of the recall is never overlooked; without others no other load is
\* taken for it, and no other store once the polls have settled on anything but
\* a stall (needle_workload.py:310-401).
THEOREM VerdictsCorrect == Spec => []VerdictAttributed
<1>1. CaseInv => VerdictAttributed
  BY DEF CaseInv
<1> QED BY <1>1, CaseInit, CaseStep, PTL DEF Spec

---------------------------------------------------------------------------
(* The splice probe.                                                       *)

ProbeTyped ==
    /\ watcher \in [Tags -> {"none", "submitted", "watching", "seen", "timeout"}]
    /\ request \in [Tags -> {"none", "running", "done"}]
    /\ unread \in [Tags -> SUBSET {0, 1}]
    /\ spliced \in [Tags -> SUBSET {"submitted", "watching", "seen", "timeout"}]
\* What is spliced while its watcher reads the log is in the lines it can still
\* read or has been seen, and it leaves with that or at its deadline.
Watched(t) ==
    /\ watcher[t] = "none" => request[t] = "none" /\ spliced[t] = {} /\ unread[t] = {}
    /\ "watching" \in spliced[t] <=> watcher[t] = "seen" \/ 1 \in unread[t]
    /\ "seen" \in spliced[t] => watcher[t] = "seen"
Attended(t) ==
    /\ pc \in Measuring \cup {"polling", "ready", "case"} => watcher[t] = "none"
    /\ pc = "probe" => watcher[t] # "none"
Reported ==
    /\ outcome \in Tags \cup {"no splice"} => pc \in Ended
    /\ outcome \in Tags => watcher[outcome] = "seen"
    /\ outcome = "no splice" => \A t \in Tags : watcher[t] = "timeout" /\ request[t] = "done"

ProbeInv == ProbeTyped /\ Reported /\ \A t \in Tags : Watched(t) /\ Attended(t)

\* Outcomes other than the probe's.
LEMMA NotReported ==
    ASSUME NEW o \in Verdicts \cup {None}
    PROVE  o \notin Tags \cup {"no splice"}
  BY TagsAssumption DEF Verdicts

LEMMA ProbeInit == Init => ProbeInv
<1> SUFFICES ASSUME Init PROVE ProbeInv
  OBVIOUS
<1>1. /\ watcher = [t \in Tags |-> "none"] /\ request = [t \in Tags |-> "none"]
      /\ unread = [t \in Tags |-> {}] /\ spliced = [t \in Tags |-> {}]
      /\ outcome = None /\ pc = "idle"
  BY DEF Init
<1>2. Reported
  BY <1>1, NotReported DEF Reported
<1> QED
  BY <1>1, <1>2 DEF ProbeInv, ProbeTyped, Watched, Attended, Measuring

LEMMA ProbeLaunched == ASSUME LaunchServer PROVE ProbeInv'
<1>1. /\ watcher' = [t \in Tags |-> "none"] /\ request' = [t \in Tags |-> "none"]
      /\ unread' = [t \in Tags |-> {}] /\ spliced' = [t \in Tags |-> {}]
      /\ outcome' = None /\ pc' = "polling"
  BY DEF LaunchServer, FreshServer, FreshCase
<1>2. Reported'
  BY <1>1, NotReported DEF Reported
<1> QED
  BY <1>1, <1>2 DEF ProbeInv, ProbeTyped, Watched, Attended, Measuring

\* Steps that concern no probe.
ProbeKept ==
    /\ UNCHANGED <<watcher, request, unread, spliced>>
    /\ outcome' = outcome \/ outcome' \in Verdicts \cup {None}
    /\ \/ pc' \in Ended \cup {pc}
       \/ /\ pc \in Measuring \cup {"polling", "ready", "case"}
          /\ pc' \in Measuring \cup {"ready", "case"}

LEMMA MostStepsKeepProbe ==
    ASSUME [Next]_vars
    PROVE  \/ ProbeKept
           \/ LaunchServer \/ BeginProbe \/ EndProbe
           \/ \E t \in Tags :
                 \/ PostTagged(t) \/ LogSplice(t, 0) \/ LogSplice(t, 1) \/ RequestDone(t)
                 \/ OpenLog(t) \/ ReadLine(t) \/ WatchTimeout(t)
<1> USE DEF ProbeKept, Ended, Measuring, probeVars
<1>1. CASE PollReady \/ ReadyTimeout \/ CaseFails \/ EndCell
  BY <1>1 DEF PollReady, ReadyTimeout, LateServer, CaseFails, EndCell, caseVars
<1>2. CASE Shutdown \/ Terminated
  BY <1>2 DEF Shutdown, Terminated, caseVars
<1>3. CASE NextCase
  BY <1>3 DEF NextCase, FreshCase
<1>4. CASE BeginDrain \/ Recall
  BY <1>4 DEF BeginDrain, Recall
<1>5. CASE DrainStoreCounter
  BY <1>5 DEF DrainStoreCounter
<1>6. CASE Measure
  BY <1>6 DEF Measure, Classify, Verdicts
<1>7. CASE Distract \/ OtherTraffic \/ OthersEnd("streams") \/ OthersEnd("stray") \/ StoreCompletes
  BY <1>7 DEF Distract, OtherTraffic, OthersEnd, StoreCompletes
<1>8. ASSUME NEW n \in Cells, ServerReady(n) \/ ServerExit(n) \/ ServerDies(n)
      PROVE  ProbeKept
  BY <1>8 DEF ServerReady, ServerExit, ServerDies, Becomes, caseVars
<1>9. CASE UNCHANGED vars
  BY <1>9 DEF vars, caseVars
<1> QED
  BY <1>1, <1>2, <1>3, <1>4, <1>5, <1>6, <1>7, <1>8, <1>9 DEF Next, Driver, Watch, Cells

\* A step of one request or of its watcher, while nothing has been reported.
LEMMA TaggedStep ==
    ASSUME ProbeInv, NEW t \in Tags, ProbeTyped', Watched(t)',
           watcher'[t] # "none", watcher[t] \in {"none", "seen", "timeout"} => watcher'[t] = watcher[t],
           request[t] = "done" => request'[t] = "done",
           pc' = pc, outcome' = outcome, watcher[t] # "none",
           \A u \in Tags \ {t} :
              /\ watcher'[u] = watcher[u] /\ request'[u] = request[u]
              /\ unread'[u] = unread[u] /\ spliced'[u] = spliced[u]
    PROVE  ProbeInv'
<1>1. \A u \in Tags : Watched(u)'
  BY DEF ProbeInv, Watched
<1>2. \A u \in Tags : Attended(u)'
  BY DEF ProbeInv, Attended
<1>3. Reported'
  BY DEF ProbeInv, Reported
<1> QED BY <1>1, <1>2, <1>3 DEF ProbeInv

LEMMA ProbeStep == ProbeInv /\ [Next]_vars => ProbeInv'
<1> SUFFICES ASSUME ProbeInv, [Next]_vars PROVE ProbeInv'
  OBVIOUS
<1>0. ProbeTyped /\ Reported /\ \A t \in Tags : Watched(t) /\ Attended(t)
  BY DEF ProbeInv
<1>1. CASE ProbeKept
  <2>1. /\ UNCHANGED <<watcher, request, unread, spliced>>
        /\ outcome' = outcome \/ outcome' \notin Tags \cup {"no splice"}
        /\ \/ pc' \in Ended \cup {pc}
           \/ /\ pc \in Measuring \cup {"polling", "ready", "case"}
              /\ pc' \in Measuring \cup {"ready", "case"}
    BY <1>1, NotReported DEF ProbeKept
  <2>2. \A t \in Tags : Watched(t)' /\ Attended(t)'
    BY <1>0, <2>1 DEF Watched, Attended, Ended, Measuring
  <2>3. Reported'
    BY <1>0, <2>1 DEF Reported, Ended, Measuring
  <2> QED BY <1>0, <2>1, <2>2, <2>3 DEF ProbeInv, ProbeTyped
<1>2. CASE BeginProbe
  <2>1. /\ pc = "ready" /\ pc' = "probe" /\ outcome' = outcome
        /\ watcher' = [t \in Tags |-> "submitted"]
        /\ UNCHANGED <<request, unread, spliced>>
    BY <1>2 DEF BeginProbe, caseVars
  <2>2. outcome \notin Tags \cup {"no splice"}
    BY <1>0, <2>1 DEF Reported, Ended
  <2>3. \A t \in Tags : Watched(t)' /\ Attended(t)'
    BY <1>0, <2>1 DEF Watched, Attended, Measuring
  <2> QED BY <1>0, <2>1, <2>2, <2>3 DEF ProbeInv, ProbeTyped, Reported
<1>3. CASE EndProbe
  <2>1. /\ pc = "probe" /\ pc' = "shutdown"
        /\ \A t \in Tags : watcher[t] \notin {"submitted", "watching"} /\ request[t] = "done"
        /\ UNCHANGED <<watcher, request, unread, spliced>>
    BY <1>3 DEF EndProbe, WatchersDone, probeVars
  <2>2. \/ outcome' \in Tags /\ watcher[outcome'] = "seen"
        \/ outcome' = "no splice" /\ \A t \in Tags : watcher[t] # "seen"
    BY <1>3 DEF EndProbe
  <2>3. \A t \in Tags : watcher[t] \in {"seen", "timeout"}
    BY <1>0, <2>1 DEF ProbeTyped, Attended
  <2>4. "no splice" \notin Tags
    BY TagsAssumption
  <2>5. Reported'
    BY <2>1, <2>2, <2>3, <2>4 DEF Reported, Ended
  <2> QED BY <1>0, <2>1, <2>5 DEF ProbeInv, ProbeTyped, Watched, Attended, Measuring
<1>4. ASSUME NEW t \in Tags, PostTagged(t) \/ RequestDone(t) PROVE ProbeInv'
  <2>1. /\ pc = "probe" \/ request[t] = "running"
        /\ \E r \in {"running", "done"} : request' = [request EXCEPT ![t] = r]
        /\ request[t] # "done"
        /\ UNCHANGED <<pc, outcome, watcher, unread, spliced>>
    BY <1>4 DEF PostTagged, RequestDone, caseVars
  <2>2. watcher[t] # "none"
    BY <1>0, <2>1 DEF Watched, Attended
  <2>3. ProbeTyped' /\ Watched(t)'
    BY <1>0, <2>1, <2>2 DEF ProbeTyped, Watched
  <2> QED BY <1>0, <2>1, <2>2, <2>3, TaggedStep DEF ProbeTyped
<1>5. ASSUME NEW t \in Tags, NEW n \in {0, 1}, LogSplice(t, n) PROVE ProbeInv'
  <2>1. /\ request[t] = "running"
        /\ spliced' = [spliced EXCEPT ![t] = @ \cup IF n = 0 THEN {} ELSE {watcher[t]}]
        /\ unread' = [unread EXCEPT ![t] = @ \cup IF watcher[t] = "watching" THEN {n} ELSE {}]
        /\ UNCHANGED <<pc, outcome, watcher, request>>
    BY <1>5 DEF LogSplice, caseVars
  <2>2. watcher[t] \in {"submitted", "watching", "seen", "timeout"}
    BY <1>0, <2>1 DEF Watched, ProbeTyped
  <2>3. ProbeTyped'
    BY <1>0, <2>1, <2>2 DEF ProbeTyped
  <2>4. /\ spliced'[t] = spliced[t] \cup IF n = 0 THEN {} ELSE {watcher[t]}
        /\ unread'[t] = unread[t] \cup IF watcher[t] = "watching" THEN {n} ELSE {}
    BY <1>0, <2>1 DEF ProbeTyped
  <2>5. Watched(t)'
    BY <1>0, <2>1, <2>2, <2>4 DEF Watched
  <2> QED BY <1>0, <2>1, <2>2, <2>3, <2>5, TaggedStep DEF ProbeTyped
<1>6. ASSUME NEW t \in Tags, OpenLog(t) \/ WatchTimeout(t) PROVE ProbeInv'
  <2>1. /\ \/ watcher[t] = "submitted" /\ watcher' = [watcher EXCEPT ![t] = "watching"]
           \/ watcher[t] = "watching" /\ watcher' = [watcher EXCEPT ![t] = "timeout"]
        /\ UNCHANGED <<pc, outcome, request, unread, spliced>>
    BY <1>6 DEF OpenLog, WatchTimeout, caseVars
  <2>2. ProbeTyped'
    BY <1>0, <2>1 DEF ProbeTyped
  <2>3. \/ watcher[t] = "submitted" /\ watcher'[t] = "watching"
        \/ watcher[t] = "watching" /\ watcher'[t] = "timeout"
    BY <1>0, <2>1 DEF ProbeTyped
  <2>4. Watched(t)'
    BY <1>0, <2>1, <2>3 DEF Watched
  <2> QED BY <1>0, <2>1, <2>2, <2>3, <2>4, TaggedStep DEF ProbeTyped
<1>7. ASSUME NEW t \in Tags, ReadLine(t) PROVE ProbeInv'
  <2>1. PICK n \in unread[t] :
          /\ unread' = [unread EXCEPT ![t] = @ \ {n}]
          /\ watcher' = [watcher EXCEPT ![t] = IF n >= 1 THEN "seen" ELSE "watching"]
    BY <1>7 DEF ReadLine, AfterLine
  <2>2. /\ watcher[t] = "watching"
        /\ UNCHANGED <<pc, outcome, request, spliced>>
    BY <1>7 DEF ReadLine, caseVars
  <2>3. n = 0 \/ n = 1
    BY <1>0 DEF ProbeTyped
  <2>4. ProbeTyped' /\ Watched(t)'
    BY <1>0, <2>1, <2>2, <2>3 DEF ProbeTyped, Watched
  <2> QED BY <1>0, <2>1, <2>2, <2>4, TaggedStep DEF ProbeTyped
<1> QED
  BY <1>1, <1>2, <1>3, <1>4, <1>5, <1>6, <1>7, ProbeLaunched, MostStepsKeepProbe

\* The probe names a tag only if that request was spliced while its watcher read
\* the log, and says that none was only if none was, but for what no watcher was
\* there to read or what its deadline left unread (adaptive_splice_probe.py:40-61).
THEOREM ReportsCorrect == Spec => []SpliceReported
<1>1. ProbeInv => SpliceReported
  <2> SUFFICES ASSUME ProbeInv PROVE SpliceReported
    OBVIOUS
  <2>1. outcome \in Tags => "watching" \in spliced[outcome]
    BY DEF ProbeInv, Reported, Watched
  <2>2. ASSUME NEW t \in Tags, outcome = "no splice",
               spliced[t] \ {"submitted", "timeout"} # {}
        PROVE  1 \in unread[t]
    <3>1. watcher[t] = "timeout" /\ Watched(t)
      BY <2>2 DEF ProbeInv, Reported
    <3>2. "watching" \in spliced[t] \/ "seen" \in spliced[t]
      BY <2>2 DEF ProbeInv, ProbeTyped
    <3> QED BY <3>1, <3>2 DEF Watched
  <2> QED BY <2>1, <2>2 DEF SpliceReported
<1> QED BY <1>1, ProbeInit, ProbeStep, PTL DEF Spec

=================================================================================
