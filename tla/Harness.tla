--------------------------------- MODULE Harness ---------------------------------
(***************************************************************************)
(* The measurement harness: one cell after another launches a server on    *)
(* the same port (harness/server.py), uses it, and shuts it down.  A cell  *)
(* is run_latency_suite.py with needle-v2 cases, which read off the        *)
(* server's byte counters what a recall did (needle_workload.py), one      *)
(* after another on that server or, in `mixed`, beside other streams; or   *)
(* it is an adaptive splice probe, which tails the server's log for a      *)
(* splice of one of its tagged requests (run_adaptive_probe_live.py,       *)
(* adaptive_splice_probe.py).                                              *)
(*                                                                         *)
(* The servers, their counters and their logs are modelled as far as the   *)
(* harness sees them: a server stores to the CPU tier asynchronously, but  *)
(* answers a request only after what it loads for it has arrived.          *)
(*                                                                         *)
(* There is one driver, and nobody interrupts it.  That the server of an   *)
(* interrupted launch is orphaned is known (docs/cache-policy-issues.md,   *)
(* CP-006) and outside this model.                                         *)
(***************************************************************************)
EXTENDS Integers, FiniteSets

CONSTANTS
    MaxCells,   \* cells of the run; cell n launches server n
    MaxCases,   \* bound: needle cases of a cell
    MaxPolls,   \* max_settle_polls
    MaxStores,  \* bound: stores under way, but for the recall's
    MaxMoved,   \* bound: loads and stores of a server, but for the recalls'
    Tags,       \* tagged requests of a probe
    None

ASSUME BoundsAssumption ==
    MaxCells \in Nat /\ MaxCases \in Nat /\ MaxPolls \in Nat
    /\ MaxStores \in Nat /\ MaxMoved \in Nat
ASSUME TagsAssumption ==
    (Tags \cup {None}) \cap {"hit", "miss", "partial", "not_pressured", "no splice"} = {}
    /\ None \notin Tags

VARIABLES
    \* --- the servers
    server,         \* per server: its process
    underway,       \* stores to the CPU tier under way in the current server
    counters,       \* kv_offload_{load,store}_bytes_total, one per transfer
    others,         \* whose requests it serves beside the case's: the "streams"
                    \* of `mixed`, a "stray" request that a failed case gave up
    \* --- the driver
    cell,           \* cells begun
    pc,             \* where the driver is
    cases,          \* needle cases begun in this cell
    polls,          \* polls of the store counter so far
    prev,           \* the counters at the last poll
    outcome,        \* needle_outcome, or what the probe reports
    \* --- the probe
    watcher,        \* per tag: watch_for_splice in a thread of its own
    request,        \* per tag: the tagged request
    unread,         \* per tag: what the log lines say that its watcher can
                    \* still read, blocks spliced (1) or none (0)
    \* --- what happened (history)
    recall,         \* what the recall did, {} until then
    inFlight,       \* stores under way at the last poll
    baseline,       \* how the polls ended
    disturbed,      \* whether others moved bytes since the last poll but one
    spliced         \* per tag: what its watcher did when blocks were spliced

serverVars  == <<underway, counters, others>>
pollVars    == <<polls, prev, inFlight, baseline, disturbed>>
caseVars    == <<cases, serverVars, pollVars, recall, outcome>>
probeVars   == <<watcher, request, unread, spliced>>
vars == <<server, cell, pc, caseVars, probeVars>>

Serving(n) == server[n] \in {"serving", "stopping"}
Exited(n)  == server[n] = "exited"
Answered   == \E n \in 1 .. MaxCells : Serving(n)     \* GET /health on the port
Zero       == [load |-> 0, store |-> 0]

\* A new case has polled nothing, and knows nothing.
FreshCase ==
    /\ polls' = 0 /\ prev' = Zero /\ inFlight' = 0 /\ baseline' = "none"
    /\ disturbed' = FALSE /\ recall' = {} /\ outcome' = None

\* A new server has counted and logged nothing.
FreshServer ==
    /\ underway' = 0 /\ counters' = Zero /\ others' = {} /\ cases' = 0
    /\ watcher' = [t \in Tags |-> "none"] /\ request' = [t \in Tags |-> "none"]
    /\ unread' = [t \in Tags |-> {}] /\ spliced' = [t \in Tags |-> {}]

Init ==
    /\ server = [n \in 1 .. MaxCells |-> "none"]
    /\ cell = 0 /\ pc = "idle" /\ cases = 0
    /\ underway = 0 /\ counters = Zero /\ others = {}
    /\ polls = 0 /\ prev = Zero /\ inFlight = 0 /\ baseline = "none"
    /\ disturbed = FALSE /\ recall = {} /\ outcome = None
    /\ watcher = [t \in Tags |-> "none"] /\ request = [t \in Tags |-> "none"]
    /\ unread = [t \in Tags |-> {}] /\ spliced = [t \in Tags |-> {}]

---------------------------------------------------------------------------
(* The server processes.                                                   *)

Becomes(n, state) ==
    /\ server' = [server EXCEPT ![n] = state]
    /\ UNCHANGED <<cell, pc, caseVars, probeVars>>

ServerReady(n) == server[n] = "starting" /\ Becomes(n, "serving")
\* By itself, by a crash, or because of a signal.
ServerExit(n)  == server[n] \in {"starting", "serving", "stopping"} /\ Becomes(n, "exited")
ServerDies(n)  == server[n] = "killed" /\ Becomes(n, "exited")

StoreCompletes ==
    /\ underway > 0 /\ Serving(cell)
    /\ underway' = underway - 1
    /\ counters' = [counters EXCEPT !.store = @ + 1]
    /\ UNCHANGED <<server, cell, pc, cases, others, pollVars, recall, outcome, probeVars>>

\* What a request moves: its loads are counted before it is answered, its
\* stores now or later.
Moves(loads, stores) ==
    /\ counters' = [counters EXCEPT !.load = @ + loads]
    /\ underway' = underway + stores

Room == underway < MaxStores /\ underway + counters.store + counters.load < MaxMoved

---------------------------------------------------------------------------
(* launch_server() and ServerHandle.shutdown().                            *)

LaunchServer ==
    /\ pc = "idle" /\ cell < MaxCells
    /\ cell' = cell + 1
    /\ server' = [server EXCEPT ![cell + 1] = "starting"]
    /\ pc' = "polling"
    /\ FreshServer /\ FreshCase

\* The loop until the deadline: an early exit raises, an answer ends it.
PollReady ==
    /\ pc = "polling"
    /\ pc' = IF Exited(cell) THEN "idle" ELSE "ready"
    /\ Exited(cell) \/ Answered
    /\ UNCHANGED <<server, cell, caseVars, probeVars>>

\* Faulty: the server is left behind when it is late.
LateServerStays == "idle"
LateServer == "shutdown"

\* The deadline: shut the server down, then raise TimeoutError.
ReadyTimeout ==
    /\ pc = "polling"
    /\ pc' = LateServer
    /\ UNCHANGED <<server, cell, caseVars, probeVars>>

\* shutdown(): nothing if the process has exited, else SIGTERM.
Shutdown ==
    /\ pc = "shutdown"
    /\ IF Exited(cell) THEN pc' = "idle" /\ UNCHANGED server
       ELSE pc' = "terminating" /\ server' = [server EXCEPT ![cell] =
                IF @ = "serving" THEN "stopping" ELSE @]
    /\ UNCHANGED <<cell, caseVars, probeVars>>

\* Faulty: SIGTERM only.
OutOfPatienceNot == server
OutOfPatience == [server EXCEPT ![cell] = "killed"]

\* Wait for the process to exit; SIGKILL when the deadline passes.
Terminated ==
    /\ pc = "terminating"
    /\ pc' = "idle"
    /\ server' = IF Exited(cell) THEN server ELSE OutOfPatience
    /\ UNCHANGED <<cell, caseVars, probeVars>>

---------------------------------------------------------------------------
(* The cells of run_latency_suite.py: cases on one server.                 *)

\* The next case, alone or as one of the needle stream of `mixed`.
NextCase ==
    /\ pc = "ready" /\ cases < MaxCases
    /\ cases' = cases + 1
    /\ others' \in {others, others \cup {"streams"}}
    /\ pc' = "case"
    /\ FreshCase
    /\ UNCHANGED <<server, cell, underway, counters, probeVars>>

\* Requests that are not the case's, at any time.
OtherTraffic == \E loads, stores \in {0, 1} :
    /\ others # {} /\ Serving(cell) /\ Room /\ loads + stores > 0
    /\ Moves(loads, stores)
    /\ disturbed' = (disturbed \/ pc \in {"settling", "recall", "measure"})
    /\ UNCHANGED <<server, cell, pc, cases, others, polls, prev, inFlight, baseline,
                   recall, outcome, probeVars>>

OthersEnd(who) ==
    /\ who \in others
    /\ others' = others \ {who}
    /\ UNCHANGED <<server, cell, pc, cases, underway, counters, pollVars, recall, outcome,
                   probeVars>>

\* A request to a server that is gone raises, and so does one that times out:
\* the server may still be at it.  The caller goes on to its next case; the
\* probe shuts its server down.
CaseFails ==
    /\ pc \in {"case", "settling", "recall", "measure", "probe"}
    /\ pc' = IF pc = "probe" THEN "shutdown" ELSE "ready"
    /\ others' \in {others} \cup IF pc \in {"case", "recall"} THEN {others \cup {"stray"}} ELSE {}
    /\ UNCHANGED <<server, cell, cases, underway, counters, pollVars, recall, outcome, probeVars>>

\* When all workloads are done, the streams of `mixed` among them, the
\* `finally` shuts the server down.
EndCell ==
    /\ pc = "ready" /\ "streams" \notin others
    /\ pc' = "shutdown"
    /\ UNCHANGED <<server, cell, caseVars, probeVars>>

---------------------------------------------------------------------------
(* run_needle_v2_case().                                                   *)

\* Needle, probes and distractors are sent one after another.
Distract == \E loads, stores \in {0, 1} :
    /\ pc = "case" /\ Serving(cell) /\ Room
    /\ Moves(loads, stores)
    /\ UNCHANGED <<server, cell, pc, cases, others, pollVars, recall, outcome, probeVars>>

BeginDrain ==
    /\ pc = "case" /\ Serving(cell)
    /\ prev' = counters /\ inFlight' = underway
    /\ pc' = IF MaxPolls = 0 THEN "recall" ELSE "settling"
    /\ baseline' = IF MaxPolls = 0 THEN "exhausted" ELSE "none"
    /\ UNCHANGED <<server, cell, cases, serverVars, polls, disturbed, recall, outcome, probeVars>>

\* Faulty: the counter of the loads is polled.
LoadsStandStill == counters.load = prev.load
StandsStill == counters.store = prev.store

Exhausted == polls + 1 = MaxPolls

\* (History.)  Between two polls no store completed, though some were under way.
Stalled == inFlight > 0 /\ counters.store = prev.store

\* One round of _drain_store_counter(): stop when the counter stands still, or
\* after max_settle_polls rounds.
DrainStoreCounter ==
    /\ pc = "settling" /\ Serving(cell)
    /\ polls' = polls + 1
    /\ prev' = counters /\ inFlight' = underway
    /\ IF StandsStill
       THEN baseline' = (IF Stalled THEN "stalled" ELSE "settled")
       ELSE baseline' = (IF Exhausted THEN "exhausted" ELSE "none")
    /\ pc' = IF baseline' = "none" THEN "settling" ELSE "recall"
    /\ disturbed' = (disturbed /\ pc' = "recall")
    /\ UNCHANGED <<server, cell, cases, serverVars, recall, outcome, probeVars>>

\* The recall loads what it finds in the CPU tier, and stores what is new.
Recall == \E loads, stores \in {0, 1} :
    /\ pc = "recall" /\ Serving(cell)
    /\ Moves(loads, stores)
    /\ recall' = (IF loads = 1 THEN {"loaded"} ELSE {}) \cup (IF stores = 1 THEN {"stored"} ELSE {})
    /\ pc' = "measure"
    /\ UNCHANGED <<server, cell, cases, others, pollVars, outcome, probeVars>>

\* classify_needle_outcome()
Classify(load, store) ==
    IF load > 0 THEN IF store > 0 THEN "partial" ELSE "hit"
    ELSE IF store > 0 THEN "miss" ELSE "not_pressured"

Measure ==
    /\ pc = "measure" /\ Serving(cell)
    /\ outcome' = Classify(counters.load - prev.load, counters.store - prev.store)
    /\ pc' = "ready"
    /\ UNCHANGED <<server, cell, cases, serverVars, pollVars, recall, probeVars>>

---------------------------------------------------------------------------
(* The adaptive splice probe, main() of run_adaptive_probe_live.py.        *)

\* The watchers are handed to threads; when these run is open.
BeginProbe ==
    /\ pc = "ready" /\ cases = 0
    /\ watcher' = [t \in Tags |-> "submitted"]
    /\ pc' = "probe"
    /\ UNCHANGED <<server, cell, caseVars, request, unread, spliced>>

\* A watcher starts at the end of the log.
OpenLog(t) ==
    /\ pc = "probe" /\ watcher[t] = "submitted"
    /\ watcher' = [watcher EXCEPT ![t] = "watching"]
    /\ UNCHANGED <<server, cell, pc, caseVars, request, unread, spliced>>

\* The tagged requests go to threads as well: no watcher need have opened the
\* log by then.
PostTagged(t) ==
    /\ pc = "probe" /\ request[t] = "none"
    /\ request' = [request EXCEPT ![t] = IF Serving(cell) THEN "running" ELSE "done"]
    /\ UNCHANGED <<server, cell, pc, caseVars, watcher, unread, spliced>>

\* The server resumes the request after a preemption: it splices some of the
\* prefetched blocks, or none, and says so in its log.
LogSplice(t, n) ==
    /\ request[t] = "running" /\ Serving(cell)
    /\ spliced' = [spliced EXCEPT ![t] = @ \cup IF n = 0 THEN {} ELSE {watcher[t]}]
    /\ unread' = [unread EXCEPT ![t] = @ \cup IF watcher[t] = "watching" THEN {n} ELSE {}]
    /\ UNCHANGED <<server, cell, pc, caseVars, watcher, request>>

\* Answered, timed out or failed.
RequestDone(t) ==
    /\ request[t] = "running"
    /\ request' = [request EXCEPT ![t] = "done"]
    /\ UNCHANGED <<server, cell, pc, caseVars, watcher, unread, spliced>>

\* Faulty: a line that tells of no block ends the watch.
FirstLineEnds(n) == IF n >= 1 THEN "seen" ELSE "left"
\* What a watcher does after a line about its request.
AfterLine(n) == IF n >= 1 THEN "seen" ELSE "watching"

ReadLine(t) == \E n \in unread[t] :
    /\ pc = "probe" /\ watcher[t] = "watching"
    /\ unread' = [unread EXCEPT ![t] = @ \ {n}]
    /\ watcher' = [watcher EXCEPT ![t] = AfterLine(n)]
    /\ UNCHANGED <<server, cell, pc, caseVars, request, spliced>>

\* The deadline, looked at before a line is read: some may be left unread.
WatchTimeout(t) ==
    /\ pc = "probe" /\ watcher[t] = "watching"
    /\ watcher' = [watcher EXCEPT ![t] = "timeout"]
    /\ UNCHANGED <<server, cell, pc, caseVars, request, unread, spliced>>

WatchersDone == \A t \in Tags : watcher[t] \notin {"submitted", "watching"}

\* as_completed() over all watchers, then the posted requests; the recall of
\* the first tag that came out ends the probe.
EndProbe ==
    /\ pc = "probe" /\ WatchersDone
    /\ \A t \in Tags : request[t] = "done"
    /\ LET hits == {t \in Tags : watcher[t] = "seen"}
       IN  outcome' \in IF hits = {} THEN {"no splice"} ELSE hits
    /\ pc' = "shutdown"
    /\ UNCHANGED <<server, cell, cases, serverVars, pollVars, recall, probeVars>>

---------------------------------------------------------------------------
Driver ==
    \/ LaunchServer \/ PollReady \/ ReadyTimeout
    \/ Shutdown \/ Terminated
    \/ NextCase \/ CaseFails \/ EndCell
    \/ BeginDrain \/ DrainStoreCounter \/ Recall \/ Measure
    \/ BeginProbe \/ EndProbe
Watch(t) == OpenLog(t) \/ ReadLine(t) \/ WatchTimeout(t)

Next ==
    \/ Driver
    \/ Distract \/ OtherTraffic \/ OthersEnd("streams") \/ OthersEnd("stray")
    \/ \E t \in Tags :
          \/ PostTagged(t) \/ LogSplice(t, 0) \/ LogSplice(t, 1) \/ RequestDone(t)
          \/ Watch(t)
    \/ \E n \in 1 .. MaxCells : ServerReady(n) \/ ServerExit(n) \/ ServerDies(n)
    \/ StoreCompletes

Spec == Init /\ [][Next]_vars

\* The driver is sequential code with deadlines and request timeouts, and nobody
\* interrupts it; the streams of `mixed` are subprocesses with a timeout; what a
\* SIGKILL hits ends; a server need not obey a SIGTERM.
FairSpec ==
    /\ Spec
    /\ WF_vars(Driver) /\ WF_vars(OthersEnd("streams"))
    /\ \A t \in Tags : WF_vars(Watch(t)) /\ WF_vars(PostTagged(t)) /\ WF_vars(RequestDone(t))
    /\ \A n \in 1 .. MaxCells : WF_vars(ServerDies(n))

---------------------------------------------------------------------------
\* No server but the driver's own ever answers on the port, so that a case
\* never measures the server of an earlier cell, unless the driver is
\* interrupted (server.py:48-65, 119-135).
OnlyOwnServer ==
    \A n \in 1 .. MaxCells : Serving(n) => n = cell /\ pc # "idle"

\* A load of the recall is never overlooked.  If only the case itself moved
\* bytes since the last poll but one, whatever ran on the server before, then
\* no other load is taken for the recall's; and no other store is, once the
\* polls have settled (needle_workload.py:310-401).  Excepted is a counter that
\* stood still only because every store under way stalled between two polls: the
\* docstring promises that case too (366-371), but the code cannot tell it.
VerdictAttributed ==
    outcome \in {"hit", "miss", "partial", "not_pressured"} =>
        /\ "loaded" \in recall => outcome \in {"hit", "partial"}
        /\ ~disturbed /\ outcome \in {"hit", "partial"} => "loaded" \in recall
        /\ ~disturbed /\ baseline = "settled" /\ outcome \in {"miss", "partial"} =>
              "stored" \in recall

\* The probe names a tag only if that request was spliced while its watcher
\* read the log.  It says that none was only if none was, but for splices
\* before a watcher had opened the log or after its deadline, and for lines
\* that the deadline left unread (adaptive_splice_probe.py:40-61).
SpliceReported ==
    /\ outcome \in Tags => "watching" \in spliced[outcome]
    /\ outcome = "no splice" => \A t \in Tags :
          spliced[t] \ {"submitted", "timeout"} # {} => 1 \in unread[t]

\* A server ends whatever becomes of its launch and of its cases, as long as
\* nobody interrupts the driver (server.py:92-95, 137).
ServersEnd ==
    \A n \in 1 .. MaxCells : server[n] # "none" ~> Exited(n)
=================================================================================
