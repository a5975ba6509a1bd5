------------------------------- MODULE Fleet --------------------------------
(***************************************************************************)
(* The planner (`plan`, `Planner`), the HF Jobs it starts, and the two     *)
(* paths that stop them.  The planner lists the source once, cuts it into  *)
(* contiguous key ranges, starts one copier Job per range under a cap,     *)
(* polls the Jobs, restarts the ones that ended ERROR, checks the          *)
(* destination and exits.  A signal, an error or a crash ends it at any    *)
(* await; copiers watch the planner's own Job and cancel themselves.       *)
(*                                                                         *)
(* Keys are numbered in listing order.  The cur_* counters of the planner  *)
(* are those of CurKeys, the kept keys listed since the last cut.  A poll  *)
(* is one step: a Job changes stage once, so an answer that is late looks  *)
(* like a poll that missed the Job.                                        *)
(***************************************************************************)
EXTENDS Integers, FiniteSets, FiniteSetsExt

CONSTANTS
  NumKeys,        \* keys the listing returns
  Kept,           \* the ones filter_key keeps
  KeySize,        \* their sizes
  LimitBytes,     \* --limit-gib, 0 = no limit
  RangeBytes,     \* --range-gib, 0 = no byte limit
  RangeKeys,      \* --range-keys, 0 = no key limit
  MaxInflight,    \* --max-inflight
  COMMIT_HEAVY_AVG_FILE_BYTES,
  MAX_INFLIGHT_SMALL_FILE_COPIERS,  \* 2 in the code
  MAX_ATTEMPTS,   \* requests run_job may make (6 in the code)
  Verify,         \* --no-verify is absent
  Linked,         \* the planner runs as a Job of the copiers' namespace
  MaxJobs         \* bound: Jobs created in one behaviour

Keys   == 1..NumKeys
Ranges == 1..NumKeys
Jobs   == 1..MaxJobs

ASSUME ConstantsOK ==
  /\ NumKeys \in Nat /\ Kept \subseteq Keys /\ KeySize \in [Keys -> Nat]
  /\ LimitBytes \in Nat /\ RangeBytes \in Nat /\ RangeKeys \in Nat
  /\ MaxInflight \in Nat /\ COMMIT_HEAVY_AVG_FILE_BYTES \in Nat
  /\ MAX_INFLIGHT_SMALL_FILE_COPIERS \in Nat \ {0}
  /\ MAX_ATTEMPTS \in Nat \ {0} /\ MaxJobs \in Nat
  /\ Verify \in BOOLEAN /\ Linked \in BOOLEAN

MAX_COPIER_ATTEMPTS == 3

Ended  == {"COMPLETED", "ERROR", "CANCELED", "DELETED"}
Stages == Ended \cup {"RUNNING"}
is_terminal(stage) == stage \in Ended

BadIsRetryable(stage)       == stage \in {"ERROR", "CANCELED"}
is_retryable_failure(stage) == stage = "ERROR"

NoJob == 0

VARIABLES
  pc,        \* the planner: "list", "wait" for a slot, "post" a Job, "poll" the
             \* fleet, "respawn", "verify", "cancel" the fleet, "exit"
  listed,    \* keys listed so far
  closing,   \* the listing is over
  curStart,  \* cur_start_after
  stopAt,    \* upper bound of the range being cut
  n,         \* copiers.len()
  copiers,   \* the Copier of each range
  target,    \* the range whose Job is being posted
  todo,      \* ranges left to respawn in this cycle
  tries,     \* requests the current run_job has made
  rpc,       \* the POST: "idle", "sent", "made" (Job created) or "refused"
  made,      \* Jobs created so far
  jobs,      \* what HF Jobs knows of each Job
  lost,      \* Jobs whose creation the planner was never told of
  canceling, \* cancel requests in flight
  signal,    \* a stop signal reached the planner
  planner,   \* stage of the planner's own Job
  outcome,   \* what the planner's run returned
  dest       \* keys the destination holds

listVars == <<listed, closing, curStart, stopAt>>
fleet    == <<n, copiers>>
hub      == <<made, jobs, lost, dest>>
vars == <<pc, listed, closing, curStart, stopAt, n, copiers, target, todo, tries, rpc,
          made, jobs, lost, canceling, signal, planner, outcome, dest>>

-----------------------------------------------------------------------------
(* Operators named Bad... are faulty variants of the definition after them, *)
(* used only to see that a property notices the fault.                     *)

Bytes(K) == MapThenSumSet(LAMBDA k : KeySize[k], K)

\* Keys of the range (start, stop].
Window(start, stop) == {k \in Kept : start < k /\ k <= stop}

CurKeys == Window(curStart, listed)

AtLeastOne(x) == IF x = 0 THEN 1 ELSE x

\* add(): the current range is full once it also holds K.
RangeFull(K) == \/ RangeBytes > 0 /\ Bytes(K) >= RangeBytes
                \/ RangeKeys > 0 /\ Cardinality(K) >= RangeKeys

\* cut(): the range's copier counts against the commit budget.
CommitHeavy(K) == Bytes(K) \div AtLeastOne(Cardinality(K)) <= COMMIT_HEAVY_AVG_FILE_BYTES

LimitReached == LimitBytes > 0 /\ Bytes(Window(0, listed)) >= LimitBytes

\* active(), active_commit_heavy(), as the planner knows them.
Active(c)           == {i \in 1..n : ~is_terminal(c[i].stage)}
ActiveCommitHeavy   == {i \in Active(copiers) : copiers[i].heavy}

cap == AtLeastOne(MaxInflight)

BadBlocked ==                           \* one too many
  \/ Cardinality(Active(copiers)) > cap
  \/ CommitHeavy(CurKeys) /\ Cardinality(ActiveCommitHeavy) > MAX_INFLIGHT_SMALL_FILE_COPIERS
Blocked ==
  \/ Cardinality(Active(copiers)) >= cap
  \/ CommitHeavy(CurKeys) /\ Cardinality(ActiveCommitHeavy) >= MAX_INFLIGHT_SMALL_FILE_COPIERS

\* respawn_failed(): failed copiers with attempts left.
Respawnable(c) == {i \in 1..n : /\ is_retryable_failure(c[i].stage)
                                /\ c[i].attempts < MAX_COPIER_ATTEMPTS}

\* monitor()'s verdict on the fleet.
Failed   == {i \in 1..n : /\ is_retryable_failure(copiers[i].stage)
                          /\ copiers[i].attempts >= MAX_COPIER_ATTEMPTS}
BadCanceled == {}                       \* not counted
Canceled == {i \in 1..n : copiers[i].stage = "CANCELED"}

Planned == UNION {Window(copiers[i].start, copiers[i].stop) : i \in 1..n}

Running == {j \in 1..made : jobs[j].stage = "RUNNING"}

NewCopier == [start |-> 0, stop |-> 0, heavy |-> FALSE,
              attempts |-> 0, job |-> NoJob, stage |-> "RUNNING"]
NewJob    == [range |-> 0, start |-> 0, stop |-> 0, stage |-> "RUNNING"]

Init ==
  /\ pc = "list" /\ listed = 0 /\ closing = FALSE /\ curStart = 0 /\ stopAt = 0
  /\ n = 0 /\ copiers = [i \in Ranges |-> NewCopier]
  /\ target = 0 /\ todo = {} /\ tries = 0 /\ rpc = "idle"
  /\ made = 0 /\ jobs = [j \in Jobs |-> NewJob] /\ lost = {}
  /\ canceling = {} /\ signal = FALSE /\ planner = "RUNNING" /\ outcome = "none"
  /\ dest = {}

-----------------------------------------------------------------------------
(* The end of the planner's run.  select! drops the run on a signal; an    *)
(* error leaves it through `?`.  Either way cancel_active follows, and a   *)
(* POST in flight is dropped: a Job it makes is one the planner never      *)
(* hears of.                                                               *)

DropRequest ==
  /\ rpc' = IF rpc = "sent" THEN "sent" ELSE "idle"
  /\ lost' = IF rpc = "made" THEN lost \cup {made} ELSE lost

ToCancel    == {copiers[i].job : i \in Active(copiers)}

CancelActive ==
  /\ pc' = "cancel" /\ canceling' = ToCancel /\ outcome' = "err"
  /\ DropRequest

\* SIGTERM (Job canceled or timed out) or SIGINT, at any await of the run.
Signal ==
  /\ pc \notin {"cancel", "exit"}
  /\ signal' = TRUE
  /\ CancelActive
  /\ UNCHANGED <<listVars, fleet, target, todo, tries, made, jobs, planner, dest>>

\* The run fails: leaves everything but the fleet's Jobs to cancel_active.
Fail == /\ CancelActive
        /\ UNCHANGED <<listVars, fleet, target, todo, tries, made, jobs, signal, planner, dest>>

\* A cancel request lands on a Job, or fails.
CancelLands(j) ==
  /\ pc = "cancel" /\ j \in canceling
  /\ canceling' = canceling \ {j}
  /\ jobs' = [jobs EXCEPT ![j].stage = IF @ = "RUNNING" THEN "CANCELED" ELSE @]
  /\ UNCHANGED <<pc, listVars, fleet, target, todo, tries, rpc, made, lost, signal, planner,
                 outcome, dest>>

CancelMisses(j) ==
  /\ pc = "cancel" /\ j \in canceling
  /\ canceling' = canceling \ {j}
  /\ UNCHANGED <<pc, listVars, fleet, target, todo, tries, rpc, hub, signal, planner, outcome>>

Exit ==
  /\ pc = "cancel" /\ canceling = {}
  /\ pc' = "exit"
  /\ UNCHANGED <<listVars, fleet, target, todo, tries, rpc, hub, canceling, signal, planner,
                 outcome>>

\* The process dies: a crash, out of memory, or the kill ~2 s after SIGTERM.
Die ==
  /\ pc # "exit"
  /\ pc' = "exit" /\ outcome' = "err" /\ canceling' = {}
  /\ DropRequest
  /\ UNCHANGED <<listVars, fleet, target, todo, tries, made, jobs, signal, planner, dest>>

-----------------------------------------------------------------------------
(* Listing and cutting.                                                    *)

\* cut(stop): wait for a slot, then post the range's copier.
Cut(stop) == pc' = "wait" /\ stopAt' = stop

ListKey ==
  /\ pc = "list" /\ listed < NumKeys
  /\ listed + 1 \in Kept => ~LimitReached
  /\ listed' = listed + 1
  /\ IF listed + 1 \in Kept /\ RangeFull(CurKeys \cup {listed + 1})
     THEN Cut(listed + 1)
     ELSE UNCHANGED <<pc, stopAt>>
  /\ UNCHANGED <<closing, curStart, fleet, target, todo, tries, rpc, hub, canceling, signal,
                 planner, outcome>>

\* The last page, or the byte limit: close the final, partial range.
BadRestKeys == {}                       \* a range is cut only when full
RestKeys    == CurKeys
ListEnd ==
  /\ pc = "list"
  /\ \/ listed = NumKeys
     \/ listed < NumKeys /\ listed + 1 \in Kept /\ LimitReached
  /\ closing' = TRUE
  /\ IF RestKeys # {} THEN Cut(Max(RestKeys)) ELSE pc' = "poll" /\ UNCHANGED stopAt
  /\ UNCHANGED <<listed, curStart, fleet, target, todo, tries, rpc, hub, canceling, signal,
                 planner, outcome>>

\* A list page fails after its retries.
ListFail == pc = "list" /\ Fail

-----------------------------------------------------------------------------
(* Polling, and the slot of the next copier.                               *)

\* refresh(): every copier not known to have ended gets its Job's stage,
\* except the ones a failed poll or an answer without a status leaves out.
BadRefresh(S) ==                        \* a Job the poll missed is taken for failed
  copiers' = [i \in Ranges |->
                [copiers[i] EXCEPT !.stage = IF i \in S THEN jobs[copiers[i].job].stage
                                             ELSE IF i \in Active(copiers) THEN "ERROR"
                                             ELSE @]]
Refresh(S) ==
  copiers' = [i \in Ranges |->
                IF i \in S THEN [copiers[i] EXCEPT !.stage = jobs[copiers[i].job].stage]
                ELSE copiers[i]]

SlotPoll(S) ==
  /\ pc = "wait" /\ Blocked
  /\ Refresh(S)
  /\ UNCHANGED <<pc, listVars, n, target, todo, tries, rpc, hub, canceling, signal, planner,
                 outcome>>

SlotFree ==
  /\ pc = "wait" /\ ~Blocked
  /\ pc' = "post" /\ target' = n + 1 /\ tries' = 0
  /\ UNCHANGED <<listVars, fleet, todo, rpc, hub, canceling, signal, planner, outcome>>

-----------------------------------------------------------------------------
(* run_job().                                                              *)

Post ==
  /\ pc = "post" /\ rpc = "idle"
  /\ rpc' = "sent"
  /\ UNCHANGED <<pc, listVars, fleet, target, todo, tries, hub, canceling, signal, planner,
                 outcome>>

\* build_copier_spec: the window of the range goes into the Job's argv.
Spec_of(i) ==
  IF i = n + 1 THEN [range |-> i, start |-> curStart, stop |-> stopAt, stage |-> "RUNNING"]
  ELSE [range |-> i, start |-> copiers[i].start, stop |-> copiers[i].stop, stage |-> "RUNNING"]

\* HF Jobs creates the Job, even for a request whose sender has gone.
Create ==
  /\ rpc = "sent" /\ made < MaxJobs
  /\ made' = made + 1
  /\ jobs' = [jobs EXCEPT ![made + 1] = Spec_of(target)]
  /\ rpc' = IF pc = "post" THEN "made" ELSE "idle"
  /\ lost' = IF pc = "post" THEN lost ELSE lost \cup {made + 1}
  /\ UNCHANGED <<pc, listVars, fleet, target, todo, tries, canceling, signal, planner, outcome,
                 dest>>

Refuse ==
  /\ rpc = "sent"
  /\ rpc' = IF pc = "post" THEN "refused" ELSE "idle"
  /\ UNCHANGED <<pc, listVars, fleet, target, todo, tries, hub, canceling, signal, planner,
                 outcome>>

\* 429, 5xx or no connection: sent again while requests are left.  A 5xx may
\* hide a Job that was created.
Retry ==
  /\ pc = "post" /\ rpc \in {"made", "refused"}
  /\ tries + 1 < MAX_ATTEMPTS
  /\ tries' = tries + 1 /\ rpc' = "idle"
  /\ lost' = IF rpc = "made" THEN lost \cup {made} ELSE lost
  /\ UNCHANGED <<pc, listVars, fleet, target, todo, made, jobs, canceling, signal, planner,
                 outcome, dest>>

\* A final error status, an unreadable answer, or an answer that never came.
PostFail == pc = "post" /\ rpc # "idle" /\ Fail

\* The answer names the Job: cut() records a new copier, respawn_failed() the
\* new Job of an old one (whose attempt it counted before the POST).
Started ==
  IF target = n + 1
  THEN [start |-> curStart, stop |-> stopAt, heavy |-> CommitHeavy(CurKeys),
        attempts |-> 1, job |-> made, stage |-> "RUNNING"]
  ELSE [copiers[target] EXCEPT !.job = made, !.stage = "RUNNING"]

NextStart    == IF target = n + 1 THEN stopAt ELSE curStart

Ack ==
  /\ pc = "post" /\ rpc = "made"
  /\ rpc' = "idle"
  /\ copiers' = [copiers EXCEPT ![target] = Started]
  /\ curStart' = NextStart
  /\ IF target = n + 1
     THEN n' = n + 1 /\ pc' = (IF closing THEN "poll" ELSE "list") /\ UNCHANGED todo
     ELSE todo' = todo \ {target} /\ pc' = "respawn" /\ UNCHANGED n
  /\ UNCHANGED <<listed, closing, stopAt, target, tries, hub, canceling, signal, planner,
                 outcome>>

-----------------------------------------------------------------------------
(* monitor().                                                              *)

MonitorPoll(S) ==
  /\ pc = "poll"
  /\ Refresh(S)
  /\ todo' = Respawnable(copiers')
  /\ pc' = "respawn"
  /\ UNCHANGED <<listVars, n, target, tries, rpc, hub, canceling, signal, planner, outcome>>

Respawn ==
  /\ pc = "respawn" /\ todo # {}
  /\ LET i == Min(todo)
     IN  /\ target' = i
         /\ copiers' = [copiers EXCEPT ![i].attempts = @ + 1]
  /\ pc' = "post" /\ tries' = 0
  /\ UNCHANGED <<listVars, n, todo, rpc, hub, canceling, signal, planner, outcome>>

BadPending == Active(copiers) \cup {i \in 1..n : is_retryable_failure(copiers[i].stage)}
Pending == Active(copiers) \cup Respawnable(copiers)

MonitorAgain ==
  /\ pc = "respawn" /\ todo = {} /\ Pending # {}
  /\ pc' = "poll"
  /\ UNCHANGED <<listVars, fleet, target, todo, tries, rpc, hub, canceling, signal, planner,
                 outcome>>

MonitorFail ==
  /\ pc = "respawn" /\ todo = {} /\ Pending = {}
  /\ Failed \cup Canceled # {}
  /\ Fail

MonitorEnd ==
  /\ pc = "respawn" /\ todo = {} /\ Pending = {}
  /\ Failed \cup Canceled = {}
  /\ IF Verify THEN pc' = "verify" /\ UNCHANGED outcome ELSE pc' = "exit" /\ outcome' = "ok"
  /\ UNCHANGED <<listVars, fleet, target, todo, tries, rpc, hub, canceling, signal, planner>>

\* verify_destination: nothing planned is missing; the check itself may fail.
VerifyOk ==
  /\ pc = "verify" /\ Planned \subseteq dest
  /\ pc' = "exit" /\ outcome' = "ok"
  /\ UNCHANGED <<listVars, fleet, target, todo, tries, rpc, hub, canceling, signal, planner>>

VerifyFail == pc = "verify" /\ Fail

-----------------------------------------------------------------------------
(* HF Jobs and the copiers.                                                *)

\* A running Job ends; the keys it copied stay.
JobEnds(j, stage, K) ==
  /\ j \in Running
  /\ jobs' = [jobs EXCEPT ![j].stage = stage]
  /\ dest' = dest \cup K
  /\ UNCHANGED <<pc, listVars, fleet, target, todo, tries, rpc, made, lost, canceling, signal,
                 planner, outcome>>

\* The copy of the whole range succeeded (the promise of RangeCopy).
Complete(j) == JobEnds(j, "COMPLETED", Window(jobs[j].start, jobs[j].stop))

\* A crash, a failed copy or the Job's timeout; someone cancels or deletes it.
Break(j) == \E K \in SUBSET Window(jobs[j].start, jobs[j].stop) :
            \E stage \in {"ERROR", "CANCELED", "DELETED"} : JobEnds(j, stage, K)

\* watch_planner sees the planner's Job ended; cancel_self cancels the copier's
\* own Job, or fails and the copier exits with an error.
BadPlannerEnded == planner \in {"ERROR", "CANCELED"}  \* not when it completed
PlannerEnded    == is_terminal(planner)
WatchStops(j) ==
  /\ Linked /\ PlannerEnded
  /\ \E stage \in {"CANCELED", "ERROR"} : JobEnds(j, stage, {})

\* HF Jobs ends the planner's Job: its process has exited, or it was canceled
\* or timed out and is about to be killed.
PlannerJobEnds ==
  /\ planner = "RUNNING" /\ (pc = "exit" \/ signal)
  /\ planner' \in IF signal THEN {"CANCELED", "ERROR"}
                  ELSE IF outcome = "ok" THEN {"COMPLETED"} ELSE {"ERROR"}
  /\ UNCHANGED <<pc, listVars, fleet, target, todo, tries, rpc, hub, canceling, signal, outcome>>

Over == /\ pc = "exit" /\ planner # "RUNNING" /\ rpc # "sent" /\ Running = {}
        /\ UNCHANGED vars

-----------------------------------------------------------------------------

Poll(S) == SlotPoll(S) \/ MonitorPoll(S)

Plan == \/ ListKey \/ ListEnd \/ ListFail \/ SlotFree
        \/ \E S \in SUBSET Active(copiers) : Poll(S)
        \/ Post \/ Retry \/ PostFail \/ Ack
        \/ Respawn \/ MonitorAgain \/ MonitorFail \/ MonitorEnd \/ VerifyOk \/ VerifyFail
        \/ Exit \/ \E j \in canceling : CancelLands(j) \/ CancelMisses(j)

Next == \/ Plan \/ Signal \/ Die
        \/ Create \/ Refuse \/ PlannerJobEnds
        \/ \E j \in Running : Complete(j) \/ Break(j) \/ WatchStops(j)
        \/ Over

Spec == Init /\ [][Next]_vars

\* The planner's own steps keep coming; polls fail for a while but not for
\* ever; HF Jobs answers, ends every Job (each has a timeout) and the
\* planner's Job; a copier polls its planner until it ends.
FairSpec ==
  /\ Spec
  /\ WF_vars(Plan)
  /\ SF_vars(Poll(Active(copiers)))
  /\ WF_vars(Create \/ Refuse)
  /\ WF_vars(PlannerJobEnds)
  /\ \A j \in Jobs : WF_vars(Complete(j) \/ Break(j))

\* Only the stop machinery is fair: copiers may run for ever on their own.
StopSpec ==
  /\ Spec
  /\ WF_vars(PlannerJobEnds)
  /\ \A j \in Jobs : WF_vars(WatchStops(j))

-----------------------------------------------------------------------------
(* Properties.                                                             *)

\* What the planner keeps of a copier, and HF Jobs of a Job.
CopierRecords == [start : 0..NumKeys, stop : 0..NumKeys, heavy : BOOLEAN,
                  attempts : 0..MAX_COPIER_ATTEMPTS, job : 0..MaxJobs, stage : Stages]
JobRecords    == [range : 0..NumKeys, start : 0..NumKeys, stop : 0..NumKeys, stage : Stages]

\* Every variable keeps its type; a range is never attempted more than
\* MAX_COPIER_ATTEMPTS times.
TypeOK ==
  /\ pc \in {"list", "wait", "post", "poll", "respawn", "verify", "cancel", "exit"}
  /\ listed \in 0..NumKeys /\ closing \in BOOLEAN
  /\ curStart \in 0..NumKeys /\ stopAt \in 0..NumKeys
  /\ n \in 0..NumKeys
  /\ copiers \in [Ranges -> CopierRecords]
  /\ target \in 0..NumKeys /\ todo \in SUBSET Ranges
  /\ tries \in 0..MAX_ATTEMPTS - 1
  /\ rpc \in {"idle", "sent", "made", "refused"}
  /\ made \in 0..MaxJobs
  /\ jobs \in [Jobs -> JobRecords]
  /\ lost \in SUBSET Jobs /\ canceling \in SUBSET Jobs
  /\ signal \in BOOLEAN /\ planner \in Stages /\ outcome \in {"none", "ok", "err"}
  /\ dest \in SUBSET Keys

\* The ranges are contiguous, none is empty, and once the listing is over they
\* hold every kept key up to where it stopped: cut() and the final partial cut
\* drop and duplicate nothing.
RangesTile ==
  /\ \A i \in 1..n : /\ copiers[i].start = (IF i = 1 THEN 0 ELSE copiers[i - 1].stop)
                     /\ Window(copiers[i].start, copiers[i].stop) # {}
  /\ pc \in {"poll", "respawn", "verify"} \/ outcome = "ok" => Planned = Window(0, listed)

\* Two Jobs never copy the same range at once, unless the creation of one of
\* them was hidden from the planner (a 5xx, a lost answer, a stop).
OneCopierPerRange ==
  \A j, k \in Running :
    j # k /\ jobs[j].range = jobs[k].range => {j, k} \cap lost # {}

\* Until the first respawn, the planner keeps the Jobs it knows within
\* max_inflight, and the commit-heavy ones within the destination's commit budget,
\* although it counts with stages that may be long out of date.
ListingWithinCap ==
  LET known == {i \in 1..n : copiers[i].job \in Running}
  IN  (\A i \in 1..n : copiers[i].attempts = 1)
        => /\ Cardinality(known) <= cap
           /\ Cardinality({i \in known : copiers[i].heavy}) <= MAX_INFLIGHT_SMALL_FILE_COPIERS

\* The planner returns Ok only when every kept key up to the limit is at the
\* destination and no range was canceled; without the destination check, a Job
\* deleted under it is the one thing it overlooks.
OkMeansCopied ==
  outcome = "ok" =>
    /\ \A i \in 1..n : jobs[copiers[i].job].stage \notin {"CANCELED", "ERROR", "RUNNING"}
    /\ \/ Window(0, listed) \subseteq dest
       \/ ~Verify /\ \E i \in 1..n : copiers[i].stage = "DELETED"

\* A copier that a person canceled stays canceled: the planner never posts
\* another Job for its range.
CanceledStaysCanceled ==
  [][\A i \in 1..n : copiers[i].job # NoJob /\ jobs[copiers[i].job].stage = "CANCELED"
       => copiers'[i].job = copiers[i].job]_vars

\* A copier never outlives its planner for good: whatever ended the planner
\* (success, failure, signal, crash), also a Job created after that.
NoneOutlivesPlanner == Linked => [](pc = "exit" => <>[](Running = {}))

\* The planner always ends.
PlannerEnds == <>(pc = "exit")

\* "Cap on concurrently-active (spawned, non-terminal) copiers" (PlanConfig).
WithinCap == Cardinality(Active(copiers)) <= cap
=============================================================================
