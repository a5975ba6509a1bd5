----------------------------- MODULE Fleet_proofs ----------------------------
(***************************************************************************)
(* The planner and its fleet for every listing, every filter, every number *)
(* of Jobs and every setting: the ranges tile the listing, one Job copies  *)
(* a range, Ok means copied, the listing stays within its caps and what a  *)
(* person canceled stays canceled.                                         *)
(***************************************************************************)
EXTENDS Fleet, FiniteSetTheorems, WellFoundedInduction, TLAPS

\* The Job of a copier is one that was made for its range, with the range's
\* bounds; a copier the planner takes for ended has ended that way.
CopierInv(i) ==
  /\ copiers[i].job \in 1..made
  /\ jobs[copiers[i].job].range = i
  /\ jobs[copiers[i].job].start = copiers[i].start
  /\ jobs[copiers[i].job].stop = copiers[i].stop
  /\ is_terminal(copiers[i].stage) => jobs[copiers[i].job].stage = copiers[i].stage
  /\ copiers[i].attempts >= 1

\* The ranges cut so far follow each other from 0 to cur_start_after.
TileInv ==
  /\ \A i \in 1..n : /\ copiers[i].start = (IF i = 1 THEN 0 ELSE copiers[i - 1].stop)
                     /\ copiers[i].start < copiers[i].stop
                     /\ Window(copiers[i].start, copiers[i].stop) # {}
  /\ curStart = (IF n = 0 THEN 0 ELSE copiers[n].stop)
  /\ n <= curStart /\ curStart <= listed
  /\ Planned = Window(0, curStart)

\* A new range is being cut; the copier of an old one is being restarted.
Cutting    == pc = "wait" \/ (pc = "post" /\ target = n + 1)
Restarting == pc = "post" /\ target # n + 1

\* The range being cut takes every key listed since the last cut, and nothing is
\* left to cut once the fleet is monitored.
CutInv ==
  /\ Cutting => /\ curStart < stopAt /\ stopAt <= listed
                /\ Window(curStart, stopAt) # {} /\ Window(stopAt, listed) = {}
  /\ pc \in {"poll", "respawn", "verify"} \/ Restarting \/ outcome = "ok"
       => Window(curStart, listed) = {}

\* Where a POST can be in flight, and for which range.
PostInv ==
  /\ rpc \in {"made", "refused"} => pc = "post"
  /\ rpc = "sent" => pc \in {"post", "cancel", "exit"}
  /\ rpc # "idle" \/ pc = "post" => target \in 1..n + 1
  /\ rpc = "made" => /\ made >= 1 /\ jobs[made].range = target
                     /\ jobs[made].start = Spec_of(target).start
                     /\ jobs[made].stop = Spec_of(target).stop
  /\ outcome = "ok" => pc = "exit"

\* The ranges left to respawn failed and have attempts left; the one being
\* restarted failed too, and its attempt is counted.
TodoInv ==
  /\ \A i \in todo : i \in 1..n /\ copiers[i].stage = "ERROR"
  /\ pc = "respawn" => \A i \in todo : copiers[i].attempts < MAX_COPIER_ATTEMPTS
  /\ Restarting => /\ target \in todo /\ copiers[target].attempts >= 2
                   /\ \A i \in todo \ {target} : copiers[i].attempts < MAX_COPIER_ATTEMPTS

\* Every Job that still runs is the Job of its range's copier, or the one whose
\* creation the planner is about to hear of, or one it was never told of.
JobsInv ==
  \A j \in 1..made :
    /\ jobs[j].stage = "COMPLETED" => Window(jobs[j].start, jobs[j].stop) \subseteq dest
    /\ \/ j \in lost
       \/ jobs[j].stage # "RUNNING"
       \/ jobs[j].range \in 1..n /\ copiers[jobs[j].range].job = j
       \/ rpc = "made" /\ j = made /\ jobs[j].range = target

\* The fleet ended well before the planner checks the destination, and stays so.
OkInv ==
  /\ pc = "verify" \/ outcome = "ok"
       => \A i \in 1..n : copiers[i].stage \in {"COMPLETED", "DELETED"}
  /\ outcome = "ok" /\ Verify => Window(0, listed) \subseteq dest

\* The inductive invariant.
FleetInv == /\ TypeOK /\ canceling \subseteq 1..made
            /\ \A i \in 1..n : CopierInv(i)
            /\ TileInv /\ CutInv /\ PostInv /\ TodoInv /\ JobsInv /\ OkInv

\* While no copier was restarted, the ones the planner takes for active are within
\* the caps, and there is room for the one it is posting.
FirstAttempts == \A i \in 1..n : copiers[i].attempts = 1
CapInv ==
  FirstAttempts =>
    /\ Cardinality(Active(copiers)) <= cap
    /\ Cardinality(ActiveCommitHeavy) <= MAX_INFLIGHT_SMALL_FILE_COPIERS
    /\ pc = "post" /\ target = n + 1 => ~Blocked

-----------------------------------------------------------------------------
(* Sets of numbers.                                                        *)

\* A set of natural numbers that is not empty has a least element.
LEMMA SmallestExists ==
  ASSUME NEW S, S \subseteq Nat, S # {}
  PROVE  \E x \in S : \A y \in S : x <= y
<1>1. PICK x \in S : \A y \in S : ~(<<y, x>> \in OpToRel(<, Nat))
  BY WFMin, NatLessThanWellFounded
<1>2. \A y \in S : ~(y < x)
  <2> TAKE y \in S
  <2>1. y < x => <<y, x>> \in OpToRel(<, Nat)
    BY DEF OpToRel
  <2> QED BY <1>1, <2>1
<1> QED BY <1>2

\* Min is an element of its set.
LEMMA MinInSet ==
  ASSUME NEW S, S \subseteq Nat, S # {}
  PROVE  Min(S) \in S
<1>1. \E x \in S : \A y \in S : x <= y
  BY SmallestExists
<1> QED BY <1>1 DEF Min

\* Max is the greatest element of a bounded set.
LEMMA MaxInSet ==
  ASSUME NEW b \in Nat, NEW S, S \subseteq 1..b, S # {}
  PROVE  Max(S) \in S /\ \A y \in S : y <= Max(S)
<1> DEFINE D == {b - y : y \in S}
<1>0. \A y \in S : y \in Nat /\ b - y \in Nat
  OBVIOUS
<1>1. D \subseteq Nat /\ D # {}
  BY <1>0
<1>2. PICK d \in D : \A e \in D : d <= e
  BY <1>1, SmallestExists
<1>3. PICK x \in S : d = b - x
  OBVIOUS
<1>4. \A y \in S : x >= y
  <2> TAKE y \in S
  <2>1. b - y \in D
    OBVIOUS
  <2>2. b - x <= b - y
    BY <2>1, <1>2, <1>3
  <2> QED BY <2>2
<1>5. \E z \in S : \A y \in S : z >= y
  BY <1>4
<1>6. Max(S) \in S /\ \A y \in S : Max(S) >= y
  BY <1>5 DEF Max
<1> QED BY <1>6

-----------------------------------------------------------------------------
(* Jobs.                                                                   *)

\* A Job that ended stays ended that way, a Job keeps its range, and what is at
\* the destination stays there.
JobsGrow ==
  /\ made' \in 0..MaxJobs /\ made <= made' /\ jobs' \in [Jobs -> JobRecords]
  /\ \A j \in 1..made :
       /\ jobs'[j].range = jobs[j].range
       /\ jobs'[j].start = jobs[j].start /\ jobs'[j].stop = jobs[j].stop
       /\ jobs[j].stage # "RUNNING" => jobs'[j].stage = jobs[j].stage
  /\ dest \subseteq dest' /\ dest' \subseteq Keys

\* Setting the stage of a running Job leaves the rest as it was.
LEMMA StageSet ==
  ASSUME jobs \in [Jobs -> JobRecords], NEW j \in Jobs, NEW v \in Stages,
         jobs' = [jobs EXCEPT ![j].stage = v]
  PROVE  /\ jobs' \in [Jobs -> JobRecords]
         /\ \A k \in Jobs : /\ jobs'[k].range = jobs[k].range
                            /\ jobs'[k].start = jobs[k].start /\ jobs'[k].stop = jobs[k].stop
                            /\ k # j => jobs'[k].stage = jobs[k].stage
         /\ jobs'[j].stage = v
<1>1. jobs[j] \in JobRecords
  OBVIOUS
<1>2. [jobs[j] EXCEPT !.stage = v] \in JobRecords
  BY <1>1 DEF JobRecords
<1>3. /\ [jobs[j] EXCEPT !.stage = v].range = jobs[j].range
      /\ [jobs[j] EXCEPT !.stage = v].start = jobs[j].start
      /\ [jobs[j] EXCEPT !.stage = v].stop = jobs[j].stop
      /\ [jobs[j] EXCEPT !.stage = v].stage = v
  BY <1>1 DEF JobRecords
<1>4. jobs' = [jobs EXCEPT ![j] = [jobs[j] EXCEPT !.stage = v]]
  OBVIOUS
<1> HIDE DEF JobRecords
<1>5. jobs'[j] = [jobs[j] EXCEPT !.stage = v] /\ \A k \in Jobs \ {j} : jobs'[k] = jobs[k]
  BY <1>4
<1> QED BY <1>2, <1>3, <1>4, <1>5

\* The Job a POST asks for has the bounds of its range.
LEMMA SpecTypes ==
  ASSUME TypeOK, target \in 1..n + 1
  PROVE  Spec_of(target) \in JobRecords /\ Spec_of(target).range = target
         /\ Spec_of(target).stage = "RUNNING"
<1>1. CASE target = n + 1
  BY <1>1, ConstantsOK DEF TypeOK, Spec_of, JobRecords, Stages, Ended
<1>2. CASE target # n + 1
  <2>1. target \in Ranges
    BY <1>2, ConstantsOK DEF TypeOK, Ranges
  <2>2. copiers[target] \in CopierRecords
    BY <2>1 DEF TypeOK
  <2>3. copiers[target].start \in 0..NumKeys /\ copiers[target].stop \in 0..NumKeys
    BY <2>2 DEF CopierRecords
  <2> QED BY <1>2, <2>1, <2>3, ConstantsOK DEF Spec_of, JobRecords, Stages, Ended, Ranges
<1> QED BY <1>1, <1>2

\* Every step keeps what HF Jobs knows of a Job that ended.
LEMMA JobsStep ==
  ASSUME FleetInv, [Next]_vars
  PROVE  JobsGrow
<1> USE DEF FleetInv
<1>0. TypeOK /\ made \in 0..MaxJobs /\ jobs \in [Jobs -> JobRecords] /\ dest \subseteq Keys
      /\ 1..made \subseteq Jobs
  BY ConstantsOK DEF TypeOK, Jobs
<1>1. CASE UNCHANGED <<made, jobs, dest>>
  BY <1>0, <1>1 DEF JobsGrow
<1>2. CASE Create
  <2>1. target \in 1..n + 1
    BY <1>2 DEF Create, PostInv
  <2>2. Spec_of(target) \in JobRecords
    BY <2>1, SpecTypes
  <2>3. made' = made + 1 /\ made + 1 \in Jobs /\ dest' = dest
        /\ jobs' = [jobs EXCEPT ![made + 1] = Spec_of(target)]
    BY <1>0, <1>2, ConstantsOK DEF Create, Jobs
  <2>4. jobs' \in [Jobs -> JobRecords] /\ \A j \in 1..made : jobs'[j] = jobs[j]
    BY <1>0, <2>2, <2>3
  <2> QED BY <1>0, <2>3, <2>4, ConstantsOK DEF JobsGrow, Jobs
<1>3. ASSUME NEW j \in Jobs, CancelLands(j)
      PROVE  JobsGrow
  <2> DEFINE v == IF jobs[j].stage = "RUNNING" THEN "CANCELED" ELSE jobs[j].stage
  <2>1. v \in Stages
    BY <1>0 DEF Stages, Ended, JobRecords
  <2>2. jobs' = [jobs EXCEPT ![j].stage = v] /\ made' = made /\ dest' = dest
    BY <1>3 DEF CancelLands
  <2> HIDE DEF v
  <2>3. /\ jobs' \in [Jobs -> JobRecords]
        /\ \A k \in Jobs : /\ jobs'[k].range = jobs[k].range
                           /\ jobs'[k].start = jobs[k].start /\ jobs'[k].stop = jobs[k].stop
                           /\ k # j => jobs'[k].stage = jobs[k].stage
        /\ jobs'[j].stage = v
    BY <1>0, <2>1, <2>2, StageSet
  <2>4. jobs[j].stage # "RUNNING" => v = jobs[j].stage
    BY DEF v
  <2> QED BY <1>0, <2>2, <2>3, <2>4 DEF JobsGrow
<1>4. ASSUME NEW j \in Jobs, NEW v \in Stages, NEW K \in SUBSET Keys, JobEnds(j, v, K)
      PROVE  JobsGrow
  <2>2. /\ jobs' = [jobs EXCEPT ![j].stage = v] /\ made' = made /\ dest' = dest \cup K
        /\ jobs[j].stage = "RUNNING"
    BY <1>4 DEF JobEnds, Running
  <2>3. /\ jobs' \in [Jobs -> JobRecords]
        /\ \A k \in Jobs : /\ jobs'[k].range = jobs[k].range
                           /\ jobs'[k].start = jobs[k].start /\ jobs'[k].stop = jobs[k].stop
                           /\ k # j => jobs'[k].stage = jobs[k].stage
    BY <1>0, <2>2, StageSet
  <2> QED BY <1>0, <2>2, <2>3, <1>4 DEF JobsGrow
<1>5. CASE \E j \in Running : Complete(j) \/ Break(j) \/ WatchStops(j)
  <2>1. PICK j \in Running : Complete(j) \/ Break(j) \/ WatchStops(j)
    BY <1>5
  <2>2. j \in Jobs
    BY <1>0 DEF Running
  <2>3. Window(jobs[j].start, jobs[j].stop) \subseteq Keys
    BY ConstantsOK DEF Window
  <2>4. \E v \in Stages : \E K \in SUBSET Keys : JobEnds(j, v, K)
    BY <2>1, <2>3 DEF Complete, Break, WatchStops, Stages, Ended
  <2> QED BY <2>2, <2>4, <1>4
<1>6. CASE \E j \in canceling : CancelLands(j) \/ CancelMisses(j)
  <2>1. PICK j \in canceling : CancelLands(j) \/ CancelMisses(j)
    BY <1>6
  <2>2. j \in Jobs
    BY <1>0
  <2>3. CancelMisses(j) => UNCHANGED <<made, jobs, dest>>
    BY DEF CancelMisses, hub
  <2> QED BY <2>1, <2>2, <2>3, <1>1, <1>3
<1>7. CASE Signal \/ Die \/ Refuse \/ PlannerJobEnds \/ Over \/ UNCHANGED vars
  BY <1>1, <1>7 DEF Signal, Die, Refuse, PlannerJobEnds, Over, vars, hub
<1>8. CASE ListKey \/ ListEnd \/ ListFail \/ SlotFree
  BY <1>1, <1>8 DEF ListKey, ListEnd, ListFail, SlotFree, Fail, hub
<1>9. CASE \E S \in SUBSET Active(copiers) : Poll(S)
  BY <1>1, <1>9 DEF Poll, SlotPoll, MonitorPoll, hub
<1>10. CASE Post \/ Retry \/ PostFail \/ Ack
  BY <1>1, <1>10 DEF Post, Retry, PostFail, Ack, Fail, hub
<1>11. CASE Respawn \/ MonitorAgain \/ MonitorFail \/ MonitorEnd \/ VerifyOk \/ VerifyFail \/ Exit
  BY <1>1, <1>11
     DEF Respawn, MonitorAgain, MonitorFail, MonitorEnd, VerifyOk, VerifyFail, Exit, Fail, hub
<1> QED BY <1>2, <1>5, <1>6, <1>7, <1>8, <1>9, <1>10, <1>11 DEF Next, Plan

-----------------------------------------------------------------------------
(* Copiers.                                                                *)

\* A copier the planner knows keeps its range.
RangesKept ==
  /\ copiers' \in [Ranges -> CopierRecords]
  /\ \A i \in 1..n : /\ copiers'[i].start = copiers[i].start
                     /\ copiers'[i].stop = copiers[i].stop
                     /\ copiers'[i].heavy = copiers[i].heavy
                     /\ copiers'[i].attempts >= copiers[i].attempts

\* A copier keeps its Job, and the stage the planner knows changes from a running
\* one to the one the Job has.
JobsKept ==
  /\ n' = n
  /\ \A i \in 1..n : /\ copiers'[i].job = copiers[i].job
                     /\ \/ copiers'[i].stage = copiers[i].stage
                        \/ /\ ~is_terminal(copiers[i].stage)
                           /\ copiers'[i].stage = jobs[copiers[i].job].stage

\* A poll keeps the ranges and the Jobs of the copiers, and every attempt.
LEMMA RefreshKeeps ==
  ASSUME FleetInv, NEW S \in SUBSET Active(copiers), Refresh(S), n' = n
  PROVE  /\ RangesKept /\ JobsKept
         /\ \A i \in 1..n : copiers'[i].attempts = copiers[i].attempts
<1>1. copiers \in [Ranges -> CopierRecords] /\ 1..n \subseteq Ranges /\ S \subseteq 1..n
      /\ jobs \in [Jobs -> JobRecords]
  BY ConstantsOK DEF FleetInv, TypeOK, Ranges, Active
<1> DEFINE new(i) == [copiers[i] EXCEPT !.stage = jobs[copiers[i].job].stage]
<1>2. \A i \in S : /\ new(i) \in CopierRecords
                   /\ new(i).start = copiers[i].start /\ new(i).stop = copiers[i].stop
                   /\ new(i).heavy = copiers[i].heavy
                   /\ new(i).attempts = copiers[i].attempts
                   /\ new(i).job = copiers[i].job
                   /\ new(i).stage = jobs[copiers[i].job].stage
  <2> TAKE i \in S
  <2>1. copiers[i].job \in Jobs
    BY <1>1, ConstantsOK DEF FleetInv, TypeOK, CopierInv, Jobs
  <2>2. jobs[copiers[i].job].stage \in Stages
    BY <1>1, <2>1 DEF JobRecords
  <2>3. copiers[i] \in CopierRecords
    BY <1>1
  <2> QED BY <2>2, <2>3 DEF CopierRecords
<1>3. copiers' = [i \in Ranges |-> IF i \in S THEN new(i) ELSE copiers[i]]
  BY DEF Refresh
<1>4. \A i \in S : ~is_terminal(copiers[i].stage)
  BY DEF Active
<1> HIDE DEF new
<1>5. copiers' \in [Ranges -> CopierRecords]
  BY <1>1, <1>2, <1>3
<1>6. \A i \in 1..n : copiers'[i] = IF i \in S THEN new(i) ELSE copiers[i]
  BY <1>1, <1>3
<1>7. \A i \in 1..n : copiers[i].attempts \in Int
  BY <1>1 DEF CopierRecords
<1>8. RangesKept
  BY <1>2, <1>5, <1>6, <1>7 DEF RangesKept
<1>9. JobsKept
  BY <1>2, <1>4, <1>6 DEF JobsKept
<1> QED BY <1>2, <1>6, <1>8, <1>9

\* Starting the next attempt of a range only counts it.
LEMMA RespawnKeeps ==
  ASSUME FleetInv, Respawn
  PROVE  /\ RangesKept /\ JobsKept /\ target' \in todo
         /\ \A i \in 1..n : copiers'[i].stage = copiers[i].stage
         /\ \A i \in 1..n : copiers'[i].attempts
                              = copiers[i].attempts + (IF i = target' THEN 1 ELSE 0)
<1>0. copiers \in [Ranges -> CopierRecords] /\ 1..n \subseteq Ranges
  BY ConstantsOK DEF FleetInv, TypeOK, Ranges
<1>1. /\ copiers \in [Ranges -> CopierRecords] /\ 1..n \subseteq Ranges /\ todo \subseteq 1..n
      /\ \A i \in todo : copiers[i].attempts < MAX_COPIER_ATTEMPTS
  BY <1>0 DEF FleetInv, TodoInv, Respawn
<1>2. Min(todo) \in todo
  BY <1>1, MinInSet DEF Respawn, Ranges
<1> DEFINE i == Min(todo)
           new == [copiers[i] EXCEPT !.attempts = copiers[i].attempts + 1]
<1>3. copiers[i] \in CopierRecords /\ copiers[i].attempts < MAX_COPIER_ATTEMPTS
  BY <1>1, <1>2
<1>4. /\ new \in CopierRecords
      /\ new.start = copiers[i].start /\ new.stop = copiers[i].stop
      /\ new.heavy = copiers[i].heavy /\ new.attempts = copiers[i].attempts + 1
      /\ new.job = copiers[i].job /\ new.stage = copiers[i].stage
  BY <1>3 DEF CopierRecords, MAX_COPIER_ATTEMPTS
<1>5. copiers' = [copiers EXCEPT ![i] = new] /\ target' = i /\ n' = n
  BY DEF Respawn
<1> HIDE DEF new, i
<1>6. copiers' \in [Ranges -> CopierRecords]
      /\ \A k \in 1..n : copiers'[k] = IF k = i THEN new ELSE copiers[k]
  BY <1>1, <1>4, <1>5
<1>7. \A k \in 1..n : copiers[k].attempts \in Int
  BY <1>1 DEF CopierRecords
<1>8. RangesKept
  BY <1>4, <1>6, <1>7 DEF RangesKept
<1>9. JobsKept
  BY <1>4, <1>5, <1>6 DEF JobsKept
<1>10. i \in todo
  BY <1>2 DEF i
<1> QED BY <1>4, <1>5, <1>6, <1>7, <1>8, <1>9, <1>10

\* The answer to a POST gives the range the Job that was made, and nothing else.
LEMMA AckKeeps ==
  ASSUME FleetInv, Ack
  PROVE  /\ RangesKept
         /\ \A i \in 1..n : i # target => copiers'[i] = copiers[i]
         /\ copiers'[target].job = made /\ copiers'[target].stage = "RUNNING"
         /\ target \in 1..n + 1 /\ target \in Ranges
         /\ target = n + 1 => /\ copiers'[target].start = curStart
                              /\ copiers'[target].stop = stopAt
                              /\ copiers'[target].heavy = CommitHeavy(CurKeys)
                              /\ copiers'[target].attempts = 1
         /\ target # n + 1 => copiers'[target].attempts = copiers[target].attempts
<1>1. /\ copiers \in [Ranges -> CopierRecords] /\ 1..n \subseteq Ranges
      /\ target \in 1..n + 1 /\ target \in Ranges /\ n \in Nat
  BY ConstantsOK DEF FleetInv, TypeOK, Ranges, PostInv, Ack
<1>2. copiers' = [copiers EXCEPT ![target] = Started]
  BY DEF Ack
<1>3. \A k \in 1..n : copiers[k].attempts \in Int
  BY <1>1 DEF CopierRecords
<1>4. made \in 0..MaxJobs /\ "RUNNING" \in Stages
  BY DEF FleetInv, TypeOK, Stages
<1>5. CASE target = n + 1
  <2>1. CommitHeavy(CurKeys) \in BOOLEAN
    BY DEF CommitHeavy
  <2>2. /\ Started \in CopierRecords
        /\ Started.start = curStart /\ Started.stop = stopAt
        /\ Started.heavy = CommitHeavy(CurKeys) /\ Started.attempts = 1
        /\ Started.job = made /\ Started.stage = "RUNNING"
    BY <1>4, <1>5, <2>1, ConstantsOK
       DEF Started, FleetInv, TypeOK, CopierRecords, MAX_COPIER_ATTEMPTS
  <2>3. copiers' \in [Ranges -> CopierRecords] /\ copiers'[target] = Started
        /\ \A i \in 1..n : copiers'[i] = copiers[i]
    BY <1>1, <1>2, <1>5, <2>2
  <2> QED BY <1>1, <1>3, <1>5, <2>2, <2>3 DEF RangesKept
<1>6. CASE target # n + 1
  <2>1. target \in 1..n
    BY <1>1, <1>6, ConstantsOK DEF FleetInv, TypeOK
  <2>2. copiers[target] \in CopierRecords
    BY <1>1
  <2>3. Started = [copiers[target] EXCEPT !.job = made, !.stage = "RUNNING"]
    BY <1>6 DEF Started
  <2>4. /\ Started \in CopierRecords
        /\ Started.start = copiers[target].start /\ Started.stop = copiers[target].stop
        /\ Started.heavy = copiers[target].heavy
        /\ Started.attempts = copiers[target].attempts
        /\ Started.job = made /\ Started.stage = "RUNNING"
    BY <1>4, <2>2, <2>3 DEF CopierRecords
  <2>5. copiers' \in [Ranges -> CopierRecords] /\ copiers'[target] = Started
        /\ \A i \in 1..n : i # target => copiers'[i] = copiers[i]
    BY <1>1, <1>2, <2>4
  <2> QED BY <1>1, <1>3, <1>6, <2>1, <2>4, <2>5 DEF RangesKept
<1> QED BY <1>5, <1>6

\* Every step keeps the ranges of the copiers; only the answer to a POST gives one
\* a new Job or adds one.
LEMMA CopiersStep ==
  ASSUME FleetInv, [Next]_vars
  PROVE  /\ RangesKept
         /\ Ack \/ JobsKept
         /\ Ack \/ Respawn \/ \A i \in 1..n : copiers'[i].attempts = copiers[i].attempts
<1>0. copiers \in [Ranges -> CopierRecords] /\ 1..n \subseteq Ranges
  BY ConstantsOK DEF FleetInv, TypeOK, Ranges
<1>1. CASE UNCHANGED <<n, copiers>>
  <2>1. \A k \in 1..n : copiers[k].attempts \in Int
    BY <1>0 DEF CopierRecords
  <2> QED BY <1>0, <1>1, <2>1 DEF RangesKept, JobsKept
<1>2. CASE Ack
  BY <1>2, AckKeeps
<1>3. CASE Respawn
  BY <1>3, RespawnKeeps
<1>4. CASE \E S \in SUBSET Active(copiers) : Poll(S)
  BY <1>4, RefreshKeeps DEF Poll, SlotPoll, MonitorPoll
<1>5. CASE \E j \in Running : Complete(j) \/ Break(j) \/ WatchStops(j)
  BY <1>1, <1>5 DEF Complete, Break, WatchStops, JobEnds, fleet
<1>6. CASE \E j \in canceling : CancelLands(j) \/ CancelMisses(j)
  BY <1>1, <1>6 DEF CancelLands, CancelMisses, fleet
<1>7. CASE Signal \/ Die \/ Create \/ Refuse \/ PlannerJobEnds \/ Over \/ UNCHANGED vars
  BY <1>1, <1>7 DEF Signal, Die, Create, Refuse, PlannerJobEnds, Over, vars, fleet
<1>8. CASE ListKey \/ ListEnd \/ ListFail \/ SlotFree
  BY <1>1, <1>8 DEF ListKey, ListEnd, ListFail, SlotFree, Fail, fleet
<1>9. CASE Post \/ Retry \/ PostFail
  BY <1>1, <1>9 DEF Post, Retry, PostFail, Fail, fleet
<1>10. CASE MonitorAgain \/ MonitorFail \/ MonitorEnd \/ VerifyOk \/ VerifyFail \/ Exit
  BY <1>1, <1>10 DEF MonitorAgain, MonitorFail, MonitorEnd, VerifyOk, VerifyFail, Exit, Fail, fleet
<1> QED BY <1>2, <1>3, <1>4, <1>5, <1>6, <1>7, <1>8, <1>9, <1>10 DEF Next, Plan

-----------------------------------------------------------------------------
(* Types.                                                                  *)

\* The planner's own variables.
PlannerTypes ==
  /\ pc \in {"list", "wait", "post", "poll", "respawn", "verify", "cancel", "exit"}
  /\ listed \in 0..NumKeys /\ closing \in BOOLEAN
  /\ curStart \in 0..NumKeys /\ stopAt \in 0..NumKeys
  /\ n \in 0..NumKeys
  /\ target \in 0..NumKeys /\ todo \in SUBSET Ranges
  /\ tries \in 0..MAX_ATTEMPTS - 1
  /\ rpc \in {"idle", "sent", "made", "refused"}
  /\ signal \in BOOLEAN /\ planner \in Stages /\ outcome \in {"none", "ok", "err"}

\* The Jobs the planner was not told of, and those it cancels, are Jobs that were made.
Told == lost \in SUBSET Jobs /\ canceling \subseteq 1..made

\* What the end of the run drops and cancels are Jobs.
LEMMA DropTypes ==
  ASSUME FleetInv
  PROVE  /\ DropRequest => lost' \in SUBSET Jobs /\ rpc' \in {"idle", "sent"}
         /\ ToCancel \subseteq 1..made
<1>1. rpc = "made" => made \in Jobs
  BY ConstantsOK DEF FleetInv, PostInv, TypeOK, Jobs
<1>2. DropRequest => lost' \in SUBSET Jobs /\ rpc' \in {"idle", "sent"}
  BY <1>1 DEF FleetInv, TypeOK, DropRequest
<1>3. ToCancel \subseteq 1..made
  BY DEF FleetInv, CopierInv, ToCancel, Active
<1> QED BY <1>2, <1>3

\* The planner fails.
LEMMA FailTypes ==
  ASSUME FleetInv, Fail
  PROVE  PlannerTypes' /\ Told'
<1>1. pc' = "cancel" /\ outcome' = "err" /\ canceling' = ToCancel /\ DropRequest /\ made' = made
      /\ UNCHANGED <<listed, closing, curStart, stopAt, n, target, todo, tries, signal, planner>>
  BY DEF Fail, CancelActive, listVars, fleet
<1>2. Told'
  BY <1>1, DropTypes DEF Told
<1>3. PlannerTypes'
  BY <1>1, DropTypes DEF FleetInv, TypeOK, PlannerTypes
<1> QED BY <1>2, <1>3

\* Every step keeps the types of the planner's variables.
LEMMA PlannerStep ==
  ASSUME FleetInv, [Next]_vars
  PROVE  PlannerTypes' /\ Told'
<1>0. PlannerTypes /\ Told /\ made \in 0..MaxJobs
  BY DEF FleetInv, TypeOK, PlannerTypes, Told
<1> DEFINE pt == <<pc, listed, closing, curStart, stopAt, n, target, todo, tries, rpc, signal,
                   planner, outcome>>
           tt == <<lost, canceling, made>>
<1>1. UNCHANGED pt => PlannerTypes'
  BY <1>0 DEF PlannerTypes
<1>2. UNCHANGED tt => Told'
  BY <1>0 DEF Told
<1>3. CASE ListKey
  <2>1. UNCHANGED tt
    BY <1>3 DEF ListKey, hub
  <2>2. listed' \in 0..NumKeys
    BY <1>0, <1>3, ConstantsOK DEF ListKey, PlannerTypes
  <2>3. stopAt' \in 0..NumKeys /\ pc' \in {"list", "wait"}
    BY <1>0, <1>3, <2>2 DEF ListKey, PlannerTypes, Cut
  <2> QED BY <1>0, <1>2, <1>3, <2>1, <2>2, <2>3 DEF ListKey, PlannerTypes, fleet
<1>4. CASE ListEnd
  <2>1. UNCHANGED tt
    BY <1>4 DEF ListEnd, hub
  <2>2. RestKeys # {} => Max(RestKeys) \in 0..NumKeys
    <3>1. RestKeys \subseteq 1..NumKeys
      BY ConstantsOK DEF RestKeys, CurKeys, Window, Keys
    <3>2. NumKeys \in Nat
      BY ConstantsOK
    <3>3. RestKeys # {} => Max(RestKeys) \in RestKeys
      BY <3>1, <3>2, MaxInSet
    <3>4. RestKeys # {} => Max(RestKeys) \in 1..NumKeys
      BY <3>1, <3>3
    <3>5. 1..NumKeys \subseteq 0..NumKeys
      BY <3>2
    <3> QED BY <3>4, <3>5
  <2>3. stopAt' \in 0..NumKeys /\ pc' \in {"poll", "wait"}
    BY <1>0, <1>4, <2>2 DEF ListEnd, PlannerTypes, Cut
  <2>4. closing' \in BOOLEAN
    BY <1>4 DEF ListEnd
  <2> QED BY <1>0, <1>2, <1>4, <2>1, <2>3, <2>4 DEF ListEnd, PlannerTypes, fleet
<1>5. CASE ListFail \/ PostFail \/ MonitorFail \/ VerifyFail
  BY <1>5, FailTypes DEF ListFail, PostFail, MonitorFail, VerifyFail
<1>6. CASE Signal
  <2>1. pc' = "cancel" /\ outcome' = "err" /\ canceling' = ToCancel /\ DropRequest /\ made' = made
        /\ UNCHANGED <<listed, closing, curStart, stopAt, n, target, todo, tries, planner>>
    BY <1>6 DEF Signal, CancelActive, listVars, fleet
  <2>2. signal' \in BOOLEAN
    BY <1>6 DEF Signal
  <2>3. Told'
    BY <2>1, DropTypes DEF Told
  <2> QED BY <1>0, <2>1, <2>2, <2>3, DropTypes DEF PlannerTypes
<1>7. CASE Die
  <2>1. pc' = "exit" /\ outcome' = "err" /\ canceling' = {} /\ DropRequest /\ made' = made
        /\ UNCHANGED <<listed, closing, curStart, stopAt, n, target, todo, tries, planner, signal>>
    BY <1>7 DEF Die, listVars, fleet
  <2>2. Told'
    BY <2>1, DropTypes DEF Told
  <2> QED BY <1>0, <2>1, <2>2, DropTypes DEF PlannerTypes
<1>8. CASE SlotFree
  <2>1. UNCHANGED tt
    BY <1>8 DEF SlotFree, hub
  <2>2. n + 1 \in 0..NumKeys
    BY <1>8, ConstantsOK DEF SlotFree, FleetInv, TypeOK, TileInv, CutInv, Cutting
  <2> QED BY <1>0, <1>2, <1>8, <2>1, <2>2, ConstantsOK DEF SlotFree, PlannerTypes, listVars, fleet
<1>9. CASE \E S \in SUBSET Active(copiers) : Poll(S)
  <2>1. PICK S \in SUBSET Active(copiers) : Poll(S)
    BY <1>9
  <2>2. UNCHANGED tt
    BY <2>1 DEF Poll, SlotPoll, MonitorPoll, hub
  <2>3. CASE SlotPoll(S)
    BY <1>1, <1>2, <2>2, <2>3 DEF SlotPoll, listVars
  <2>4. CASE MonitorPoll(S)
    <3>1. n' = n /\ 1..n \subseteq Ranges
      BY <2>4, ConstantsOK DEF MonitorPoll, FleetInv, TypeOK, Ranges
    <3>2. todo' \subseteq Ranges
      BY <2>4, <3>1 DEF MonitorPoll, Respawnable
    <3> QED BY <1>0, <1>2, <2>2, <2>4, <3>1, <3>2 DEF MonitorPoll, PlannerTypes, listVars
  <2> QED BY <2>1, <2>3, <2>4 DEF Poll
<1>10. CASE Post \/ Refuse
  BY <1>0, <1>2, <1>10 DEF Post, Refuse, PlannerTypes, listVars, fleet, hub
<1>11. CASE Create
  <2>1. made' = made + 1 /\ made + 1 \in Jobs /\ canceling' = canceling
    BY <1>0, <1>11, ConstantsOK DEF Create, Jobs
  <2>2. lost' \in SUBSET Jobs
    BY <1>0, <1>11, <2>1 DEF Create, Told
  <2>3. Told'
    BY <1>0, <2>1, <2>2 DEF Told
  <2> QED BY <1>0, <1>11, <2>3 DEF Create, PlannerTypes, listVars, fleet
<1>12. CASE Retry
  <2>1. made' = made /\ canceling' = canceling /\ lost' \in SUBSET Jobs
    BY <1>12, ConstantsOK DEF Retry, FleetInv, PostInv, TypeOK, Jobs
  <2>2. Told'
    BY <1>0, <2>1 DEF Told
  <2>3. tries + 1 \in 0..MAX_ATTEMPTS - 1
    BY <1>0, <1>12, ConstantsOK DEF Retry, PlannerTypes
  <2> QED BY <1>0, <1>12, <2>2, <2>3 DEF Retry, PlannerTypes, listVars, fleet
<1>13. CASE Ack
  <2>1. UNCHANGED tt
    BY <1>13 DEF Ack, hub
  <2>2. target = n + 1 => n' = n + 1 /\ n + 1 \in 0..NumKeys
    BY <1>0, <1>13 DEF Ack, PlannerTypes
  <2>3. n' \in 0..NumKeys /\ pc' \in {"poll", "list", "respawn"} /\ todo' \in SUBSET Ranges
    BY <1>0, <1>13, <2>2 DEF Ack, PlannerTypes
  <2>4. curStart' \in 0..NumKeys
    BY <1>0, <1>13 DEF Ack, PlannerTypes, NextStart
  <2>5. UNCHANGED <<listed, closing, stopAt, target, tries, signal, planner, outcome>>
        /\ rpc' = "idle"
    BY <1>13 DEF Ack
  <2> QED BY <1>0, <1>2, <2>1, <2>3, <2>4, <2>5 DEF PlannerTypes
<1>14. CASE Respawn
  <2>1. UNCHANGED tt
    BY <1>14 DEF Respawn, hub
  <2>2. target' \in todo /\ todo \subseteq 1..NumKeys
    BY <1>0, <1>14, RespawnKeeps DEF PlannerTypes, Ranges
  <2>3. target' \in 0..NumKeys
    BY <2>2, ConstantsOK
  <2> QED BY <1>0, <1>2, <1>14, <2>1, <2>3, ConstantsOK DEF Respawn, PlannerTypes, listVars
<1>15. CASE MonitorAgain \/ MonitorEnd \/ VerifyOk
  BY <1>0, <1>2, <1>15 DEF MonitorAgain, MonitorEnd, VerifyOk, PlannerTypes, listVars, fleet, hub
<1>16. CASE Exit
  BY <1>0, <1>2, <1>16 DEF Exit, PlannerTypes, listVars, fleet, hub
<1>17. CASE \E j \in canceling : CancelLands(j) \/ CancelMisses(j)
  <2>1. made' = made /\ lost' = lost /\ canceling' \subseteq canceling
    BY <1>17 DEF CancelLands, CancelMisses, hub
  <2>2. Told'
    BY <1>0, <2>1 DEF Told
  <2>3. UNCHANGED pt
    BY <1>17 DEF CancelLands, CancelMisses, listVars, fleet
  <2> QED BY <1>1, <2>2, <2>3
<1>18. CASE \E j \in Running : Complete(j) \/ Break(j) \/ WatchStops(j)
  <2>1. UNCHANGED pt /\ UNCHANGED tt
    BY <1>18 DEF Complete, Break, WatchStops, JobEnds, listVars, fleet
  <2> QED BY <1>1, <1>2, <2>1
<1>19. CASE PlannerJobEnds
  <2>1. planner' \in Stages
    BY <1>19 DEF PlannerJobEnds, Stages, Ended
  <2> QED BY <1>0, <1>2, <1>19, <2>1 DEF PlannerJobEnds, PlannerTypes, listVars, fleet, hub
<1>20. CASE Over \/ UNCHANGED vars
  BY <1>1, <1>2, <1>20 DEF Over, vars
<1> QED
  BY <1>3, <1>4, <1>5, <1>6, <1>7, <1>8, <1>9, <1>10, <1>11, <1>12, <1>13, <1>14, <1>15, <1>16,
     <1>17, <1>18, <1>19, <1>20 DEF Next, Plan

\* Every step keeps the types.
LEMMA TypesStep ==
  ASSUME FleetInv, [Next]_vars
  PROVE  TypeOK' /\ (canceling \subseteq 1..made)'
<1>1. PlannerTypes' /\ Told'
  BY PlannerStep
<1>2. JobsGrow /\ RangesKept
  BY JobsStep, CopiersStep
<1>3. canceling' \subseteq Jobs
  BY <1>1, <1>2, ConstantsOK DEF Told, JobsGrow, Jobs
<1>4. TypeOK'
  BY <1>1, <1>2, <1>3 DEF TypeOK, PlannerTypes, Told, JobsGrow, RangesKept
<1> QED BY <1>1, <1>4 DEF Told

-----------------------------------------------------------------------------
(* The ranges.                                                             *)

\* Every step keeps each copier tied to a Job made for its range.
LEMMA CopierStep ==
  ASSUME FleetInv, [Next]_vars
  PROVE  (\A i \in 1..n : CopierInv(i))'
<1>0. /\ \A i \in 1..n : CopierInv(i)
      /\ n \in Nat /\ made \in Nat /\ copiers \in [Ranges -> CopierRecords]
      /\ jobs \in [Jobs -> JobRecords]
  BY ConstantsOK DEF FleetInv, TypeOK
<1>1. JobsGrow /\ RangesKept
  BY JobsStep, CopiersStep
<1>2. \A i \in 1..n : copiers'[i].attempts >= 1 /\ copiers[i].job \in 1..made'
  BY <1>0, <1>1, ConstantsOK
     DEF CopierInv, RangesKept, JobsGrow, CopierRecords, Ranges, TypeOK, FleetInv
<1>3. CASE JobsKept
  <2> SUFFICES ASSUME NEW i \in 1..n
               PROVE  CopierInv(i)'
    BY <1>3 DEF JobsKept
  <2>1. copiers[i].job \in 1..made /\ copiers'[i].job = copiers[i].job /\ CopierInv(i)
    BY <1>0, <1>3 DEF JobsKept, CopierInv
  <2>2. /\ jobs'[copiers[i].job].range = i
        /\ jobs'[copiers[i].job].start = copiers'[i].start
        /\ jobs'[copiers[i].job].stop = copiers'[i].stop
    BY <2>1, <1>1 DEF JobsGrow, RangesKept, CopierInv
  <2>3. is_terminal(copiers'[i].stage) => jobs[copiers[i].job].stage = copiers'[i].stage
    BY <2>1, <1>3 DEF JobsKept, CopierInv
  <2>4. is_terminal(copiers'[i].stage) => jobs'[copiers[i].job].stage = copiers'[i].stage
    BY <2>1, <2>3, <1>1 DEF JobsGrow, is_terminal, Ended
  <2> QED BY <1>2, <2>1, <2>2, <2>4 DEF CopierInv
<1>4. CASE Ack
  <2> SUFFICES ASSUME NEW i \in 1..n'
               PROVE  CopierInv(i)'
    OBVIOUS
  <2>1. /\ jobs' = jobs /\ made' = made
        /\ n' = IF target = n + 1 THEN n + 1 ELSE n
    BY <1>4 DEF Ack, hub
  <2>2. /\ \A k \in 1..n : k # target => copiers'[k] = copiers[k]
        /\ copiers'[target].job = made /\ copiers'[target].stage = "RUNNING"
        /\ target \in 1..n + 1 /\ target \in Ranges
        /\ target = n + 1 => /\ copiers'[target].start = curStart
                             /\ copiers'[target].stop = stopAt
                             /\ copiers'[target].attempts = 1
    BY <1>4, AckKeeps
  <2>3. CASE i # target
    BY <1>0, <2>1, <2>2, <2>3 DEF CopierInv
  <2>4. CASE i = target
    <3>1. made >= 1 /\ jobs[made].range = target
          /\ jobs[made].start = Spec_of(target).start
          /\ jobs[made].stop = Spec_of(target).stop
      BY <1>4 DEF Ack, FleetInv, PostInv
    <3>2. jobs[made].start = copiers'[target].start /\ jobs[made].stop = copiers'[target].stop
      <4>1. CASE target = n + 1
        BY <4>1, <3>1, <2>2 DEF Spec_of
      <4>2. CASE target # n + 1
        <5>1. target \in 1..n
          BY <4>2, <2>2, <1>0
        <5> QED BY <4>2, <5>1, <3>1, <1>1 DEF Spec_of, RangesKept
      <4> QED BY <4>1, <4>2
    <3>3. copiers'[target].attempts >= 1
      BY <1>0, <1>2, <2>2
    <3> QED BY <1>0, <2>1, <2>2, <2>4, <3>1, <3>2, <3>3 DEF CopierInv, is_terminal, Ended
  <2> QED BY <2>3, <2>4
<1> QED BY <1>3, <1>4, CopiersStep

\* Two windows that meet make one.
LEMMA WindowsJoin ==
  ASSUME NEW a \in Nat, NEW b \in Nat, NEW c \in Nat, a <= b, b <= c
  PROVE  Window(a, b) \cup Window(b, c) = Window(a, c)
<1>1. Kept \subseteq Int
  BY ConstantsOK DEF Keys
<1>2. \A k \in Kept : (a < k /\ k <= b) \/ (b < k /\ k <= c) <=> a < k /\ k <= c
  BY <1>1
<1> QED BY <1>2 DEF Window

\* A window holds the kept keys between its bounds.
LEMMA WindowHolds ==
  ASSUME NEW a \in Nat, NEW b \in Nat
  PROVE  /\ Window(a, b) \subseteq 1..b /\ Window(b, b) = {}
         /\ \A k \in Kept : a < k /\ k <= b => Window(a, b) # {}
<1>1. Kept \subseteq Int
  BY ConstantsOK DEF Keys
<1>2. \A k \in Kept : ~(b < k /\ k <= b) /\ (a < k /\ k <= b => k \in 1..b)
  BY <1>1
<1>3. Window(a, b) \subseteq 1..b /\ Window(b, b) = {}
  BY <1>2 DEF Window
<1>4. ASSUME NEW k \in Kept, a < k, k <= b
      PROVE  Window(a, b) # {}
  BY <1>4 DEF Window
<1> QED BY <1>3, <1>4

\* The listing only advances, and cur_start_after moves when a new range is posted.
LEMMA ListingStep ==
  ASSUME FleetInv, [Next]_vars
  PROVE  listed <= listed' /\ (Ack \/ curStart' = curStart)
<1>0. listed \in Nat
  BY ConstantsOK DEF FleetInv, TypeOK
<1>1. CASE UNCHANGED <<listed, curStart>>
  BY <1>0, <1>1
<1>2. CASE ListKey
  BY <1>0, <1>2 DEF ListKey
<1>3. CASE Ack
  BY <1>0, <1>3 DEF Ack
<1>4. CASE Respawn \/ (\E S \in SUBSET Active(copiers) : Poll(S))
  BY <1>1, <1>4 DEF Respawn, Poll, SlotPoll, MonitorPoll, listVars
<1>5. CASE \E j \in Running : Complete(j) \/ Break(j) \/ WatchStops(j)
  BY <1>1, <1>5 DEF Complete, Break, WatchStops, JobEnds, listVars
<1>6. CASE \E j \in canceling : CancelLands(j) \/ CancelMisses(j)
  BY <1>1, <1>6 DEF CancelLands, CancelMisses, listVars
<1>7. CASE Signal \/ Die \/ Create \/ Refuse \/ PlannerJobEnds \/ Over \/ UNCHANGED vars
  BY <1>1, <1>7 DEF Signal, Die, Create, Refuse, PlannerJobEnds, Over, vars, listVars
<1>8. CASE ListEnd \/ ListFail \/ SlotFree
  BY <1>1, <1>8 DEF ListEnd, ListFail, SlotFree, Fail, listVars
<1>9. CASE Post \/ Retry \/ PostFail
  BY <1>1, <1>9 DEF Post, Retry, PostFail, Fail, listVars
<1>10. CASE MonitorAgain \/ MonitorFail \/ MonitorEnd \/ VerifyOk \/ VerifyFail \/ Exit
  BY <1>1, <1>10
     DEF MonitorAgain, MonitorFail, MonitorEnd, VerifyOk, VerifyFail, Exit, Fail, listVars
<1> QED BY <1>2, <1>3, <1>4, <1>5, <1>6, <1>7, <1>8, <1>9, <1>10 DEF Next, Plan

\* Every step keeps the ranges contiguous: a new one starts where the last one ends.
LEMMA TileStep ==
  ASSUME FleetInv, [Next]_vars
  PROVE  TileInv'
<1>0. /\ TileInv /\ n \in Nat /\ curStart \in Nat /\ listed \in Nat /\ stopAt \in Nat
      /\ n' \in Nat /\ curStart' \in Nat /\ listed' \in Nat
      /\ Kept \subseteq Nat
  BY TypesStep, ConstantsOK DEF FleetInv, TypeOK, Keys
<1>1. RangesKept /\ listed <= listed'
  BY CopiersStep, ListingStep
<1>2. CASE n' = n /\ curStart' = curStart
  <2>1. Planned' = Planned
    BY <1>1, <1>2 DEF Planned, RangesKept
  <2>2. \A i \in 1..n : i # 1 => i - 1 \in 1..n
    BY <1>0
  <2>3. n # 0 => n \in 1..n
    BY <1>0
  <2> QED BY <1>0, <1>1, <1>2, <2>1, <2>2, <2>3 DEF TileInv, RangesKept
<1>3. CASE Ack /\ target = n + 1
  <2>1. /\ n' = n + 1 /\ curStart' = stopAt /\ listed' = listed
        /\ copiers'[n + 1].start = curStart /\ copiers'[n + 1].stop = stopAt
    BY <1>3, AckKeeps DEF Ack, NextStart
  <2>2. /\ curStart < stopAt /\ stopAt <= listed
        /\ Window(curStart, stopAt) # {}
    BY <1>3 DEF Ack, FleetInv, CutInv, Cutting
  <2>3. /\ \A i \in 1..n : /\ copiers'[i].start = copiers[i].start
                           /\ copiers'[i].stop = copiers[i].stop
        /\ 1..n + 1 = 1..n \cup {n + 1}
    BY <1>0, <1>1 DEF RangesKept
  <2>4. \A i \in 1..n + 1 :
          /\ copiers'[i].start = (IF i = 1 THEN 0 ELSE copiers'[i - 1].stop)
          /\ copiers'[i].start < copiers'[i].stop
          /\ Window(copiers'[i].start, copiers'[i].stop) # {}
    <3>1. \A i \in 1..n : i # 1 => i - 1 \in 1..n
      BY <1>0
    <3>2. n # 0 => n \in 1..n /\ n + 1 # 1 /\ (n + 1) - 1 = n
      BY <1>0
    <3>3. curStart = (IF n + 1 = 1 THEN 0 ELSE copiers'[(n + 1) - 1].stop)
      BY <1>0, <2>3, <3>2 DEF TileInv
    <3>4. ASSUME NEW i \in 1..n
          PROVE  /\ copiers'[i].start = (IF i = 1 THEN 0 ELSE copiers'[i - 1].stop)
                 /\ copiers'[i].start < copiers'[i].stop
                 /\ Window(copiers'[i].start, copiers'[i].stop) # {}
      BY <1>0, <2>3, <3>1, <3>4 DEF TileInv
    <3> QED BY <2>1, <2>2, <2>3, <3>3, <3>4
  <2>5. Planned' = Planned \cup Window(curStart, stopAt)
    BY <2>1, <2>3 DEF Planned
  <2>6. Window(0, curStart) \cup Window(curStart, stopAt) = Window(0, stopAt)
    BY <1>0, <2>2, WindowsJoin
  <2>7. Planned = Window(0, curStart) /\ n <= curStart
    BY <1>0 DEF TileInv
  <2> HIDE DEF Planned, Window
  <2>8. Planned' = Window(0, stopAt)
    BY <2>5, <2>6, <2>7
  <2>9. n + 1 <= stopAt /\ n + 1 # 0
    BY <1>0, <2>2, <2>7
  <2> QED BY <2>1, <2>2, <2>4, <2>8, <2>9 DEF TileInv
<1>4. CASE Ack /\ target # n + 1
  BY <1>2, <1>4 DEF Ack, NextStart
<1> QED BY <1>2, <1>3, <1>4, CopiersStep, ListingStep DEF JobsKept

\* Every step keeps the range being cut equal to the keys listed since the last cut.
LEMMA CutStep ==
  ASSUME FleetInv, [Next]_vars
  PROVE  CutInv'
<1>0. /\ CutInv /\ TileInv /\ n \in Nat /\ curStart \in Nat /\ listed \in Nat /\ stopAt \in Nat
      /\ Kept \subseteq Nat /\ (outcome = "ok" => pc = "exit")
  BY ConstantsOK DEF FleetInv, TypeOK, Keys, PostInv
<1> DEFINE cv == <<pc, target, n, curStart, stopAt, listed, outcome>>
<1>1. CASE UNCHANGED cv
  BY <1>0, <1>1 DEF CutInv, Cutting, Restarting
<1>2. CASE pc' \in {"cancel", "exit"} /\ outcome' = "err"
  BY <1>2 DEF CutInv, Cutting, Restarting
<1>3. CASE ListKey
  <2>1. /\ pc = "list" /\ listed' = listed + 1 /\ curStart' = curStart /\ outcome' = outcome
        /\ curStart <= listed
    BY <1>0, <1>3 DEF ListKey, TileInv
  <2>2. CASE listed + 1 \in Kept /\ RangeFull(CurKeys \cup {listed + 1})
    <3>1. pc' = "wait" /\ stopAt' = listed + 1
      BY <1>3, <2>2 DEF ListKey, Cut
    <3>2. listed + 1 \in Nat /\ curStart < listed + 1 /\ listed + 1 <= listed + 1
      BY <1>0, <2>1
    <3>3. Window(curStart, listed + 1) # {} /\ Window(listed + 1, listed + 1) = {}
      BY <1>0, <2>2, <3>2, WindowHolds
    <3> QED BY <1>0, <2>1, <3>1, <3>2, <3>3 DEF CutInv, Cutting, Restarting
  <2>3. CASE ~(listed + 1 \in Kept /\ RangeFull(CurKeys \cup {listed + 1}))
    <3>1. pc' = "list"
      BY <1>3, <2>1, <2>3 DEF ListKey
    <3> QED BY <1>0, <2>1, <3>1 DEF CutInv, Cutting, Restarting
  <2> QED BY <2>2, <2>3
<1>4. CASE ListEnd
  <2>1. /\ pc = "list" /\ listed' = listed /\ curStart' = curStart /\ outcome' = outcome
    BY <1>4 DEF ListEnd
  <2>2. CASE RestKeys # {}
    <3>1. pc' = "wait" /\ stopAt' = Max(RestKeys)
      BY <1>4, <2>2 DEF ListEnd, Cut
    <3>2. RestKeys \subseteq 1..listed
      BY <1>0, WindowHolds DEF RestKeys, CurKeys
    <3>3. Max(RestKeys) \in RestKeys /\ \A y \in RestKeys : y <= Max(RestKeys)
      BY <1>0, <2>2, <3>2, MaxInSet
    <3>4. /\ Max(RestKeys) \in Kept /\ curStart < Max(RestKeys) /\ Max(RestKeys) <= listed
      BY <3>3 DEF RestKeys, CurKeys, Window
    <3>5. Window(curStart, Max(RestKeys)) # {}
      <4>1. Max(RestKeys) \in Nat
        BY <1>0, <3>4
      <4>2. Max(RestKeys) <= Max(RestKeys)
        BY <3>3
      <4> QED BY <1>0, <3>4, <4>1, <4>2, WindowHolds
    <3>6. Window(Max(RestKeys), listed) = {}
      <4> SUFFICES ASSUME NEW k \in Kept, Max(RestKeys) < k, k <= listed
                   PROVE  FALSE
        BY DEF Window
      <4>1. k \in Nat /\ Max(RestKeys) \in Nat
        BY <1>0, <3>4
      <4>2. k \in RestKeys
        BY <1>0, <3>4, <4>1 DEF RestKeys, CurKeys, Window
      <4> QED BY <3>3, <4>1, <4>2
    <3> QED BY <1>0, <2>1, <3>1, <3>4, <3>5, <3>6 DEF CutInv, Cutting, Restarting
  <2>3. CASE RestKeys = {}
    <3>1. pc' = "poll" /\ Window(curStart, listed) = {}
      BY <1>4, <2>3 DEF ListEnd, RestKeys, CurKeys
    <3> QED BY <1>0, <2>1, <3>1 DEF CutInv, Cutting, Restarting
  <2> QED BY <2>2, <2>3
<1>5. CASE SlotFree
  <2>1. /\ Cutting /\ pc = "wait" /\ pc' = "post" /\ target' = n' + 1
        /\ UNCHANGED <<n, curStart, stopAt, listed, outcome>>
    BY <1>5 DEF SlotFree, Cutting, listVars, fleet
  <2> QED BY <1>0, <2>1 DEF CutInv, Cutting, Restarting
<1>6. CASE Ack /\ target = n + 1
  <2>1. Cutting /\ pc = "post"
    BY <1>6 DEF Ack, Cutting
  <2>2. Window(stopAt, listed) = {}
    BY <1>0, <2>1 DEF CutInv
  <2>3. pc' \in {"poll", "list"} /\ curStart' = stopAt /\ listed' = listed /\ outcome' = outcome
    BY <1>6 DEF Ack, NextStart
  <2> QED BY <1>0, <2>1, <2>2, <2>3 DEF CutInv, Cutting, Restarting
<1>7. CASE Ack /\ target # n + 1
  <2>1. Restarting /\ pc = "post"
    BY <1>7 DEF Ack, Restarting
  <2>2. pc' = "respawn" /\ curStart' = curStart /\ listed' = listed /\ outcome' = outcome
    BY <1>7 DEF Ack, NextStart
  <2> QED BY <1>0, <2>1, <2>2 DEF CutInv, Cutting, Restarting
<1>8. CASE Respawn
  <2>1. target' # n + 1
    BY <1>8, <1>0, RespawnKeeps DEF FleetInv, TodoInv
  <2>2. pc = "respawn" /\ pc' = "post" /\ UNCHANGED <<n, curStart, listed, outcome>>
    BY <1>8 DEF Respawn, listVars
  <2> QED BY <1>0, <2>1, <2>2 DEF CutInv, Cutting, Restarting
<1>9. CASE \E S \in SUBSET Active(copiers) : Poll(S)
  <2>1. pc \in {"wait", "poll"}
    BY <1>9 DEF Poll, SlotPoll, MonitorPoll
  <2>2. UNCHANGED <<n, curStart, stopAt, listed, outcome>>
    BY <1>9 DEF Poll, SlotPoll, MonitorPoll, listVars
  <2>3. (pc = "wait" /\ pc' = "wait") \/ (pc = "poll" /\ pc' = "respawn")
    BY <1>9 DEF Poll, SlotPoll, MonitorPoll
  <2> QED BY <1>0, <2>1, <2>2, <2>3 DEF CutInv, Cutting, Restarting
<1>10. CASE MonitorAgain \/ MonitorEnd \/ VerifyOk
  <2>1. /\ pc \in {"respawn", "verify"} /\ pc' \in {"poll", "verify", "exit"}
        /\ UNCHANGED <<n, curStart, stopAt, listed>>
    BY <1>10 DEF MonitorAgain, MonitorEnd, VerifyOk, listVars, fleet
  <2> QED BY <1>0, <2>1 DEF CutInv, Cutting, Restarting
<1>11. CASE Exit
  <2>1. pc = "cancel" /\ pc' = "exit" /\ UNCHANGED <<n, curStart, stopAt, listed, outcome>>
    BY <1>11 DEF Exit, listVars, fleet
  <2> QED BY <1>0, <2>1 DEF CutInv, Cutting, Restarting
<1>12. CASE Signal \/ Die \/ ListFail \/ PostFail \/ MonitorFail \/ VerifyFail
  BY <1>2, <1>12 DEF Signal, Die, ListFail, PostFail, MonitorFail, VerifyFail, Fail, CancelActive
<1>13. CASE Post \/ Retry \/ Create \/ Refuse \/ PlannerJobEnds \/ Over \/ UNCHANGED vars
  BY <1>1, <1>13 DEF Post, Retry, Create, Refuse, PlannerJobEnds, Over, vars, listVars, fleet
<1>14. CASE \E j \in Running : Complete(j) \/ Break(j) \/ WatchStops(j)
  BY <1>1, <1>14 DEF Complete, Break, WatchStops, JobEnds, listVars, fleet
<1>15. CASE \E j \in canceling : CancelLands(j) \/ CancelMisses(j)
  BY <1>1, <1>15 DEF CancelLands, CancelMisses, listVars, fleet
<1> QED
  BY <1>3, <1>4, <1>5, <1>6, <1>7, <1>8, <1>9, <1>10, <1>11, <1>12, <1>13, <1>14, <1>15
     DEF Next, Plan

-----------------------------------------------------------------------------
(* Requests, failed ranges and Jobs.                                       *)

\* Every step keeps what is known of the POST in flight.
LEMMA PostStep ==
  ASSUME FleetInv, [Next]_vars
  PROVE  PostInv'
<1>0. /\ PostInv /\ n \in Nat /\ made \in 0..MaxJobs /\ target \in Nat
  BY ConstantsOK DEF FleetInv, TypeOK
<1>1. JobsGrow
  BY JobsStep
<1>2. CASE UNCHANGED <<pc, rpc, target, n, made, curStart, stopAt, copiers, outcome>>
  <2>1. rpc = "made" => made \in 1..made
    BY <1>0 DEF PostInv
  <2>2. Spec_of(target)' = Spec_of(target)
    BY <1>2 DEF Spec_of
  <2> QED BY <1>0, <1>1, <1>2, <2>1, <2>2 DEF PostInv, JobsGrow
<1>3. CASE Signal \/ Die \/ ListFail \/ PostFail \/ MonitorFail \/ VerifyFail
  <2>1. /\ pc' \in {"cancel", "exit"} /\ outcome' = "err" /\ UNCHANGED <<target, n>>
        /\ rpc' = IF rpc = "sent" THEN "sent" ELSE "idle"
    BY <1>3 DEF Signal, Die, ListFail, PostFail, MonitorFail, VerifyFail, Fail, CancelActive,
                DropRequest, fleet
  <2> QED BY <1>0, <2>1 DEF PostInv
<1>4. CASE Create
  <2>1. /\ target \in 1..n + 1 /\ made + 1 \in Jobs
        /\ rpc = "sent" /\ pc \in {"post", "cancel", "exit"}
    BY <1>0, <1>4, ConstantsOK DEF Create, PostInv, Jobs
  <2>2. /\ made' = made + 1 /\ jobs' = [jobs EXCEPT ![made + 1] = Spec_of(target)]
        /\ rpc' = (IF pc = "post" THEN "made" ELSE "idle")
        /\ UNCHANGED <<pc, target, n, copiers, curStart, stopAt, outcome>>
    BY <1>4 DEF Create, listVars, fleet
  <2>3. jobs'[made + 1] = Spec_of(target)
    BY <2>1, <2>2 DEF FleetInv, TypeOK
  <2>4. Spec_of(target).range = target /\ TypeOK
    BY <2>1, SpecTypes DEF FleetInv
  <2>5. Spec_of(target)' = Spec_of(target)
    BY <2>2 DEF Spec_of
  <2>6. made + 1 >= 1
    BY <1>0
  <2>7. jobs'[made'] = Spec_of(target)'
    BY <2>2, <2>3, <2>5
  <2>8. /\ made' >= 1 /\ jobs'[made'].range = target'
        /\ jobs'[made'].start = Spec_of(target)'.start
        /\ jobs'[made'].stop = Spec_of(target)'.stop
    BY <2>2, <2>4, <2>5, <2>6, <2>7
  <2> QED BY <1>0, <2>1, <2>2, <2>8 DEF PostInv
<1>5. CASE Post \/ Retry \/ Refuse
  BY <1>0, <1>5 DEF Post, Retry, Refuse, PostInv, fleet
<1>6. CASE SlotFree
  <2>1. /\ pc = "wait" /\ pc' = "post" /\ target' = n + 1
        /\ UNCHANGED <<rpc, n, outcome>>
    BY <1>6 DEF SlotFree, fleet
  <2> QED BY <1>0, <2>1 DEF PostInv
<1>7. CASE Ack
  <2>1. rpc' = "idle" /\ pc' # "post" /\ outcome' = outcome /\ pc = "post"
    BY <1>7 DEF Ack
  <2> QED BY <1>0, <2>1 DEF PostInv
<1>8. CASE Respawn
  <2>1. target' \in 1..n + 1
    BY <1>8, <1>0, RespawnKeeps DEF FleetInv, TodoInv
  <2>2. pc = "respawn" /\ pc' = "post" /\ UNCHANGED <<rpc, n, outcome>>
    BY <1>8 DEF Respawn
  <2> QED BY <1>0, <2>1, <2>2 DEF PostInv
<1>9. CASE ListKey \/ ListEnd \/ MonitorAgain \/ MonitorEnd \/ VerifyOk
           \/ (\E S \in SUBSET Active(copiers) : Poll(S))
  <2>1. /\ pc \in {"list", "wait", "poll", "respawn", "verify"}
        /\ pc' # "post" /\ rpc' = rpc /\ (outcome' # outcome => pc' = "exit")
    BY <1>9 DEF ListKey, ListEnd, MonitorAgain, MonitorEnd, VerifyOk, Poll, SlotPoll, MonitorPoll,
                Cut
  <2> QED BY <1>0, <2>1 DEF PostInv, FleetInv, TypeOK
<1>10. CASE Exit
  BY <1>0, <1>10 DEF Exit, PostInv, fleet
<1>11. CASE PlannerJobEnds \/ Over \/ UNCHANGED vars
  BY <1>2, <1>11 DEF PlannerJobEnds, Over, vars, listVars, fleet, hub
<1>12. CASE \E j \in Running : Complete(j) \/ Break(j) \/ WatchStops(j)
  BY <1>2, <1>12 DEF Complete, Break, WatchStops, JobEnds, listVars, fleet
<1>13. CASE \E j \in canceling : CancelLands(j) \/ CancelMisses(j)
  BY <1>2, <1>13 DEF CancelLands, CancelMisses, listVars, fleet, hub
<1> QED
  BY <1>3, <1>4, <1>5, <1>6, <1>7, <1>8, <1>9, <1>10, <1>11, <1>12, <1>13 DEF Next, Plan

\* Every step keeps the ranges to respawn failed ones with attempts left.
LEMMA TodoStep ==
  ASSUME FleetInv, [Next]_vars
  PROVE  TodoInv'
<1>0. /\ TodoInv /\ n \in Nat /\ copiers \in [Ranges -> CopierRecords] /\ 1..n \subseteq Ranges
  BY ConstantsOK DEF FleetInv, TypeOK, Ranges
<1>1. RangesKept
  BY CopiersStep
<1>2. JobsKept => \A i \in 1..n : copiers[i].stage = "ERROR" => copiers'[i].stage = "ERROR"
  BY DEF JobsKept, is_terminal, Ended
<1> DEFINE AttemptsKept == \A i \in 1..n : copiers'[i].attempts = copiers[i].attempts
<1>3. CASE JobsKept /\ AttemptsKept /\ UNCHANGED <<pc, target, todo>>
  <2>1. n' = n
    BY <1>3 DEF JobsKept
  <2>2. \A i \in todo : i \in 1..n /\ copiers'[i].stage = "ERROR"
    BY <1>0, <1>2, <1>3 DEF TodoInv
  <2>3. Restarting => target \in 1..n
    BY <1>0 DEF TodoInv
  <2> QED BY <1>0, <1>3, <2>1, <2>2, <2>3 DEF TodoInv, Restarting
<1>4. CASE JobsKept /\ todo' = todo /\ (pc' = "post" => target' = n + 1) /\ pc' # "respawn"
  <2>1. n' = n
    BY <1>4 DEF JobsKept
  <2>2. \A i \in todo : i \in 1..n /\ copiers'[i].stage = "ERROR"
    BY <1>0, <1>2, <1>4 DEF TodoInv
  <2> QED BY <1>0, <1>4, <2>1, <2>2 DEF TodoInv, Restarting
<1>5. CASE Respawn
  <2>1. /\ JobsKept /\ target' \in todo
        /\ \A i \in 1..n : copiers'[i].attempts
                             = copiers[i].attempts + (IF i = target' THEN 1 ELSE 0)
    BY <1>5, RespawnKeeps
  <2>2. pc = "respawn" /\ pc' = "post" /\ todo' = todo /\ n' = n
    BY <1>5 DEF Respawn
  <2>3. /\ \A i \in todo : i \in 1..n /\ copiers'[i].stage = "ERROR"
        /\ \A i \in todo : copiers[i].attempts < MAX_COPIER_ATTEMPTS
    BY <1>0, <1>2, <2>1, <2>2 DEF TodoInv
  <2>4. copiers[target'].attempts >= 1 /\ copiers[target'].attempts \in Int
    BY <1>0, <2>1, <2>3 DEF FleetInv, CopierInv, CopierRecords
  <2>5. copiers'[target'].attempts >= 2
    BY <2>1, <2>3, <2>4
  <2>6. \A i \in todo \ {target'} : copiers'[i].attempts < MAX_COPIER_ATTEMPTS
    <3> TAKE i \in todo \ {target'}
    <3>1. i \in 1..n /\ copiers[i].attempts < MAX_COPIER_ATTEMPTS /\ copiers[i].attempts \in Int
      BY <1>0, <2>3 DEF CopierRecords
    <3>2. copiers'[i].attempts = copiers[i].attempts + 0
      BY <2>1, <3>1
    <3> QED BY <3>1, <3>2
  <2> QED BY <2>1, <2>2, <2>3, <2>5, <2>6 DEF TodoInv
<1>6. CASE Ack /\ target # n + 1
  <2>1. /\ Restarting /\ pc' = "respawn" /\ todo' = todo \ {target} /\ n' = n
    BY <1>6 DEF Ack, Restarting
  <2>2. \A i \in todo \ {target} :
          i \in 1..n /\ copiers[i].stage = "ERROR" /\ copiers[i].attempts < MAX_COPIER_ATTEMPTS
    BY <1>0, <2>1 DEF TodoInv
  <2>3. \A i \in todo \ {target} : copiers'[i] = copiers[i]
    BY <1>6, <2>2, AckKeeps
  <2> QED BY <2>1, <2>2, <2>3 DEF TodoInv, Restarting
<1>7. CASE Ack /\ target = n + 1
  <2>1. pc' \in {"poll", "list"} /\ todo' = todo /\ n' = n + 1
    BY <1>7 DEF Ack
  <2>2. \A i \in todo : i \in 1..n /\ i # target /\ copiers[i].stage = "ERROR"
    BY <1>0, <1>7 DEF TodoInv
  <2>3. \A i \in todo : copiers'[i] = copiers[i] /\ i \in 1..n + 1
    BY <1>0, <1>7, <2>2, AckKeeps
  <2> QED BY <2>1, <2>2, <2>3 DEF TodoInv, Restarting
<1>8. CASE \E S \in SUBSET Active(copiers) : Poll(S)
  <2>1. PICK S \in SUBSET Active(copiers) : Poll(S)
    BY <1>8
  <2>2. CASE SlotPoll(S)
    <3>1. Refresh(S) /\ n' = n /\ UNCHANGED <<pc, target, todo>>
      BY <2>2 DEF SlotPoll
    <3>2. JobsKept /\ AttemptsKept
      BY <3>1, RefreshKeeps
    <3> QED BY <1>3, <3>1, <3>2
  <2>3. CASE MonitorPoll(S)
    <3>1. todo' = Respawnable(copiers') /\ pc' = "respawn" /\ n' = n
      BY <2>3 DEF MonitorPoll
    <3>2. \A i \in todo' : /\ i \in 1..n' /\ copiers'[i].stage = "ERROR"
                           /\ copiers'[i].attempts < MAX_COPIER_ATTEMPTS
      BY <3>1 DEF Respawnable, is_retryable_failure
    <3> QED BY <3>1, <3>2 DEF TodoInv, Restarting
  <2> QED BY <2>1, <2>2, <2>3 DEF Poll
<1>9. ~Ack /\ ~Respawn => JobsKept /\ AttemptsKept
  BY CopiersStep
<1>10. CASE ListKey \/ ListEnd \/ MonitorAgain \/ MonitorEnd \/ VerifyOk \/ SlotFree \/ Exit
  <2>1. pc # "post" /\ (pc = "respawn" => pc' # "post") /\ todo' = todo
        /\ (pc' = "post" => target' = n + 1) /\ pc' # "respawn"
    BY <1>10 DEF ListKey, ListEnd, MonitorAgain, MonitorEnd, VerifyOk, SlotFree, Exit, Cut
  <2>2. ~Ack /\ ~Respawn
    BY <2>1 DEF Ack, Respawn
  <2> QED BY <1>4, <1>9, <2>1, <2>2
<1>11. CASE Signal \/ Die \/ ListFail \/ PostFail \/ MonitorFail \/ VerifyFail
  <2>1. pc' \in {"cancel", "exit"} /\ todo' = todo
    BY <1>11 DEF Signal, Die, ListFail, PostFail, MonitorFail, VerifyFail, Fail, CancelActive
  <2>2. ~Ack /\ ~Respawn
    BY <2>1 DEF Ack, Respawn
  <2> QED BY <1>4, <1>9, <2>1, <2>2
<1>12. CASE UNCHANGED <<pc, target, todo>>
  <2>1. ~Ack /\ ~Respawn
    BY <1>12 DEF Ack, Respawn
  <2> QED BY <1>3, <1>9, <1>12, <2>1
<1>13. CASE Post \/ Retry \/ Create \/ Refuse \/ PlannerJobEnds \/ Over \/ UNCHANGED vars
  BY <1>12, <1>13 DEF Post, Retry, Create, Refuse, PlannerJobEnds, Over, vars
<1>14. CASE \E j \in Running : Complete(j) \/ Break(j) \/ WatchStops(j)
  BY <1>12, <1>14 DEF Complete, Break, WatchStops, JobEnds
<1>15. CASE \E j \in canceling : CancelLands(j) \/ CancelMisses(j)
  BY <1>12, <1>15 DEF CancelLands, CancelMisses
<1> QED
  BY <1>5, <1>6, <1>7, <1>8, <1>10, <1>11, <1>13, <1>14, <1>15 DEF Next, Plan

\* What the planner knows of each Job that still runs: `j` is a copier's Job.
Known(j) == jobs[j].range \in 1..n /\ copiers[jobs[j].range].job = j

\* The Job whose creation the planner is about to hear of.
Announced(j) == rpc = "made" /\ j = made /\ jobs[j].range = target

\* Every step keeps the Jobs accounted for.
LEMMA AccountStep ==
  ASSUME FleetInv, [Next]_vars
  PROVE  JobsInv'
<1>0. /\ JobsInv /\ n \in Nat /\ made \in 0..MaxJobs
      /\ 1..made \subseteq Jobs /\ jobs \in [Jobs -> JobRecords]
  BY ConstantsOK DEF FleetInv, TypeOK, Jobs
<1>1. JobsGrow
  BY JobsStep
<1>2. \A j \in 1..made : \/ j \in lost \/ jobs[j].stage # "RUNNING" \/ Known(j) \/ Announced(j)
  BY <1>0 DEF JobsInv, Known, Announced
<1>3. \A j \in 1..made : jobs'[j].start = jobs[j].start /\ jobs'[j].stop = jobs[j].stop
                         /\ jobs'[j].range = jobs[j].range
  BY <1>1 DEF JobsGrow
\* The Jobs that were made before the step and whose Job of the range is kept.
<1>4. JobsKept => \A j \in 1..made : Known(j) => Known(j)'
  BY <1>3 DEF Known, JobsKept
<1>5. ASSUME made' = made, JobsKept, lost \subseteq lost',
             rpc = "made" => (rpc' = "made" /\ target' = target) \/ made \in lost',
             \A j \in 1..made : jobs'[j].stage = "COMPLETED" /\ jobs[j].stage # "COMPLETED"
                => Window(jobs[j].start, jobs[j].stop) \subseteq dest'
      PROVE  JobsInv'
  <2> SUFFICES ASSUME NEW j \in 1..made
               PROVE  /\ jobs'[j].stage = "COMPLETED"
                           => Window(jobs'[j].start, jobs'[j].stop) \subseteq dest'
                      /\ j \in lost' \/ jobs'[j].stage # "RUNNING" \/ Known(j)' \/ Announced(j)'
    BY <1>5 DEF JobsInv, Known, Announced
  <2>1. jobs'[j].stage = "COMPLETED" => Window(jobs[j].start, jobs[j].stop) \subseteq dest'
    BY <1>0, <1>1, <1>5 DEF JobsInv, JobsGrow
  <2>2. jobs[j].stage # "RUNNING" => jobs'[j].stage # "RUNNING"
    BY <1>1 DEF JobsGrow
  <2>3. Announced(j) => j \in lost' \/ Announced(j)'
    BY <1>3, <1>5 DEF Announced
  <2> QED BY <1>2, <1>3, <1>4, <1>5, <2>1, <2>2, <2>3
<1>6. CASE Ack
  <2>1. /\ jobs' = jobs /\ made' = made /\ lost' = lost /\ dest' = dest
        /\ n' = (IF target = n + 1 THEN n + 1 ELSE n) /\ rpc = "made"
    BY <1>6 DEF Ack, hub
  <2>2. /\ \A i \in 1..n : i # target => copiers'[i] = copiers[i]
        /\ copiers'[target].job = made /\ target \in 1..n + 1
    BY <1>6, AckKeeps
  <2> SUFFICES ASSUME NEW j \in 1..made
               PROVE  j \in lost' \/ jobs'[j].stage # "RUNNING" \/ Known(j)' \/ Announced(j)'
    BY <1>0, <2>1 DEF JobsInv, Known, Announced
  <2>3. Announced(j) => Known(j)'
    BY <1>0, <2>1, <2>2 DEF Announced, Known
  <2>4. Known(j) /\ jobs[j].range # target => Known(j)'
    BY <1>0, <2>1, <2>2 DEF Known
  <2>5. Known(j) /\ jobs[j].range = target => jobs[j].stage # "RUNNING"
    <3> SUFFICES ASSUME Known(j), jobs[j].range = target
                 PROVE  jobs[j].stage # "RUNNING"
      OBVIOUS
    <3>1. target \in 1..n /\ target # n + 1 /\ copiers[target].job = j
      BY <1>0 DEF Known
    <3>2. copiers[target].stage = "ERROR"
      BY <1>6, <3>1 DEF Ack, FleetInv, TodoInv, Restarting
    <3> QED BY <3>1, <3>2 DEF FleetInv, CopierInv, is_terminal, Ended
  <2> QED BY <1>2, <2>1, <2>3, <2>4, <2>5
<1>7. CASE Create
  <2>1. rpc = "sent" /\ target \in 1..n + 1 /\ made + 1 \in Jobs
    BY <1>0, <1>7, ConstantsOK DEF Create, FleetInv, PostInv, Jobs
  <2>2. /\ made' = made + 1 /\ jobs' = [jobs EXCEPT ![made + 1] = Spec_of(target)]
        /\ rpc' = (IF pc = "post" THEN "made" ELSE "idle") /\ dest' = dest
        /\ lost' = (IF pc = "post" THEN lost ELSE lost \cup {made + 1})
        /\ UNCHANGED <<target, n, copiers>>
    BY <1>7 DEF Create, fleet
  <2>3. jobs'[made + 1] = Spec_of(target) /\ \A j \in 1..made : jobs'[j] = jobs[j]
    BY <1>0, <2>1, <2>2
  <2>4. Spec_of(target).range = target /\ Spec_of(target).stage = "RUNNING"
    BY <2>1, SpecTypes DEF FleetInv
  <2>5. PICK m : m = made + 1
    OBVIOUS
  <2>6. m \in lost' \/ Announced(m)'
    BY <2>2, <2>3, <2>4, <2>5 DEF Announced
  <2>7. jobs'[m].stage # "COMPLETED" /\ 1..made' = 1..made \cup {m}
    BY <1>0, <2>2, <2>3, <2>4, <2>5
  <2>8. \A j \in 1..made : ~Announced(j)
    BY <2>1 DEF Announced
  <2>9. ASSUME NEW j \in 1..made
        PROVE  /\ jobs'[j].stage = "COMPLETED"
                    => Window(jobs'[j].start, jobs'[j].stop) \subseteq dest'
               /\ j \in lost' \/ jobs'[j].stage # "RUNNING" \/ Known(j)'
    <3>1. Known(j) => Known(j)'
      BY <2>2, <2>3 DEF Known
    <3>2. j \in lost \/ jobs[j].stage # "RUNNING" \/ Known(j)
      BY <1>2, <2>8
    <3>3. jobs'[j] = jobs[j] /\ lost \subseteq lost' /\ dest' = dest
      BY <2>2, <2>3
    <3> QED BY <1>0, <3>1, <3>2, <3>3 DEF JobsInv
  <2> QED BY <2>6, <2>7, <2>9 DEF JobsInv, Known, Announced
<1>8. ~Ack => JobsKept
  BY CopiersStep
<1>9. CASE \E j \in Running : Complete(j) \/ Break(j) \/ WatchStops(j)
  <2>1. PICK j \in Running : Complete(j) \/ Break(j) \/ WatchStops(j)
    BY <1>9
  <2>2. made' = made /\ lost' = lost /\ rpc' = rpc /\ target' = target /\ pc' = pc /\ n' = n
        /\ copiers' = copiers
    BY <2>1 DEF Complete, Break, WatchStops, JobEnds, fleet
  <2>3. j \in 1..made /\ j \in Jobs
    BY <1>0 DEF Running
  <2>4. PICK v \in Stages, K \in SUBSET Keys :
          JobEnds(j, v, K) /\ (v = "COMPLETED" => K = Window(jobs[j].start, jobs[j].stop))
    <3>1. Window(jobs[j].start, jobs[j].stop) \subseteq Keys
      BY ConstantsOK DEF Window
    <3> QED BY <2>1, <3>1 DEF Complete, Break, WatchStops, Stages, Ended
  <2>5. jobs' = [jobs EXCEPT ![j].stage = v] /\ dest' = dest \cup K
    BY <2>4 DEF JobEnds
  <2>6. /\ \A k \in Jobs : k # j => jobs'[k].stage = jobs[k].stage
        /\ jobs'[j].stage = v
    BY <1>0, <2>3, <2>5, StageSet
  <2>7. \A k \in 1..made : jobs'[k].stage = "COMPLETED" /\ jobs[k].stage # "COMPLETED"
          => Window(jobs[k].start, jobs[k].stop) \subseteq dest'
    BY <1>0, <2>4, <2>5, <2>6
  <2>8. JobsKept
    BY <2>2 DEF JobsKept
  <2> QED BY <1>5, <2>2, <2>7, <2>8
<1>10. CASE \E j \in canceling : CancelLands(j) \/ CancelMisses(j)
  <2>1. PICK j \in canceling : CancelLands(j) \/ CancelMisses(j)
    BY <1>10
  <2>2. made' = made /\ lost' = lost /\ rpc' = rpc /\ target' = target /\ n' = n
        /\ copiers' = copiers
    BY <2>1 DEF CancelLands, CancelMisses, fleet, hub
  <2>3. j \in Jobs
    BY <1>0 DEF FleetInv, TypeOK
  <2>4. \A k \in 1..made : jobs'[k].stage = "COMPLETED" => jobs[k].stage = "COMPLETED"
    <3>1. CASE CancelMisses(j)
      BY <3>1 DEF CancelMisses, hub
    <3>2. CASE CancelLands(j)
      <4> DEFINE v == IF jobs[j].stage = "RUNNING" THEN "CANCELED" ELSE jobs[j].stage
      <4>1. v \in Stages /\ (v = "COMPLETED" => jobs[j].stage = "COMPLETED")
        BY <1>0, <2>3 DEF Stages, Ended, JobRecords
      <4>2. jobs' = [jobs EXCEPT ![j].stage = v]
        BY <3>2 DEF CancelLands
      <4> HIDE DEF v
      <4>3. /\ \A k \in Jobs : k # j => jobs'[k].stage = jobs[k].stage
            /\ jobs'[j].stage = v
        BY <1>0, <2>3, <4>1, <4>2, StageSet
      <4> QED BY <1>0, <4>1, <4>3
    <3> QED BY <2>1, <3>1, <3>2
  <2>5. JobsKept
    BY <2>2 DEF JobsKept
  <2> QED BY <1>5, <2>2, <2>4, <2>5
<1>11. ASSUME UNCHANGED <<made, jobs, lost, rpc, target>>, ~Ack
       PROVE  JobsInv'
  BY <1>5, <1>8, <1>11
<1>12. CASE Signal \/ Die \/ ListFail \/ PostFail \/ MonitorFail \/ VerifyFail
  <2>1. /\ UNCHANGED <<made, jobs, target>> /\ DropRequest /\ pc' \in {"cancel", "exit"}
    BY <1>12 DEF Signal, Die, ListFail, PostFail, MonitorFail, VerifyFail, Fail, CancelActive
  <2>2. ~Ack
    BY <2>1 DEF Ack
  <2>3. lost \subseteq lost' /\ (rpc = "made" => made \in lost')
    BY <2>1 DEF DropRequest
  <2> QED BY <1>5, <1>8, <2>1, <2>2, <2>3
<1>13. CASE Retry
  <2>1. /\ UNCHANGED <<made, jobs, target>> /\ lost \subseteq lost' /\ pc' = pc
        /\ (rpc = "made" => made \in lost')
    BY <1>13 DEF Retry
  <2>2. ~Ack
    BY <2>1 DEF Ack
  <2> QED BY <1>5, <1>8, <2>1, <2>2
<1>14. CASE \/ ListKey \/ ListEnd \/ MonitorAgain \/ MonitorEnd \/ VerifyOk \/ SlotFree \/ Exit
            \/ Respawn \/ Post \/ Refuse \/ (\E S \in SUBSET Active(copiers) : Poll(S))
  <2>1. rpc # "made" /\ UNCHANGED <<made, jobs, lost>>
    BY <1>14 DEF ListKey, ListEnd, MonitorAgain, MonitorEnd, VerifyOk, SlotFree, Exit, Respawn,
                 Post, Refuse, Poll, SlotPoll, MonitorPoll, hub, FleetInv, PostInv
  <2>2. ~Ack
    BY <2>1 DEF Ack
  <2> QED BY <1>5, <1>8, <2>1, <2>2
<1>15. CASE PlannerJobEnds \/ Over \/ UNCHANGED vars
  <2>1. UNCHANGED <<made, jobs, lost, rpc, target, pc>>
    BY <1>15 DEF PlannerJobEnds, Over, vars, hub
  <2>2. ~Ack
    BY <2>1 DEF Ack
  <2> QED BY <1>11, <2>1, <2>2
<1> QED
  BY <1>6, <1>7, <1>9, <1>10, <1>12, <1>13, <1>14, <1>15 DEF Next, Plan

\* Every step keeps the fleet of a planner that saw it end well.
LEMMA OkStep ==
  ASSUME FleetInv, [Next]_vars
  PROVE  OkInv'
<1>0. /\ OkInv /\ PostInv /\ TileInv /\ CutInv /\ n \in Nat /\ curStart \in Nat /\ listed \in Nat
  BY ConstantsOK DEF FleetInv, TypeOK
<1>1. JobsGrow /\ (~Ack => JobsKept)
  BY JobsStep, CopiersStep
<1>2. ASSUME pc = "verify" \/ outcome = "ok", ~Ack
      PROVE  n' = n /\ \A i \in 1..n : copiers'[i].stage \in {"COMPLETED", "DELETED"}
  BY <1>0, <1>1, <1>2 DEF OkInv, JobsKept, is_terminal, Ended
<1>3. ASSUME pc' = "verify" \/ outcome' = "ok" => pc = "verify" \/ outcome = "ok",
             outcome' = "ok" => outcome = "ok", listed' = listed, ~Ack
      PROVE  OkInv'
  BY <1>0, <1>1, <1>2, <1>3 DEF OkInv, JobsGrow
<1>4. ASSUME pc' # "verify", outcome' # "ok"
      PROVE  OkInv'
  BY <1>4 DEF OkInv
<1>5. CASE MonitorEnd
  <2>1. /\ Pending = {} /\ Failed \cup Canceled = {} /\ UNCHANGED <<n, copiers, listed>>
        /\ (outcome' = "ok" => ~Verify \/ outcome = "ok") /\ pc = "respawn"
    BY <1>5 DEF MonitorEnd, listVars, fleet
  <2>2. \A i \in 1..n : copiers[i].stage \in {"COMPLETED", "DELETED"}
    <3> TAKE i \in 1..n
    <3>1. is_terminal(copiers[i].stage)
      BY <2>1 DEF Pending, Active
    <3>2. copiers[i].stage # "CANCELED"
      BY <2>1 DEF Canceled
    <3>3. copiers[i].attempts \in Int
      BY ConstantsOK DEF FleetInv, TypeOK, Ranges, CopierRecords
    <3>4. copiers[i].stage # "ERROR"
      BY <2>1, <3>3 DEF Pending, Respawnable, Failed, is_retryable_failure, MAX_COPIER_ATTEMPTS
    <3> QED BY <3>1, <3>2, <3>4 DEF is_terminal, Ended
  <2>3. outcome # "ok"
    BY <1>0, <2>1 DEF PostInv
  <2> QED BY <2>1, <2>2, <2>3 DEF OkInv
<1>6. CASE VerifyOk
  <2>1. /\ Planned \subseteq dest /\ UNCHANGED <<n, copiers, listed, dest>> /\ pc = "verify"
    BY <1>6 DEF VerifyOk, listVars, fleet, hub
  <2>2. Planned = Window(0, curStart) /\ Window(curStart, listed) = {} /\ curStart <= listed
    BY <1>0, <2>1 DEF TileInv, CutInv
  <2>3. Window(0, curStart) \cup Window(curStart, listed) = Window(0, listed)
    BY <1>0, <2>2, WindowsJoin
  <2>4. Window(0, listed) \subseteq dest
    BY <2>1, <2>2, <2>3
  <2>5. \A i \in 1..n : copiers[i].stage \in {"COMPLETED", "DELETED"}
    BY <1>0, <2>1 DEF OkInv
  <2>6. Window(0, listed)' = Window(0, listed)
    BY <2>1 DEF Window
  <2> QED BY <2>1, <2>4, <2>5, <2>6 DEF OkInv
<1>7. CASE ListKey \/ ListEnd \/ MonitorAgain \/ SlotFree \/ Respawn \/ Post \/ Retry \/ Ack
           \/ (\E S \in SUBSET Active(copiers) : Poll(S))
  <2>1. pc \in {"list", "wait", "post", "poll", "respawn"} /\ pc' # "verify" /\ outcome' = outcome
    BY <1>7 DEF ListKey, ListEnd, MonitorAgain, SlotFree, Respawn, Post, Retry, Ack, Poll, SlotPoll,
                MonitorPoll, Cut
  <2> QED BY <1>0, <1>4, <2>1 DEF PostInv
<1>8. CASE Signal \/ Die \/ ListFail \/ PostFail \/ MonitorFail \/ VerifyFail
  BY <1>4, <1>8 DEF Signal, Die, ListFail, PostFail, MonitorFail, VerifyFail, Fail, CancelActive
<1>9. CASE Exit \/ Create \/ Refuse \/ PlannerJobEnds \/ Over \/ UNCHANGED vars
  <2>1. pc' = pc \/ pc' = "exit"
    BY <1>9 DEF Exit, Create, Refuse, PlannerJobEnds, Over, vars
  <2>2. ~Ack
    BY <1>9 DEF Exit, Create, Refuse, PlannerJobEnds, Over, vars, Ack
  <2>3. UNCHANGED <<outcome, listed>>
    BY <1>9 DEF Exit, Create, Refuse, PlannerJobEnds, Over, vars, listVars
  <2> QED BY <1>3, <2>1, <2>2, <2>3
<1>10. CASE \E j \in Running : Complete(j) \/ Break(j) \/ WatchStops(j)
  <2>1. UNCHANGED <<pc, outcome, listed>>
    BY <1>10 DEF Complete, Break, WatchStops, JobEnds, listVars
  <2>2. ~Ack
    BY <2>1 DEF Ack
  <2> QED BY <1>3, <2>1, <2>2
<1>11. CASE \E j \in canceling : CancelLands(j) \/ CancelMisses(j)
  <2>1. UNCHANGED <<pc, outcome, listed>>
    BY <1>11 DEF CancelLands, CancelMisses, listVars
  <2>2. ~Ack
    BY <2>1 DEF Ack
  <2> QED BY <1>3, <2>1, <2>2
<1> QED
  BY <1>5, <1>6, <1>7, <1>8, <1>9, <1>10, <1>11 DEF Next, Plan

-----------------------------------------------------------------------------
(* The invariant.                                                          *)

\* It holds when the planner starts.
LEMMA FleetStarts ==
  ASSUME Init
  PROVE  FleetInv
<1>1. NewCopier \in CopierRecords /\ NewJob \in JobRecords
  BY ConstantsOK DEF NewCopier, NewJob, NoJob, CopierRecords, JobRecords, Stages, Ended,
                     MAX_COPIER_ATTEMPTS
<1>2. copiers \in [Ranges -> CopierRecords] /\ jobs \in [Jobs -> JobRecords]
  BY <1>1 DEF Init
<1>3. closing \in BOOLEAN /\ signal \in BOOLEAN
  BY DEF Init
<1>4. TypeOK
  BY <1>2, <1>3, ConstantsOK DEF Init, TypeOK, Stages, Ended
<1>5. n = 0 /\ made = 0 /\ 1..0 = {}
  BY DEF Init
<1>6. Window(0, 0) = {} /\ Planned = {}
  BY <1>5, WindowHolds DEF Planned
<1>7. TileInv
  BY <1>5, <1>6 DEF Init, TileInv
<1>8. CutInv /\ PostInv /\ TodoInv /\ JobsInv /\ OkInv
  BY <1>5 DEF Init, CutInv, Cutting, Restarting, PostInv, TodoInv, JobsInv, OkInv
<1> QED BY <1>4, <1>5, <1>7, <1>8 DEF FleetInv, Init

\* Every step keeps it.
LEMMA FleetStep ==
  ASSUME FleetInv, [Next]_vars
  PROVE  FleetInv'
BY TypesStep, CopierStep, TileStep, CutStep, PostStep, TodoStep, AccountStep, OkStep DEF FleetInv

\* The invariant of the planner and its fleet: copiers, Jobs, ranges and requests
\* agree in every state of the code, whatever crashed, was lost or was canceled.
THEOREM FleetInvariant == Spec => []FleetInv
BY FleetStarts, FleetStep, PTL DEF Spec

\* Every variable of the planner and of HF Jobs keeps its type; no range is
\* attempted more often than MAX_COPIER_ATTEMPTS.
THEOREM FleetTypeCorrect == Spec => []TypeOK
<1>1. FleetInv => TypeOK
  BY DEF FleetInv
<1> QED BY <1>1, FleetInvariant, PTL

\* cut() and the final partial cut drop and duplicate no key: the ranges are
\* contiguous, none is empty, and they hold every kept key that was listed.
THEOREM EveryKeyIsPlanned == Spec => []RangesTile
<1>1. FleetInv => RangesTile
  <2> SUFFICES ASSUME FleetInv
               PROVE  RangesTile
    OBVIOUS
  <2>1. /\ TileInv /\ CutInv /\ curStart \in Nat /\ listed \in Nat
    BY ConstantsOK DEF FleetInv, TypeOK
  <2>2. Window(0, curStart) \cup Window(curStart, listed) = Window(0, listed)
    BY <2>1, WindowsJoin DEF TileInv
  <2>3. Window(curStart, listed) = {} => Planned = Window(0, listed)
    BY <2>1, <2>2 DEF TileInv
  <2> QED BY <2>1, <2>3 DEF TileInv, CutInv, RangesTile
<1> QED BY <1>1, FleetInvariant, PTL

\* Two Jobs never copy the same range at once, unless the creation of one was
\* hidden from the planner: a restart follows only a Job known to have ended.
THEOREM NoRangeCopiedTwice == Spec => []OneCopierPerRange
<1>1. FleetInv => OneCopierPerRange
  <2> SUFFICES ASSUME FleetInv, NEW j \in Running, NEW k \in Running, j # k,
                      jobs[j].range = jobs[k].range, j \notin lost, k \notin lost
               PROVE  FALSE
    BY DEF OneCopierPerRange
  <2>1. /\ j \in 1..made /\ jobs[j].stage = "RUNNING"
        /\ k \in 1..made /\ jobs[k].stage = "RUNNING" /\ n \in Nat
    BY ConstantsOK DEF Running, FleetInv, TypeOK
  <2>2. (Known(j) \/ Announced(j)) /\ (Known(k) \/ Announced(k))
    BY <2>1 DEF FleetInv, JobsInv, Known, Announced
  <2>3. ASSUME NEW a \in 1..made, NEW b, Known(a), Announced(b), jobs[a].range = jobs[b].range
        PROVE  jobs[a].stage # "RUNNING"
    <3>1. target \in 1..n /\ target # n + 1 /\ copiers[target].job = a /\ pc = "post"
      BY <2>1, <2>3 DEF Known, Announced, FleetInv, PostInv
    <3>2. copiers[target].stage = "ERROR"
      BY <3>1 DEF FleetInv, TodoInv, Restarting
    <3> QED BY <3>1, <3>2 DEF FleetInv, CopierInv, is_terminal, Ended
  <2>4. CASE Known(j) /\ Known(k)
    BY <2>4 DEF Known
  <2>5. CASE Announced(j) /\ Announced(k)
    BY <2>5 DEF Announced
  <2> QED BY <2>1, <2>2, <2>3, <2>4, <2>5
<1> QED BY <1>1, FleetInvariant, PTL

\* The planner returns Ok only when every range's Job ended well and, with the
\* destination check or when no Job was deleted, every kept key up to the limit is
\* at the destination.
THEOREM OkIsHonest == Spec => []OkMeansCopied
<1>1. FleetInv => OkMeansCopied
  <2> SUFFICES ASSUME FleetInv, outcome = "ok"
               PROVE  /\ \A i \in 1..n :
                           jobs[copiers[i].job].stage \notin {"CANCELED", "ERROR", "RUNNING"}
                      /\ \/ Window(0, listed) \subseteq dest
                         \/ ~Verify /\ \E i \in 1..n : copiers[i].stage = "DELETED"
    BY DEF OkMeansCopied
  <2>1. \A i \in 1..n : /\ copiers[i].stage \in {"COMPLETED", "DELETED"}
                        /\ jobs[copiers[i].job].stage = copiers[i].stage
    BY DEF FleetInv, OkInv, CopierInv, is_terminal, Ended
  <2>2. CASE Verify
    BY <2>1, <2>2 DEF FleetInv, OkInv
  <2>3. CASE ~Verify /\ \A i \in 1..n : copiers[i].stage # "DELETED"
    <3>1. \A i \in 1..n : Window(copiers[i].start, copiers[i].stop) \subseteq dest
      <4> TAKE i \in 1..n
      <4>1. CopierInv(i) /\ JobsInv
        BY DEF FleetInv
      <4>2. copiers[i].job \in 1..made /\ jobs[copiers[i].job].stage = "COMPLETED"
        BY <2>1, <2>3, <4>1 DEF CopierInv
      <4> QED BY <4>1, <4>2 DEF CopierInv, JobsInv
    <3>2. Planned \subseteq dest
      BY <3>1 DEF Planned
    <3>3. /\ Planned = Window(0, curStart) /\ Window(curStart, listed) = {}
          /\ curStart \in Nat /\ listed \in Nat /\ curStart <= listed
      BY ConstantsOK DEF FleetInv, TypeOK, TileInv, CutInv
    <3>4. Window(0, curStart) \cup Window(curStart, listed) = Window(0, listed)
      BY <3>3, WindowsJoin
    <3> QED BY <2>1, <3>2, <3>3, <3>4
  <2> QED BY <2>1, <2>2, <2>3
<1> QED BY <1>1, FleetInvariant, PTL

\* What a person canceled stays canceled: the planner never posts another Job for
\* the range, even when it has not yet seen the cancel.
THEOREM CancelIsRespected == Spec => CanceledStaysCanceled
<1>1. ASSUME FleetInv, [Next]_vars, NEW i \in 1..n, jobs[copiers[i].job].stage = "CANCELED"
      PROVE  copiers'[i].job = copiers[i].job
  <2>1. CASE Ack /\ i = target
    <3>1. target # n + 1 /\ pc = "post"
      BY <2>1, <1>1, ConstantsOK DEF Ack, FleetInv, TypeOK
    <3>2. copiers[i].stage = "ERROR"
      BY <1>1, <2>1, <3>1 DEF FleetInv, TodoInv, Restarting
    <3> QED BY <1>1, <3>2 DEF FleetInv, CopierInv, is_terminal, Ended
  <2>2. CASE Ack /\ i # target
    BY <1>1, <2>2, AckKeeps
  <2>3. CASE ~Ack
    BY <1>1, <2>3, CopiersStep DEF JobsKept
  <2> QED BY <2>1, <2>2, <2>3
<1>2. FleetInv /\ [Next]_vars
        => [\A i \in 1..n : copiers[i].job # NoJob /\ jobs[copiers[i].job].stage = "CANCELED"
              => copiers'[i].job = copiers[i].job]_vars
  BY <1>1
<1> QED BY <1>2, FleetInvariant, PTL DEF Spec, CanceledStaysCanceled

-----------------------------------------------------------------------------
(* The caps.                                                               *)

\* The active copiers are finitely many, and the commit-heavy ones are among them.
LEMMA ActiveFinite ==
  ASSUME n \in Nat
  PROVE  /\ IsFiniteSet(Active(copiers)) /\ IsFiniteSet(ActiveCommitHeavy)
         /\ Cardinality(Active(copiers)) \in Nat /\ Cardinality(ActiveCommitHeavy) \in Nat
<1>1. IsFiniteSet(1..n)
  BY FS_Interval
<1>2. Active(copiers) \subseteq 1..n /\ ActiveCommitHeavy \subseteq 1..n
  BY DEF Active, ActiveCommitHeavy
<1> QED BY <1>1, <1>2, FS_Subset, FS_CardinalityType

\* A step that adds no active copier keeps the caps.
LEMMA FewerActive ==
  ASSUME n \in Nat, JobsKept, RangesKept
  PROVE  /\ Cardinality(Active(copiers))' <= Cardinality(Active(copiers))
         /\ Cardinality(ActiveCommitHeavy)' <= Cardinality(ActiveCommitHeavy)
<1>1. \A i \in 1..n : ~is_terminal(copiers'[i].stage) => ~is_terminal(copiers[i].stage)
  BY DEF JobsKept, is_terminal
<1>2. Active(copiers)' \subseteq Active(copiers)
  BY <1>1 DEF Active, JobsKept
<1>3. ActiveCommitHeavy' \subseteq ActiveCommitHeavy
  BY <1>2 DEF ActiveCommitHeavy, RangesKept, Active
<1>4. IsFiniteSet(Active(copiers)) /\ IsFiniteSet(ActiveCommitHeavy)
  BY ActiveFinite
<1>5. Cardinality(Active(copiers)') <= Cardinality(Active(copiers))
  BY <1>2, <1>4, FS_Subset
<1>6. Cardinality(ActiveCommitHeavy') <= Cardinality(ActiveCommitHeavy)
  BY <1>3, <1>4, FS_Subset
<1> QED BY <1>5, <1>6

\* A new copier is one more.
LEMMA OneMoreActive ==
  ASSUME FleetInv, Ack, target = n + 1
  PROVE  /\ Cardinality(Active(copiers))' <= Cardinality(Active(copiers)) + 1
         /\ Cardinality(ActiveCommitHeavy)'
              <= Cardinality(ActiveCommitHeavy) + (IF CommitHeavy(CurKeys) THEN 1 ELSE 0)
<1>1. n \in Nat /\ n' = n + 1 /\ 1..n + 1 = 1..n \cup {n + 1} /\ \A i \in 1..n : i # n + 1
  BY ConstantsOK DEF FleetInv, TypeOK, Ack
<1>2. /\ \A i \in 1..n : copiers'[i] = copiers[i]
      /\ copiers'[n + 1].heavy = CommitHeavy(CurKeys)
  BY <1>1, AckKeeps
<1>3. Active(copiers)' \subseteq Active(copiers) \cup {n + 1}
  BY <1>1, <1>2 DEF Active
<1>4. ActiveCommitHeavy'
        \subseteq ActiveCommitHeavy \cup (IF CommitHeavy(CurKeys) THEN {n + 1} ELSE {})
  <2>1. \A i \in ActiveCommitHeavy' : i \in Active(copiers)' /\ copiers'[i].heavy
    BY DEF ActiveCommitHeavy
  <2>2. \A i \in Active(copiers) : i \in 1..n
    BY DEF Active
  <2> QED BY <1>2, <1>3, <2>1, <2>2 DEF ActiveCommitHeavy
<1>5. /\ IsFiniteSet(Active(copiers)) /\ IsFiniteSet(ActiveCommitHeavy)
      /\ Cardinality(Active(copiers)) \in Nat /\ Cardinality(ActiveCommitHeavy) \in Nat
  BY <1>1, ActiveFinite
<1>6. ASSUME NEW S, IsFiniteSet(S), NEW T, NEW x, T \subseteq S \cup {x}
      PROVE  Cardinality(T) <= Cardinality(S) + 1
  <2>1. /\ IsFiniteSet(S \cup {x}) /\ Cardinality(S) \in Nat
        /\ Cardinality(S \cup {x}) = Cardinality(S) \/ Cardinality(S \cup {x}) = Cardinality(S) + 1
    BY <1>6, FS_AddElement, FS_CardinalityType
  <2>2. Cardinality(T) <= Cardinality(S \cup {x}) /\ Cardinality(T) \in Nat
    BY <1>6, <2>1, FS_Subset, FS_CardinalityType
  <2> QED BY <2>1, <2>2
<1>7. Cardinality(Active(copiers)') <= Cardinality(Active(copiers)) + 1
  BY <1>3, <1>5, <1>6
<1>8. CASE CommitHeavy(CurKeys)
  <2>1. Cardinality(ActiveCommitHeavy') <= Cardinality(ActiveCommitHeavy) + 1
    BY <1>4, <1>5, <1>6, <1>8
  <2> QED BY <1>7, <1>8, <2>1
<1>9. CASE ~CommitHeavy(CurKeys)
  <2>1. ActiveCommitHeavy' \subseteq ActiveCommitHeavy
    BY <1>4, <1>9
  <2>2. Cardinality(ActiveCommitHeavy') <= Cardinality(ActiveCommitHeavy)
    BY <1>5, <2>1, FS_Subset
  <2> QED BY <1>5, <1>7, <1>9, <2>2
<1> QED BY <1>8, <1>9

\* The caps are numbers.
LEMMA CapTypes ==
  cap \in Nat /\ MAX_INFLIGHT_SMALL_FILE_COPIERS \in Nat
BY ConstantsOK DEF cap, AtLeastOne

\* Every step keeps the copiers the planner takes for active within the caps.
LEMMA CapStep ==
  ASSUME FleetInv, CapInv, [Next]_vars
  PROVE  CapInv'
<1>0. n \in Nat /\ n' \in Nat /\ copiers \in [Ranges -> CopierRecords] /\ 1..n \subseteq Ranges
  BY TypesStep, ConstantsOK DEF FleetInv, TypeOK, Ranges
<1>1. RangesKept
  BY CopiersStep
<1>2. /\ Cardinality(Active(copiers)) \in Nat /\ Cardinality(ActiveCommitHeavy) \in Nat
      /\ Cardinality(Active(copiers))' \in Nat /\ Cardinality(ActiveCommitHeavy)' \in Nat
  <2>1. /\ Cardinality(Active(copiers))' \in Nat /\ Cardinality(ActiveCommitHeavy)' \in Nat
    <3>1. IsFiniteSet(1..n')
      BY <1>0, FS_Interval
    <3>2. Active(copiers)' \subseteq 1..n' /\ ActiveCommitHeavy' \subseteq 1..n'
      BY DEF Active, ActiveCommitHeavy
    <3>3. IsFiniteSet(Active(copiers)') /\ IsFiniteSet(ActiveCommitHeavy')
      BY <3>1, <3>2, FS_Subset
    <3> QED BY <3>3, FS_CardinalityType
  <2> QED BY <1>0, <2>1, ActiveFinite
<1>3. \A i \in 1..n : copiers[i].attempts \in Int
  BY <1>0 DEF CopierRecords
<1>4. CASE Ack /\ target = n + 1
  <2>1. pc = "post" /\ pc' # "post" /\ n' = n + 1
    BY <1>4 DEF Ack
  <2>2. \A i \in 1..n : copiers'[i] = copiers[i] /\ i \in 1..n'
    BY <1>0, <1>4, <2>1, AckKeeps
  <2>3. FirstAttempts' => FirstAttempts
    BY <2>2 DEF FirstAttempts
  <2>4. FirstAttempts => /\ Cardinality(Active(copiers)) < cap
                         /\ Cardinality(ActiveCommitHeavy) <= MAX_INFLIGHT_SMALL_FILE_COPIERS
                         /\ CommitHeavy(CurKeys)
                              => Cardinality(ActiveCommitHeavy) < MAX_INFLIGHT_SMALL_FILE_COPIERS
    BY <1>2, <1>4, <2>1, CapTypes DEF CapInv, Blocked
  <2>5. /\ Cardinality(Active(copiers))' <= Cardinality(Active(copiers)) + 1
        /\ Cardinality(ActiveCommitHeavy)'
             <= Cardinality(ActiveCommitHeavy) + (IF CommitHeavy(CurKeys) THEN 1 ELSE 0)
    BY <1>4, OneMoreActive
  <2>6. FirstAttempts' => /\ Cardinality(Active(copiers))' <= cap
                          /\ Cardinality(ActiveCommitHeavy)' <= MAX_INFLIGHT_SMALL_FILE_COPIERS
    BY <1>2, <2>3, <2>4, <2>5, CapTypes
  <2> QED BY <2>1, <2>6 DEF CapInv, cap
<1>5. CASE Ack /\ target # n + 1
  <2>1. target \in 1..n /\ copiers[target].attempts >= 2 /\ n' = n
    BY <1>5 DEF Ack, FleetInv, TodoInv, Restarting
  <2>2. copiers'[target].attempts # 1
    BY <1>3, <1>5, <2>1, AckKeeps
  <2> QED BY <2>1, <2>2 DEF CapInv, FirstAttempts
<1>6. CASE Respawn
  <2>1. target' \in 1..n /\ copiers'[target'].attempts = copiers[target'].attempts + 1 /\ n' = n
    BY <1>6, RespawnKeeps DEF FleetInv, TodoInv, Respawn
  <2>2. copiers'[target'].attempts # 1
    BY <1>3, <2>1 DEF FleetInv, CopierInv
  <2> QED BY <2>1, <2>2 DEF CapInv, FirstAttempts
<1>7. ASSUME ~Ack, ~Respawn
      PROVE  FirstAttempts' => /\ Cardinality(Active(copiers))' <= cap
                               /\ Cardinality(ActiveCommitHeavy)'
                                    <= MAX_INFLIGHT_SMALL_FILE_COPIERS
  <2>1. JobsKept /\ \A i \in 1..n : copiers'[i].attempts = copiers[i].attempts
    BY <1>7, CopiersStep
  <2>2. FirstAttempts' => FirstAttempts
    BY <2>1 DEF FirstAttempts, JobsKept
  <2>3. /\ Cardinality(Active(copiers))' <= Cardinality(Active(copiers))
        /\ Cardinality(ActiveCommitHeavy)' <= Cardinality(ActiveCommitHeavy)
    BY <1>0, <1>1, <2>1, FewerActive
  <2> QED BY <1>2, <2>1, <2>2, <2>3, CapTypes DEF CapInv
<1>8. ASSUME ~Ack, ~Respawn, pc' = "post" /\ target' = n' + 1 => ~Blocked'
      PROVE  CapInv'
  BY <1>7, <1>8 DEF CapInv, cap
<1>9. ASSUME ~Ack, ~Respawn, pc = "post", UNCHANGED <<target, n, copiers, curStart, listed>>
      PROVE  CapInv'
  <2>1. Blocked' = Blocked
    BY <1>9 DEF Blocked, Active, ActiveCommitHeavy, CurKeys, Window, cap
  <2>2. FirstAttempts' => FirstAttempts
    BY <1>9 DEF FirstAttempts
  <2>3. FirstAttempts' => (pc' = "post" /\ target' = n' + 1 => ~Blocked')
    BY <1>9, <2>1, <2>2 DEF CapInv
  <2> QED BY <1>7, <1>9, <2>3 DEF CapInv, cap
<1>10. CASE SlotFree
  <2>1. ~Ack /\ ~Respawn
    BY <1>10 DEF SlotFree, Ack, Respawn
  <2>2. ~Blocked /\ UNCHANGED <<n, copiers, curStart, listed>>
    BY <1>10 DEF SlotFree, listVars, fleet
  <2>3. Blocked' = Blocked
    BY <2>2 DEF Blocked, Active, ActiveCommitHeavy, CurKeys, Window, cap
  <2> QED BY <1>8, <2>1, <2>2, <2>3
<1>11. CASE Post \/ Retry \/ Create \/ Refuse \/ PlannerJobEnds \/ Over \/ UNCHANGED vars
  <2>1. UNCHANGED <<pc, target, n, copiers, curStart, listed>>
    BY <1>11 DEF Post, Retry, Create, Refuse, PlannerJobEnds, Over, vars, listVars, fleet
  <2>2. ~Ack /\ ~Respawn
    BY <2>1 DEF Ack, Respawn
  <2> QED BY <1>8, <1>9, <2>1, <2>2
<1>12. CASE \E j \in Running : Complete(j) \/ Break(j) \/ WatchStops(j)
  <2>1. UNCHANGED <<pc, target, n, copiers, curStart, listed>>
    BY <1>12 DEF Complete, Break, WatchStops, JobEnds, listVars, fleet
  <2>2. ~Ack /\ ~Respawn
    BY <2>1 DEF Ack, Respawn
  <2> QED BY <1>8, <1>9, <2>1, <2>2
<1>13. CASE \E j \in canceling : CancelLands(j) \/ CancelMisses(j)
  <2>1. UNCHANGED <<pc, target, n, copiers, curStart, listed>>
    BY <1>13 DEF CancelLands, CancelMisses, listVars, fleet
  <2>2. ~Ack /\ ~Respawn
    BY <2>1 DEF Ack, Respawn
  <2> QED BY <1>8, <1>9, <2>1, <2>2
<1>14. CASE ListKey \/ ListEnd \/ MonitorAgain \/ MonitorEnd \/ VerifyOk \/ Exit
            \/ (\E S \in SUBSET Active(copiers) : SlotPoll(S))
  <2>1. pc # "post" /\ pc' # "post"
    BY <1>14 DEF ListKey, ListEnd, MonitorAgain, MonitorEnd, VerifyOk, Exit, SlotPoll, Cut
  <2>2. ~Ack /\ ~Respawn
    BY <2>1 DEF Ack, Respawn
  <2> QED BY <1>8, <2>1, <2>2
<1>15. CASE \E S \in SUBSET Active(copiers) : MonitorPoll(S)
  <2>1. pc = "poll" /\ pc' # "post"
    BY <1>15 DEF MonitorPoll
  <2>2. ~Ack /\ ~Respawn
    BY <2>1 DEF Ack, Respawn
  <2> QED BY <1>8, <2>1, <2>2
<1>16. CASE Signal \/ Die \/ ListFail \/ PostFail \/ MonitorFail \/ VerifyFail
  <2>1. pc' \in {"cancel", "exit"}
    BY <1>16 DEF Signal, Die, ListFail, PostFail, MonitorFail, VerifyFail, Fail, CancelActive
  <2>2. ~Ack /\ ~Respawn
    BY <2>1 DEF Ack, Respawn
  <2> QED BY <1>8, <2>1, <2>2
<1> QED
  BY <1>4, <1>5, <1>6, <1>10, <1>11, <1>12, <1>13, <1>14, <1>15, <1>16 DEF Next, Plan, Poll

\* Until the first respawn, the Jobs the planner knows stay within max_inflight, and
\* the commit-heavy ones within the destination's commit budget, for any cap:
\* stages that are out of date only make it wait longer.
THEOREM CapsHoldWhileListing == Spec => []ListingWithinCap
<1>1. Init => CapInv
  <2> SUFFICES ASSUME Init
               PROVE  CapInv
    OBVIOUS
  <2>1. n = 0 /\ pc = "list" /\ 1..0 = {}
    BY DEF Init
  <2>2. Active(copiers) = {} /\ ActiveCommitHeavy = {}
    BY <2>1 DEF Active, ActiveCommitHeavy
  <2> QED BY <2>1, <2>2, FS_EmptySet, CapTypes DEF CapInv
<1>2. FleetInv /\ CapInv /\ [Next]_vars => CapInv'
  BY CapStep
<1>3. FleetInv /\ CapInv => ListingWithinCap
  <2> SUFFICES ASSUME FleetInv, CapInv, FirstAttempts
               PROVE  LET known == {i \in 1..n : copiers[i].job \in Running}
                      IN  /\ Cardinality(known) <= cap
                          /\ Cardinality({i \in known : copiers[i].heavy})
                               <= MAX_INFLIGHT_SMALL_FILE_COPIERS
    BY DEF ListingWithinCap, FirstAttempts
  <2> DEFINE known == {i \in 1..n : copiers[i].job \in Running}
             heavy == {i \in known : copiers[i].heavy}
  <2>1. n \in Nat
    BY ConstantsOK DEF FleetInv, TypeOK
  <2>2. known \subseteq Active(copiers)
    BY DEF FleetInv, CopierInv, Active, Running, is_terminal, Ended
  <2>3. heavy \subseteq ActiveCommitHeavy
    BY <2>2 DEF ActiveCommitHeavy
  <2>4. /\ IsFiniteSet(Active(copiers)) /\ IsFiniteSet(ActiveCommitHeavy)
        /\ Cardinality(Active(copiers)) \in Nat /\ Cardinality(ActiveCommitHeavy) \in Nat
    BY <2>1, ActiveFinite
  <2> HIDE DEF known, heavy
  <2>5. /\ Cardinality(known) <= Cardinality(Active(copiers)) /\ Cardinality(known) \in Nat
        /\ Cardinality(heavy) <= Cardinality(ActiveCommitHeavy) /\ Cardinality(heavy) \in Nat
    BY <2>2, <2>3, <2>4, FS_Subset, FS_CardinalityType
  <2>6. /\ Cardinality(Active(copiers)) <= cap
        /\ Cardinality(ActiveCommitHeavy) <= MAX_INFLIGHT_SMALL_FILE_COPIERS
    BY DEF CapInv
  <2>7. Cardinality(known) <= cap /\ Cardinality(heavy) <= MAX_INFLIGHT_SMALL_FILE_COPIERS
    BY <2>4, <2>5, <2>6, CapTypes
  <2> QED BY <2>7 DEF known, heavy
<1> QED BY <1>1, <1>2, <1>3, FleetInvariant, PTL DEF Spec
=============================================================================
