--------------------------- MODULE SchedulerProofs ---------------------------
(***************************************************************************)
(* Proofs about Scheduler for every set of runs, sessions and resources,   *)
(* every slot and waiting limit, and every environment: first that the     *)
(* state keeps its types, then the safety properties, from one inductive   *)
(* invariant in three layers, last that it implements WorkloadQueue.       *)
(***************************************************************************)
EXTENDS Scheduler, TLAPS, FiniteSetTheorems

-----------------------------------------------------------------------------

(* Refresh keeps the registry well formed. *)
LEMMA RefreshType ==
  ASSUME NEW reg \in [Runs -> Job]
  PROVE  Refresh(reg) \in [Runs -> Job]
<1>1. \A r \in Runs : Group(r) \in SUBSET Parts
  BY DEF Group
<1>2. NoJob \in Job
  BY DEF NoJob, Job
<1>3. \A r \in Runs : Refreshed(reg, r) \in Job
  BY <1>1 DEF Refreshed, Job
<1> QED
  BY <1>2, <1>3 DEF Refresh

(* A killed part changes processes only within their types. *)
LEMMA KillType ==
  ASSUME TypeOK, NEW r \in Runs, NEW S, Kill(r, S)
  PROVE  /\ leader' \in [Runs -> Leader]
         /\ helper' \in [Runs -> BOOLEAN] /\ foreign' \in [Runs -> BOOLEAN]
<1>1. leader' \in [Runs -> Leader]
  BY DEF TypeOK, Kill, Leader
<1>2. helper' \in [Runs -> BOOLEAN]
  BY Zenon DEF TypeOK, Kill
<1>3. foreign' \in [Runs -> BOOLEAN]
  BY Zenon DEF TypeOK, Kill
<1> QED
  BY <1>1, <1>2, <1>3

LEMMA ReapType ==
  ASSUME TypeOK, NEW r \in Runs, Reap(r)
  PROVE  leader' \in [Runs -> Leader]
BY DEF TypeOK, Reap, Leader

(* Control stays within its labels, and a left run's variables are blank. *)
LEMMA GotoType ==
  ASSUME TypeOK, NEW r \in Runs, NEW label \in PC, Goto(r, label)
  PROVE  pc' \in [Runs -> PC] /\ exit' \in [Runs -> Exits]
BY DEF TypeOK, Goto

LEMMA LeaveType ==
  ASSUME TypeOK, NEW r \in Runs, NEW label \in PC, NEW how \in Exits,
         Leave(r, label, how)
  PROVE  pc' \in [Runs -> PC] /\ exit' \in [Runs -> Exits] /\ local' \in [Runs -> Local]
<1>1. Blank \in Local
  BY DEF Blank, Local
<1> QED
  BY <1>1 DEF TypeOK, Leave

(* Updates of a supervisor's variables. *)
LEMMA LocalType ==
  ASSUME TypeOK, NEW r \in Runs, NEW S \in SUBSET Parts, NEW x \in BOOLEAN
  PROVE  /\ [local EXCEPT ![r].sampled = x] \in [Runs -> Local]
         /\ [local EXCEPT ![r].result = x] \in [Runs -> Local]
         /\ [local EXCEPT ![r].waited = TRUE, ![r].sampled = FALSE] \in [Runs -> Local]
         /\ [local EXCEPT ![r].seen = S] \in [Runs -> Local]
         /\ [local EXCEPT ![r].seen = S, ![r].result = x] \in [Runs -> Local]
         /\ [local EXCEPT ![r].termed = S, ![r].seen = {}] \in [Runs -> Local]
<1>1. local \in [Runs -> Local] /\ {} \in SUBSET Parts
  BY DEF TypeOK
<1>2. /\ [local[r] EXCEPT !.sampled = x] \in Local
      /\ [local[r] EXCEPT !.result = x] \in Local
      /\ [local[r] EXCEPT !.seen = S] \in Local
  BY <1>1 DEF Local
<1>3. /\ [[local[r] EXCEPT !.waited = TRUE] EXCEPT !.sampled = FALSE] \in Local
      /\ [[local[r] EXCEPT !.seen = S] EXCEPT !.result = x] \in Local
      /\ [[local[r] EXCEPT !.termed = S] EXCEPT !.seen = {}] \in Local
  BY <1>1 DEF Local
<1> QED
  BY <1>1, <1>2, <1>3

LEMMA UnlockType ==
  ASSUME Unlock
  PROVE  lock' \in Runs \cup {Free} /\ data' \in [Runs -> Job]
BY DEF Unlock, NoJobs, NoJob, Job

LEMMA InitType == Init => TypeOK
<1> SUFFICES ASSUME Init PROVE TypeOK
  OBVIOUS
<1>1. jobs \in [Runs -> Job] /\ data \in [Runs -> Job]
  BY DEF Init, NoJobs, NoJob, Job
<1>2. pc \in [Runs -> PC] /\ exit \in [Runs -> Exits] /\ leader \in [Runs -> Leader]
  BY DEF Init, PC, Exits, Leader
<1>3. local \in [Runs -> Local]
  BY DEF Init, Local, Blank
<1>4. helper \in [Runs -> BOOLEAN] /\ foreign \in [Runs -> BOOLEAN]
  BY DEF Init
<1> QED
  BY <1>1, <1>2, <1>3, <1>4 DEF Init, TypeOK

(* Every step keeps the type invariant. *)
LEMMA StepType ==
  ASSUME TypeOK, NEW r \in Runs, Step(r)
  PROVE  TypeOK'
<1> USE DEF PC, Queueing, Launching, Supervising, Ended, Exits, registry, workload, history
<1>1. CASE Register(r)
  <2>1. Refresh(jobs) \in [Runs -> Job] /\ Entry(Refresh(jobs)) \in Job
    BY RefreshType DEF TypeOK, Entry, Job, Waiting
  <2> QED
    BY <1>1, <2>1, GotoType DEF Register, TypeOK
<1>2. CASE RunNatively(r)
  BY <1>2, LeaveType DEF RunNatively, TypeOK
<1>3. CASE GiveUp(r)
  BY <1>3, LeaveType DEF GiveUp, GivesUp, TypeOK
<1>4. CASE Sample(r)
  <2> DEFINE x == ~paused
  <2>1. x \in BOOLEAN
    BY DEF TypeOK
  <2>2. local' \in [Runs -> Local]
    <3>1. local' = [local EXCEPT ![r].sampled = x]
      BY <1>4 DEF Sample
    <3> HIDE DEF x
    <3>2. [local EXCEPT ![r].sampled = x] \in [Runs -> Local]
      BY <2>1, LocalType
    <3> QED
      BY <3>1, <3>2
  <2> QED
    BY <1>4, <2>2, GotoType DEF Sample, TypeOK
<1>5. CASE AdmitUnavailable(r)
  <2>1. local' \in [Runs -> Local]
    BY <1>5, LocalType DEF AdmitUnavailable
  <2> QED
    BY <1>5, <2>1, GotoType DEF AdmitUnavailable, TypeOK
<1>6. CASE Claim(r)
  <2>1. Refresh(jobs) \in [Runs -> Job]
    BY RefreshType DEF TypeOK
  <2> QED
    BY <1>6, <2>1, LeaveType DEF Claim, TypeOK
<1>7. CASE DecideTooLate(r)
  BY <1>7, LeaveType DEF DecideTooLate, GivesUp, TypeOK
<1>8. CASE Allow(r)
  <2>1. Refresh(jobs) \in [Runs -> Job]
    BY RefreshType DEF TypeOK
  <2>2. local' \in [Runs -> Local]
    BY <1>8 DEF Allow, TypeOK, Local, Blank
  <2>3. bypass' \in SUBSET Runs
    BY <1>8 DEF Allow, TypeOK
  <2> QED
    BY <1>8, <2>1, <2>2, <2>3, GotoType DEF Allow, TypeOK
<1>9. CASE Deny(r)
  <2>1. Refresh(jobs) \in [Runs -> Job]
    BY RefreshType DEF TypeOK
  <2>2. pc' \in [Runs -> PC] /\ exit' \in [Runs -> Exits] /\ local' \in [Runs -> Local]
    <3>1. CASE Leave(r, "retire", "expired")
      BY <3>1, LeaveType
    <3>2. CASE /\ Goto(r, "sample")
               /\ local' = [local EXCEPT ![r].waited = TRUE, ![r].sampled = FALSE]
      BY <3>2, GotoType, LocalType
    <3> QED
      BY <1>9, <3>1, <3>2 DEF Deny
  <2> QED
    BY <1>9, <2>1, <2>2 DEF Deny, TypeOK
<1>10. CASE Fork(r)
  BY <1>10, GotoType DEF Fork, TypeOK, Leader
<1>11. CASE Publish(r)
  <2>1. jobs' \in [Runs -> Job]
    <3>1. data \in [Runs -> Job]
      BY DEF TypeOK
    <3>2. [[data[r] EXCEPT !.status = "running"] EXCEPT !.members = {"leader"}] \in Job
      BY <3>1 DEF Job, Parts
    <3> QED
      BY <1>11, <3>1, <3>2 DEF Publish
  <2>2. later' \in SUBSET (Sessions \X Sessions)
    <3>1. later \subseteq Sessions \X Sessions /\ SessionOf[r] \in Sessions
      BY RotationAssumption DEF TypeOK
    <3>2. {<<t, SessionOf[r]>> : t \in Sessions \ {SessionOf[r]}} \subseteq Sessions \X Sessions
      BY <3>1
    <3> QED
      BY <1>11, <3>1, <3>2 DEF Publish, RecordTurn
  <2> QED
    BY <1>11, <2>1, <2>2, GotoType DEF Publish, TypeOK
<1>12. CASE Open(r)
  <2>1. leader' \in [Runs -> Leader] /\ ran' \in SUBSET Runs
    BY <1>12 DEF Open, TypeOK, Leader
  <2> QED
    BY <1>12, <2>1, GotoType, UnlockType DEF Open, TypeOK
<1>13. CASE Poll(r)
  <2>1. local' \in [Runs -> Local]
    <3>1. Exited(r) \in BOOLEAN
      BY DEF Exited, TypeOK, Local
    <3> QED
      BY <1>13, <3>1, LocalType DEF Poll
  <2> QED
    BY <1>13, <2>1, GotoType, ReapType DEF Poll, TypeOK
<1>14. CASE Observe(r)
  <2>1. Refresh(jobs) \in [Runs -> Job]
    BY RefreshType DEF TypeOK
  <2>2. local[r].cancelled \in BOOLEAN /\ Exited(r) \in BOOLEAN
    BY DEF TypeOK, Local, Exited
  <2>3. jobs' \in [Runs -> Job]
    BY <1>14, <2>1, <2>2 DEF Observe, Job
  <2>4. local' \in [Runs -> Local]
    <3>1. Refresh(jobs)[r].members \in SUBSET Parts
      BY <2>1 DEF Job
    <3>2. PICK result \in {local[r].result, Exited(r)} :
            local' = [local EXCEPT ![r].seen = Refresh(jobs)[r].members,
                                   ![r].result = result]
      BY <1>14 DEF Observe
    <3>3. result \in BOOLEAN
      BY <2>2 DEF TypeOK, Local
    <3> QED
      BY <3>1, <3>2, <3>3, LocalType
  <2>5. leader' \in [Runs -> Leader]
    BY <1>14, ReapType DEF Observe, TypeOK
  <2> QED
    BY <1>14, <2>3, <2>4, <2>5, GotoType DEF Observe, TypeOK
<1>15. CASE React(r)
  <2>1. pc' \in [Runs -> PC] /\ exit' \in [Runs -> Exits] /\ local' \in [Runs -> Local]
    <3>1. CASE \E how \in Exits : Leave(r, "cleanup", how)
      BY <3>1, LeaveType
    <3>2. CASE Goto(r, "bridge") /\ UNCHANGED local
      BY <3>2, GotoType DEF TypeOK
    <3>3. CASE Goto(r, "poll") /\ local' = [local EXCEPT ![r].seen = {}]
      BY <3>3, GotoType, LocalType
    <3> QED
      BY <1>15, <3>1, <3>2, <3>3 DEF React
  <2> QED
    BY <1>15, <2>1 DEF React, TypeOK
<1>16. CASE BridgePaused(r)
  BY <1>16, LeaveType DEF BridgePaused, TypeOK
<1>17. CASE BridgeTerm(r)
  <2>1. PICK dying \in SUBSET Targets(r) :
          /\ Kill(r, dying)
          /\ local' = [local EXCEPT ![r].termed = Targets(r) \ dying, ![r].seen = {}]
    BY <1>17 DEF BridgeTerm
  <2>2. Targets(r) \ dying \in SUBSET Parts
    BY DEF Targets, Authorized, Group
  <2>3. local' \in [Runs -> Local]
    BY <2>1, <2>2, LocalType
  <2> QED
    BY <1>17, <2>1, <2>3, GotoType, KillType DEF BridgeTerm, TypeOK
<1>18. CASE BridgeRefused(r)
  BY <1>18, GotoType, LocalType DEF BridgeRefused, TypeOK
<1>19. CASE Escalate(r)
  BY <1>19, LeaveType, KillType DEF Escalate, TypeOK
<1>20. CASE Cleanup(r)
  <2>1. Refresh(jobs) \in [Runs -> Job] /\ NoJob \in Job
    BY RefreshType DEF TypeOK, NoJob, Job
  <2>2. jobs' \in [Runs -> Job]
    BY <1>20, <2>1 DEF Cleanup
  <2>3. local' \in [Runs -> Local]
    BY <1>20 DEF Cleanup, End, Blank, TypeOK, Local
  <2> QED
    BY <1>20, <2>2, <2>3, GotoType, ReapType DEF Cleanup, End, TypeOK
<1>21. CASE Retire(r)
  <2>1. jobs' \in [Runs -> Job]
    BY <1>21 DEF Retire, TypeOK, NoJob, Job
  <2>2. local' \in [Runs -> Local]
    BY <1>21 DEF Retire, End, Blank, TypeOK, Local
  <2> QED
    BY <1>21, <2>1, <2>2, GotoType, ReapType DEF Retire, End, TypeOK
<1> QED
  BY <1>1, <1>2, <1>3, <1>4, <1>5, <1>6, <1>7, <1>8, <1>9, <1>10, <1>11, <1>12,
     <1>13, <1>14, <1>15, <1>16, <1>17, <1>18, <1>19, <1>20, <1>21 DEF Step

LEMMA FailureType ==
  ASSUME TypeOK, NEW r \in Runs, Failure(r)
  PROVE  TypeOK'
<1> USE DEF PC, Queueing, Launching, Supervising, Ended, Exits, registry, workload, history
<1>1. CASE RegisterFails(r)
  BY <1>1, LeaveType DEF RegisterFails, TypeOK
<1>2. CASE DecideFails(r)
  BY <1>2, LeaveType DEF DecideFails, TypeOK
<1>3. CASE LaunchFails(r)
  BY <1>3, LeaveType, UnlockType DEF LaunchFails, TypeOK
<1>4. CASE ObserveFails(r)
  BY <1>4, LeaveType DEF ObserveFails, TypeOK
<1>5. CASE LeaveUncleaned(r)
  <2>1. local' \in [Runs -> Local]
    BY <1>5 DEF LeaveUncleaned, End, Blank, TypeOK, Local
  <2> QED
    BY <1>5, <2>1, GotoType, ReapType DEF LeaveUncleaned, End, TypeOK
<1>6. CASE Crash(r)
  <2>1. lock' \in Runs \cup {Free} /\ data' \in [Runs -> Job]
    BY <1>6, UnlockType DEF Crash, TypeOK
  <2> QED
    BY <1>6, <2>1, LeaveType, ReapType DEF Crash, TypeOK
<1> QED
  BY <1>1, <1>2, <1>3, <1>4, <1>5, <1>6 DEF Failure

LEMMA EnvironmentType ==
  ASSUME TypeOK, NEW r \in Runs,
         Signal(r) \/ Expire(r) \/ Workload(r) \/ Recycled(r)
  PROVE  TypeOK'
<1> USE DEF registry, workload, history
<1>1. CASE Signal(r)
  BY <1>1 DEF Signal, TypeOK, Local
<1>2. CASE Expire(r)
  BY <1>2 DEF Expire, TypeOK, Local
<1>3. CASE LeaderForks(r)
  BY <1>3 DEF LeaderForks, TypeOK
<1>4. CASE LeaderExits(r) \/ GatedExits(r) \/ HelperExits(r) \/ ForeignExits(r)
  BY <1>4, KillType DEF LeaderExits, GatedExits, HelperExits, ForeignExits, TypeOK
<1>5. CASE GroupRecycled(r)
  BY <1>5 DEF GroupRecycled, TypeOK
<1>6. CASE PidRecycled(r)
  BY <1>6 DEF PidRecycled, TypeOK
<1> QED
  BY <1>1, <1>2, <1>3, <1>4, <1>5, <1>6 DEF Workload, Recycled

(* The registry, the lock, the supervisors' variables and the processes    *)
(* always have their types.                                                *)
THEOREM TypeCorrect == Spec => []TypeOK
<1>1. TypeOK /\ [Next]_vars => TypeOK'
  <2> SUFFICES ASSUME TypeOK, [Next]_vars PROVE TypeOK'
    OBVIOUS
  <2>1. CASE TogglePause
    BY <2>1 DEF TogglePause, TypeOK, registry, workload, history
  <2>2. ASSUME NEW r \in Runs,
               Step(r) \/ Failure(r) \/ Signal(r) \/ Expire(r) \/ Workload(r) \/ Recycled(r)
        PROVE  TypeOK'
    BY <2>2, StepType, FailureType, EnvironmentType
  <2>3. CASE UNCHANGED vars
    BY <2>3 DEF vars, TypeOK, registry, workload, history
  <2> QED
    BY <2>1, <2>2, <2>3 DEF Next
<1> QED
  BY <1>1, InitType, PTL DEF Spec

-----------------------------------------------------------------------------
(***************************************************************************)
(* The inductive invariant, in three layers.  Controlled relates a         *)
(* supervisor's control point, the lock and its process; Registered        *)
(* relates them to the registry on disk and to the copy that the holder of *)
(* the lock is about to save; Rationed counts the capacity both of them    *)
(* give away.                                                              *)
(***************************************************************************)
Control(r) ==
  /\ lock = r <=> pc[r] \in Launching
  /\ pc[r] \in {"idle", "launch"} \cup Queueing => leader[r] = "none"
  /\ pc[r] \in {"idle"} \cup Queueing \cup Launching \cup (Supervising \ {"cleanup"})
       => exit[r] = "none"
  /\ Works(r) => r \in ran
  /\ r \in ran => pc[r] \in Supervising \cup {"done", "crashed"}
  /\ r \in ran => exit[r] \notin {"expired", "claimed"}
  /\ local[r].result => leader[r] = "gone"
Controlled == \A r \in Runs : Control(r)

\* reg has the entry that r's supervisor and r's command need.
Kept(reg, r) ==
  /\ pc[r] \in Queueing \cup {"launch", "forked"} => reg[r].status = "waiting"
  /\ pc[r] \in Supervising => reg[r].status = "running"
  /\ Works(r) => reg[r].status = "running"

Registration(r) ==
  /\ Kept(jobs, r)
  /\ lock # Free => Kept(data, r)
  /\ pc[r] = "idle" => jobs[r].status = "absent"
  /\ pc[r] = "published" => jobs[r].status = "running"
  /\ lock \in Runs /\ pc[lock] # "published" => data[r].status \in {jobs[r].status, "absent"}
  /\ exit[r] = "finished" => leader[r] = "gone" /\ ~helper[r]
  /\ pc[r] = "react" /\ local[r].result /\ local[r].seen = {} => ~helper[r]
Registered == \A r \in Runs : Registration(r)

\* Running entries that use up a slot; those that hold r's resource.
Counted(reg) == FiniteRunning(reg) \ bypass
Exclusive(reg) ==
  \A q, r \in Running(reg) \ Finite : ResourceOf[q] = ResourceOf[r] => q = r

Rationed ==
  /\ Cardinality(Counted(jobs)) <= MaxJobs
  /\ Exclusive(jobs)
  /\ \A r \in Runs : pc[r] \in {"launch", "forked"} =>
       /\ Cardinality(Counted(data)) <= MaxJobs
       /\ r \in Finite \ bypass => Cardinality(Counted(data)) < MaxJobs
       /\ Exclusive(data)
       /\ Holders(data, r) = {}

-----------------------------------------------------------------------------
(* Control. *)
LEMMA InitControlled == Init => Controlled
BY SchedulerAssumption
   DEF Init, Controlled, Control, Launching, Supervising, Queueing, Works, Blank

\* React touches nothing but its own run's control, and reports the command's status
\* only when it has one and has seen the group empty.
LEMMA Reacted ==
  ASSUME TypeOK, NEW r \in Runs, React(r)
  PROVE  /\ \A q \in Runs \ {r} : pc'[q] = pc[q] /\ exit'[q] = exit[q] /\ local'[q] = local[q]
         /\ pc[r] = "react" /\ pc'[r] \in {"poll", "bridge", "cleanup"}
         /\ pc'[r] # "cleanup" => exit'[r] = exit[r]
         /\ pc'[r] = "cleanup" => exit'[r] \in {"cancelled", "finished"}
         /\ exit'[r] = "finished" /\ pc'[r] = "cleanup" => local[r].result /\ local[r].seen = {}
         /\ local'[r].result => local[r].result
         /\ UNCHANGED <<paused, lock, registry, data, workload, history>>
<1>0. pc \in [Runs -> PC] /\ exit \in [Runs -> Exits] /\ local \in [Runs -> Local]
  BY DEF TypeOK
<1>1. CASE Leave(r, "cleanup", "cancelled")
  BY <1>0, <1>1 DEF React, Leave, Blank
<1>2. CASE Leave(r, "cleanup", "finished") /\ local[r].result /\ local[r].seen = {}
  BY <1>0, <1>2 DEF React, Leave, Blank
<1>3. CASE Goto(r, "bridge") /\ UNCHANGED local
  BY <1>0, <1>3 DEF React, Goto
<1>4. CASE Goto(r, "poll") /\ local' = [local EXCEPT ![r].seen = {}]
  BY <1>0, <1>4 DEF React, Goto, Local
<1> QED
  BY <1>1, <1>2, <1>3, <1>4 DEF React

(* What a step of a run does to the control part of the runs.  In every    *)
(* case the other runs keep theirs: only the lock is shared.               *)
LEMMA StepControlled ==
  ASSUME TypeOK, Controlled, NEW r \in Runs, Step(r)
  PROVE  Controlled'
<1> SUFFICES ASSUME NEW q \in Runs PROVE Control(q)'
  BY DEF Controlled
<1> USE SchedulerAssumption DEF Launching, Supervising, Queueing, Ended, Works, registry, workload, history
<1>0. Control(q) /\ Control(r)
  BY DEF Controlled
<1>1. CASE Register(r)
  BY <1>0, <1>1 DEF Register, Control, Goto, TypeOK
<1>2. CASE RunNatively(r)
  BY <1>0, <1>2 DEF RunNatively, Control, Leave, TypeOK, Blank
<1>3. CASE GiveUp(r)
  BY <1>0, <1>3 DEF GiveUp, GivesUp, Control, Leave, TypeOK, Blank
<1>4. CASE Sample(r)
  BY <1>0, <1>4 DEF Sample, Control, Goto, TypeOK, Local
<1>5. CASE AdmitUnavailable(r)
  BY <1>0, <1>5 DEF AdmitUnavailable, Control, Goto, TypeOK, Local
<1>6. CASE Claim(r)
  BY <1>0, <1>6 DEF Claim, Control, Leave, TypeOK, Blank
<1>7. CASE DecideTooLate(r)
  BY <1>0, <1>7 DEF DecideTooLate, Deciding, GivesUp, Control, Leave, TypeOK, Blank
<1>8. CASE Allow(r)
  BY <1>0, <1>8 DEF Allow, Deciding, Control, Goto, TypeOK, Blank
<1>9. CASE Deny(r)
  BY <1>0, <1>9 DEF Deny, Deciding, Control, Goto, Leave, TypeOK, Blank, Local
<1>10. CASE Fork(r)
  BY <1>0, <1>10 DEF Fork, Control, Goto, TypeOK
<1>11. CASE Publish(r)
  BY <1>0, <1>11 DEF Publish, Control, Goto, TypeOK
<1>12. CASE Open(r)
  BY <1>0, <1>12 DEF Open, Control, Goto, TypeOK, Unlock
<1>13. CASE Poll(r)
  BY <1>0, <1>13 DEF Poll, Control, Goto, TypeOK, Exited, Reap, Local
<1>14. CASE Observe(r)
  BY <1>0, <1>14 DEF Observe, Control, Goto, TypeOK, Exited, Reap, Local
<1>15. CASE React(r)
  <2>1. CASE q = r
    BY <1>0, <1>15, <2>1, Reacted DEF Control
  <2>2. CASE q # r
    BY <1>0, <1>15, <2>2, Reacted DEF Control
  <2> QED
    BY <2>1, <2>2
<1>16. CASE BridgePaused(r)
  BY <1>0, <1>16 DEF BridgePaused, Control, Leave, TypeOK, Blank
<1>17. CASE BridgeTerm(r)
  <2>1. "leader" \in Targets(r) => leader[r] \in {"gated", "working"}
    BY DEF Targets, Authorized, Group
  <2> QED
    BY <1>0, <1>17, <2>1 DEF BridgeTerm, Control, Goto, Kill, TypeOK, Local
<1>18. CASE BridgeRefused(r)
  BY <1>0, <1>18 DEF BridgeRefused, Control, Goto, TypeOK, Local
<1>19. CASE Escalate(r)
  BY <1>0, <1>19 DEF Escalate, Control, Leave, Kill, TypeOK, Blank
<1>20. CASE Cleanup(r)
  BY <1>0, <1>20 DEF Cleanup, Control, End, Goto, Reap, TypeOK, Blank
<1>21. CASE Retire(r)
  BY <1>0, <1>21 DEF Retire, Control, End, Goto, Reap, TypeOK, Blank
<1> QED
  BY <1>1, <1>2, <1>3, <1>4, <1>5, <1>6, <1>7, <1>8, <1>9, <1>10, <1>11, <1>12,
     <1>13, <1>14, <1>15, <1>16, <1>17, <1>18, <1>19, <1>20, <1>21 DEF Step

LEMMA OtherControlled ==
  ASSUME TypeOK, Controlled, NEW r \in Runs,
         Failure(r) \/ Signal(r) \/ Expire(r) \/ Workload(r) \/ Recycled(r)
  PROVE  Controlled'
<1> SUFFICES ASSUME NEW q \in Runs PROVE Control(q)'
  BY DEF Controlled
<1> USE SchedulerAssumption DEF Launching, Supervising, Queueing, Ended, Works, registry, workload, history
<1>0. Control(q) /\ Control(r)
  BY DEF Controlled
<1>1. CASE RegisterFails(r)
  BY <1>0, <1>1 DEF RegisterFails, Control, Leave, TypeOK, Blank
<1>2. CASE DecideFails(r)
  BY <1>0, <1>2 DEF DecideFails, Deciding, Control, Leave, TypeOK, Blank
<1>3. CASE LaunchFails(r)
  BY <1>0, <1>3 DEF LaunchFails, Control, Leave, Unlock, TypeOK, Blank
<1>4. CASE ObserveFails(r)
  BY <1>0, <1>4 DEF ObserveFails, Control, Leave, TypeOK, Blank
<1>5. CASE LeaveUncleaned(r)
  BY <1>0, <1>5 DEF LeaveUncleaned, Control, End, Goto, Reap, TypeOK, Blank
<1>6. CASE Crash(r)
  BY <1>0, <1>6 DEF Crash, Control, Leave, Reap, Unlock, TypeOK, Blank
<1>7. CASE Signal(r)
  BY <1>0, <1>7 DEF Signal, Control, TypeOK, Local
<1>8. CASE Expire(r)
  BY <1>0, <1>8 DEF Expire, Control, TypeOK, Local
<1>9. CASE LeaderForks(r)
  BY <1>0, <1>9 DEF LeaderForks, Control, TypeOK
<1>10. CASE LeaderExits(r) \/ GatedExits(r) \/ HelperExits(r) \/ ForeignExits(r)
  BY <1>0, <1>10 DEF LeaderExits, GatedExits, HelperExits, ForeignExits, Kill, Control, TypeOK
<1>11. CASE GroupRecycled(r)
  BY <1>0, <1>11 DEF GroupRecycled, Control, TypeOK
<1>12. CASE PidRecycled(r)
  BY <1>0, <1>12 DEF PidRecycled, Control, TypeOK
<1> QED
  BY <1>1, <1>2, <1>3, <1>4, <1>5, <1>6, <1>7, <1>8, <1>9, <1>10, <1>11, <1>12
     DEF Failure, Workload, Recycled

-----------------------------------------------------------------------------
(* The registry. *)
LEMMA InitRegistered == Init => Registered
BY SchedulerAssumption
   DEF Init, Registered, Registration, Kept, Launching, Supervising, Queueing, Works, NoJobs, NoJob

(* Refresh keeps the entry of every live supervisor and of every live      *)
(* group, and it gives a live running entry the members ps shows.          *)
LEMMA RefreshKeeps ==
  ASSUME NEW reg \in [Runs -> Job], NEW r \in Runs
  PROVE  /\ OwnerAlive(r) /\ reg[r].status = "waiting"
              => Refresh(reg)[r].status = "waiting"
         /\ OwnerAlive(r) /\ reg[r].status = "running"
              => Refresh(reg)[r].status = "running" /\ Refresh(reg)[r].members = Group(r)
         /\ Group(r) # {} /\ reg[r].status = "running"
              => Refresh(reg)[r].status = "running"
         /\ Refresh(reg)[r].status \in {reg[r].status, "absent"}
BY DEF Refresh, Retained, Refreshed, Job, NoJob

LEMMA RefreshKept ==
  ASSUME TypeOK, Registered, NEW r \in Runs
  PROVE  /\ Kept(Refresh(jobs), r)
         /\ pc[r] \in Supervising => Refresh(jobs)[r].members = Group(r)
         /\ pc[r] = "published" => Refresh(jobs)[r].status = "running"
         /\ Refresh(jobs)[r].status \in {jobs[r].status, "absent"}
<1>1. jobs \in [Runs -> Job] /\ Registration(r)
  BY DEF TypeOK, Registered
<1>2. pc[r] \notin Ended => OwnerAlive(r)
  BY DEF OwnerAlive, OwnerRow
<1>3. Works(r) => Group(r) # {}
  BY DEF Works, Group, Parts
<1> QED
  BY <1>1, <1>2, <1>3, RefreshKeeps
     DEF Registration, Kept, Queueing, Supervising, Ended

LEMMA StepRegistered ==
  ASSUME TypeOK, Controlled, Registered, NEW r \in Runs, Step(r)
  PROVE  Registered'
<1> SUFFICES ASSUME NEW q \in Runs PROVE Registration(q)'
  BY DEF Registered
<1> USE SchedulerAssumption
    DEF Launching, Supervising, Queueing, Ended, Works, Kept, registry, workload, history
<1>a. Control(q) /\ Control(r) /\ Registration(q) /\ Registration(r)
  BY DEF Controlled, Registered
<1>b. /\ Kept(Refresh(jobs), q) /\ Kept(Refresh(jobs), r)
      /\ pc[q] = "published" => Refresh(jobs)[q].status = "running"
      /\ Refresh(jobs)[q].status \in {jobs[q].status, "absent"}
      /\ pc[r] \in Supervising => Refresh(jobs)[r].members = Group(r)
  BY RefreshKept
<1>c. Refresh(jobs) \in [Runs -> Job]
  BY RefreshType DEF TypeOK
<1>1. CASE Register(r)
  BY <1>a, <1>b, <1>c, <1>1 DEF Register, Registration, Control, Goto, TypeOK, Entry
<1>2. CASE RunNatively(r)
  BY <1>a, <1>2 DEF RunNatively, Registration, Control, Leave, TypeOK, Blank
<1>3. CASE GiveUp(r)
  BY <1>a, <1>3 DEF GiveUp, GivesUp, Registration, Leave, TypeOK, Blank
<1>4. CASE Sample(r)
  BY <1>a, <1>4 DEF Sample, Registration, Goto, TypeOK, Local
<1>5. CASE AdmitUnavailable(r)
  BY <1>a, <1>5 DEF AdmitUnavailable, Registration, Goto, TypeOK, Local
<1>6. CASE Claim(r)
  BY <1>a, <1>b, <1>6 DEF Claim, Registration, Control, Leave, TypeOK, Blank
<1>7. CASE DecideTooLate(r)
  BY <1>a, <1>7 DEF DecideTooLate, Deciding, GivesUp, Registration, Leave, TypeOK, Blank
<1>8. CASE Allow(r)
  BY <1>a, <1>b, <1>8 DEF Allow, Deciding, Registration, Goto, TypeOK, Blank
<1>9. CASE Deny(r)
  BY <1>a, <1>b, <1>9 DEF Deny, Deciding, Registration, Control, Goto, Leave, TypeOK, Blank, Local
<1>10. CASE Fork(r)
  BY <1>a, <1>10 DEF Fork, Registration, Control, Goto, TypeOK
<1>11. CASE Publish(r)
  BY <1>a, <1>11 DEF Publish, Registration, Control, Goto, TypeOK, Job
<1>12. CASE Open(r)
  BY <1>a, <1>12 DEF Open, Registration, Control, Goto, TypeOK, Unlock
<1>13. CASE Poll(r)
  BY <1>a, <1>13 DEF Poll, Registration, Control, Goto, TypeOK, Reap, Local
<1>14. CASE Observe(r)
  <2>1. /\ Kept(jobs, q)' /\ (pc'[q] = "published" => jobs'[q].status = "running")
        /\ pc'[q] = "idle" => jobs'[q].status = "absent"
        /\ lock' = Free
    BY <1>a, <1>b, <1>c, <1>14 DEF Observe, Registration, Control, Goto, TypeOK, Reap, Job
  <2>2. pc'[q] = "react" /\ local'[q].result /\ local'[q].seen = {} => ~helper'[q]
    <3>1. CASE q = r
      <4>1. local'[r].seen = Group(r)
        BY <1>b, <1>14 DEF Observe, TypeOK, Local
      <4> QED
        BY <1>14, <3>1, <4>1 DEF Observe, Group, Parts
    <3>2. CASE q # r
      BY <1>a, <1>14, <3>2 DEF Observe, Goto, Registration, TypeOK
    <3> QED
      BY <3>1, <3>2
  <2>3. exit'[q] = "finished" => leader'[q] = "gone" /\ ~helper'[q]
    BY <1>a, <1>14 DEF Observe, Goto, Reap, Registration, TypeOK
  <2> QED
    BY <1>14, <2>1, <2>2, <2>3 DEF Observe, Registration
<1>15. CASE React(r)
  <2>1. CASE q = r
    BY <1>a, <1>15, <2>1, Reacted DEF Control, Registration
  <2>2. CASE q # r
    BY <1>a, <1>15, <2>2, Reacted DEF Control, Registration
  <2> QED
    BY <2>1, <2>2
<1>16. CASE BridgePaused(r)
  BY <1>a, <1>16 DEF BridgePaused, Registration, Leave, TypeOK, Blank
<1>17. CASE BridgeTerm(r)
  BY <1>a, <1>17 DEF BridgeTerm, Registration, Control, Goto, Kill, TypeOK, Local
<1>18. CASE BridgeRefused(r)
  BY <1>a, <1>18 DEF BridgeRefused, Registration, Goto, TypeOK, Local
<1>19. CASE Escalate(r)
  BY <1>a, <1>19 DEF Escalate, Registration, Control, Leave, Kill, TypeOK, Blank
<1>20. CASE Cleanup(r)
  <2>1. /\ pc' = [pc EXCEPT ![r] = "done"] /\ UNCHANGED <<exit, lock, helper>>
        /\ local' = [local EXCEPT ![r] = Blank]
        /\ leader' = [leader EXCEPT ![r] = IF @ = "zombie" THEN "gone" ELSE @]
        /\ pc[r] = "cleanup" /\ lock = Free
    BY <1>20 DEF Cleanup, End, Goto, Reap
  <2>2. CASE q = r
    <3>1. Works(r)' => Works(r) /\ Group(r) # {}
      BY <2>1 DEF TypeOK, Group, Parts
    <3>2. Works(r) /\ Group(r) # {} => jobs'[r].status = "running"
      BY <1>a, <1>b, <1>c, <1>20, <2>1 DEF Cleanup, Registration
    <3>3. exit'[r] = "finished" => leader'[r] = "gone" /\ ~helper'[r]
      BY <1>a, <2>1 DEF Registration, TypeOK
    <3>4. pc'[r] = "done" /\ lock' = Free
      BY <2>1 DEF TypeOK
    <3> QED
      BY <2>2, <3>1, <3>2, <3>3, <3>4 DEF Registration
  <2>3. CASE q # r
    <3>1. jobs'[q] = Refresh(jobs)[q]
      BY <1>c, <1>20, <2>3 DEF Cleanup
    <3>2. /\ pc'[q] = pc[q] /\ exit'[q] = exit[q] /\ local'[q] = local[q]
          /\ leader'[q] = leader[q] /\ helper'[q] = helper[q] /\ lock' = Free
      BY <2>1, <2>3 DEF TypeOK
    <3>3. pc[q] = "idle" => jobs'[q].status = "absent"
      BY <1>a, <1>b, <3>1 DEF Registration
    <3> QED
      BY <1>a, <1>b, <3>1, <3>2, <3>3 DEF Registration
  <2> QED
    BY <2>2, <2>3
<1>21. CASE Retire(r)
  BY <1>a, <1>21 DEF Retire, Registration, Control, End, Goto, Reap, TypeOK, Blank, NoJob, Job
<1> QED
  BY <1>1, <1>2, <1>3, <1>4, <1>5, <1>6, <1>7, <1>8, <1>9, <1>10, <1>11, <1>12,
     <1>13, <1>14, <1>15, <1>16, <1>17, <1>18, <1>19, <1>20, <1>21 DEF Step

LEMMA OtherRegistered ==
  ASSUME TypeOK, Controlled, Registered, NEW r \in Runs,
         Failure(r) \/ Signal(r) \/ Expire(r) \/ Workload(r) \/ Recycled(r)
  PROVE  Registered'
<1> SUFFICES ASSUME NEW q \in Runs PROVE Registration(q)'
  BY DEF Registered
<1> USE SchedulerAssumption
    DEF Launching, Supervising, Queueing, Ended, Works, Kept, registry, workload, history
<1>a. Control(q) /\ Control(r) /\ Registration(q) /\ Registration(r)
  BY DEF Controlled, Registered
<1>1. CASE RegisterFails(r)
  BY <1>a, <1>1 DEF RegisterFails, Registration, Leave, TypeOK, Blank
<1>2. CASE DecideFails(r)
  BY <1>a, <1>2 DEF DecideFails, Deciding, Registration, Leave, TypeOK, Blank
<1>3. CASE LaunchFails(r)
  BY <1>a, <1>3 DEF LaunchFails, Registration, Control, Leave, Unlock, TypeOK, Blank
<1>4. CASE ObserveFails(r)
  BY <1>a, <1>4 DEF ObserveFails, Registration, Leave, TypeOK, Blank
<1>5. CASE LeaveUncleaned(r)
  BY <1>a, <1>5 DEF LeaveUncleaned, Registration, End, Goto, Reap, TypeOK, Blank
<1>6. CASE Crash(r)
  BY <1>a, <1>6 DEF Crash, Registration, Control, Leave, Reap, Unlock, TypeOK, Blank
<1>7. CASE Signal(r)
  BY <1>a, <1>7 DEF Signal, Registration, TypeOK, Local
<1>8. CASE Expire(r)
  BY <1>a, <1>8 DEF Expire, Registration, TypeOK, Local
<1>9. CASE LeaderForks(r)
  BY <1>a, <1>9 DEF LeaderForks, Registration, Control, TypeOK
<1>10. CASE LeaderExits(r) \/ GatedExits(r) \/ HelperExits(r) \/ ForeignExits(r)
  BY <1>a, <1>10 DEF LeaderExits, GatedExits, HelperExits, ForeignExits, Kill, Registration, Control, TypeOK
<1>11. CASE GroupRecycled(r)
  BY <1>a, <1>11 DEF GroupRecycled, Registration, TypeOK
<1>12. CASE PidRecycled(r)
  BY <1>a, <1>12 DEF PidRecycled, Registration, TypeOK
<1> QED
  BY <1>1, <1>2, <1>3, <1>4, <1>5, <1>6, <1>7, <1>8, <1>9, <1>10, <1>11, <1>12
     DEF Failure, Workload, Recycled

-----------------------------------------------------------------------------
SafeControl == TypeOK /\ Controlled /\ Registered

LEMMA SafeControlNext ==
  ASSUME SafeControl, [Next]_vars
  PROVE  SafeControl'
<1>1. CASE TogglePause
  BY <1>1 DEF TogglePause, SafeControl, TypeOK, Controlled, Control, Registered,
              Registration, Kept, Works, registry, workload, history
<1>2. ASSUME NEW r \in Runs, Step(r)
      PROVE  SafeControl'
  BY <1>2, StepType, StepControlled, StepRegistered DEF SafeControl
<1>3. ASSUME NEW r \in Runs,
             Failure(r) \/ Signal(r) \/ Expire(r) \/ Workload(r) \/ Recycled(r)
      PROVE  SafeControl'
  BY <1>3, FailureType, EnvironmentType, OtherControlled, OtherRegistered DEF SafeControl
<1>4. CASE UNCHANGED vars
  BY <1>4 DEF vars, SafeControl, TypeOK, Controlled, Control, Registered,
              Registration, Kept, Works, registry, workload, history
<1> QED
  BY <1>1, <1>2, <1>3, <1>4 DEF Next

LEMMA Safely == Spec => []SafeControl
<1>1. Init => SafeControl
  BY InitType, InitControlled, InitRegistered DEF SafeControl
<1> QED
  BY <1>1, SafeControlNext, PTL DEF Spec

(* Capacity is never given away behind the back of a live command,         *)
(* whatever crashes, fails, is paused or is given a recycled number.       *)
THEOREM WorkIsAccounted == Spec => []WorkAccounted
<1>1. SafeControl => WorkAccounted
  BY DEF SafeControl, Registered, Registration, Kept, WorkAccounted
<1> QED
  BY <1>1, Safely, PTL

(* Every supervisor finds its own entry in the registry where it needs it. *)
THEOREM OwnEntryFound == Spec => []OwnEntry
<1>1. SafeControl => OwnEntry
  BY DEF SafeControl, Registered, Registration, Kept, OwnEntry
<1> QED
  BY <1>1, Safely, PTL

(* A command whose launch was withheld, or whose request was turned away,  *)
(* never runs.                                                             *)
THEOREM WithheldStaysOut == Spec => []WithheldNeverRuns
<1>1. SafeControl => WithheldNeverRuns
  BY DEF SafeControl, Controlled, Control, WithheldNeverRuns, Supervising
<1> QED
  BY <1>1, Safely, PTL

(* A command is only reported finished when its whole group has ended.     *)
THEOREM FinishedGroupEmpty == Spec => []FinishedMeansEmpty
<1>1. SafeControl => FinishedMeansEmpty
  BY DEF SafeControl, Registered, Registration, FinishedMeansEmpty
<1> QED
  BY <1>1, Safely, PTL

(* No step of another supervisor drops a live supervisor's entry, and no   *)
(* running entry ever becomes a waiting one again: the copy the lock's     *)
(* holder publishes is the registry less dead entries.                     *)
LEMMA EntriesSurviveStep ==
  ASSUME SafeControl, NEW r \in Runs, Step(r), NEW q \in Runs
  PROVE  EntrySurvives(q)
<1> USE DEF EntrySurvives, Queueing, Launching, Supervising, Ended, registry
<1>a. /\ jobs \in [Runs -> Job] /\ data \in [Runs -> Job] /\ pc \in [Runs -> PC]
      /\ Control(q) /\ Control(r) /\ Registration(q) /\ Registration(r)
  BY DEF SafeControl, TypeOK, Controlled, Registered
<1>b. /\ Refresh(jobs) \in [Runs -> Job]
      /\ Refresh(jobs)[q].status \in {jobs[q].status, "absent"}
      /\ OwnerAlive(q) => Refresh(jobs)[q].status = jobs[q].status
  BY <1>a, RefreshType, RefreshKeeps DEF Job
<1>c. OwnerAlive(q) => pc[q] \notin Ended
  BY DEF OwnerAlive, OwnerRow
<1>1. CASE Register(r)
  BY <1>1, <1>a, <1>b DEF Register, Entry, Registration
<1>2. CASE Claim(r) \/ Deny(r)
  BY <1>2, <1>a, <1>b DEF Claim, Deny
<1>3. CASE Publish(r)
  <2>1. lock = r /\ Kept(data, q)
    BY <1>3, <1>a, SchedulerAssumption DEF Publish, Control, Registration
  <2>2. data[q].status \in {jobs[q].status, "absent"}
    BY <1>3, <1>a, <2>1 DEF Publish, Registration
  <2>3. jobs'[q].status = IF q = r THEN "running" ELSE data[q].status
    BY <1>3, <1>a DEF Publish, Job
  <2>4. CASE q = r
    BY <2>3, <2>4
  <2>5. CASE q # r
    <3>1. pc[q] \notin Launching
      BY <1>a, <2>1, <2>5 DEF Control
    <3>2. OwnerAlive(q) /\ jobs[q].status # "absent" /\ pc[q] \notin {"retire", "cleanup"}
            => data[q].status # "absent"
      BY <1>a, <1>c, <2>1, <3>1 DEF Kept, Registration, PC
    <3> QED
      BY <2>2, <2>3, <2>5, <3>2
  <2> QED
    BY <2>4, <2>5
<1>4. CASE Observe(r)
  BY <1>4, <1>a, <1>b DEF Observe
<1>5. CASE Cleanup(r)
  BY <1>5, <1>a, <1>b DEF Cleanup, NoJob
<1>6. CASE Retire(r)
  BY <1>6, <1>a DEF Retire, NoJob
<1>7. CASE UNCHANGED jobs
  BY <1>7
<1> QED
  BY <1>1, <1>2, <1>3, <1>4, <1>5, <1>6, <1>7
     DEF Step, RunNatively, GiveUp, Sample, AdmitUnavailable, DecideTooLate, Allow,
         Fork, Open, Poll, React, BridgePaused, BridgeTerm, BridgeRefused, Escalate

LEMMA EntriesSurviveNext ==
  SafeControl /\ [Next]_vars => [\A r \in Runs : EntrySurvives(r)]_vars
<1> SUFFICES ASSUME SafeControl, [Next]_vars, NEW q \in Runs, ~UNCHANGED vars
             PROVE  EntrySurvives(q)
  OBVIOUS
<1>1. CASE \E r \in Runs : Step(r)
  BY <1>1, EntriesSurviveStep
<1>2. CASE UNCHANGED jobs
  BY <1>2 DEF EntrySurvives
<1>3. \/ \E r \in Runs : Step(r)
      \/ UNCHANGED jobs
  BY DEF Next, Failure, Workload, Recycled, TogglePause, RegisterFails,
     DecideFails, LaunchFails, ObserveFails, LeaveUncleaned, Crash, Signal, Expire,
     LeaderForks, LeaderExits, GatedExits, HelperExits, GroupRecycled, ForeignExits,
     PidRecycled, registry
<1> QED
  BY <1>1, <1>2, <1>3

\* Only its own supervisor takes the entry of a job out while it lives, in its
\* retirement or its cleanup, and no entry goes back from running to waiting
\* (refresh and the saves of scheduler.py).
THEOREM LiveEntriesSurvive == Spec => EntriesSurvive
<1>1. Spec => [][Next]_vars
  BY PTL DEF Spec
<1>2. []SafeControl /\ [][Next]_vars => [][\A r \in Runs : EntrySurvives(r)]_vars
  BY EntriesSurviveNext, PTL
<1>3. [][\A r \in Runs : EntrySurvives(r)]_vars => EntriesSurvive
  BY PTL DEF EntriesSurvive
<1> QED
  BY <1>1, <1>2, <1>3, Safely, PTL

-----------------------------------------------------------------------------
(* Capacity. *)
LEMMA CountedFinite ==
  ASSUME NEW reg
  PROVE  IsFiniteSet(Counted(reg)) /\ Cardinality(Counted(reg)) \in Nat
<1>1. Counted(reg) \subseteq Runs
  BY DEF Counted, FiniteRunning, Running
<1> QED
  BY <1>1, RotationAssumption, FS_Subset, FS_CardinalityType

(* Fewer running entries, or more of them waived, cost no capacity. *)
LEMMA Shrinks ==
  ASSUME NEW old, NEW new, Running(new) \subseteq Running(old), bypass \subseteq bypass'
  PROVE  /\ Cardinality(FiniteRunning(new) \ bypass') <= Cardinality(Counted(old))
         /\ Exclusive(old) => Exclusive(new)
<1>1. FiniteRunning(new) \ bypass' \subseteq Counted(old)
  BY DEF Counted, FiniteRunning
<1>2. Cardinality(FiniteRunning(new) \ bypass') <= Cardinality(Counted(old))
  BY <1>1, CountedFinite, FS_Subset
<1>3. Exclusive(old) => Exclusive(new)
  BY DEF Exclusive
<1> QED
  BY <1>2, <1>3

(* Only Publish adds a running entry. *)
LEMMA RunningShrinks ==
  ASSUME SafeControl, [Next]_vars, \A r \in Runs : ~Publish(r)
  PROVE  Running(jobs') \subseteq Running(jobs)
<1> SUFFICES ASSUME NEW q \in Runs, jobs'[q].status = "running"
             PROVE  jobs[q].status = "running"
  BY DEF Running
<1>1. jobs \in [Runs -> Job] /\ Refresh(jobs) \in [Runs -> Job]
  BY RefreshType DEF SafeControl, TypeOK
<1>2. Refresh(jobs)[q].status \in {jobs[q].status, "absent"}
  BY <1>1, RefreshKeeps
<1>3. CASE UNCHANGED jobs
  BY <1>3
<1>4. CASE \E r \in Runs : Register(r)
  BY <1>1, <1>2, <1>4 DEF Register, Entry
<1>5. CASE \E r \in Runs : Claim(r) \/ Deny(r)
  BY <1>1, <1>2, <1>5 DEF Claim, Deny
<1>6. CASE \E r \in Runs : Observe(r)
  BY <1>1, <1>2, <1>6 DEF Observe
<1>7. CASE \E r \in Runs : Cleanup(r)
  BY <1>1, <1>2, <1>7 DEF Cleanup, NoJob
<1>8. CASE \E r \in Runs : Retire(r)
  BY <1>1, <1>8 DEF Retire, NoJob
<1> QED
  BY <1>3, <1>4, <1>5, <1>6, <1>7, <1>8
     DEF Next, Step, RunNatively, GiveUp, Sample, AdmitUnavailable, DecideTooLate, Allow,
         Fork, Open, Poll, React, BridgePaused, BridgeTerm, BridgeRefused, Escalate,
         Failure, Workload, Recycled, TogglePause, RegisterFails,
         DecideFails, LaunchFails, ObserveFails, LeaveUncleaned, Crash, Signal, Expire,
         LeaderForks, LeaderExits, GatedExits, HelperExits, GroupRecycled, ForeignExits,
         PidRecycled, registry, vars

(* From the decision to the save the copy and the waivers stay the same. *)
LEMMA LaunchHolds ==
  ASSUME SafeControl, [Next]_vars, NEW r \in Runs, pc'[r] \in {"launch", "forked"}
  PROVE  \/ Allow(r)
         \/ pc[r] \in {"launch", "forked"} /\ UNCHANGED <<data, bypass>>
<1> USE SchedulerAssumption
    DEF Launching, Queueing, Ended, registry, workload, history
<1>a. /\ pc \in [Runs -> PC] /\ Control(r)
      /\ \A q \in Runs : lock = q <=> pc[q] \in Launching
  BY DEF SafeControl, TypeOK, Controlled, Control
<1>1. ASSUME NEW q \in Runs, Step(q)
      PROVE  \/ Allow(r)
             \/ pc[r] \in {"launch", "forked"} /\ UNCHANGED <<data, bypass>>
  <2>1. CASE Allow(q)
    BY <1>a, <2>1 DEF Allow, Deciding, Goto
  <2>2. CASE Open(q)
    BY <1>a, <2>2 DEF Open, Goto
  <2>3. CASE Register(q) \/ RunNatively(q) \/ GiveUp(q) \/ Sample(q) \/ AdmitUnavailable(q)
    BY <1>a, <2>3 DEF Register, RunNatively, GiveUp, GivesUp, Sample, AdmitUnavailable, Goto, Leave
  <2>4. CASE Claim(q) \/ DecideTooLate(q) \/ Deny(q) \/ Fork(q) \/ Publish(q)
    BY <1>a, <2>4 DEF Claim, DecideTooLate, GivesUp, Deny, Fork, Publish, Goto, Leave
  <2>5. CASE Poll(q) \/ Observe(q) \/ React(q) \/ Cleanup(q) \/ Retire(q)
    BY <1>a, <2>5 DEF Poll, Observe, React, Cleanup, Retire, End, Goto, Leave
  <2>6. CASE BridgePaused(q) \/ BridgeTerm(q) \/ BridgeRefused(q) \/ Escalate(q)
    BY <1>a, <2>6 DEF BridgePaused, BridgeTerm, BridgeRefused, Escalate, Goto, Leave
  <2> QED
    BY <1>1, <2>1, <2>2, <2>3, <2>4, <2>5, <2>6 DEF Step
<1>2. ASSUME NEW q \in Runs, Failure(q)
      PROVE  pc[r] \in {"launch", "forked"} /\ UNCHANGED <<data, bypass>>
  <2>1. CASE LaunchFails(q)
    BY <1>a, <2>1 DEF LaunchFails, Leave
  <2>2. CASE Crash(q)
    BY <1>a, <2>2 DEF Crash, Leave
  <2>3. CASE RegisterFails(q) \/ DecideFails(q) \/ ObserveFails(q) \/ LeaveUncleaned(q)
    BY <1>a, <2>3 DEF RegisterFails, DecideFails, ObserveFails, LeaveUncleaned, End, Goto, Leave
  <2> QED
    BY <1>2, <2>1, <2>2, <2>3 DEF Failure
<1>3. ASSUME NEW q \in Runs, Signal(q) \/ Expire(q) \/ Workload(q) \/ Recycled(q)
      PROVE  UNCHANGED <<pc, data, bypass>>
  BY <1>3 DEF Signal, Expire, Workload, Recycled, LeaderForks, LeaderExits, GatedExits,
     HelperExits, GroupRecycled, ForeignExits, PidRecycled
<1>4. CASE TogglePause \/ UNCHANGED vars
  BY <1>4 DEF TogglePause, vars
<1> QED
  BY <1>1, <1>2, <1>3, <1>4 DEF Next

LEMMA InitRationed == Init => Rationed
<1> SUFFICES ASSUME Init PROVE Rationed
  OBVIOUS
<1>1. Counted(jobs) = {} /\ Running(jobs) = {}
  BY DEF Init, Counted, FiniteRunning, Running, NoJobs, NoJob
<1>2. Cardinality(Counted(jobs)) <= MaxJobs
  BY <1>1, FS_EmptySet, SchedulerAssumption
<1> QED
  BY <1>1, <1>2 DEF Init, Rationed, Exclusive

(* What the decision finds in the registry it has just refreshed.          *)
LEMMA AllowRationed ==
  ASSUME SafeControl, Rationed, NEW r \in Runs, Allow(r)
  PROVE  /\ Cardinality(Counted(data))' <= MaxJobs
         /\ (r \in Finite \ bypass)' => Cardinality(Counted(data))' < MaxJobs
         /\ Exclusive(data)'
         /\ (Holders(data, r) = {})'
<1>1. data' = Refresh(jobs) /\ bypass \subseteq bypass'
  BY DEF Allow
<1>2. Running(Refresh(jobs)) \subseteq Running(jobs)
  BY RefreshKeeps DEF SafeControl, TypeOK, Running
<1>3. /\ Cardinality(FiniteRunning(Refresh(jobs)) \ bypass') <= Cardinality(Counted(jobs))
      /\ Exclusive(Refresh(jobs))
  BY <1>1, <1>2, Shrinks DEF Rationed
<1>4. Cardinality(Counted(data))' <= MaxJobs
  <2>1. Cardinality(Counted(data))' \in Nat /\ Cardinality(Counted(jobs)) \in Nat
    <3>1. Counted(data)' \subseteq Runs
      BY DEF Counted, FiniteRunning, Running
    <3> QED
      BY <3>1, CountedFinite, RotationAssumption, FS_Subset, FS_CardinalityType
  <2> QED
    BY <1>1, <1>3, <2>1, SchedulerAssumption DEF Rationed, Counted
<1>5. ASSUME r \in Finite \ bypass'
      PROVE  Cardinality(Counted(data))' < MaxJobs
  <2>1. Chosen(Refresh(jobs), r)
    BY <1>5 DEF Allow
  <2>2. Cardinality(FiniteRunning(Refresh(jobs))) < MaxJobs
    BY <1>5, <2>1 DEF Chosen, IsNext, Admissible
  <2>3. IsFiniteSet(FiniteRunning(Refresh(jobs)))
    BY RotationAssumption, FS_Subset DEF FiniteRunning, Running
  <2>4. Counted(data)' \subseteq FiniteRunning(Refresh(jobs))
    BY <1>1 DEF Counted
  <2>5. /\ Cardinality(Counted(data)') <= Cardinality(FiniteRunning(Refresh(jobs)))
        /\ Cardinality(Counted(data)') \in Nat
        /\ Cardinality(FiniteRunning(Refresh(jobs))) \in Nat
    BY <2>3, <2>4, FS_Subset, FS_CardinalityType
  <2> QED
    BY <2>2, <2>5, SchedulerAssumption
<1>6. Exclusive(data)'
  BY <1>1, <1>3 DEF Exclusive
<1>7. (Holders(data, r) = {})'
  BY <1>1 DEF Allow, Deciding, Holders
<1> QED
  BY <1>4, <1>5, <1>6, <1>7

(* Publishing spends what the decision found.                              *)
LEMMA PublishRationed ==
  ASSUME SafeControl, Rationed, NEW r \in Runs, Publish(r)
  PROVE  Cardinality(Counted(jobs))' <= MaxJobs /\ Exclusive(jobs)'
<1>1. /\ bypass' = bypass
      /\ r \in Finite \ bypass => Cardinality(Counted(data)) < MaxJobs
      /\ Cardinality(Counted(data)) <= MaxJobs
      /\ Exclusive(data) /\ Holders(data, r) = {}
  BY DEF Publish, history, Rationed
<1>2. Running(jobs') = Running(data) \cup {r}
  <2>1. \A q \in Runs : jobs'[q].status = IF q = r THEN "running" ELSE data[q].status
    BY DEF Publish, SafeControl, TypeOK, Job
  <2> QED
    BY <2>1 DEF Running
<1>3. Cardinality(Counted(jobs))' <= MaxJobs
  <2>1. CASE r \in Finite \ bypass
    <3>1. Counted(jobs)' = Counted(data) \cup {r}
      BY <1>1, <1>2, <2>1 DEF Counted, FiniteRunning
    <3>2. IsFiniteSet(Counted(data)) /\ Cardinality(Counted(data)) \in Nat
      BY CountedFinite
    <3>3. Cardinality(Counted(data) \cup {r})
            \in {Cardinality(Counted(data)), Cardinality(Counted(data)) + 1}
      BY <3>2, FS_AddElement, Zenon
    <3> QED
      BY <1>1, <2>1, <3>1, <3>2, <3>3, SchedulerAssumption
  <2>2. CASE r \notin Finite \ bypass
    <3>1. Counted(jobs)' = Counted(data)
      BY <1>1, <1>2, <2>2 DEF Counted, FiniteRunning
    <3> QED
      BY <1>1, <3>1
  <2> QED
    BY <2>1, <2>2
<1>4. Exclusive(jobs)'
  <2> SUFFICES ASSUME NEW p \in Running(jobs') \ Finite, NEW q \in Running(jobs') \ Finite,
                      ResourceOf[p] = ResourceOf[q]
               PROVE  p = q
    BY DEF Exclusive
  <2>1. CASE p \in Running(data) /\ q \in Running(data)
    BY <1>1, <2>1 DEF Exclusive
  <2>2. CASE p = r /\ q # r
    BY <1>1, <1>2, <2>2 DEF Holders
  <2>3. CASE q = r /\ p # r
    BY <1>1, <1>2, <2>3 DEF Holders
  <2> QED
    BY <1>2, <2>1, <2>2, <2>3
<1> QED
  BY <1>3, <1>4

LEMMA RationedNext ==
  ASSUME SafeControl, Rationed, [Next]_vars
  PROVE  Rationed'
<1>1. Cardinality(Counted(jobs))' <= MaxJobs /\ Exclusive(jobs)'
  <2>1. CASE \E r \in Runs : Publish(r)
    BY <2>1, PublishRationed
  <2>2. CASE \A r \in Runs : ~Publish(r)
    <3>1. Running(jobs') \subseteq Running(jobs)
      BY <2>2, RunningShrinks
    <3>2. bypass \subseteq bypass'
      <4>1. ASSUME NEW r \in Runs, Step(r)
            PROVE  bypass' \in {bypass, bypass \cup {r}}
        BY <4>1 DEF Step, Register, RunNatively, GiveUp, Sample, AdmitUnavailable, Claim,
           DecideTooLate, Allow, Deny, Fork, Publish, Open, Poll, Observe, React,
           BridgePaused, BridgeTerm, BridgeRefused, Escalate, Cleanup, Retire, history
      <4>2. ASSUME NEW r \in Runs,
                   Failure(r) \/ Signal(r) \/ Expire(r) \/ Workload(r) \/ Recycled(r)
            PROVE  bypass' = bypass
        BY <4>2 DEF Failure, Workload, Recycled, RegisterFails, DecideFails, LaunchFails,
           ObserveFails, LeaveUncleaned, Crash, Signal, Expire, LeaderForks, LeaderExits,
           GatedExits, HelperExits, GroupRecycled, ForeignExits, PidRecycled, history
      <4>3. CASE TogglePause \/ UNCHANGED vars
        BY <4>3 DEF TogglePause, history, vars
      <4> QED
        BY <4>1, <4>2, <4>3 DEF Next
    <3>3. /\ Cardinality(FiniteRunning(jobs') \ bypass') <= Cardinality(Counted(jobs))
          /\ Exclusive(jobs')
      BY <3>1, <3>2, Shrinks DEF Rationed
    <3>4. Cardinality(Counted(jobs)') \in Nat /\ Cardinality(Counted(jobs)) \in Nat
      <4>1. Counted(jobs)' \subseteq Runs
        BY DEF Counted, FiniteRunning, Running
      <4> QED
        BY <4>1, CountedFinite, RotationAssumption, FS_Subset, FS_CardinalityType
    <3> QED
      BY <3>3, <3>4, SchedulerAssumption DEF Rationed, Counted, Exclusive
  <2> QED
    BY <2>1, <2>2
<1>2. ASSUME NEW r \in Runs, pc'[r] \in {"launch", "forked"}
      PROVE  /\ Cardinality(Counted(data))' <= MaxJobs
             /\ (r \in Finite \ bypass)' => Cardinality(Counted(data))' < MaxJobs
             /\ Exclusive(data)'
             /\ (Holders(data, r) = {})'
  <2>1. CASE Allow(r)
    BY <2>1, AllowRationed
  <2>2. CASE pc[r] \in {"launch", "forked"} /\ UNCHANGED <<data, bypass>>
    BY <2>2 DEF Rationed, Counted, Exclusive, Holders
  <2> QED
    BY <1>2, <2>1, <2>2, LaunchHolds
<1> QED
  BY <1>1, <1>2 DEF Rationed

LEMMA SafelyRationed == Spec => []Rationed
<1>1. SafeControl /\ Rationed /\ [Next]_vars => Rationed'
  BY RationedNext
<1> QED
  BY <1>1, InitRationed, Safely, PTL DEF Spec

(* Finite jobs that capacity admitted never outnumber the slots, and no    *)
(* resource ever has two servers.                                          *)
THEOREM SlotsBounded == Spec => []SlotBound
<1>1. Rationed => SlotBound
  BY DEF Rationed, Counted, SlotBound
<1> QED
  BY <1>1, SafelyRationed, PTL

\* At most one running server holds a resource (active_resource, scheduler.py).
THEOREM HoldersExclude == Spec => []OneHolder
<1>1. Rationed => OneHolder
  BY DEF Rationed, Exclusive, OneHolder
<1> QED
  BY <1>1, SafelyRationed, PTL

(* Only Register adds a waiting entry. *)
LEMMA WaitingShrinks ==
  ASSUME SafeControl, [Next]_vars, \A r \in Runs : ~Register(r)
  PROVE  Waiting(jobs') \subseteq Waiting(jobs)
<1> SUFFICES ASSUME NEW q \in Runs, jobs'[q].status = "waiting"
             PROVE  jobs[q].status = "waiting"
  BY DEF Waiting
<1>1. /\ jobs \in [Runs -> Job] /\ data \in [Runs -> Job]
      /\ Refresh(jobs) \in [Runs -> Job]
  BY RefreshType DEF SafeControl, TypeOK
<1>2. Refresh(jobs)[q].status \in {jobs[q].status, "absent"}
  BY <1>1, RefreshKeeps
<1>3. CASE UNCHANGED jobs
  BY <1>3
<1>4. CASE \E r \in Runs : Publish(r)
  <2>1. PICK r \in Runs : Publish(r)
    BY <1>4
  <2>2. lock = r /\ pc[r] = "forked"
    BY <2>1 DEF Publish, SafeControl, Controlled, Control, Launching
  <2>3. data[q].status \in {jobs[q].status, "absent"}
    BY <2>2 DEF SafeControl, Registered, Registration
  <2> QED
    BY <1>1, <2>1, <2>3 DEF Publish
<1>5. CASE \E r \in Runs : Claim(r) \/ Deny(r)
  BY <1>1, <1>2, <1>5 DEF Claim, Deny
<1>6. CASE \E r \in Runs : Observe(r)
  BY <1>1, <1>2, <1>6 DEF Observe
<1>7. CASE \E r \in Runs : Cleanup(r)
  BY <1>1, <1>2, <1>7 DEF Cleanup, NoJob
<1>8. CASE \E r \in Runs : Retire(r)
  BY <1>1, <1>8 DEF Retire, NoJob
<1> QED
  BY <1>3, <1>4, <1>5, <1>6, <1>7, <1>8
     DEF Next, Step, RunNatively, GiveUp, Sample, AdmitUnavailable, DecideTooLate, Allow,
         Fork, Open, Poll, React, BridgePaused, BridgeTerm, BridgeRefused, Escalate,
         Failure, Workload, Recycled, TogglePause, RegisterFails,
         DecideFails, LaunchFails, ObserveFails, LeaveUncleaned, Crash, Signal, Expire,
         LeaderForks, LeaderExits, GatedExits, HelperExits, GroupRecycled, ForeignExits,
         PidRecycled, registry, vars

LEMMA WaitingFinite ==
  ASSUME NEW reg
  PROVE  IsFiniteSet(Waiting(reg)) /\ Cardinality(Waiting(reg)) \in Nat
BY RotationAssumption, FS_Subset, FS_CardinalityType DEF Waiting

(* No more than MaxWaiting requests ever wait, however many come.          *)
THEOREM WaitingBounded == Spec => []WaitingBound
<1>1. Init => WaitingBound
  <2>1. Init => Waiting(jobs) = {}
    BY DEF Init, Waiting, NoJobs, NoJob
  <2> QED
    BY <2>1, FS_EmptySet, SchedulerAssumption DEF WaitingBound
<1>2. ASSUME SafeControl, WaitingBound, [Next]_vars
      PROVE  WaitingBound'
  <2>1. CASE \A r \in Runs : ~Register(r)
    <3>1. Cardinality(Waiting(jobs')) <= Cardinality(Waiting(jobs))
      BY <1>2, <2>1, WaitingShrinks, WaitingFinite, FS_Subset
    <3>2. Cardinality(Waiting(jobs')) \in Nat /\ Cardinality(Waiting(jobs)) \in Nat
      BY RotationAssumption, FS_Subset, FS_CardinalityType DEF Waiting
    <3> QED
      BY <1>2, <3>1, <3>2, SchedulerAssumption DEF WaitingBound
  <2>2. CASE \E r \in Runs : Register(r)
    <3>1. PICK r \in Runs : Register(r)
      BY <2>2
    <3> DEFINE old == Waiting(Refresh(jobs))
    <3>2. Waiting(jobs') = old \cup {r}
      <4>1. Refresh(jobs) \in [Runs -> Job]
        BY <1>2, RefreshType DEF SafeControl, TypeOK
      <4> QED
        BY <3>1, <4>1 DEF Register, Entry, Waiting
    <3>3. Cardinality(old) < MaxWaiting
      BY <3>1 DEF Register
    <3>4. IsFiniteSet(old) /\ Cardinality(old) \in Nat
      BY WaitingFinite
    <3> HIDE DEF old
    <3>5. Cardinality(old \cup {r}) \in {Cardinality(old), Cardinality(old) + 1}
      BY <3>4, FS_AddElement, Zenon
    <3> QED
      BY <3>2, <3>3, <3>4, <3>5, SchedulerAssumption DEF WaitingBound
  <2> QED
    BY <2>1, <2>2
<1> QED
  BY <1>1, <1>2, Safely, PTL DEF Spec

(***************************************************************************)
(* The supervisors implement WorkloadQueue, for every value of the         *)
(* constants: a step of theirs is a step of the queue or changes nothing   *)
(* the queue's callers can see.                                            *)
(***************************************************************************)

(* What the queue sees of one run. *)
LEMMA PhaseIs ==
  ASSUME NEW r \in Runs
  PROVE  /\ Phase[r] = IF r \in ran THEN IF Works(r) THEN "started" ELSE "over"
                       ELSE IF pc[r] = "idle" THEN "new"
                       ELSE IF pc[r] \in Queueing \cup Launching THEN "queued"
                       ELSE "refused"
         /\ Phase'[r] = IF r \in ran' THEN IF Works(r)' THEN "started" ELSE "over"
                        ELSE IF pc'[r] = "idle" THEN "new"
                        ELSE IF pc'[r] \in Queueing \cup Launching THEN "queued"
                        ELSE "refused"
BY DEF Phase, Queueing, Launching

(* A step of r, other than opening its gate, that is visible to the queue. *)
Visible(r) ==
  \/ Phase[r] = "new" /\ Phase'[r] \in {"queued", "refused"}
  \/ Phase[r] = "queued" /\ Phase'[r] = "refused"
  \/ Phase[r] = "started" /\ Phase'[r] = "over"

LEMMA StepPhase ==
  ASSUME SafeControl, NEW r \in Runs, Step(r)
  PROVE  /\ \A q \in Runs \ {r} : Phase'[q] = Phase[q]
         /\ Phase'[r] = Phase[r] \/ Visible(r) \/ (Open(r) /\ Phase'[r] = "started")
<1> USE DEF Queueing, Launching, Supervising, Works, workload, history
<1>a. /\ TypeOK /\ Control(r)
      /\ \A q \in Runs \ {r} :
           pc'[q] = pc[q] /\ leader'[q] = leader[q] /\ helper'[q] = helper[q]
             /\ (q \in ran' <=> q \in ran)
           => Phase'[q] = Phase[q]
  BY PhaseIs DEF SafeControl, Controlled
<1>1. CASE Open(r)
  BY <1>1, <1>a, PhaseIs DEF Open, Goto, TypeOK
<1>2. CASE Fork(r)
  BY <1>2, <1>a, PhaseIs DEF Fork, Goto, TypeOK, Control
<1>3. CASE Poll(r) \/ Observe(r)
  BY <1>3, <1>a, PhaseIs DEF Poll, Observe, Goto, Reap, TypeOK, Control
<1>4. CASE Cleanup(r) \/ Retire(r)
  BY <1>4, <1>a, PhaseIs DEF Cleanup, Retire, End, Goto, Reap, TypeOK, Control
<1>5. CASE BridgeTerm(r)
  BY <1>5, <1>a, PhaseIs DEF BridgeTerm, Goto, Kill, TypeOK, Control, Visible
<1>6. CASE Escalate(r)
  BY <1>6, <1>a, PhaseIs DEF Escalate, Leave, Kill, TypeOK, Control, Visible
<1>7. CASE Register(r) \/ RunNatively(r) \/ GiveUp(r) \/ Sample(r) \/ AdmitUnavailable(r)
  BY <1>7, <1>a, PhaseIs DEF Register, RunNatively, GiveUp, GivesUp, Sample,
     AdmitUnavailable, Goto, Leave, TypeOK, Control, Visible
<1>8. CASE Claim(r) \/ DecideTooLate(r) \/ Allow(r) \/ Deny(r) \/ Publish(r)
  BY <1>8, <1>a, PhaseIs DEF Claim, DecideTooLate, Deciding, GivesUp, Allow, Deny,
     Publish, Goto, Leave, TypeOK, Control, Visible
<1>9. CASE React(r) \/ BridgePaused(r) \/ BridgeRefused(r)
  BY <1>9, <1>a, PhaseIs DEF React, BridgePaused, BridgeRefused, Goto, Leave, TypeOK,
     Control, Visible
<1> QED
  BY <1>1, <1>2, <1>3, <1>4, <1>5, <1>6, <1>7, <1>8, <1>9 DEF Step

LEMMA OtherPhase ==
  ASSUME SafeControl, NEW r \in Runs,
         Failure(r) \/ Signal(r) \/ Expire(r) \/ Workload(r) \/ Recycled(r)
  PROVE  /\ \A q \in Runs \ {r} : Phase'[q] = Phase[q]
         /\ Phase'[r] = Phase[r] \/ Visible(r)
         /\ UNCHANGED bypass
<1> USE DEF Queueing, Launching, Supervising, Ended, Works, workload, history
<1>a. /\ TypeOK /\ Control(r)
      /\ \A q \in Runs \ {r} :
           pc'[q] = pc[q] /\ leader'[q] = leader[q] /\ helper'[q] = helper[q]
             /\ (q \in ran' <=> q \in ran)
           => Phase'[q] = Phase[q]
  BY PhaseIs DEF SafeControl, Controlled
<1>1. CASE RegisterFails(r) \/ DecideFails(r) \/ LaunchFails(r) \/ ObserveFails(r)
  BY <1>1, <1>a, PhaseIs DEF RegisterFails, DecideFails, Deciding, LaunchFails,
     ObserveFails, Leave, TypeOK, Control, Visible
<1>2. CASE LeaveUncleaned(r) \/ Crash(r)
  BY <1>2, <1>a, PhaseIs DEF LeaveUncleaned, Crash, End, Goto, Leave, Reap, TypeOK,
     Control, Visible
<1>3. CASE Signal(r) \/ Expire(r) \/ GroupRecycled(r) \/ PidRecycled(r)
  BY <1>3, <1>a, PhaseIs DEF Signal, Expire, GroupRecycled, PidRecycled
<1>4. CASE LeaderForks(r)
  BY <1>4, <1>a, PhaseIs DEF LeaderForks, TypeOK
<1>5. CASE LeaderExits(r) \/ GatedExits(r)
  BY <1>5, <1>a, PhaseIs DEF LeaderExits, GatedExits, Kill, TypeOK, Control, Visible
<1>6. CASE HelperExits(r) \/ ForeignExits(r)
  BY <1>6, <1>a, PhaseIs DEF HelperExits, ForeignExits, Kill, TypeOK, Control, Visible
<1> QED
  BY <1>1, <1>2, <1>3, <1>4, <1>5, <1>6 DEF Failure, Workload, Recycled

(* The instance's own copy of Cardinality is the library's.                *)
LEMMA QueueCardinality ==
  ASSUME NEW S
  PROVE  Queue!Cardinality(S) = Cardinality(S)
BY DEF Queue!Cardinality, Cardinality

(* Whenever a gate opens, there is a slot and the resource is free: the    *)
(* commands that work are running entries, and so is this one already.     *)
LEMMA OpenStarts ==
  ASSUME SafeControl, Rationed, NEW r \in Runs, Open(r)
  PROVE  Queue!SlotFor(r) /\ Queue!ResourceFor(r)
<1>1. r \in Running(jobs) /\ r \notin ran
  BY DEF SafeControl, Controlled, Control, Registered, Registration, Open, Running, Supervising
<1>2. Queue!Started \subseteq Running(jobs) \ {r}
  BY <1>1, PhaseIs DEF Queue!Started, SafeControl, Registered, Registration, Kept, Running
<1>3. Queue!SlotFor(r)
  <2> SUFFICES ASSUME r \in Finite \ bypass
               PROVE  Cardinality((Queue!Started \cap Finite) \ bypass) < MaxJobs
    BY QueueCardinality DEF Queue!SlotFor
  <2> DEFINE work == (Queue!Started \cap Finite) \ bypass
             rest == Counted(jobs) \ {r}
  <2>1. r \in Counted(jobs) /\ work \subseteq rest
    BY <1>1, <1>2 DEF Counted, FiniteRunning
  <2>2. /\ IsFiniteSet(rest)
        /\ Cardinality(rest) = Cardinality(Counted(jobs)) - 1
    BY <2>1, CountedFinite, FS_RemoveElement, Zenon
  <2>3. Cardinality(work) <= Cardinality(rest) /\ IsFiniteSet(work)
    BY <2>1, <2>2, FS_Subset, Zenon
  <2>4. Cardinality(work) \in Nat /\ Cardinality(Counted(jobs)) \in Nat
    BY <2>3, CountedFinite, FS_CardinalityType, Zenon
  <2>5. Cardinality(Counted(jobs)) <= MaxJobs
    BY DEF Rationed
  <2> HIDE DEF work, rest
  <2>6. Cardinality(work) < MaxJobs
    BY <2>2, <2>3, <2>4, <2>5, SchedulerAssumption
  <2> QED
    BY <2>6 DEF work
<1>4. Queue!ResourceFor(r)
  <2> SUFFICES ASSUME r \notin Finite, NEW q \in Queue!Started, ResourceOf[q] = ResourceOf[r]
               PROVE  FALSE
    BY DEF Queue!ResourceFor
  <2>1. q \in Running(jobs) \ {r}
    BY <1>2
  <2>2. q \in Runs /\ q \notin Finite
    BY <2>1 DEF Finite, Running
  <2> QED
    BY <1>1, <2>1, <2>2 DEF Rationed, Exclusive
<1> QED
  BY <1>3, <1>4

(* Every step is a step of the queue, or none. *)
LEMMA QueueStep ==
  ASSUME SafeControl, Rationed, [Next]_vars
  PROVE  [Queue!QueueNext]_(Queue!qvars)
<1> USE DEF Queue!qvars
<1>1. CASE TogglePause
  BY <1>1 DEF TogglePause, Phase, Works, workload, history, Queue!Pause, Queue!QueueNext
<1>2. CASE UNCHANGED vars
  BY <1>2 DEF vars, Phase, Works, workload, history
<1>3. ASSUME NEW r \in Runs,
             \A q \in Runs \ {r} : Phase'[q] = Phase[q]
      PROVE  Phase' = [Phase EXCEPT ![r] = Phase'[r]]
  BY <1>3 DEF Phase
<1>4. ASSUME NEW r \in Runs, Visible(r), UNCHANGED <<bypass, paused>>,
             \A q \in Runs \ {r} : Phase'[q] = Phase[q]
      PROVE  Queue!QueueNext
  <2>1. Phase' = [Phase EXCEPT ![r] = Phase'[r]]
    BY <1>3, <1>4
  <2>2. Queue!Submit(r) \/ Queue!Refuse(r) \/ Queue!End(r)
    BY <1>4, <2>1 DEF Visible, Queue!Submit, Queue!Refuse, Queue!End, Queue!Move
  <2> QED
    BY <2>2 DEF Queue!QueueNext
<1>5. ASSUME NEW r \in Runs, Step(r)
      PROVE  [Queue!QueueNext]_(Queue!qvars)
  <2>1. UNCHANGED paused
    BY <1>5 DEF Step, Register, RunNatively, GiveUp, Sample, AdmitUnavailable, Claim,
       DecideTooLate, Allow, Deny, Fork, Publish, Open, Poll, Observe, React,
       BridgePaused, BridgeTerm, BridgeRefused, Escalate, Cleanup, Retire
  <2>2. /\ \A q \in Runs \ {r} : Phase'[q] = Phase[q]
        /\ Phase'[r] = Phase[r] \/ Visible(r) \/ (Open(r) /\ Phase'[r] = "started")
    BY <1>5, StepPhase
  <2>3. CASE Open(r)
    <3>1. /\ Phase[r] = "queued" /\ Phase'[r] = "started" /\ UNCHANGED bypass
      BY <2>3, PhaseIs DEF Open, SafeControl, Controlled, Control, Supervising, Launching,
         Queueing, Works, TypeOK
    <3>2. Phase' = [Phase EXCEPT ![r] = "started"]
      BY <1>3, <2>2, <3>1
    <3>3. Queue!Start(r)
      BY <2>1, <2>3, <3>1, <3>2, OpenStarts DEF Queue!Start, Queue!Move
    <3> QED
      BY <3>3 DEF Queue!QueueNext
  <2>4. CASE Allow(r)
    <3>1. pc[r] = "admit" /\ pc'[r] = "launch" /\ UNCHANGED ran
      BY <2>4 DEF Allow, Deciding, Goto, SafeControl, TypeOK
    <3>2. Phase[r] = "queued" /\ Phase'[r] = "queued"
      BY <3>1, PhaseIs DEF SafeControl, Controlled, Control, Queueing, Launching, Supervising
    <3>3. Phase' = Phase
      BY <1>3, <2>2, <3>2 DEF Phase
    <3>4. UNCHANGED bypass \/ Queue!Waive(r)
      BY <2>1, <2>4, <3>2, <3>3 DEF Allow, Queue!Waive
    <3> QED
      BY <2>1, <3>3, <3>4 DEF Queue!QueueNext
  <2>5. CASE ~Open(r) /\ ~Allow(r)
    <3>1. UNCHANGED bypass
      BY <1>5, <2>5 DEF Step, Register, RunNatively, GiveUp, Sample, AdmitUnavailable,
         Claim, DecideTooLate, Deny, Fork, Publish, Poll, Observe, React,
         BridgePaused, BridgeTerm, BridgeRefused, Escalate, Cleanup, Retire, history
    <3>2. CASE Phase'[r] = Phase[r]
      <4>1. Phase' = Phase
        BY <1>3, <2>2, <3>2 DEF Phase
      <4> QED
        BY <2>1, <3>1, <4>1
    <3> QED
      BY <1>4, <2>1, <2>2, <2>5, <3>1, <3>2
  <2> QED
    BY <2>3, <2>4, <2>5
<1>6. ASSUME NEW r \in Runs,
             Failure(r) \/ Signal(r) \/ Expire(r) \/ Workload(r) \/ Recycled(r)
      PROVE  [Queue!QueueNext]_(Queue!qvars)
  <2>1. UNCHANGED paused
    BY <1>6 DEF Failure, Workload, Recycled, RegisterFails, DecideFails, LaunchFails,
       ObserveFails, LeaveUncleaned, Crash, Signal, Expire, LeaderForks, LeaderExits,
       GatedExits, HelperExits, GroupRecycled, ForeignExits, PidRecycled
  <2>2. CASE Phase'[r] = Phase[r]
    <3>1. Phase' = Phase
      BY <1>3, <1>6, <2>2, OtherPhase DEF Phase
    <3> QED
      BY <1>6, <2>1, <3>1, OtherPhase
  <2> QED
    BY <1>4, <1>6, <2>1, <2>2, OtherPhase
<1> QED
  BY <1>1, <1>2, <1>5, <1>6 DEF Next

LEMMA QueueInitially == Init => Queue!QueueInit
BY DEF Init, Queue!QueueInit, Phase

(* The supervisors implement the queue. *)
THEOREM ImplementsQueue == Spec => Refinement
<1>1. SafeControl /\ Rationed /\ [Next]_vars => [Queue!QueueNext]_(Queue!qvars)
  BY QueueStep
<1> QED
  BY <1>1, QueueInitially, Safely, SafelyRationed, PTL
     DEF Spec, Refinement, Queue!QueueSpec
=============================================================================
