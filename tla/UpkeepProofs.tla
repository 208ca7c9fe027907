--------------------------- MODULE UpkeepProofs ---------------------------
(***************************************************************************)
(* Proofs about the modules that look after what is registered.            *)
(*                                                                         *)
(* Environments: EnvInv relates the record, the worker, its containers and *)
(* the watchdog: nothing stops an environment before its worker and its    *)
(* requests are through, and no vacancy is counted that was not there.     *)
(*                                                                         *)
(* PendingWork: PendingInv keeps, through the reads of a look, what must   *)
(* and what may be in its answer.                                          *)
(*                                                                         *)
(* PlannedKill: RowMoves is what a step makes of one process; it follows   *)
(* that a target which is as the plan noted it has been so ever since, as  *)
(* nobody comes back to an old birth, program or group.  KillInv says what *)
(* the plan, the noted identities and the claims that were read still say  *)
(* of the processes of now.                                                *)
(*                                                                         *)
(* History: HistoryInv says that the counts, the marks and the latest day  *)
(* of each job are those of the rows of one table, in the database and in  *)
(* the transaction that may still be rolled back.                          *)
(*                                                                         *)
(* Reports: one report at a time holds the lock; it starts a submission    *)
(* only after the ledger says that one may have been made, and it does so  *)
(* only when the ledger has not said so before.                            *)
(*                                                                         *)
(* MCUpkeep puts them side by side, with the installation whose proofs are *)
(* in IntegrationProofs: the types of all of them hold in it.              *)
(***************************************************************************)
EXTENDS MCUpkeep, IntegrationProofs

(***************************************************************************)
(* Environments.                                                           *)
(***************************************************************************)
\* Nothing is left that could create or start a container.
Quiet == worker \in {"done", "dead"} /\ ~busy

\* The record, the worker and its containers say the same of how far it got.
Progress ==
  /\ worker = "new" <=> row = NoRecord
  /\ worker = "up" => row.phase = "starting"
  /\ worker = "start" => row.phase = "prepared"
  /\ worker = "work" => row.phase = "active"
  /\ worker = "finally" => row.phase \in {"starting", "prepared", "active"}
  /\ worker \in {"stopping", "done"} => row.phase \in {"releasing", "stopped"}
  /\ worker \in {"new", "finally", "stopping", "done"} => ~busy
  /\ docker.running \subseteq docker.exist
  /\ row.phase = "stopped" => docker.running = {}
  /\ alive[Origin] # "new"

\* What a stop that is under way has been allowed is still so.
StillAllowed(stop) ==
  stop.pc = "stop" => row.stop_requested /\ ~row.pinned /\ row.claims \cap stop.table = {}

\* The worker stops its containers only at its end, and the watchdog only when
\* nothing is left of it; what the watchdog has measured cannot become false.
StopsInTime ==
  /\ release.pc # "idle" => /\ row.phase \in {"releasing", "stopped"}
                            /\ worker = "stopping" \/ (worker = "dead" /\ busy)
  /\ reaper.pc # "idle" => row # NoRecord
  /\ reaper.pc \in {"ready", "authorize", "stop", "finish"} => Quiet
  /\ reaper.pc = "scan" /\ ~reaper.owner /\ ~reaper.group => Quiet
  /\ reaper.pc \in {"scan", "authorize"} /\ Origin \notin reaper.table => alive[Origin] = "dead"

\* The grace that the record counts is not longer than the environment was vacant.
GraceCounted ==
  row # NoRecord /\ row.orphan_since # Unset => Vacant /\ row.orphan_since <= gone

EnvKept == /\ Progress /\ StopsInTime /\ GraceCounted
           /\ StillAllowed(reaper) /\ StillAllowed(release)

EnvInv == EnvTypeOK /\ EnvKept

\* Every stop that the actions begin, and the one that is none.
LEMMA StopTypes ==
  /\ NoStop \in Stop /\ NoStop.pc = "idle"
  /\ \A next \in {"ready", "finish"} : [NoStop EXCEPT !.pc = next] \in Stop
  /\ \A next \in {"scan", "authorize"} : ReadProcesses(next) \in Stop
  /\ \A ids \in SUBSET Services, seen \in SUBSET EnvAgents :
       [NoStop EXCEPT !.pc = "stop", !.ids = ids, !.table = seen] \in Stop
<1>1. WorkerAlive \in BOOLEAN /\ (busy \/ WorkerAlive) \in BOOLEAN
  BY DEF WorkerAlive
<1> QED BY <1>1 DEF NoStop, Stop, ReadProcesses, LiveAgents

\* A record is a record as long as it is not the absence of one.
LEMMA EnvRecordFields ==
  ASSUME EnvTypeOK, row # NoRecord
  PROVE  /\ row \in EnvRecord
         /\ row.phase \in {"starting", "prepared", "active", "releasing", "stopped"}
         /\ row.containers \subseteq Services /\ row.claims \subseteq EnvAgents
         /\ row.pinned \in BOOLEAN /\ row.stop_requested \in BOOLEAN
         /\ row.orphan_since \in 0..Unset /\ row.observed \in 0..Observation + 1
BY DEF EnvTypeOK, EnvRecord

LEMMA EnvTypes ==
  ASSUME EnvInv, EnvNext
  PROVE  EnvTypeOK'
<1> USE EnvironmentAssumption
<1>1. /\ Unset \in Nat /\ OrphanGrace <= Unset /\ trouble \in 0..Trouble /\ gone \in 0..OrphanGrace
      /\ docker \in [exist : SUBSET Services, running : SUBSET Services]
      /\ reaper \in Stop /\ release \in Stop /\ row \in EnvRecord \cup {NoRecord}
  BY DEF EnvInv, EnvTypeOK, Unset
<1>2. Troubled => trouble' \in 0..Trouble
  BY <1>1 DEF Troubled
<1>3. CASE Registers
  BY <1>1, <1>3 DEF Registers, EnvInv, EnvTypeOK, EnvRecord, Unset, stops
<1>4. ASSUME NEW s \in Services, Creates(s) PROVE EnvTypeOK'
  BY <1>4 DEF Creates, EnvInv, EnvTypeOK, stops
<1>5. CASE Prepares
  <2>1. row # NoRecord
    BY <1>5 DEF Prepares, EnvInv, EnvKept, Progress
  <2>2. row' \in EnvRecord
    BY <1>1, <1>5, <2>1, EnvRecordFields DEF Prepares, EnvRecord, EnvInv
  <2>3. trouble' \in 0..Trouble
    BY <1>1, <1>2, <1>5 DEF Prepares
  <2> QED BY <1>5, <2>2, <2>3 DEF Prepares, EnvInv, EnvTypeOK, stops
<1>6. ASSUME NEW s \in Services, Starts1(s) PROVE EnvTypeOK'
  BY <1>6 DEF Starts1, EnvInv, EnvTypeOK, stops
<1>7. CASE Activates
  <2>1. row # NoRecord
    BY <1>7 DEF Activates, EnvInv, EnvKept, Progress
  <2>2. row' \in EnvRecord
    BY <1>1, <1>7, <2>1, EnvRecordFields DEF Activates, EnvRecord, EnvInv
  <2>3. trouble' \in 0..Trouble
    BY <1>1, <1>2, <1>7 DEF Activates
  <2> QED BY <1>7, <2>2, <2>3 DEF Activates, EnvInv, EnvTypeOK, stops
<1>8. CASE Works
  BY <1>8 DEF Works, EnvInv, EnvTypeOK, stops
<1>9. CASE Releases
  <2>1. row # NoRecord
    BY <1>9 DEF Releases, EnvInv, EnvKept, Progress
  <2>2. row' \in EnvRecord
    BY <1>1, <1>9, <2>1, EnvRecordFields DEF Releases, EnvRecord, EnvInv
  <2>3. trouble' \in 0..Trouble /\ release' \in Stop
    BY <1>1, <1>2, <1>9, StopTypes DEF Releases
  <2> QED BY <1>9, <2>2, <2>3 DEF Releases, EnvInv, EnvTypeOK
<1>10. CASE WorkerDies
  <2>1. trouble' \in 0..Trouble /\ busy' \in BOOLEAN
    BY <1>2, <1>10 DEF WorkerDies
  <2> QED BY <1>10, <2>1 DEF WorkerDies, EnvInv, EnvTypeOK, stops
<1>11. CASE WorkerDone
  BY <1>11 DEF WorkerDone, EnvInv, EnvTypeOK, stops
<1>12. CASE GroupEnds
  BY <1>12, StopTypes DEF GroupEnds, EnvInv, EnvTypeOK
<1>13. CASE MeasureReaper
  <2>1. reaper' \in Stop
    BY <1>13, StopTypes DEF MeasureReaper
  <2> QED BY <1>13, <2>1 DEF MeasureReaper, EnvInv, EnvTypeOK
<1>14. CASE MeasureRelease
  <2>1. release' \in Stop
    BY <1>14, StopTypes DEF MeasureRelease
  <2> QED BY <1>14, <2>1 DEF MeasureRelease, EnvInv, EnvTypeOK
<1>15. CASE EnvScan
  <2> DEFINE since == IF Held(reaper) THEN Unset
                      ELSE IF row.orphan_since = Unset \/ row.observed > Observation THEN 0
                      ELSE row.orphan_since
  <2>1. row \in EnvRecord
    BY <1>1, <1>15 DEF EnvScan, EnvInv, EnvKept, StopsInTime
  <2>2. since \in 0..Unset
    BY <1>1, <2>1 DEF EnvRecord
  <2>3. row' \in EnvRecord
    <3> HIDE DEF since
    <3>1. row' = row \/ row' = [row EXCEPT !.orphan_since = since, !.observed = 0]
      BY <1>15 DEF EnvScan, since
    <3>2. 0 \in 0..Observation + 1
      OBVIOUS
    <3>3. [row EXCEPT !.orphan_since = since, !.observed = 0] \in EnvRecord
      BY <2>1, <2>2, <3>2 DEF EnvRecord
    <3> QED BY <2>1, <3>1, <3>3
  <2>4. reaper' \in Stop
    BY <1>15, StopTypes DEF EnvScan
  <2> QED BY <1>15, <2>3, <2>4 DEF EnvScan, EnvInv, EnvTypeOK
<1>16. CASE AuthorizeStop
  <2>1. ASSUME NEW stop \in Stop, NEW caller \in BOOLEAN, Authorized(stop, caller), row # NoRecord,
               UNCHANGED <<docker, worker, busy, alive, trouble, gone>>
        PROVE  EnvTypeOK'
    <3> DEFINE enrolled == IF caller /\ row.phase = "releasing" THEN docker.exist ELSE row.containers
               ids == IF StopEligible(stop, caller) /\ enrolled = docker.exist THEN docker.running ELSE {}
               next == IF ids = {} THEN [NoStop EXCEPT !.pc = "finish"]
                       ELSE [NoStop EXCEPT !.pc = "stop", !.ids = ids, !.table = stop.table]
    <3>1. enrolled \in SUBSET Services /\ ids \in SUBSET Services /\ stop.table \in SUBSET EnvAgents
      BY <1>1, <2>1, EnvRecordFields DEF EnvInv, Stop
    <3> HIDE DEF enrolled, ids
    <3>2. next \in Stop
      BY <3>1, StopTypes
    <3> HIDE DEF next
    <3>3. /\ row' = [row EXCEPT !.containers = IF StopEligible(stop, caller) THEN enrolled ELSE @,
                                !.stop_requested = @ \/ ids # {}]
          /\ reaper' \in {reaper, next} /\ release' \in {release, next}
      BY <2>1 DEF Authorized, enrolled, ids, next
    <3>4. row' \in EnvRecord
      BY <2>1, <3>1, <3>3, EnvRecordFields DEF EnvInv, EnvRecord
    <3> QED BY <2>1, <3>2, <3>3, <3>4 DEF EnvInv, EnvTypeOK
  <2>2. row # NoRecord
    <3>1. reaper.pc = "authorize" \/ release.pc = "authorize"
      BY <1>16 DEF AuthorizeStop
    <3> QED BY <3>1 DEF EnvInv, EnvKept, StopsInTime, NoRecord
  <2> QED BY <1>1, <1>16, <2>1, <2>2 DEF AuthorizeStop
<1>17. CASE StopContainers
  <2>1. reaper' \in Stop /\ release' \in Stop
    BY <1>1, <1>17, StopTypes DEF StopContainers
  <2>2. docker' \in [exist : SUBSET Services, running : SUBSET Services]
    BY <1>1, <1>17 DEF StopContainers
  <2> QED BY <1>17, <2>1, <2>2 DEF StopContainers, EnvInv, EnvTypeOK
<1>18. CASE Finish
  <2>1. reaper' \in Stop /\ release' \in Stop
    BY <1>1, <1>18, StopTypes DEF Finish
  <2>2. row # NoRecord
    BY <1>18 DEF Finish, EnvInv, EnvKept, StopsInTime, NoRecord
  <2>3. row' \in EnvRecord
    BY <1>18, <2>2, EnvRecordFields DEF Finish, Finished, EnvInv, EnvRecord
  <2> QED BY <1>18, <2>1, <2>3 DEF Finish, EnvInv, EnvTypeOK
<1>19. CASE StopFails
  <2>1. reaper' \in Stop /\ release' \in Stop /\ trouble' \in 0..Trouble
    BY <1>1, <1>2, <1>19, StopTypes DEF StopFails
  <2> QED BY <1>19, <2>1 DEF StopFails, EnvInv, EnvTypeOK
<1>20. CASE EnvTick
  <2>1. row' \in EnvRecord
    <3> DEFINE since == IF row.orphan_since < OrphanGrace THEN row.orphan_since + 1 ELSE row.orphan_since
               seen == IF row.observed <= Observation THEN row.observed + 1 ELSE row.observed
    <3>1. row \in EnvRecord /\ row' = [row EXCEPT !.orphan_since = since, !.observed = seen]
      BY <1>20, EnvRecordFields DEF EnvTick, EnvInv
    <3>2. since \in 0..Unset /\ seen \in 0..Observation + 1
      BY <1>1, <3>1 DEF EnvRecord
    <3> HIDE DEF since, seen
    <3> QED BY <3>1, <3>2 DEF EnvRecord
  <2>2. gone' \in 0..OrphanGrace
    BY <1>1, <1>20 DEF EnvTick
  <2> QED BY <1>20, <2>1, <2>2 DEF EnvTick, EnvInv, EnvTypeOK, stops
<1>21. ASSUME NEW s \in Services, ContainerExits(s) PROVE EnvTypeOK'
  BY <1>2, <1>21 DEF ContainerExits, EnvInv, EnvTypeOK, stops
<1>22. ASSUME NEW a \in EnvAgents, ClaimEnv(a) PROVE EnvTypeOK'
  <2>1. row' \in EnvRecord
    <3>1. row \in EnvRecord /\ row.claims \subseteq EnvAgents
      BY <1>22, EnvRecordFields DEF ClaimEnv, EnvInv
    <3>2. row' \in {[row EXCEPT !.claims = row.claims \cup {a}], [row EXCEPT !.claims = row.claims \ {a}],
                   [row EXCEPT !.pinned = TRUE], [row EXCEPT !.pinned = FALSE]}
      BY <1>22, Zenon DEF ClaimEnv
    <3>3. ASSUME NEW c \in SUBSET EnvAgents PROVE [row EXCEPT !.claims = c] \in EnvRecord
      BY <3>1 DEF EnvRecord
    <3>4. ASSUME NEW b \in BOOLEAN PROVE [row EXCEPT !.pinned = b] \in EnvRecord
      BY <3>1 DEF EnvRecord
    <3>5. row.claims \cup {a} \in SUBSET EnvAgents /\ row.claims \ {a} \in SUBSET EnvAgents
      BY <3>1
    <3> QED BY <3>2, <3>3, <3>4, <3>5
  <2> QED BY <1>22, <2>1 DEF ClaimEnv, EnvInv, EnvTypeOK, stops
<1>23. ASSUME NEW a \in EnvAgents, AgentChanges(a) PROVE EnvTypeOK'
  BY <1>23 DEF AgentChanges, EnvInv, EnvTypeOK, stops
<1> QED
  BY <1>3, <1>4, <1>5, <1>6, <1>7, <1>8, <1>9, <1>10, <1>11, <1>12, <1>13, <1>14, <1>15, <1>16,
     <1>17, <1>18, <1>19, <1>20, <1>21, <1>22, <1>23 DEF EnvNext

\* What the invariant says of a state in which something is recorded.
LEMMA EnvFacts ==
  ASSUME EnvInv
  PROVE  /\ Unset = OrphanGrace + 1 /\ OrphanGrace \in Nat /\ gone \in 0..OrphanGrace
         /\ row # NoRecord <=> row.phase # "none"
         /\ row # NoRecord => row \in EnvRecord /\ row.orphan_since \in 0..Unset
         /\ busy \in BOOLEAN /\ alive \in [EnvAgents -> {"new", "live", "dead"}] /\ Origin \in EnvAgents
         /\ docker \in [exist : SUBSET Services, running : SUBSET Services]
BY EnvironmentAssumption, EnvRecordFields DEF EnvInv, EnvTypeOK, Unset, NoRecord, EnvAgents

\* A change of the phase or of the containers in the record leaves the rest of it.
SameBut(phase) ==
  /\ row' # NoRecord /\ row'.phase = phase
  /\ row'.claims = row.claims /\ row'.pinned = row.pinned
  /\ row'.stop_requested = row.stop_requested /\ row'.orphan_since = row.orphan_since

LEMMA PhaseChanges ==
  ASSUME row \in EnvRecord,
         NEW phase \in {"prepared", "active", "releasing", "stopped"}, NEW containers,
         \/ row' = [row EXCEPT !.phase = phase]
         \/ row' = [row EXCEPT !.containers = containers, !.phase = phase]
  PROVE  SameBut(phase)
BY DEF EnvRecord, NoRecord, SameBut

LEMMA RecordStays ==
  ASSUME EnvInv, row # NoRecord, row' = row
  PROVE  SameBut(row.phase)
BY DEF SameBut

\* The steps of the worker and of what it has started.
LEMMA WorkerKeeps ==
  ASSUME EnvInv,
         \/ Registers \/ Prepares \/ Activates \/ Works \/ Releases \/ WorkerDies \/ WorkerDone \/ GroupEnds
         \/ \E s \in Services : Creates(s) \/ Starts1(s) \/ ContainerExits(s)
  PROVE  EnvKept'
<1> USE EnvFacts DEF EnvKept, Progress, StopsInTime, GraceCounted, StillAllowed, Vacant, Quiet, WorkerAlive
<1>1. CASE Registers
  BY <1>1 DEF EnvInv, Registers, stops, NoStop, NoRecord
<1>2. CASE Prepares
  <2>1. row.phase = "starting" /\ row \in EnvRecord /\ row # NoRecord
    BY <1>2 DEF EnvInv, Prepares
  <2>2. \/ SameBut("starting") /\ worker' = "finally"
        \/ SameBut("prepared") /\ worker' \in {"start", "finally"}
    <3>1. \/ row' = row /\ worker' = "finally"
          \/ /\ row' = [row EXCEPT !.containers = docker.exist, !.phase = "prepared"]
             /\ worker' \in {"start", "finally"}
      BY <1>2 DEF Prepares
    <3>2. row' = row => SameBut("starting")
      BY <2>1, RecordStays
    <3>3. row' = [row EXCEPT !.containers = docker.exist, !.phase = "prepared"] => SameBut("prepared")
      BY <2>1, PhaseChanges
    <3> QED BY <3>1, <3>2, <3>3
  <2> QED BY <1>2, <2>1, <2>2 DEF EnvInv, Prepares, stops, SameBut
<1>3. CASE Activates
  <2>1. row.phase = "prepared" /\ row \in EnvRecord /\ row # NoRecord
    BY <1>3 DEF EnvInv, Activates
  <2>2. \/ SameBut("prepared") /\ worker' = "finally"
        \/ SameBut("active") /\ worker' = "work"
    <3>1. \/ row' = row /\ worker' = "finally"
          \/ row' = [row EXCEPT !.phase = "active"] /\ worker' = "work"
      BY <1>3 DEF Activates
    <3>2. row' = row => SameBut("prepared")
      BY <2>1, RecordStays
    <3>3. row' = [row EXCEPT !.phase = "active"] => SameBut("active")
      BY <2>1, PhaseChanges
    <3> QED BY <3>1, <3>2, <3>3
  <2> QED BY <1>3, <2>1, <2>2 DEF EnvInv, Activates, stops, SameBut
<1>4. CASE Works
  BY <1>4 DEF EnvInv, Works, stops
<1>5. CASE Releases
  <2>1. row.phase \in {"starting", "prepared", "active"} /\ row \in EnvRecord /\ row # NoRecord
    BY <1>5 DEF EnvInv, Releases
  <2>2. \/ SameBut("releasing") /\ worker' = "stopping" /\ release'.pc = "ready"
        \/ row' = row /\ worker' = "dead" /\ release' = release
    BY <1>5, <2>1, PhaseChanges DEF Releases, NoStop
  <2> QED BY <1>5, <2>1, <2>2 DEF EnvInv, Releases, SameBut
<1>6. CASE WorkerDies
  <2>1. release.pc # "idle" => release # NoStop
    BY DEF NoStop
  <2>2. busy' \in BOOLEAN /\ (busy \/ release # NoStop => busy')
    BY <1>6 DEF WorkerDies
  <2> QED BY <1>6, <2>1, <2>2 DEF EnvInv, WorkerDies, stops
<1>7. CASE WorkerDone
  <2>1. release.pc = "idle" /\ worker = "stopping" /\ ~busy
    BY <1>7 DEF WorkerDone, NoStop, EnvInv
  <2> QED BY <1>7, <2>1 DEF EnvInv, WorkerDone, stops
<1>8. CASE GroupEnds
  BY <1>8 DEF EnvInv, GroupEnds, NoStop
<1>9. ASSUME NEW s \in Services, Creates(s) PROVE EnvKept'
  BY <1>9 DEF EnvInv, Creates, stops
<1>10. ASSUME NEW s \in Services, Starts1(s) PROVE EnvKept'
  BY <1>10 DEF EnvInv, Starts1, stops
<1>11. ASSUME NEW s \in Services, ContainerExits(s) PROVE EnvKept'
  BY <1>11 DEF EnvInv, ContainerExits, stops
<1> QED BY <1>1, <1>2, <1>3, <1>4, <1>5, <1>6, <1>7, <1>8, <1>9, <1>10, <1>11

\* An authorization changes the record only in what it enrols and in that a stop has
\* been requested.
SameButRequested ==
  /\ row' # NoRecord /\ row'.phase = row.phase /\ row'.claims = row.claims
  /\ row'.pinned = row.pinned /\ row'.orphan_since = row.orphan_since
  /\ row.stop_requested => row'.stop_requested

\* What an authorization leaves: either the end of the stop, or a stop that is allowed
\* and that no later claim can forbid.
LEMMA AuthorizeResult ==
  ASSUME row \in EnvRecord, NEW stop, NEW caller, Authorized(stop, caller), NEW next,
         next = IF caller THEN release' ELSE reaper'
  PROVE  /\ SameButRequested
         /\ UNCHANGED (IF caller THEN reaper ELSE release)
         /\ \/ next.pc = "finish"
            \/ /\ next.pc = "stop" /\ next.table = stop.table /\ StopEligible(stop, caller)
               /\ row'.stop_requested
<1> DEFINE enrolled == IF caller /\ row.phase = "releasing" THEN docker.exist ELSE row.containers
           ids == IF StopEligible(stop, caller) /\ enrolled = docker.exist THEN docker.running ELSE {}
           kept == IF StopEligible(stop, caller) THEN enrolled ELSE row.containers
<1>1. /\ row' = [row EXCEPT !.containers = kept, !.stop_requested = row.stop_requested \/ ids # {}]
      /\ next = IF ids = {} THEN [NoStop EXCEPT !.pc = "finish"]
                ELSE [NoStop EXCEPT !.pc = "stop", !.ids = ids, !.table = stop.table]
      /\ UNCHANGED (IF caller THEN reaper ELSE release)
  BY DEF Authorized
<1>2. ids # {} => StopEligible(stop, caller)
  OBVIOUS
<1> HIDE DEF enrolled, ids, kept
<1>3. /\ row'.phase = row.phase /\ row'.claims = row.claims
      /\ row'.pinned = row.pinned /\ row'.orphan_since = row.orphan_since
      /\ row'.stop_requested = (row.stop_requested \/ ids # {})
  BY <1>1 DEF EnvRecord
<1>4. row' # NoRecord
  BY <1>3 DEF EnvRecord, NoRecord
<1>5. /\ [NoStop EXCEPT !.pc = "finish"].pc = "finish"
      /\ [NoStop EXCEPT !.pc = "stop", !.ids = ids, !.table = stop.table].pc = "stop"
      /\ [NoStop EXCEPT !.pc = "stop", !.ids = ids, !.table = stop.table].table = stop.table
  BY DEF NoStop
<1> QED BY <1>1, <1>2, <1>3, <1>4, <1>5 DEF SameButRequested

\* What the watchdog measures: whatever it finds gone stays gone.
LEMMA ReadIsTrue ==
  ASSUME EnvInv, row # NoRecord, NEW next \in {"scan", "authorize"}
  PROVE  /\ ReadProcesses(next).pc = next
         /\ ~ReadProcesses(next).owner /\ ~ReadProcesses(next).group => Quiet
         /\ Origin \notin ReadProcesses(next).table => alive[Origin] = "dead"
<1>1. worker \in {"up", "start", "work", "finally", "stopping", "done", "dead"} /\ alive[Origin] # "new"
  BY DEF EnvInv, EnvKept, Progress, EnvTypeOK
<1> QED BY <1>1, EnvFacts DEF ReadProcesses, LiveAgents, WorkerAlive, Quiet

\* The steps of the two stops.
LEMMA StopsKeep ==
  ASSUME EnvInv,
         \/ MeasureReaper \/ MeasureRelease \/ EnvScan \/ AuthorizeStop \/ StopContainers \/ Finish
         \/ StopFails
  PROVE  EnvKept'
<1> USE EnvFacts
<1> USE DEF EnvKept, Progress, StopsInTime, GraceCounted, StillAllowed, Vacant, Quiet, WorkerAlive
<1>1. CASE MeasureReaper
  <2>1. /\ row # NoRecord
        /\ \/ reaper' = ReadProcesses("scan")
           \/ reaper' = ReadProcesses("authorize") /\ reaper.pc = "ready"
    BY <1>1 DEF MeasureReaper
  <2>2. /\ ~reaper'.owner /\ ~reaper'.group => Quiet
        /\ Origin \notin reaper'.table => alive[Origin] = "dead"
    BY <2>1, ReadIsTrue
  <2>3. reaper'.pc = "scan" \/ (reaper'.pc = "authorize" /\ reaper.pc = "ready")
    BY <2>1, ReadIsTrue
  <2> QED BY <1>1, <2>1, <2>2, <2>3 DEF EnvInv, MeasureReaper
<1>2. CASE MeasureRelease
  BY <1>2 DEF EnvInv, MeasureRelease, ReadProcesses
<1>3. CASE EnvScan
  <2>1. row # NoRecord /\ row \in EnvRecord /\ reaper.pc = "scan"
    BY <1>3 DEF EnvInv, EnvScan
  <2>2. CASE row.phase = "stopped"
    BY <1>3, <2>1, <2>2 DEF EnvInv, EnvScan, NoStop
  <2>3. CASE row.phase # "stopped"
    <3> DEFINE since == IF Held(reaper) THEN Unset
                        ELSE IF row.orphan_since = Unset \/ row.observed > Observation THEN 0
                        ELSE row.orphan_since
    <3>1. row' = [row EXCEPT !.orphan_since = since, !.observed = 0]
      BY <1>3, <2>3 DEF EnvScan
    <3>2. /\ row' # NoRecord /\ row'.phase = row.phase /\ row'.orphan_since = since
          /\ row'.claims = row.claims /\ row'.pinned = row.pinned
          /\ row'.stop_requested = row.stop_requested
      <4> HIDE DEF since
      <4> QED BY <2>1, <3>1 DEF EnvRecord, NoRecord
    <3>3. ~Held(reaper) => Vacant
      BY <2>1 DEF Held, EnvInv
    <3>4. since # Unset => Vacant /\ since <= gone
      BY <2>1, <3>3 DEF EnvInv
    <3>5. reaper'.pc = "idle" \/ (reaper'.pc = "ready" /\ since = OrphanGrace)
      <4>1. reaper' = IF since = OrphanGrace /\ ~row.pinned /\ row.claims \cap reaper.table = {}
                      THEN [NoStop EXCEPT !.pc = "ready"] ELSE NoStop
        BY <1>3, <2>3 DEF EnvScan
      <4> HIDE DEF since
      <4> QED BY <4>1 DEF NoStop
    <3>6. reaper'.pc = "ready" => Quiet
      BY <2>1, <3>3, <3>4, <3>5 DEF Held, EnvInv
    <3> HIDE DEF since
    <3> QED BY <1>3, <2>1, <3>2, <3>4, <3>5, <3>6 DEF EnvInv, EnvScan
  <2> QED BY <2>2, <2>3
<1>4. CASE AuthorizeStop
  <2>1. row # NoRecord /\ row \in EnvRecord
    BY <1>4 DEF EnvInv, AuthorizeStop
  <2>2. CASE reaper.pc = "authorize" /\ Authorized(reaper, FALSE)
    <3>1. /\ SameButRequested /\ release' = release
          /\ \/ reaper'.pc = "finish"
             \/ /\ reaper'.pc = "stop" /\ reaper'.table = reaper.table
                /\ StopEligible(reaper, FALSE) /\ row'.stop_requested
      BY <2>1, <2>2, AuthorizeResult DEF SameButRequested
    <3> QED BY <1>4, <2>1, <2>2, <3>1 DEF EnvInv, AuthorizeStop, SameButRequested, StopEligible
  <2>3. CASE release.pc = "authorize" /\ Authorized(release, TRUE)
    <3>1. /\ SameButRequested /\ reaper' = reaper
          /\ \/ release'.pc = "finish"
             \/ /\ release'.pc = "stop" /\ release'.table = release.table
                /\ StopEligible(release, TRUE) /\ row'.stop_requested
      BY <2>1, <2>3, AuthorizeResult DEF SameButRequested
    <3> QED BY <1>4, <2>1, <2>3, <3>1 DEF EnvInv, AuthorizeStop, SameButRequested, StopEligible
  <2> QED BY <1>4, <2>2, <2>3 DEF AuthorizeStop
<1>5. CASE StopContainers
  BY <1>5 DEF EnvInv, StopContainers, NoStop
<1>6. CASE Finish
  <2>1. row # NoRecord /\ row \in EnvRecord
    BY <1>6 DEF EnvInv, Finish
  <2>2. \/ row' = row
        \/ /\ row' = [row EXCEPT !.phase = "stopped"]
           /\ docker.exist = {} \/ docker.running = {}
    BY <1>6 DEF Finish, Finished
  <2>3. row' = row => SameBut(row.phase)
    BY <2>1, RecordStays
  <2>4. row' = [row EXCEPT !.phase = "stopped"] => SameBut("stopped") /\ docker.running = {}
    <3>1. ASSUME row' = [row EXCEPT !.phase = "stopped"] PROVE SameBut("stopped")
      BY <2>1, <3>1, PhaseChanges
    <3>2. docker.running \subseteq docker.exist
      BY DEF EnvInv
    <3>3. row.phase = "stopped" => docker.running = {}
      BY DEF EnvInv
    <3> QED BY <2>2, <3>1, <3>2, <3>3 DEF SameBut
  <2>5. worker \in {"stopping", "done", "dead"} /\ (reaper.pc = "finish" => Quiet)
    BY <1>6 DEF EnvInv, Finish
  <2> QED BY <1>6, <2>1, <2>2, <2>3, <2>4, <2>5 DEF EnvInv, Finish, NoStop, SameBut
<1>7. CASE StopFails
  BY <1>7 DEF EnvInv, StopFails, NoStop
<1> QED BY <1>1, <1>2, <1>3, <1>4, <1>5, <1>6, <1>7

\* The steps of agents and of time.
LEMMA OthersKeep ==
  ASSUME EnvInv, \/ EnvTick
                 \/ \E a \in EnvAgents : ClaimEnv(a) \/ AgentChanges(a)
  PROVE  EnvKept'
<1> USE EnvFacts
<1> USE DEF EnvKept, Progress, StopsInTime, GraceCounted, StillAllowed, Vacant, Quiet, WorkerAlive
<1>1. CASE EnvTick
  <2>1. row \in EnvRecord /\ row # NoRecord
    BY <1>1 DEF EnvTick
  <2> DEFINE since == IF row.orphan_since < OrphanGrace THEN row.orphan_since + 1 ELSE row.orphan_since
             seen == IF row.observed <= Observation THEN row.observed + 1 ELSE row.observed
  <2>2. row' = [row EXCEPT !.orphan_since = since, !.observed = seen]
    BY <1>1 DEF EnvTick
  <2>3. /\ row' # NoRecord /\ row'.phase = row.phase /\ row'.claims = row.claims
        /\ row'.pinned = row.pinned /\ row'.stop_requested = row.stop_requested
        /\ row'.orphan_since = since
    <3> HIDE DEF since, seen
    <3> QED BY <2>1, <2>2 DEF EnvRecord, NoRecord
  <2>4. since # Unset => Vacant /\ since <= gone'
    BY <1>1, <2>1 DEF EnvTick, EnvInv
  <2> HIDE DEF since, seen
  <2> QED BY <1>1, <2>1, <2>3, <2>4 DEF EnvTick, EnvInv, stops
<1>2. ASSUME NEW a \in EnvAgents, ClaimEnv(a) PROVE EnvKept'
  <2>1. row \in EnvRecord /\ row # NoRecord
    BY <1>2 DEF ClaimEnv
  <2>2. /\ row' # NoRecord /\ row'.phase = row.phase /\ row'.orphan_since = row.orphan_since
        /\ row'.stop_requested = row.stop_requested
        /\ row.stop_requested => row'.claims \subseteq row.claims /\ (row'.pinned => row.pinned)
    BY <1>2, <2>1 DEF ClaimEnv, Claimable, EnvRecord, NoRecord
  <2> QED BY <1>2, <2>1, <2>2 DEF ClaimEnv, EnvInv, stops
<1>3. ASSUME NEW a \in EnvAgents, AgentChanges(a) PROVE EnvKept'
  BY <1>3 DEF AgentChanges, EnvInv, stops
<1> QED BY <1>1, <1>2, <1>3

LEMMA EnvInductive == EnvInv /\ [EnvNext]_envvars => EnvInv'
<1>1. EnvInv /\ EnvNext => EnvKept'
  BY WorkerKeeps, StopsKeep, OthersKeep DEF EnvNext
<1>2. EnvInv /\ UNCHANGED envvars => EnvInv'
  BY DEF envvars, stops, EnvInv, EnvTypeOK, EnvKept, Progress, StopsInTime, GraceCounted,
         StillAllowed, Quiet, Vacant, WorkerAlive
<1> QED BY <1>1, <1>2, EnvTypes DEF EnvInv

LEMMA EnvAlways == EnvSpec => []EnvInv
<1>1. EnvInit => EnvInv
  <2> SUFFICES ASSUME EnvInit PROVE EnvInv
    OBVIOUS
  <2>1. EnvTypeOK
    <3>1. 0 \in 0..Trouble /\ 0 \in 0..OrphanGrace
      BY EnvironmentAssumption
    <3> QED BY <3>1, StopTypes DEF EnvInit, EnvTypeOK
  <2>2. EnvKept
    BY StopTypes DEF EnvInit, EnvKept, Progress, StopsInTime, GraceCounted, StillAllowed, EnvAgents,
       NoStop, NoRecord
  <2> QED BY <2>1, <2>2 DEF EnvInv
<1> QED BY <1>1, EnvInductive, PTL DEF EnvSpec

(* The record, the containers, the worker and both stops keep their shape. *)
THEOREM EnvTypeCorrect == EnvSpec => []EnvTypeOK
BY EnvAlways, PTL DEF EnvInv

(* A record that says "stopped" is right, and stays right: no container of *)
(* the project runs, and nothing is left that could start one.             *)
THEOREM StoppedStays == EnvSpec => []StoppedIsFinal
<1>1. EnvInv => StoppedIsFinal
  BY DEF EnvInv, EnvKept, Progress, StoppedIsFinal
<1> QED BY <1>1, EnvAlways, PTL

(* Claims and pins of agents that were alive prevent a stop, and the       *)
(* watchdog stops only what was vacant for the whole grace.                *)
THEOREM DisposalIsJustified == EnvSpec => DisposalJustified
<1> DEFINE Disposal ==
             /\ StopsNow(reaper, reaper') => Justified(reaper)
             /\ StopsNow(release, release') => Justified(release)
             /\ reaper.pc = "authorize" /\ reaper'.pc = "stop" => Vacant /\ gone = OrphanGrace
<1>1. EnvInv /\ [EnvNext]_envvars => [Disposal]_envvars
  <2> SUFFICES ASSUME EnvInv, EnvNext PROVE Disposal
    OBVIOUS
  <2>1. /\ StopsNow(reaper, reaper') => Justified(reaper)
        /\ StopsNow(release, release') => Justified(release)
    BY DEF EnvInv, EnvKept, StillAllowed, StopsNow, Justified
  <2>2. ASSUME reaper.pc = "authorize", reaper'.pc = "stop"
        PROVE  Vacant /\ gone = OrphanGrace
    <3>1. Authorized(reaper, FALSE)
      BY <2>2, StopTypes DEF EnvNext, Registers, Creates, Prepares, Starts1, Activates, Works, Releases,
         WorkerDies, WorkerDone, GroupEnds, MeasureReaper, MeasureRelease, EnvScan, AuthorizeStop,
         Authorized, StopContainers, Finish, StopFails, EnvTick, ContainerExits, ClaimEnv, AgentChanges,
         stops, ReadProcesses
    <3>2. row # NoRecord /\ row \in EnvRecord
      BY <2>2, EnvFacts DEF EnvInv, EnvKept, StopsInTime
    <3>3. StopEligible(reaper, FALSE)
      BY <2>2, <3>1, <3>2, AuthorizeResult
    <3> QED BY <3>2, <3>3, EnvFacts DEF StopEligible, EnvInv, EnvKept, GraceCounted
  <2> QED BY <2>1, <2>2
<1>3. EnvSpec => []EnvInv /\ [][EnvNext]_envvars
  BY EnvAlways, PTL DEF EnvSpec
<1>4. []EnvInv /\ [][EnvNext]_envvars => [][Disposal]_envvars
  BY <1>1, PTL
<1> QED BY <1>3, <1>4 DEF DisposalJustified

(***************************************************************************)
(* PendingWork.                                                            *)
(***************************************************************************)
\* A row belongs to a supervisor that has registered and has not retired it.
RowsOwned == \A w \in Work : rows[w].status # "none" => proc[w].owner \in {"registered", "dead", "reused"}

\* What is asked about w, of the present state.
Now(w) == Asked(look.kind, look.key, w, rows[w], proc[w])

\* While a look lasts, must and may are bounds of what is pending now.
Bounded ==
  look.pc \in {"read", "confirm"} =>
    \A w \in look.of : /\ w \in look.must => Now(w) /\ (look.kind # "id" => kindOf[w] # "server")
                       /\ Now(w) => w \in look.may

\* A session's look has read the processes, of which the supervisors may have died.
TableRead ==
  look.pc = "read" /\ look.kind # "id" =>
    \A w \in look.of : /\ w \in look.must => Alive(look.table[w])
                       /\ Owed(w, rows[w], look.table[w], look.key) => w \in look.may

\* wait has read the rows too and will look at the processes again.
RowsRead ==
  look.pc = "confirm" =>
    /\ look.kind \in {"id", "session"} /\ look.must \subseteq look.answer
    /\ look.kind = "session" => look.answer \subseteq look.may
    /\ \A w \in look.answer :
         /\ look.copy[w] \in {"waiting", "running"}
         /\ look.kind = "id" =>
              /\ proc[w].owner \notin {"none", "fresh"}
              /\ Keeps(look.copy[w], proc[w]) => w \in look.may
              /\ w \in look.must /\ look.copy[w] = "waiting" => Alive(proc[w])

\* The fields of a look; its table and its copy are functions on jobs, or absent.
LookShape ==
  look \in [pc : {"idle", "read", "confirm", "answered"}, kind : {"id", "session", "event", "wait"},
            key : Keys \cup {NoKey}, of : SUBSET Work, table : {look.table}, copy : {look.copy},
            must : SUBSET look.of, may : SUBSET look.of, answer : SUBSET look.of]

PendingInv ==
  /\ PendingTypeOK /\ LookShape /\ RowsOwned /\ Bounded /\ TableRead /\ RowsRead /\ AnswersTrue

ProcShape == [owner : {"none", "fresh", "registered", "leaving", "dead", "reused"}, group : Groups]
RowShape == [status : {"none", "waiting", "running"}, cancel : BOOLEAN, members : Groups]

\* What one event does to a job: a supervisor that is gone does not come back, an
\* empty group of a registered job stays empty, and a dying supervisor leaves its row.
JobStep(w) ==
  /\ rows'[w].status # "none" => proc'[w].owner \in {"registered", "dead", "reused"}
  /\ Alive(proc'[w]) => Alive(proc[w]) \/ proc[w].owner = "none"
  /\ proc[w].owner \notin {"none", "fresh"} => proc'[w].owner \notin {"none", "fresh"}
  /\ ~Alive(proc[w]) /\ proc[w].owner # "none" /\ proc[w].group = {} => proc'[w].group = {}
  /\ ~Alive(proc[w]) /\ rows'[w].status # "none" =>
       rows[w].status # "none" /\ rows'[w].cancel = rows[w].cancel
  /\ Alive(proc[w]) /\ ~Alive(proc'[w]) => rows'[w] = rows[w]

LEMMA JobSteps ==
  ASSUME PendingTypeOK, RowsOwned, Happens
  PROVE  /\ proc' \in [Work -> ProcShape] /\ rows' \in [Work -> RowShape]
         /\ \A w \in Work : JobStep(w)
<1>1. proc \in [Work -> ProcShape] /\ rows \in [Work -> RowShape] /\ NoEntryRow \in RowShape
  BY DEF PendingTypeOK, ProcShape, RowShape, NoEntryRow, Groups
<1>2. PICK v \in Work :
        \/ Spawns(v) \/ Enters(v) \/ Publishes(v) \/ Cancelled(v) \/ Retires(v) \/ Refreshes(v)
        \/ OwnerEnds(v) \/ OwnerReused(v) \/ ChildForked(v) \/ MemberExits(v)
  BY DEF Happens
<1>3. \A w \in Work :
        /\ proc[w].owner \in {"none", "fresh", "registered", "leaving", "dead", "reused"}
        /\ rows[w].status # "none" => proc[w].owner \in {"registered", "dead", "reused"}
  BY <1>1 DEF RowsOwned, ProcShape
<1> USE <1>1 DEF JobStep, Owner, Alive, ProcShape, RowShape, Groups
<1>4. CASE Spawns(v)
  BY <1>3, <1>4 DEF Spawns
<1>5. CASE Enters(v)
  <2>1. proc' \in [Work -> ProcShape] /\ rows' \in [Work -> RowShape]
    <3>1. proc' \in [Work -> ProcShape]
      BY <1>5 DEF Enters
    <3>2. rows' = [rows EXCEPT ![v] = [rows[v] EXCEPT !.status = "waiting"]]
      BY <1>5, Zenon DEF Enters
    <3>3. [rows[v] EXCEPT !.status = "waiting"] \in RowShape
      OBVIOUS
    <3> QED BY <3>1, <3>2, <3>3
  <2>2. ASSUME NEW w \in Work PROVE JobStep(w)
    BY <1>3, <1>5 DEF Enters
  <2> QED BY <2>1, <2>2
<1>6. CASE Publishes(v)
  <2>1. proc' \in [Work -> ProcShape] /\ rows' \in [Work -> RowShape]
    <3>1. proc' = [proc EXCEPT ![v] = [proc[v] EXCEPT !.group = {"leader"}]]
      BY <1>6, Zenon DEF Publishes
    <3>2. rows' = [rows EXCEPT ![v] = [rows[v] EXCEPT !.status = "running", !.members = {"leader"}]]
      BY <1>6 DEF Publishes
    <3>3. [proc[v] EXCEPT !.group = {"leader"}] \in ProcShape
      OBVIOUS
    <3>4. [rows[v] EXCEPT !.status = "running", !.members = {"leader"}] \in RowShape
      OBVIOUS
    <3>5. proc' \in [Work -> ProcShape]
      BY <3>1, <3>3
    <3> QED BY <3>2, <3>4, <3>5
  <2>2. ASSUME NEW w \in Work PROVE JobStep(w)
    BY <1>3, <1>6 DEF Publishes
  <2> QED BY <2>1, <2>2
<1>7. CASE Cancelled(v)
  BY <1>3, <1>7 DEF Cancelled
<1>8. CASE Retires(v)
  <2>1. proc' \in [Work -> ProcShape] /\ rows' \in [Work -> RowShape]
    BY <1>8 DEF Retires, NoEntryRow
  <2>2. ASSUME NEW w \in Work PROVE JobStep(w)
    <3>1. CASE w = v
      <4>1. rows'[w].status = "none" /\ proc'[w].owner = "leaving" /\ proc[w].owner = "registered"
        BY <1>8, <3>1 DEF Retires, NoEntryRow
      <4> QED BY <4>1
    <3>2. CASE w # v
      BY <1>3, <1>8, <3>2 DEF Retires
    <3> QED BY <3>1, <3>2
  <2> QED BY <2>1, <2>2
<1>9. CASE Refreshes(v)
  BY <1>3, <1>9 DEF Refreshes, NoEntryRow, Keeps
<1>10. CASE OwnerEnds(v)
  BY <1>3, <1>10 DEF OwnerEnds
<1>11. CASE OwnerReused(v)
  BY <1>3, <1>11 DEF OwnerReused
<1>12. CASE ChildForked(v)
  BY <1>3, <1>12 DEF ChildForked
<1>13. CASE MemberExits(v)
  BY <1>3, <1>13 DEF MemberExits
<1> QED BY <1>2, <1>4, <1>5, <1>6, <1>7, <1>8, <1>9, <1>10, <1>11, <1>12, <1>13

\* The events of the jobs, while somebody may be looking.
LEMMA MeanwhileKeeps ==
  ASSUME PendingInv, Meanwhile
  PROVE  PendingInv'
<1>1. proc' \in [Work -> ProcShape] /\ rows' \in [Work -> RowShape] /\ \A w \in Work : JobStep(w)
  BY JobSteps DEF PendingInv, Meanwhile
<1>2. proc \in [Work -> ProcShape] /\ rows \in [Work -> RowShape]
  BY DEF PendingInv, PendingTypeOK, ProcShape, RowShape
<1>3. RowsOwned'
  BY <1>1 DEF RowsOwned, JobStep
<1>4. UNCHANGED kindOf
  BY DEF Meanwhile
<1>5. CASE look.pc \notin {"read", "confirm"}
  <2>1. look' = look
    BY <1>5 DEF Meanwhile
  <2>2. PendingTypeOK' /\ LookShape' /\ AnswersTrue'
    BY <1>1, <1>4, <2>1 DEF PendingInv, PendingTypeOK, LookShape, AnswersTrue, ProcShape, RowShape
  <2> QED BY <1>3, <1>5, <2>1, <2>2 DEF PendingInv, Bounded, TableRead, RowsRead
<1>6. CASE look.pc \in {"read", "confirm"}
  <2> DEFINE now == {w \in look.of : Asked(look.kind, look.key, w, rows'[w], proc'[w])}
             killed == {w \in Work : Alive(proc[w]) /\ ~Alive(proc'[w])}
  <2>1. look' = [look EXCEPT !.must = (look.must \cap now) \ killed, !.may = look.may \cup now]
    BY <1>6 DEF Meanwhile
  <2>2. /\ look'.pc = look.pc /\ look'.kind = look.kind /\ look'.key = look.key /\ look'.of = look.of
        /\ look'.table = look.table /\ look'.copy = look.copy /\ look'.answer = look.answer
        /\ look'.must = (look.must \cap now) \ killed /\ look'.may = look.may \cup now
    <3> HIDE DEF now, killed
    <3> QED BY <2>1 DEF PendingInv, LookShape
  <2>3. look' \in [pc : {"idle", "read", "confirm", "answered"},
                   kind : {"id", "session", "event", "wait"},
                   key : Keys \cup {NoKey}, of : SUBSET Work, table : {look'.table}, copy : {look'.copy},
                   must : SUBSET look'.of, may : SUBSET look'.of, answer : SUBSET look'.of]
    <3>1. now \subseteq look.of
      OBVIOUS
    <3> HIDE DEF now, killed
    <3> QED BY <2>1, <2>2, <3>1 DEF PendingInv, LookShape
  <2>4. PendingTypeOK' /\ LookShape' /\ AnswersTrue'
    BY <1>1, <1>4, <1>6, <2>2, <2>3
       DEF PendingInv, PendingTypeOK, LookShape, AnswersTrue, ProcShape, RowShape
  <2>5. \A w \in look.of : Now(w)' <=> w \in now
    BY <1>4, <2>2 DEF Now, Asked, Owed
  <2>6. Bounded'
    BY <1>4, <1>6, <2>2, <2>5 DEF PendingInv, Bounded
  <2>7. look.of \subseteq Work
    BY DEF PendingInv, LookShape
  <2>8. TableRead'
    <3> SUFFICES ASSUME look.pc = "read", look.kind # "id", NEW w \in look.of
                 PROVE  /\ w \in look'.must => Alive(look.table[w])
                        /\ Owed(w, rows'[w], look.table[w], look.key) => w \in look'.may
      BY <1>4, <2>2 DEF TableRead, Owed
    <3>1. w \in look'.must => Alive(look.table[w])
      BY <2>2 DEF PendingInv, TableRead
    <3>2. ASSUME Owed(w, rows'[w], look.table[w], look.key) PROVE w \in look'.may
      <4>1. CASE Alive(proc'[w])
        <5>1. Asked(look.kind, look.key, w, rows'[w], proc'[w])
          BY <1>4, <3>2, <4>1 DEF Asked, Owed
        <5> QED BY <2>2, <5>1
      <4>2. CASE ~Alive(proc'[w])
        <5>1. rows'[w].status # "none" /\ ~rows'[w].cancel
          BY <3>2 DEF Owed
        <5>2. rows[w].status # "none" /\ ~rows[w].cancel
          BY <1>1, <2>7, <4>2, <5>1 DEF JobStep
        <5>3. Owed(w, rows[w], look.table[w], look.key)
          BY <1>4, <3>2, <5>2 DEF Owed
        <5> QED BY <2>2, <5>3 DEF PendingInv, TableRead
      <4> QED BY <4>1, <4>2
    <3> QED BY <3>1, <3>2
  <2>9. RowsRead'
    <3> SUFFICES ASSUME look.pc = "confirm" PROVE RowsRead'
      BY <2>2 DEF RowsRead
    <3>1. /\ look.kind \in {"id", "session"} /\ look'.must \subseteq look'.answer
          /\ look.kind = "session" => look'.answer \subseteq look'.may
      BY <2>2 DEF PendingInv, RowsRead
    <3>2. ASSUME NEW w \in look.answer, look.kind = "id"
          PROVE  /\ proc'[w].owner \notin {"none", "fresh"}
                 /\ Keeps(look.copy[w], proc'[w]) => w \in look'.may
                 /\ w \in look'.must /\ look.copy[w] = "waiting" => Alive(proc'[w])
      <4>1. /\ w \in Work /\ proc[w].owner \notin {"none", "fresh"}
            /\ Keeps(look.copy[w], proc[w]) => w \in look.may
            /\ w \in look.must /\ look.copy[w] = "waiting" => Alive(proc[w])
            /\ look.copy[w] \in {"waiting", "running"}
        BY <2>7, <3>2 DEF PendingInv, RowsRead, LookShape
      <4>2. Keeps(look.copy[w], proc'[w]) => Keeps(look.copy[w], proc[w])
        BY <1>1, <4>1 DEF JobStep, Keeps
      <4>3. w \in look'.must => w \in look.must /\ w \notin killed
        BY <2>2
      <4> QED BY <1>1, <2>2, <4>1, <4>2, <4>3 DEF JobStep
    <3>3. \A w \in look.answer : look.copy[w] \in {"waiting", "running"}
      BY DEF PendingInv, RowsRead
    <3> QED BY <2>2, <3>1, <3>2, <3>3 DEF RowsRead
  <2> QED BY <1>3, <2>4, <2>6, <2>8, <2>9 DEF PendingInv
<1> QED BY <1>5, <1>6

\* The fields of a look that begins, and that it is bounded at once.
LEMMA AskingKeeps ==
  ASSUME PendingInv, World, NEW kind \in {"id", "session", "event", "wait"},
         NEW key \in Keys \cup {NoKey}, NEW of \in SUBSET Work, Asking(kind, key, of)
  PROVE  PendingInv'
<1> DEFINE now == {w \in of : Asked(kind, key, w, rows[w], proc[w])}
           must == {w \in now : kind = "id" \/ kindOf[w] # "server"}
           seen == IF kind = "id" THEN NoTable ELSE proc
<1>1. look' = [NoLook EXCEPT !.pc = "read", !.kind = kind, !.key = key, !.of = of,
                             !.table = seen, !.must = must, !.may = now]
  BY DEF Asking
<1>2. must \subseteq now /\ now \subseteq of
  OBVIOUS
<1>3. /\ look' = [pc |-> "read", kind |-> kind, key |-> key, of |-> of, table |-> seen,
                  copy |-> NoTable, must |-> must, may |-> now, answer |-> {}]
  <2> HIDE DEF now, must, seen
  <2> QED BY <1>1 DEF NoLook
<1>4. /\ look'.pc = "read" /\ look'.kind = kind /\ look'.key = key /\ look'.of = of
      /\ look'.table = seen /\ look'.must = must /\ look'.may = now
  <2> HIDE DEF now, must, seen
  <2> QED BY <1>3
<1>5. LookShape'
  <2> HIDE DEF now, must, seen
  <2> QED BY <1>2, <1>3 DEF LookShape
<1>6. UNCHANGED <<kindOf, proc, rows>>
  BY DEF World
<1>7. PendingTypeOK' /\ RowsOwned'
  BY <1>5, <1>6 DEF PendingInv, PendingTypeOK, RowsOwned, LookShape
<1>8. Bounded'
  BY <1>4, <1>6 DEF Bounded, Now, Asked, Owed
<1>9. TableRead'
  BY <1>4, <1>6 DEF TableRead, Asked, Owed
<1>10. RowsRead' /\ AnswersTrue'
  BY <1>4 DEF RowsRead, AnswersTrue
<1> QED BY <1>5, <1>7, <1>8, <1>9, <1>10 DEF PendingInv

\* jobs.json is read.
LEMMA ReadsKeeps ==
  ASSUME PendingInv, Reads
  PROVE  PendingInv'
<1> DEFINE pending == IF look.kind = "id" THEN {w \in look.of : rows[w].status # "none"}
                      ELSE PendingJobs(rows, look.table, look.key) \cap look.of
           next == IF look.kind \in {"id", "session"} THEN "confirm" ELSE "answered"
           copy == [w \in pending |-> rows[w].status]
<1>1. /\ look.pc = "read"
      /\ look' = [look EXCEPT !.pc = next, !.table = NoTable, !.answer = pending, !.copy = copy]
  BY DEF Reads
<1>2. UNCHANGED <<kindOf, proc, rows>>
  BY DEF Reads, World
<1>3. pending \subseteq look.of /\ look.of \subseteq Work
  BY DEF PendingInv, LookShape, PendingJobs
<1>4. /\ look'.pc = next /\ look'.kind = look.kind /\ look'.key = look.key /\ look'.of = look.of
      /\ look'.copy = copy /\ look'.must = look.must /\ look'.may = look.may /\ look'.answer = pending
      /\ LookShape'
  <2>1. next \in {"confirm", "answered"}
    OBVIOUS
  <2> HIDE DEF pending, next, copy
  <2> QED BY <1>1, <1>3, <2>1 DEF PendingInv, LookShape
<1>5. ASSUME NEW w \in look.of, rows[w].status # "none" PROVE rows[w].status \in {"waiting", "running"}
  BY <1>3, <1>5 DEF PendingInv, PendingTypeOK
<1>6. look.must \subseteq pending
  <2> SUFFICES ASSUME NEW w \in look.must PROVE w \in pending
    OBVIOUS
  <2>1. w \in look.of /\ Now(w) /\ (look.kind # "id" => kindOf[w] # "server")
    BY <1>1 DEF PendingInv, LookShape, Bounded
  <2>2. CASE look.kind = "id"
    BY <2>1, <2>2 DEF Now, Asked, Keeps
  <2>3. CASE look.kind # "id"
    <3>1. Owed(w, rows[w], look.table[w], look.key)
      BY <1>1, <2>1, <2>3 DEF Now, Asked, Owed, PendingInv, TableRead
    <3> QED BY <1>3, <2>1, <2>3, <3>1 DEF PendingJobs, RunningServer
  <2> QED BY <2>2, <2>3
<1>7. look.kind # "id" => pending \subseteq look.may
  BY <1>1 DEF PendingInv, TableRead, PendingJobs
<1>8. RowsRead'
  <2> SUFFICES ASSUME look.kind \in {"id", "session"} PROVE RowsRead'
    BY <1>4 DEF RowsRead
  <2>1. ASSUME NEW w \in pending
        PROVE  /\ copy[w] \in {"waiting", "running"}
               /\ look.kind = "id" => /\ proc[w].owner \notin {"none", "fresh"}
                                      /\ Keeps(copy[w], proc[w]) => w \in look.may
                                      /\ w \in look.must /\ copy[w] = "waiting" => Alive(proc[w])
    <3>1. w \in look.of /\ w \in Work /\ rows[w].status # "none" /\ copy[w] = rows[w].status
      BY <1>3 DEF PendingJobs, Owed
    <3>2. copy[w] \in {"waiting", "running"}
      BY <1>5, <3>1
    <3>3. proc[w].owner \in {"registered", "dead", "reused"}
      BY <3>1 DEF PendingInv, RowsOwned
    <3>4. look.kind = "id" => (Now(w) <=> Keeps(copy[w], proc[w]))
      BY <3>1 DEF Now, Asked
    <3> QED BY <1>1, <3>1, <3>2, <3>3, <3>4 DEF PendingInv, Bounded, Keeps
  <2> QED BY <1>2, <1>4, <1>6, <1>7, <2>1 DEF RowsRead
<1>9. AnswersTrue'
  BY <1>4, <1>6, <1>7 DEF AnswersTrue
<1>10. PendingTypeOK' /\ RowsOwned'
  BY <1>2, <1>4 DEF PendingInv, PendingTypeOK, RowsOwned, LookShape
<1>11. Bounded'
  BY <1>1, <1>2, <1>4 DEF PendingInv, Bounded, Now, Asked, Owed
<1>12. TableRead'
  BY <1>4 DEF TableRead
<1> QED BY <1>4, <1>8, <1>9, <1>10, <1>11, <1>12 DEF PendingInv

\* The second look of wait at the processes.
LEMMA ConfirmsKeeps ==
  ASSUME PendingInv, Confirms
  PROVE  PendingInv'
<1> DEFINE kept == {w \in look.answer : Keeps(look.copy[w], proc[w])}
<1>1. look.pc = "confirm" /\ look' = [look EXCEPT !.pc = "answered", !.copy = NoTable, !.answer = kept]
  BY DEF Confirms
<1>2. UNCHANGED <<kindOf, proc, rows>>
  BY DEF Confirms, World
<1>3. /\ look'.pc = "answered" /\ look'.must = look.must /\ look'.may = look.may
      /\ look'.answer = kept /\ LookShape'
  <2>1. kept \subseteq look.answer
    OBVIOUS
  <2> HIDE DEF kept
  <2> QED BY <1>1, <2>1 DEF PendingInv, LookShape
<1>4. look.must \subseteq kept
  <2> SUFFICES ASSUME NEW w \in look.must PROVE Keeps(look.copy[w], proc[w])
    BY <1>1 DEF PendingInv, RowsRead
  <2>1. /\ w \in look.of /\ w \in look.answer /\ Now(w) /\ look.copy[w] \in {"waiting", "running"}
        /\ look.kind \in {"id", "session"}
        /\ look.kind = "id" /\ look.copy[w] = "waiting" => Alive(proc[w])
    BY <1>1 DEF PendingInv, LookShape, Bounded, RowsRead
  <2> QED BY <2>1 DEF Now, Asked, Keeps, Owed
<1>5. kept \subseteq look.may
  BY <1>1 DEF PendingInv, RowsRead
<1>6. PendingTypeOK' /\ RowsOwned' /\ AnswersTrue'
  BY <1>2, <1>3, <1>4, <1>5 DEF PendingInv, PendingTypeOK, RowsOwned, LookShape, AnswersTrue
<1> QED BY <1>3, <1>6 DEF PendingInv, Bounded, TableRead, RowsRead

LEMMA NoLookKeeps ==
  ASSUME PendingTypeOK, RowsOwned, look' = NoLook, UNCHANGED <<kindOf, proc, rows>>
  PROVE  PendingInv'
<1>1. look'.pc = "idle" /\ LookShape'
  BY DEF NoLook, LookShape
<1> QED BY <1>1 DEF PendingInv, PendingTypeOK, RowsOwned, LookShape, Bounded, TableRead, RowsRead, AnswersTrue

LEMMA PendingInductive == PendingInv /\ [PendingNext]_pendingvars => PendingInv'
<1> SUFFICES ASSUME PendingInv, [PendingNext]_pendingvars PROVE PendingInv'
  OBVIOUS
<1>1. CASE Meanwhile
  BY <1>1, MeanwhileKeeps
<1>2. ASSUME NEW w \in Work, Looks("id", NoKey, {w}) PROVE PendingInv'
  BY <1>2, AskingKeeps DEF Looks
<1>3. ASSUME NEW key \in Keys \cup {NoKey}, NEW kind \in {"session", "event"}, Looks(kind, key, Work)
      PROVE  PendingInv'
  BY <1>3, AskingKeeps DEF Looks
<1>4. CASE Reads
  BY <1>4, ReadsKeeps
<1>5. CASE Confirms
  BY <1>5, ConfirmsKeeps
<1>6. CASE Again
  <2>1. /\ look.kind \in {"id", "session", "event", "wait"} /\ look.key \in Keys \cup {NoKey}
        /\ look.of \in SUBSET Work
    BY DEF PendingInv, LookShape
  <2>2. CASE look.kind = "event"
    BY <1>6, <2>1, <2>2, AskingKeeps DEF Again
  <2>3. CASE look.kind # "event"
    BY <1>6, <2>1, <2>3, AskingKeeps DEF Again
  <2> QED BY <2>2, <2>3
<1>7. CASE Told \/ LookFails
  BY <1>7, NoLookKeeps DEF Told, LookFails, World, PendingInv
<1>8. CASE UNCHANGED pendingvars
  BY <1>8 DEF pendingvars, PendingInv, PendingTypeOK, LookShape, RowsOwned, Bounded, Now, Asked, Owed,
              TableRead, RowsRead, AnswersTrue
<1> QED BY <1>1, <1>2, <1>3, <1>4, <1>5, <1>6, <1>7, <1>8 DEF PendingNext

LEMMA PendingAlways == PendingSpec => []PendingInv
<1>1. PendingInit => PendingInv
  <2> SUFFICES ASSUME PendingInit PROVE PendingInv
    OBVIOUS
  <2>1. look.pc = "idle" /\ LookShape
    BY DEF PendingInit, NoLook, LookShape
  <2>2. PendingTypeOK /\ RowsOwned
    BY <2>1 DEF PendingInit, PendingTypeOK, RowsOwned, NoProcess, NoEntryRow, Groups, LookShape
  <2> QED BY <2>1, <2>2 DEF PendingInv, Bounded, TableRead, RowsRead, AnswersTrue
<1> QED BY <1>1, PendingInductive, PTL DEF PendingSpec

(* What an asker is told was so at some moment while it was asking, and    *)
(* what was so all the time it is told, whatever the supervisors did       *)
(* between its readings of the processes and of jobs.json; for any jobs,   *)
(* sessions and kinds of work.                                             *)
THEOREM AnswersAreTrue == PendingSpec => []AnswersTrue
BY PendingAlways, PTL DEF PendingInv

\* The rows, the processes behind them and what an asker has read keep their types.
THEOREM PendingTypeCorrect == PendingSpec => []PendingTypeOK
BY PendingAlways, PTL DEF PendingInv

(***************************************************************************)
(* PlannedKill.                                                            *)
(***************************************************************************)
LEMMA KillConstants ==
  /\ Uses \in Nat /\ 0 \in 0..Uses /\ 1 \in 0..Uses
  /\ RecoveryGrace \in Nat /\ Lease \in Nat /\ Fresh \in Nat /\ Moves \in Nat
  /\ 0 \in 0..Lease + 1 /\ Lease + 1 \in 0..Lease + 1 /\ 0 \in 0..RecoveryGrace /\ 0 \in 0..Fresh + 1
  /\ Agent \in Pids /\ Runner \in Pids /\ Root \in Pids /\ Child \in Pids /\ Claimant \in Pids
  /\ Init1 \notin Pids
BY PidsAssumption, LeaseAssumption, PlannedAssumption

LEMMA KillValues ==
  /\ NoRow \in Row /\ Nobody \in Members /\ Never \in [Pids -> Named]
  /\ NoLease \in LeaseShape /\ NoPlan \in Plan
  /\ Idle \in Kill /\ NoEntry \notin Entry
<1> USE KillConstants
<1>1. NoRow \in Row
  BY DEF NoRow, Row, Commands
<1>2. Nobody \in Members /\ Never \in [Pids -> Named]
  BY DEF Nobody, Members, Never, Named
<1>3. NoLease \in LeaseShape
  BY DEF NoLease, LeaseShape, Members
<1>4. NoPlan \in Plan
  BY <1>2 DEF NoPlan, Plan
<1>5. NoEntry \notin Entry
  BY DEF NoEntry, Entry
<1>6. Idle \in Kill
  BY <1>2, <1>4 DEF Idle, Kill
<1> QED BY <1>1, <1>2, <1>3, <1>4, <1>5, <1>6

\* What is recorded of a set of processes.
LEMMA EntryTyped ==
  ASSUME PlannedTypeOK, NEW S
  PROVE  /\ Started(S) \in Members /\ Naming(S) \in [Pids -> Named]
         /\ Identities(table, S) \in Members
         /\ Described(table, S) \in [Pids -> Commands \cup {"none"}]
<1>1. \A p \in Pids : /\ table[p].start \in 0..Uses /\ table[p].command \in Commands
                      /\ table[p].group \in Pids \cup {Init1}
  BY DEF PlannedTypeOK, Row
<1>2. Never \in [Pids -> Named] /\ 0 \in 0..Uses
  BY KillValues, KillConstants
<1>3. \A p \in Pids : [start |-> table[p].start, command |-> table[p].command, group |-> table[p].group] \in Named
  BY <1>1 DEF Named
<1> QED BY <1>1, <1>2, <1>3 DEF Started, Naming, Identities, Described, Members

LEMMA RefreshedTypes ==
  ASSUME PlannedTypeOK, NEW job \in Entry \cup {NoEntry}
  PROVE  /\ Refreshed(job) \in Entry \cup {NoEntry}
         /\ Refreshed(job) # NoEntry =>
              /\ job # NoEntry
              /\ Refreshed(job).lease = job.lease /\ Refreshed(job).status = job.status
              /\ Refreshed(job).pinned = job.pinned /\ Refreshed(job).claim = job.claim
              /\ Refreshed(job).group = job.group
              /\ Refreshed(job).agent_start = job.agent_start
<1>1. CASE Refreshed(job) \in {NoEntry, job}
  BY <1>1
<1>2. CASE Refreshed(job) \notin {NoEntry, job}
  <2>1. PICK members \in Members, footprint \in Members :
          job # NoEntry /\ Refreshed(job) = [job EXCEPT !.members = members, !.footprint = footprint]
    <3> DEFINE members == IF Same(table, Runner, 1) THEN Started(Group(table, Root)) ELSE job.members
               known == {p \in Pids : Same(table, p, members[p]) \/ Same(table, p, job.footprint[p])} \ {Runner}
               footprint == Started(UNION {Descendants(p, table) : p \in known} \ {Runner})
    <3>1. job # NoEntry /\ Refreshed(job) = [job EXCEPT !.members = members, !.footprint = footprint]
      BY <1>2 DEF Refreshed
    <3>2. members \in Members /\ footprint \in Members
      BY <3>1, EntryTyped DEF Entry
    <3> HIDE DEF members, footprint
    <3> QED BY <3>1, <3>2
  <2> QED BY <2>1, KillValues DEF Entry
<1> QED BY <1>1, <1>2

LEMMA ObservedTypes ==
  ASSUME PlannedTypeOK, NEW job \in Entry, NEW seen, NEW near
  PROVE  /\ Observed(job, table, seen, near) \in LeaseShape
         /\ Observed(job, table, seen, near).clear \in {0, job.lease.clear}
         /\ Vetoed(job, table, seen, near) => Observed(job, table, seen, near).clear = 0
<1> DEFINE group == Abandoned(job, table)
           same == /\ job.lease.members = Identities(table, group)
                   /\ job.lease.commands = Described(table, group)
                   /\ Renewable(job.lease)
           since == IF same THEN job.lease.since ELSE 0
           clear == IF same /\ ~Vetoed(job, table, seen, near) THEN job.lease.clear ELSE 0
           lease == [at |-> 0, since |-> since, clear |-> clear,
                     members |-> Identities(table, group), commands |-> Described(table, group)]
<1>1. Observed(job, table, seen, near) = IF group = {} THEN NoLease ELSE lease
  BY DEF Observed
<1>2. since \in 0..RecoveryGrace /\ clear \in 0..RecoveryGrace
  BY KillConstants DEF Entry, LeaseShape
<1>3. lease \in LeaseShape
  <2>1. Identities(table, group) \in Members /\ Described(table, group) \in [Pids -> Commands \cup {"none"}]
    BY EntryTyped
  <2> HIDE DEF since, clear, group
  <2> QED BY <1>2, <2>1, KillConstants DEF LeaseShape
<1>4. clear \in {0, job.lease.clear} /\ (Vetoed(job, table, seen, near) => clear = 0)
  OBVIOUS
<1> HIDE DEF clear, since, group
<1> QED BY <1>1, <1>3, <1>4, KillValues DEF NoLease

LEMMA AllowedTypes ==
  ASSUME NEW escalating \in BOOLEAN
  PROVE  Allowed(escalating) \subseteq Pids
<1>1. \A job, t : /\ Group(t, job.group) \subseteq Pids /\ Abandoned(job, t) \subseteq Pids
                  /\ BootBound(job, t) \subseteq Pids
  BY DEF Group, InUse, Abandoned, BootBound
<1>2. \A plan, job : /\ OrphanAllowed(plan, job, table, kill.seen, around, escalating) \subseteq Pids
                     /\ BootAllowed(plan, job, table, escalating) \subseteq Pids
                     /\ PollAllowed(plan, job, table, escalating) \subseteq Pids
  <2> TAKE plan, job
  <2>1. OrphanAllowed(plan, job, table, kill.seen, around, escalating) \in {Abandoned(job, table), {}}
    BY DEF OrphanAllowed
  <2>2. BootAllowed(plan, job, table, escalating) \in {BootBound(job, table), {}}
    BY DEF BootAllowed
  <2>3. PollAllowed(plan, job, table, escalating) \subseteq Pids
    BY DEF PollAllowed
  <2> QED BY <1>1, <2>1, <2>2, <2>3
<1> QED BY <1>2 DEF Allowed

LEMMA KillInitTypes == PlannedInit => PlannedTypeOK
<1> SUFFICES ASSUME PlannedInit PROVE PlannedTypeOK
  OBVIOUS
<1> USE KillConstants, KillValues
<1>1. \A runner, root \in Commands, old \in BOOLEAN : \A lost : Family(runner, root, "server", lost, old) \in [Pids -> Row]
                /\ Family(runner, root, "boot", lost, old) \in [Pids -> Row]
                /\ Family(runner, root, "sleep", lost, old) \in [Pids -> Row]
  <2> TAKE runner, root \in Commands, old \in BOOLEAN
  <2> TAKE lost
  <2>1. \A parent, group \in Pids \cup {Init1}, command \in Commands, aged \in BOOLEAN :
          Process(parent, group, command, aged) \in Row
    BY DEF Process, Row
  <2>2. {"agent", "runner", "server", "boot", "sleep"} \subseteq Commands
    BY DEF Commands
  <2>3. ASSUME NEW child \in {"server", "boot", "sleep"}
        PROVE  Family(runner, root, child, lost, old) \in [Pids -> Row]
    <3> DEFINE Parent(p) == IF p \in lost THEN Init1 ELSE p
    <3>1. ASSUME NEW p \in Pids
          PROVE (IF p \in lost THEN NoRow ELSE
                 CASE p \in {Agent, Claimant} -> Process(Init1, p, "agent", FALSE)
                   [] p = Runner -> Process(Parent(Agent), Runner, runner, old)
                   [] p = Root -> Process(Parent(Runner), Root, root, old)
                   [] p = Child -> Process(Root, Root, child, old)
                   [] OTHER -> NoRow) \in Row
      <4>1. /\ NoRow \in Row
            /\ p \in {Agent, Claimant} => Process(Init1, p, "agent", FALSE) \in Row
            /\ Process(Parent(Agent), Runner, runner, old) \in Row
            /\ Process(Parent(Runner), Root, root, old) \in Row
            /\ Process(Root, Root, child, old) \in Row
        BY <2>1, <2>2
      <4> QED BY <4>1
    <3> QED BY <3>1 DEF Family
  <2> QED BY <2>3
<1>2. \A lost \in SUBSET {Agent, Runner}, old \in BOOLEAN : Begun(lost, old) \in [Pids -> Row]
  <2> TAKE lost \in SUBSET {Agent, Runner}, old \in BOOLEAN
  <2>1. {"runner", "waiter", "server", "shell", "poll"} \subseteq Commands
    BY DEF Commands
  <2>2. /\ Family("runner", "server", "server", lost, FALSE) \in [Pids -> Row]
        /\ Family("runner", "shell", "boot", {}, old) \in [Pids -> Row]
        /\ Family("waiter", "poll", "sleep", {Root, Child}, old) \in [Pids -> Row]
        /\ Family("runner", "poll", "sleep", lost \cup {Runner}, old) \in [Pids -> Row]
    BY <1>1, <2>1
  <2> QED BY <2>2 DEF Begun
<1>3. table \in [Pids -> Row]
  BY <1>2 DEF PlannedInit
<1>4. \A started \in Members, status \in {"waiting", "running"} : Registered(status, started) \in Entry
  BY DEF Registered, Entry
<1>5. entry \in Entry \cup {NoEntry}
  <2>1. [p \in Pids |-> IF p \in {Root, Child} THEN 1 ELSE 0] \in Members
    BY DEF Members
  <2> QED BY <1>4, <2>1 DEF PlannedInit
<1> QED BY <1>3, <1>5 DEF PlannedInit, PlannedTypeOK

\* The steps of the processes.
LEMMA ProcessTypes ==
  ASSUME PlannedTypeOK,
         \/ \E p \in Pids : Exits(p)
         \/ \E p \in {Root, Child} : Stranger(p) \/ \E q \in {Root, Child} : Forks(q, p)
         \/ \E p \in {Runner, Root, Child} : Becomes(p)
  PROVE  PlannedTypeOK'
<1> USE KillConstants, KillValues
<1>0. Moved => moves' \in 0..Moves
  BY DEF Moved, PlannedTypeOK
<1>1. \A lost : Ended(lost) \in [Pids -> Row]
  <2> TAKE lost
  <2>1. ASSUME NEW p \in Pids
        PROVE  (IF p \in lost THEN NoRow
                ELSE [table[p] EXCEPT !.ppid = IF @ \in lost THEN Init1 ELSE @]) \in Row
    <3> DEFINE parent == IF table[p].ppid \in lost THEN Init1 ELSE table[p].ppid
    <3>1. table[p] \in Row /\ parent \in Pids \cup {Init1}
      BY DEF PlannedTypeOK, Row
    <3> HIDE DEF parent
    <3>2. [table[p] EXCEPT !.ppid = parent] \in Row
      BY <3>1 DEF Row
    <3> QED BY <3>2 DEF parent
  <2> QED BY <2>1 DEF Ended
<1>2. ASSUME NEW p \in Pids, Exits(p) PROVE PlannedTypeOK'
  BY <1>0, <1>1, <1>2 DEF Exits, PlannedTypeOK
<1>3. ASSUME NEW p \in {Root, Child}, NEW entered \in Row, Starting(p, entered) PROVE PlannedTypeOK'
  <2>1. table' \in [Pids -> Row] /\ born' \in [Pids -> 0..Uses]
    BY <1>3 DEF Starting, Free, PlannedTypeOK
  <2> QED BY <1>0, <1>3, <2>1 DEF Starting, PlannedTypeOK
<1>4. ASSUME NEW p \in {Root, Child}, Stranger(p) PROVE PlannedTypeOK'
  <2>1. born[p] + 1 \in 0..Uses
    BY <1>4 DEF Stranger, Starting, Free, PlannedTypeOK
  <2>2. [start |-> born[p] + 1, ppid |-> Init1, group |-> p, command |-> "work", old |-> FALSE] \in Row
    BY <2>1 DEF Row, Commands
  <2> QED BY <1>3, <1>4, <2>2 DEF Stranger
<1>5. ASSUME NEW p \in {Root, Child}, NEW q \in {Root, Child}, Forks(q, p) PROVE PlannedTypeOK'
  <2>1. born[p] + 1 \in 0..Uses /\ table[q] \in Row
    BY <1>5 DEF Forks, Starting, Free, PlannedTypeOK
  <2>2. [table[q] EXCEPT !.start = born[p] + 1, !.ppid = q, !.old = FALSE] \in Row
    BY <2>1 DEF Row
  <2> QED BY <1>3, <1>5, <2>2 DEF Forks
<1>6. ASSUME NEW p \in {Runner, Root, Child}, Becomes(p) PROVE PlannedTypeOK'
  <2>1. PICK entered \in Row : table' = [table EXCEPT ![p] = entered]
    <3>1. table[p] \in Row /\ p \in Pids /\ "work" \in Commands
      BY DEF PlannedTypeOK, Commands
    <3>2. /\ [table[p] EXCEPT !.command = "work"] \in Row
          /\ [table[p] EXCEPT !.group = p] \in Row
          /\ [table[p] EXCEPT !.old = TRUE] \in Row
      BY <3>1 DEF Row
    <3>3. \/ table' = [table EXCEPT ![p] = [table[p] EXCEPT !.command = "work"]]
          \/ table' = [table EXCEPT ![p] = [table[p] EXCEPT !.group = p]]
          \/ table' = [table EXCEPT ![p] = [table[p] EXCEPT !.old = TRUE]]
      BY <1>6 DEF Becomes
    <3> QED BY <3>2, <3>3
  <2>2. table' \in [Pids -> Row]
    BY <2>1 DEF PlannedTypeOK
  <2> QED BY <1>0, <1>6, <2>2 DEF Becomes, PlannedTypeOK
<1> QED BY <1>2, <1>4, <1>5, <1>6

\* The steps of the registry.
LEMMA RegistryTypes ==
  ASSUME PlannedTypeOK, Refresh \/ Admit \/ Claim \/ Surround
  PROVE  PlannedTypeOK'
<1> USE KillConstants, KillValues
<1>0. Moved => moves' \in 0..Moves
  BY DEF Moved, PlannedTypeOK
<1>1. CASE Refresh
  BY <1>1, RefreshedTypes DEF Refresh, world, PlannedTypeOK
<1>2. CASE Admit
  <2>1. entry \in Entry /\ born[Root] + 1 \in 0..Uses /\ born \in [Pids -> 0..Uses]
    BY <1>2 DEF Admit, Free, PlannedTypeOK
  <2> DEFINE members == [entry.members EXCEPT ![Root] = born[Root] + 1]
             footprint == [entry.footprint EXCEPT ![Root] = born[Root] + 1]
             entered == [Process(Runner, Root, "poll", FALSE) EXCEPT !.start = born[Root] + 1]
  <2>2. members \in Members /\ footprint \in Members /\ entered \in Row
    BY <2>1 DEF Entry, Members, Row, Process, Commands
  <2>3. entry' = [entry EXCEPT !.status = "running", !.group = Root, !.members = members, !.footprint = footprint]
    BY <1>2, <2>1 DEF Admit, Entry
  <2>4. table' = [table EXCEPT ![Root] = entered] /\ born' = [born EXCEPT ![Root] = born[Root] + 1]
    BY <1>2 DEF Admit
  <2> HIDE DEF members, footprint, entered
  <2>5. entry' \in Entry
    BY <2>1, <2>2, <2>3 DEF Entry
  <2>6. table' \in [Pids -> Row] /\ born' \in [Pids -> 0..Uses]
    BY <2>1, <2>2, <2>4 DEF PlannedTypeOK
  <2>7. moves' \in 0..Moves /\ UNCHANGED <<scope, around, kill, undisturbed>>
    BY <1>0, <1>2 DEF Admit
  <2> QED BY <2>5, <2>6, <2>7 DEF PlannedTypeOK
<1>3. CASE Claim
  <2>1. entry \in Entry /\ table[Claimant].start \in 0..Uses
    BY <1>3 DEF Claim, PlannedTypeOK, Row
  <2>2. PICK claim \in 0..Uses, pinned \in BOOLEAN : entry' = Claimed(claim, pinned)
    <3>1. entry.claim \in 0..Uses /\ entry.pinned \in BOOLEAN
      BY <2>1 DEF Entry
    <3> QED BY <1>3, <2>1, <3>1 DEF Claim
  <2>3. entry' \in Entry
    BY <2>1, <2>2 DEF Claimed, Entry
  <2> QED BY <1>0, <1>3, <2>3 DEF Claim, PlannedTypeOK
<1>4. CASE Surround
  BY <1>0, <1>4 DEF Surround, PlannedTypeOK
<1> QED BY <1>1, <1>2, <1>3, <1>4

LEMMA ProposedTypes ==
  ASSUME PlannedTypeOK, NEW job \in Entry, NEW S \in SUBSET Pids
  PROVE  Proposed(job, S) \in Kill
<1> DEFINE plan == [NoPlan EXCEPT !.members = Naming(S), !.status = job.status]
<1>1. plan \in Plan
  BY KillConstants, KillValues, EntryTyped DEF NoPlan, Plan, Entry
<1>2. Proposed(job, S) = IF S = {} THEN Idle ELSE [Idle EXCEPT !.round = 1, !.plan = plan]
  BY DEF Proposed, Idle, NoPlan
<1> HIDE DEF plan
<1>3. Idle \in Kill
  BY KillValues
<1>4. [Idle EXCEPT !.round = 1, !.plan = plan] \in Kill
  <2>1. 1 \in 0..4
    OBVIOUS
  <2> QED BY <1>1, <1>3, <2>1 DEF Kill
<1> QED BY <1>2, <1>3, <1>4

\* The steps of the watchdog.
LEMMA WatchdogTypes ==
  ASSUME PlannedTypeOK,
         Read \/ ScanJob \/ Filter \/ NoteIdentities \/ Term \/ Survivors \/ KillNow \/ KillGivesUp
  PROVE  PlannedTypeOK'
<1> USE KillConstants, KillValues
<1>0. kill \in Kill
  BY DEF PlannedTypeOK
<1>a. ASSUME kill' \in Kill, UNCHANGED <<world, entry, undisturbed>> PROVE PlannedTypeOK'
  BY <1>a DEF world, PlannedTypeOK
<1>1. CASE Read
  <2> DEFINE seen == IF scope = "orphan" THEN around \cap {"client"} ELSE {}
             kept == IF scope = "orphan" \/ kill.round < 2 \/ entry = NoEntry THEN {}
                     ELSE ProtectedClaims(entry, table)
             job == IF scope = "orphan" THEN NoEntry ELSE entry
  <2>1. seen \subseteq {"client"} /\ job \in Entry \cup {NoEntry}
    BY DEF PlannedTypeOK
  <2>2. kept \subseteq Pids
    <3>1. \A p \in Pids : Descendants(p, table) \subseteq Pids
      BY DescendantsOf DEF InUse
    <3> QED BY <3>1 DEF ProtectedClaims
  <2>3. kill' = [kill EXCEPT !.pc = "decide", !.seen = seen, !.kept = kept, !.job = job]
    BY <1>1 DEF Read
  <2> HIDE DEF seen, kept, job
  <2>4. kill' \in Kill
    BY <1>0, <2>1, <2>2, <2>3 DEF Kill
  <2> QED BY <1>1, <1>a, <2>4 DEF Read
<1>2. CASE ScanJob
  <2>1. ASSUME NEW job \in Entry, NEW t PROVE Abandoned(job, t) \subseteq Pids /\ BootPlan(job, t) \subseteq Pids
    BY DEF Abandoned, BootPlan, BootBound, Group, InUse
  <2>2. ASSUME NEW job \in Entry PROVE PollPlan(job, table) \subseteq Pids
    BY DEF PollPlan, PollWaiting, PollRunning, Group, InUse, Entry
  <2>3. CASE ScanOrphan
    <3> DEFINE job == Refreshed(entry)
               lease == Observed(job, table, kill.seen, around)
    <3>1. CASE job = NoEntry
      BY <1>2, <2>3, <3>1 DEF ScanJob, ScanOrphan, world, PlannedTypeOK
    <3>2. CASE job # NoEntry
      <4>1. job \in Entry
        BY <3>2, RefreshedTypes DEF PlannedTypeOK
      <4>2. lease \in LeaseShape
        BY <4>1, ObservedTypes
      <4>3. entry' = [job EXCEPT !.lease = lease] /\ undisturbed' \in {0, undisturbed}
        BY <2>3, <3>2 DEF ScanOrphan
      <4>4. PICK S \in SUBSET Pids : kill' = Proposed(job, S)
        BY <2>1, <2>3, <3>2, <4>1 DEF ScanOrphan
      <4>5. kill' \in Kill
        BY <4>1, <4>4, ProposedTypes
      <4> HIDE DEF lease, job
      <4>6. entry' \in Entry
        BY <4>1, <4>2, <4>3 DEF Entry
      <4> QED BY <1>2, <4>3, <4>5, <4>6 DEF ScanJob, world, PlannedTypeOK
    <3> QED BY <3>1, <3>2
  <2>4. CASE ScanOthers
    <3>1. CASE kill.job = NoEntry
      BY <1>2, <1>a, <2>4, <3>1 DEF ScanJob, ScanOthers, Proposed
    <3>2. CASE kill.job # NoEntry
      <4>1. kill.job \in Entry
        BY <1>0, <3>2 DEF Kill
      <4>2. PICK S \in SUBSET Pids : kill' = Proposed(kill.job, S)
        BY <2>1, <2>2, <2>4, <3>2, <4>1 DEF ScanOthers
      <4> QED BY <1>2, <1>a, <2>4, <4>1, <4>2, ProposedTypes DEF ScanJob, ScanOthers
    <3> QED BY <3>1, <3>2
  <2> QED BY <1>2, <2>3, <2>4 DEF ScanJob
<1>3. CASE Filter
  <2> DEFINE allowed == Allowed(kill.round = 4) \ kill.kept
             pids == IF kill.round = 1 THEN allowed ELSE kill.pids \cap allowed
             round == IF kill.round = 1 THEN 2 ELSE kill.round
             pc == CASE kill.round = 1 -> "read" [] kill.round = 2 -> "note"
                     [] kill.round = 3 -> "term" [] OTHER -> "kill"
  <2>1. pids \subseteq Pids
    BY AllowedTypes
  <2>2. round \in 0..4 /\ pc \in {"read", "note", "term", "kill"}
    BY <1>0 DEF Kill
  <2>3. kill' = IF pids = {} THEN Idle
                ELSE [kill EXCEPT !.pids = pids, !.seen = {}, !.kept = {}, !.job = NoEntry,
                                  !.round = round, !.pc = pc]
    BY <1>3 DEF Filter
  <2> HIDE DEF allowed, pids, round, pc
  <2>4. kill' \in Kill
    BY <1>0, <2>1, <2>2, <2>3 DEF Kill
  <2> QED BY <1>3, <1>a, <2>4 DEF Filter
<1>4. CASE NoteIdentities
  <2>1. kill' \in Kill
    <3>1. PICK idents \in [Pids -> Named] :
            kill' = [kill EXCEPT !.idents = idents, !.pc = "read", !.round = 3]
      BY <1>4, EntryTyped DEF NoteIdentities
    <3>2. 3 \in 0..4
      OBVIOUS
    <3> QED BY <1>0, <3>1, <3>2 DEF Kill
  <2> QED BY <1>4, <1>a, <2>1 DEF NoteIdentities
<1>5. CASE Term
  BY <1>0, <1>5, <1>a DEF Term, Kill
<1>6. CASE Survivors
  <2>1. kill' \in Kill
    <3> DEFINE survivors == {p \in kill.pids \cap InUse(table) : Naming({p})[p] = kill.idents[p]}
    <3>1. survivors \subseteq Pids
      BY DEF InUse
    <3>2. kill' = IF survivors = {} THEN Idle ELSE [kill EXCEPT !.pids = survivors, !.pc = "read", !.round = 4]
      BY <1>6 DEF Survivors
    <3> HIDE DEF survivors
    <3>3. 4 \in 0..4
      OBVIOUS
    <3> QED BY <1>0, <3>1, <3>2, <3>3 DEF Kill
  <2> QED BY <1>6, <1>a, <2>1 DEF Survivors
<1>7. CASE KillNow
  <2>1. ASSUME NEW p \in Pids
        PROVE  (IF p \in kill.pids THEN NoRow
                ELSE [table[p] EXCEPT !.ppid = IF @ \in kill.pids THEN Init1 ELSE @]) \in Row
    <3> DEFINE parent == IF table[p].ppid \in kill.pids THEN Init1 ELSE table[p].ppid
    <3>1. table[p] \in Row /\ parent \in Pids \cup {Init1}
      BY DEF PlannedTypeOK, Row
    <3> HIDE DEF parent
    <3>2. [table[p] EXCEPT !.ppid = parent] \in Row
      BY <3>1 DEF Row
    <3> QED BY <3>2 DEF parent
  <2>2. table' \in [Pids -> Row]
    BY <1>7, <2>1 DEF KillNow, Ended
  <2> QED BY <1>7, <2>2 DEF KillNow, PlannedTypeOK
<1>8. CASE KillGivesUp
  BY <1>8, <1>a DEF KillGivesUp
<1> QED BY <1>1, <1>2, <1>3, <1>4, <1>5, <1>6, <1>7, <1>8

LEMMA LaterTypes ==
  ASSUME NEW bound \in Nat, NEW age \in 0..bound
  PROVE  Later(age, bound) \in 0..bound
BY DEF Later

LEMMA TickTypes ==
  ASSUME PlannedTypeOK, KillTick
  PROVE  PlannedTypeOK'
<1> USE KillConstants, KillValues
<1>1. kill' \in Kill
  <2> DEFINE age == IF kill.round = 0 THEN 0 ELSE Later(kill.plan.age, Fresh + 1)
  <2>1. kill.plan.age \in 0..Fresh + 1 /\ Fresh + 1 \in Nat
    BY DEF PlannedTypeOK, Kill, Plan
  <2>2. age \in 0..Fresh + 1
    BY <2>1, LaterTypes
  <2>3. kill' = [kill EXCEPT !.plan = [kill.plan EXCEPT !.age = age]]
    BY DEF KillTick, PlannedTypeOK, Kill
  <2> HIDE DEF age
  <2> QED BY <2>2, <2>3 DEF PlannedTypeOK, Kill, Plan
<1>2. entry' \in Entry \cup {NoEntry}
  <2>1. CASE entry = NoEntry \/ entry.lease = NoLease
    BY <2>1 DEF KillTick, PlannedTypeOK
  <2>2. CASE ~(entry = NoEntry \/ entry.lease = NoLease)
    <3>1. entry \in Entry /\ entry.lease \in LeaseShape
      BY <2>2 DEF PlannedTypeOK, Entry
    <3>2. /\ Later(entry.lease.at, Lease + 1) \in 0..Lease + 1
          /\ Later(entry.lease.since, RecoveryGrace) \in 0..RecoveryGrace
          /\ Later(entry.lease.clear, RecoveryGrace) \in 0..RecoveryGrace
      <4>1. entry.lease.at \in 0..Lease + 1 /\ Lease + 1 \in Nat
        BY <3>1 DEF LeaseShape
      <4>2. entry.lease.since \in 0..RecoveryGrace /\ entry.lease.clear \in 0..RecoveryGrace
        BY <3>1 DEF LeaseShape
      <4> QED BY <4>1, <4>2, LaterTypes
    <3> DEFINE lease == [entry.lease EXCEPT !.at = Later(entry.lease.at, Lease + 1),
                           !.since = Later(entry.lease.since, RecoveryGrace),
                           !.clear = Later(entry.lease.clear, RecoveryGrace)]
    <3>3. lease \in LeaseShape
      BY <3>1, <3>2 DEF LeaseShape
    <3>4. entry' = [entry EXCEPT !.lease = lease]
      BY <2>2, <3>1 DEF KillTick, Entry, LeaseShape
    <3> HIDE DEF lease
    <3> QED BY <3>1, <3>3, <3>4 DEF Entry
  <2> QED BY <2>1, <2>2
<1>3. undisturbed' \in 0..RecoveryGrace
  BY LaterTypes DEF KillTick, PlannedTypeOK
<1> QED BY <1>1, <1>2, <1>3 DEF KillTick, world, PlannedTypeOK

LEMMA PlannedTypes ==
  ASSUME PlannedTypeOK, [PlannedNext]_killvars
  PROVE  PlannedTypeOK'
<1>1. CASE UNCHANGED killvars
  BY <1>1 DEF killvars, world, PlannedTypeOK
<1>2. CASE PlannedNext
  BY <1>2, ProcessTypes, RegistryTypes, WatchdogTypes, TickTypes DEF PlannedNext
<1> QED BY <1>1, <1>2
\* A target of the plan that is still the process of the plan: of the same birth, with
\* the same command and in the same group.
Targets == {p \in Pids : kill.plan.members[p].start > 0}
AsNoted(p) == Naming({p})[p] = kill.plan.members[p]

\* Births are counted, and only the two that Init starts there are ever in the group.
Kinship ==
  /\ \A p \in Pids : table[p].start <= born[p]
  /\ \A p \in Group(table, Root) : p \in {Root, Child}

\* An entry, as it is or as the watchdog has read it.
Sound(job) ==
  /\ \A p \in Pids : job.members[p] <= born[p]
  /\ job.status = "running" => job.group = Root

\* A lease has no more clear time than has passed since the last claim.  While the root
\* that was read lives, no refresh makes another of it.
EntryKnows ==
  /\ entry # NoEntry => Sound(entry) /\ entry.lease.clear <= undisturbed
  /\ kill.job # NoEntry =>
       /\ Sound(kill.job)
       /\ /\ kill.job.status = "running" /\ entry # NoEntry
          /\ Root \in Group(table, Root) /\ Same(table, Root, kill.job.members[Root])
          => entry.members[Root] = kill.job.members[Root]

\* A polling group has its root, and the others are children of it while it lives.
PollingKnows ==
  /\ Root \in Targets
  /\ AsNoted(Root) =>
       /\ \A p \in Targets \ {Root} : AsNoted(p) => table[p].ppid = Root
       /\ entry # NoEntry => entry.members[Root] = kill.plan.members[Root].start
       /\ kill.job # NoEntry => kill.job.members[Root] = kill.plan.members[Root].start

PlanKnows ==
  kill.round > 0 =>
    /\ Targets # {} /\ kill.plan.status \in {"waiting", "running"}
    /\ \A p \in Targets : kill.plan.members[p].start <= born[p] /\ kill.plan.members[p].command # "work"
    /\ kill.plan.status = "waiting" => Targets = {Runner}
    /\ kill.plan.status = "running" =>
         /\ Targets \subseteq {Root, Child} /\ \A p \in Targets : kill.plan.members[p].group = Root
         /\ scope \notin {"orphan", "boot"} => PollingKnows

\* Until SIGTERM all targets are at stake; afterwards those that have not changed.
RoundKnows ==
  /\ kill.pc = "note" => kill.round = 2
  /\ kill.pc \in {"term", "sleep"} => kill.round = 3
  /\ kill.round < 2 \/ scope = "orphan" => kill.kept = {}
  /\ kill.round \in {2, 3} => kill.pids = Targets
  /\ kill.round = 3 => \A p \in Targets : AsNoted(p) => kill.idents[p] = kill.plan.members[p]
  /\ kill.round = 4 /\ kill.pc # "kill" => \A p \in Targets : AsNoted(p) => p \in kill.pids

\* A claim covers what the registry knows, and the children of its root.
KeptKnows ==
  kill.kept # {} =>
    /\ kill.job # NoEntry /\ \E q \in Pids : kill.job.members[q] > 0
    /\ \A p \in Pids : Same(table, p, kill.job.members[p]) => p \in kill.kept
    /\ \A p \in Targets :
         AsNoted(p) /\ table[p].ppid = Root /\ Same(table, Root, kill.job.members[Root]) => p \in kill.kept

KillInv == PlannedTypeOK /\ Kinship /\ EntryKnows /\ PlanKnows /\ RoundKnows /\ KeptKnows

LEMMA KillFields ==
  ASSUME PlannedTypeOK
  PROVE  /\ kill \in Kill /\ kill.round \in 0..4 /\ kill.plan \in Plan /\ kill.pids \subseteq Pids
         /\ kill.kept \subseteq Pids /\ kill.job \in Entry \cup {NoEntry}
         /\ kill.idents \in [Pids -> Named] /\ kill.plan.members \in [Pids -> Named]
         /\ Targets \subseteq Pids
         /\ \A p \in Pids : /\ table[p] \in Row /\ table[p].start \in Nat /\ born[p] \in Nat
                            /\ table[p].ppid \in Pids \cup {Init1}
                            /\ kill.plan.members[p] \in Named /\ kill.plan.members[p].start \in Nat
<1>1. Uses \in Nat
  BY KillConstants
<1> QED BY <1>1 DEF PlannedTypeOK, Kill, Plan, Named, Row, Targets

\* What the notes on a process say.
LEMMA NotedIs ==
  ASSUME PlannedTypeOK, PlannedTypeOK', NEW p \in Pids
  PROVE  /\ AsNoted(p) <=> /\ table[p].start = kill.plan.members[p].start
                           /\ table[p].command = kill.plan.members[p].command
                           /\ table[p].group = kill.plan.members[p].group
         /\ AsNoted(p)' <=> /\ table'[p].start = kill'.plan.members[p].start
                            /\ table'[p].command = kill'.plan.members[p].command
                            /\ table'[p].group = kill'.plan.members[p].group
<1>1. kill.plan.members[p] \in Named /\ kill'.plan.members[p] \in Named
  BY DEF PlannedTypeOK, Kill, Plan
<1>2. /\ Naming({p})[p] = [start |-> table[p].start, command |-> table[p].command, group |-> table[p].group]
      /\ Naming({p})'[p] = [start |-> table'[p].start, command |-> table'[p].command, group |-> table'[p].group]
  BY DEF Naming
<1> QED BY <1>1, <1>2 DEF AsNoted, Named

\* What a step makes of one process: it is gone, new, or of the same birth.  A parent is only
\* lost when it goes, and no process comes back to its old program or group.
RowMoves(p) ==
  /\ born'[p] \in {born[p], born[p] + 1}
  /\ \/ table'[p].start = 0
     \/ table'[p].start = born[p] + 1 /\ born'[p] = born[p] + 1 /\ p \in {Root, Child}
     \/ /\ table'[p].start = table[p].start
        /\ \/ table'[p].ppid = table[p].ppid
           \/ table'[p].ppid = Init1 /\ (table[p].ppid \in Pids => table'[table[p].ppid].start = 0)
        /\ table'[p].command \in {table[p].command, "work"}
        /\ \/ table'[p].group = table[p].group
           \/ p = Child /\ table[p].group = Root /\ table'[p].group = Child

LEMMA EndedMoves ==
  ASSUME PlannedTypeOK, NEW lost, lost \subseteq Pids, table' = Ended(lost), born' = born
  PROVE  \A p \in Pids : RowMoves(p)
<1> SUFFICES ASSUME NEW p \in Pids PROVE RowMoves(p)
  OBVIOUS
<1>1. born'[p] = born[p]
  OBVIOUS
<1>2. \A q \in Pids : q \in lost => table'[q].start = 0
  BY DEF Ended, NoRow
<1>3. CASE p \notin lost
  <2> DEFINE parent == IF table[p].ppid \in lost THEN Init1 ELSE table[p].ppid
  <2>1. table'[p] = [table[p] EXCEPT !.ppid = parent] /\ table[p] \in Row
    BY <1>3, KillFields DEF Ended
  <2> HIDE DEF parent
  <2>2. /\ table'[p].start = table[p].start /\ table'[p].command = table[p].command
        /\ table'[p].group = table[p].group /\ table'[p].ppid = parent
    BY <2>1 DEF Row
  <2> QED BY <1>1, <1>2, <2>2 DEF RowMoves, parent
<1> QED BY <1>1, <1>2, <1>3 DEF RowMoves

LEMMA StartingMoves ==
  ASSUME PlannedTypeOK, NEW n \in {Root, Child}, NEW entered, entered.start = born[n] + 1,
         table' = [table EXCEPT ![n] = entered], born' = [born EXCEPT ![n] = born[n] + 1]
  PROVE  \A p \in Pids : RowMoves(p)
<1> SUFFICES ASSUME NEW p \in Pids PROVE RowMoves(p)
  OBVIOUS
<1>1. table'[p] = (IF p = n THEN entered ELSE table[p])
      /\ born'[p] = (IF p = n THEN born[p] + 1 ELSE born[p])
  BY KillFields DEF PlannedTypeOK
<1> QED BY <1>1 DEF RowMoves

\* The rows of a whole step.
LEMMA StepMoves ==
  ASSUME PlannedTypeOK, PlannedNext
  PROVE  \A p \in Pids : RowMoves(p)
<1>1. ASSUME UNCHANGED <<table, born>> PROVE \A p \in Pids : RowMoves(p)
  BY <1>1, KillFields DEF RowMoves
<1>2. CASE Read \/ ScanJob \/ Filter \/ NoteIdentities \/ Term \/ Survivors \/ KillGivesUp \/ KillTick
           \/ Refresh \/ Claim \/ Surround
  BY <1>1, <1>2 DEF Read, ScanJob, Filter, NoteIdentities, Term, Survivors, KillGivesUp, KillTick,
                    Refresh, Claim, Surround, world
<1>3. CASE KillNow
  BY <1>3, EndedMoves, KillFields DEF KillNow
<1>4. ASSUME NEW p \in Pids, Exits(p) PROVE \A q \in Pids : RowMoves(q)
  BY <1>4, EndedMoves DEF Exits
<1>5. CASE Admit
  <2> DEFINE entered == [Process(Runner, Root, "poll", FALSE) EXCEPT !.start = born[Root] + 1]
  <2>1. entered.start = born[Root] + 1
    BY DEF Process
  <2>2. table' = [table EXCEPT ![Root] = entered] /\ born' = [born EXCEPT ![Root] = born[Root] + 1]
    BY <1>5 DEF Admit
  <2> HIDE DEF entered
  <2> QED BY <2>1, <2>2, StartingMoves
<1>6. ASSUME NEW n \in {Root, Child}, Stranger(n) PROVE \A p \in Pids : RowMoves(p)
  <2> DEFINE entered == [start |-> born[n] + 1, ppid |-> Init1, group |-> n, command |-> "work", old |-> FALSE]
  <2>1. entered.start = born[n] + 1
    OBVIOUS
  <2>2. table' = [table EXCEPT ![n] = entered] /\ born' = [born EXCEPT ![n] = born[n] + 1]
    BY <1>6 DEF Stranger, Starting
  <2> HIDE DEF entered
  <2> QED BY <2>1, <2>2, StartingMoves
<1>7. ASSUME NEW n \in {Root, Child}, NEW q \in {Root, Child}, Forks(q, n) PROVE \A p \in Pids : RowMoves(p)
  <2> DEFINE entered == [table[q] EXCEPT !.start = born[n] + 1, !.ppid = q, !.old = FALSE]
  <2>1. entered.start = born[n] + 1
    BY KillFields, KillConstants DEF Row
  <2>2. table' = [table EXCEPT ![n] = entered] /\ born' = [born EXCEPT ![n] = born[n] + 1]
    BY <1>7 DEF Forks, Starting
  <2> HIDE DEF entered
  <2> QED BY <2>1, <2>2, StartingMoves
<1>8. ASSUME NEW n \in {Runner, Root, Child}, Becomes(n) PROVE \A p \in Pids : RowMoves(p)
  <2> SUFFICES ASSUME NEW p \in Pids PROVE RowMoves(p)
    OBVIOUS
  <2>1. /\ born' = born
        /\ \/ table' = [table EXCEPT ![n] = [table[n] EXCEPT !.command = "work"]]
           \/ n = Child /\ table[n].group = Root /\ table' = [table EXCEPT ![n] = [table[n] EXCEPT !.group = n]]
           \/ table' = [table EXCEPT ![n] = [table[n] EXCEPT !.old = TRUE]]
    BY <1>8 DEF Becomes
  <2>2. n \in Pids /\ table[n] \in Row /\ table[p] \in Row /\ born[p] \in Nat
    BY KillFields, KillConstants
  <2>3. /\ table'[p].start = table[p].start /\ table'[p].ppid = table[p].ppid
        /\ table'[p].command \in {table[p].command, "work"}
        /\ \/ table'[p].group = table[p].group
           \/ p = Child /\ table[p].group = Root /\ table'[p].group = Child
    BY <2>1, <2>2 DEF PlannedTypeOK, Row
  <2> QED BY <2>1, <2>2, <2>3 DEF RowMoves
<1> QED BY <1>2, <1>3, <1>4, <1>5, <1>6, <1>7, <1>8 DEF PlannedNext

\* A birth that is there now and had been counted was there before.
LEMMA SameBack ==
  ASSUME PlannedTypeOK, NEW p \in Pids, RowMoves(p), NEW start \in Nat, start <= born[p],
         Same(table', p, start)
  PROVE  /\ Same(table, p, start) /\ p \in InUse(table)
         /\ table'[p].group = Root => table[p].group = Root
         /\ \/ table'[p].ppid = table[p].ppid
            \/ table'[p].ppid = Init1 /\ (table[p].ppid \in Pids => table'[table[p].ppid].start = 0)
         /\ table'[p].command \in {table[p].command, "work"}
         /\ \/ table'[p].group = table[p].group
            \/ p = Child /\ table[p].group = Root /\ table'[p].group = Child
BY KillFields DEF RowMoves, Same, InUse

LEMMA KinshipKept ==
  ASSUME PlannedTypeOK, Kinship, \A p \in Pids : RowMoves(p)
  PROVE  Kinship'
<1>1. ASSUME NEW p \in Pids PROVE table'[p].start <= born'[p]
  <2>1. /\ table[p].start <= born[p] /\ table[p].start \in Nat /\ born[p] \in Nat
        /\ born'[p] \in {born[p], born[p] + 1}
        /\ \/ table'[p].start = 0 \/ table'[p].start = table[p].start
           \/ table'[p].start = born[p] + 1 /\ born'[p] = born[p] + 1
    BY KillFields DEF RowMoves, Kinship
  <2> QED BY <2>1
<1>2. ASSUME NEW p \in Group(table', Root) PROVE p \in {Root, Child}
  <2>1. p \in Pids /\ table'[p].start > 0 /\ table'[p].group = Root
    BY <1>2 DEF Group, InUse
  <2>2. CASE table'[p].start = table[p].start /\ table[p].group = Root
    BY <2>1, <2>2 DEF Kinship, Group, InUse
  <2>3. p \in {Root, Child} \/ (table'[p].start = table[p].start /\ table[p].group = Root)
    BY <2>1 DEF RowMoves
  <2> QED BY <2>2, <2>3
<1> QED BY <1>1, <1>2 DEF Kinship

\* What a step makes of the entry, as far as its root lives.
EntryMoves ==
  \/ entry' = NoEntry
  \/ /\ entry # NoEntry
     /\ \/ Root \notin Group(table, Root)
        \/ entry'.members[Root] \in {entry.members[Root], table[Root].start}

EntrySound == entry # NoEntry => Sound(entry) /\ entry.lease.clear <= undisturbed

LEMMA RefreshedSound ==
  ASSUME PlannedTypeOK, Kinship, NEW job \in Entry \cup {NoEntry}, Refreshed(job) # NoEntry, Sound(job)
  PROVE  /\ job # NoEntry /\ Sound(Refreshed(job))
         /\ \/ Root \notin Group(table, Root)
            \/ Refreshed(job).members[Root] \in {job.members[Root], table[Root].start}
<1>1. job \in Entry /\ Refreshed(job) \in Entry /\ Refreshed(job).status = job.status /\ Refreshed(job).group = job.group
  BY RefreshedTypes
<1>2. Refreshed(job).members \in {job.members, Started(Group(table, Root))}
  <2>1. CASE Refreshed(job) = job
    BY <2>1
  <2>2. CASE Refreshed(job) # job
    <3> DEFINE members == IF Same(table, Runner, 1) THEN Started(Group(table, Root)) ELSE job.members
    <3>1. PICK footprint : Refreshed(job) = [job EXCEPT !.members = members, !.footprint = footprint]
      BY <2>2 DEF Refreshed
    <3>2. Refreshed(job).members = members
      BY <1>1, <3>1 DEF Entry
    <3> QED BY <3>2
  <2> QED BY <2>1, <2>2
<1>3. ASSUME NEW p \in Pids PROVE Started(Group(table, Root))[p] <= born[p]
  BY KillFields DEF Started, Kinship
<1>4. Started(Group(table, Root))[Root] = IF Root \in Group(table, Root) THEN table[Root].start ELSE 0
  BY KillConstants DEF Started
<1>5. Sound(Refreshed(job))
  <2>1. \A p \in Pids : Refreshed(job).members[p] <= born[p]
    BY <1>2, <1>3 DEF Sound
  <2>2. Refreshed(job).status = "running" => Refreshed(job).group = Root
    BY <1>1 DEF Sound
  <2> QED BY <2>1, <2>2 DEF Sound
<1>6. Root \in Group(table, Root) => Refreshed(job).members[Root] \in {job.members[Root], table[Root].start}
  BY <1>2, <1>4
<1> QED BY <1>1, <1>5, <1>6, KillValues

LEMMA EntryStep ==
  ASSUME PlannedTypeOK, PlannedTypeOK', Kinship, EntryKnows, PlannedNext
  PROVE  EntryMoves /\ EntrySound'
<1> USE KillConstants, KillFields
<1>0. \A p \in Pids : RowMoves(p)
  BY StepMoves
<1>a. ASSUME NEW job, job \in Entry, Sound(job) PROVE Sound(job)'
  <2>1. ASSUME NEW p \in Pids PROVE job.members[p] <= born'[p]
    <3>1. job.members[p] \in Nat /\ job.members[p] <= born[p]
      BY <1>a DEF Sound, Entry, Members
    <3> QED BY <1>0, <3>1 DEF RowMoves
  <2> QED BY <1>a, <2>1 DEF Sound
<1>b. ASSUME UNCHANGED <<entry, undisturbed>> PROVE EntryMoves /\ EntrySound'
  <2>1. CASE entry = NoEntry
    BY <1>b, <2>1 DEF EntryMoves, EntrySound
  <2>2. CASE entry # NoEntry
    <3>1. Sound(entry) /\ entry \in Entry /\ entry.lease.clear <= undisturbed
      BY <2>2 DEF EntryKnows, PlannedTypeOK
    <3>2. Sound(entry)'
      BY <1>0, <1>b, <3>1 DEF Sound, RowMoves, Entry, Members
    <3> QED BY <1>b, <2>2, <3>1, <3>2 DEF EntryMoves, EntrySound
  <2> QED BY <2>1, <2>2
<1>1. ASSUME NEW p \in Pids, Exits(p) PROVE EntryMoves /\ EntrySound'
  BY <1>1, <1>b DEF Exits
<1>2. ASSUME NEW p \in {Root, Child}, Stranger(p) \/ \E q \in {Root, Child} : Forks(q, p)
      PROVE EntryMoves /\ EntrySound'
  BY <1>2, <1>b DEF Stranger, Forks, Starting
<1>3. ASSUME NEW p \in {Runner, Root, Child}, Becomes(p) PROVE EntryMoves /\ EntrySound'
  BY <1>3, <1>b DEF Becomes
<1>4. CASE Read \/ Filter \/ NoteIdentities \/ Term \/ Survivors \/ KillNow \/ KillGivesUp \/ Surround
  BY <1>4, <1>b DEF Read, Filter, NoteIdentities, Term, Survivors, KillNow, KillGivesUp, Surround
<1>5. CASE Refresh
  <2>1. entry' = Refreshed(entry) /\ UNCHANGED <<table, born, undisturbed>>
    BY <1>5 DEF Refresh, world
  <2>2. CASE entry' # NoEntry
    <3>1. entry # NoEntry
      BY <2>1, <2>2, RefreshedTypes DEF PlannedTypeOK
    <3>2. Sound(entry) /\ entry.lease.clear <= undisturbed
      BY <3>1 DEF EntryKnows
    <3>3. Sound(Refreshed(entry)) /\ Refreshed(entry).lease = entry.lease
      BY <2>1, <2>2, <3>2, RefreshedSound, RefreshedTypes DEF PlannedTypeOK
    <3>4. Sound(entry)'
      BY <2>1, <3>3 DEF Sound
    <3>5. EntryMoves
      BY <2>1, <2>2, <3>1, <3>2, RefreshedSound DEF EntryMoves, PlannedTypeOK
    <3> QED BY <2>1, <3>2, <3>3, <3>4, <3>5 DEF EntrySound
  <2> QED BY <2>2 DEF EntryMoves, EntrySound
<1>6. CASE Admit
  <2>1. /\ entry \in Entry /\ entry # NoEntry /\ Root \notin InUse(table)
        /\ born'[Root] = born[Root] + 1 /\ UNCHANGED undisturbed
        /\ entry' = [entry EXCEPT !.status = "running", !.group = Root,
                       !.members[Root] = born[Root] + 1, !.footprint[Root] = born[Root] + 1]
    BY <1>6 DEF Admit, Free, PlannedTypeOK
  <2>2. /\ entry'.members = [entry.members EXCEPT ![Root] = born[Root] + 1]
        /\ entry'.lease = entry.lease /\ entry'.group = Root
    BY <2>1 DEF Entry
  <2>3. \A p \in Pids : entry.members[p] <= born[p] /\ entry.members[p] \in Nat
    BY <2>1 DEF EntryKnows, Sound, Entry, Members
  <2>4. \A p \in Pids : entry'.members[p] <= born'[p]
    BY <1>0, <2>1, <2>2, <2>3 DEF RowMoves, Entry, Members
  <2> QED BY <2>1, <2>2, <2>4 DEF EntryMoves, EntrySound, Sound, EntryKnows, Group
<1>7. CASE Claim
  <2>1. /\ entry \in Entry /\ entry # NoEntry /\ undisturbed' = 0
        /\ \E claim, pinned : entry' = Claimed(claim, pinned)
    BY <1>7 DEF Claim, PlannedTypeOK
  <2>2. /\ entry'.members = entry.members /\ entry'.status = entry.status /\ entry'.group = entry.group
        /\ entry'.lease.clear = 0
    BY <2>1 DEF Claimed, Entry, NoLease
  <2>3. Sound(entry)'
    BY <1>0, <2>1, <2>2 DEF EntryKnows, Sound, Entry, Members, RowMoves
  <2> QED BY <2>1, <2>2, <2>3 DEF EntryMoves, EntrySound
<1>8. CASE KillTick
  <2>1. CASE entry = NoEntry
    BY <1>8, <2>1 DEF KillTick, EntryMoves, EntrySound
  <2>2. CASE entry # NoEntry
    <3>1. /\ entry \in Entry /\ entry.lease \in LeaseShape
          /\ entry.lease.clear \in 0..RecoveryGrace /\ undisturbed \in 0..RecoveryGrace
          /\ entry.lease.clear <= undisturbed /\ Sound(entry)
      BY <2>2 DEF PlannedTypeOK, Entry, LeaseShape, EntryKnows
    <3>2. /\ undisturbed' = Later(undisturbed, RecoveryGrace) /\ UNCHANGED <<table, born>>
          /\ \/ entry' = entry
             \/ entry' = [entry EXCEPT !.lease.at = Later(@, Lease + 1),
                            !.lease.since = Later(@, RecoveryGrace), !.lease.clear = Later(@, RecoveryGrace)]
      BY <1>8, <2>2 DEF KillTick, world
    <3>3. /\ entry'.members = entry.members /\ entry'.status = entry.status /\ entry'.group = entry.group
          /\ entry'.lease.clear \in {entry.lease.clear, Later(entry.lease.clear, RecoveryGrace)}
          /\ entry' = entry \/ entry'.lease.clear = Later(entry.lease.clear, RecoveryGrace)
      <4> DEFINE at == Later(entry.lease.at, Lease + 1)
                 since == Later(entry.lease.since, RecoveryGrace)
                 clear == Later(entry.lease.clear, RecoveryGrace)
                 lease == [entry.lease EXCEPT !.at = at, !.since = since, !.clear = clear]
      <4>1. entry' = entry \/ entry' = [entry EXCEPT !.lease = lease]
        BY <3>1, <3>2
      <4> HIDE DEF at, since, clear
      <4>2. lease.clear = clear
        BY <3>1 DEF LeaseShape
      <4> HIDE DEF lease
      <4>3. entry' = entry \/ (/\ entry'.members = entry.members /\ entry'.status = entry.status
                              /\ entry'.group = entry.group /\ entry'.lease = lease)
        BY <3>1, <4>1 DEF Entry
      <4> QED BY <4>2, <4>3 DEF clear
    <3>4. entry'.lease.clear <= undisturbed'
      BY <3>1, <3>2, <3>3 DEF Later
    <3>5. Sound(entry)'
      BY <3>1, <3>2, <3>3 DEF Sound
    <3> QED BY <2>2, <3>3, <3>4, <3>5 DEF EntryMoves, EntrySound
  <2> QED BY <2>1, <2>2
<1>9. CASE ScanJob
  <2>1. CASE ScanOthers
    BY <1>b, <2>1 DEF ScanOthers
  <2>2. CASE ScanOrphan
    <3> DEFINE job == Refreshed(entry)
               lease == Observed(job, table, kill.seen, around)
    <3>1. CASE job = NoEntry
      BY <2>2, <3>1 DEF ScanOrphan, EntryMoves, EntrySound
    <3>2. CASE job # NoEntry
      <4>1. /\ job \in Entry /\ entry # NoEntry /\ job.lease = entry.lease
            /\ entry \in Entry \cup {NoEntry}
        BY <3>2, RefreshedTypes DEF PlannedTypeOK
      <4>2. Sound(entry) /\ entry.lease.clear <= undisturbed /\ undisturbed \in Nat
        BY <4>1 DEF EntryKnows, PlannedTypeOK
      <4>3. /\ Sound(job)
            /\ \/ Root \notin Group(table, Root)
               \/ job.members[Root] \in {entry.members[Root], table[Root].start}
        BY <3>2, <4>1, <4>2, RefreshedSound
      <4>4. /\ lease.clear \in {0, entry.lease.clear}
            /\ job.pinned \/ LiveClaim(job, table) => lease.clear = 0
        BY <4>1, ObservedTypes DEF Vetoed
      <4>5. /\ entry' = [job EXCEPT !.lease = lease]
            /\ undisturbed' = IF job.pinned \/ LiveClaim(job, table) THEN 0 ELSE undisturbed
            /\ UNCHANGED <<table, born>>
        BY <1>9, <2>2, <3>2 DEF ScanJob, ScanOrphan, world
      <4> HIDE DEF job, lease
      <4>6. /\ entry'.members = job.members /\ entry'.status = job.status /\ entry'.group = job.group
            /\ entry'.lease = lease
        BY <4>1, <4>5 DEF Entry
      <4>7. lease.clear <= undisturbed'
        BY <4>2, <4>4, <4>5
      <4>8. Sound(entry)'
        BY <4>3, <4>5, <4>6 DEF Sound
      <4> QED BY <4>1, <4>3, <4>6, <4>7, <4>8 DEF EntryMoves, EntrySound
    <3> QED BY <3>1, <3>2
  <2> QED BY <1>9, <2>1, <2>2 DEF ScanJob
<1> QED BY <1>1, <1>2, <1>3, <1>4, <1>5, <1>6, <1>7, <1>8, <1>9 DEF PlannedNext

LEMMA EntryKept ==
  ASSUME PlannedTypeOK, PlannedTypeOK', Kinship, EntryKnows, PlannedNext,
         \/ kill'.job \in {kill.job, NoEntry}
         \/ kill'.job = entry /\ entry' = entry
  PROVE  EntryKnows'
<1> USE KillConstants, KillFields
<1>1. EntryMoves /\ EntrySound' /\ \A p \in Pids : RowMoves(p)
  BY EntryStep, StepMoves
<1>2. CASE kill'.job = kill.job /\ kill.job # NoEntry
  <2> DEFINE job == kill.job
  <2>1. job \in Entry /\ Sound(job)
    BY <1>2 DEF EntryKnows, PlannedTypeOK, Kill
  <2>2. \A p \in Pids : job.members[p] \in Nat /\ job.members[p] <= born[p]
    BY <2>1 DEF Sound, Entry, Members
  <2>3. Sound(kill.job)'
    BY <1>1, <1>2, <2>1, <2>2 DEF Sound, RowMoves
  <2>4. ASSUME job.status = "running", entry' # NoEntry, Root \in Group(table', Root),
               Same(table', Root, job.members[Root])
        PROVE  entry'.members[Root] = job.members[Root]
    <3>1. Same(table, Root, job.members[Root]) /\ Root \in InUse(table) /\ table[Root].group = Root
      BY <1>1, <2>2, <2>4, SameBack DEF Group
    <3>2. Root \in Group(table, Root)
      BY <3>1 DEF Group
    <3>3. entry # NoEntry /\ entry.members[Root] = job.members[Root]
      BY <1>1, <1>2, <2>4, <3>1, <3>2 DEF EntryMoves, EntryKnows
    <3> QED BY <1>1, <2>4, <3>1, <3>2, <3>3 DEF EntryMoves, Same
  <2> QED BY <1>1, <1>2, <2>3, <2>4 DEF EntryKnows, EntrySound
<1>3. CASE kill'.job = NoEntry
  BY <1>1, <1>3 DEF EntryKnows, EntrySound
<1>4. CASE kill'.job = entry /\ entry' = entry
  BY <1>1, <1>4 DEF EntryKnows, EntrySound, Sound
<1> QED BY <1>2, <1>3, <1>4

\* A signal is only ever decided on by the filter, for those that the planner allows.
LEMMA DecidesToSignal ==
  ASSUME PlannedTypeOK, PlannedNext, Decides("term") \/ Decides("kill")
  PROVE  /\ Filter /\ kill.round \in {3, 4} /\ kill'.pids # {}
         /\ kill'.pids = kill.pids \cap (Allowed(kill.round = 4) \ kill.kept)
         /\ Allowed(kill.round = 4) # {}
<1> USE KillFields
<1>1. Idle.pc = "read"
  BY DEF Idle
<1>2. kill \in [pc : {"read", "decide", "note", "term", "sleep", "kill"}, round : 0..4, plan : Plan,
                seen : SUBSET {"client"}, kept : SUBSET Pids, job : Entry \cup {NoEntry},
                pids : SUBSET Pids, idents : [Pids -> Named]]
  BY DEF Kill
<1>3. kill.pc = "decide" /\ kill'.pc \in {"term", "kill"}
  BY DEF Decides
<1>4. Filter
  <2>1. ~(Read \/ NoteIdentities \/ Term \/ Survivors \/ KillNow)
    BY <1>3 DEF Read, NoteIdentities, Term, Survivors, KillNow
  <2>2. ~KillGivesUp
    BY <1>1, <1>3 DEF KillGivesUp
  <2>3. ~ScanJob
    <3>1. \A job, S : Proposed(job, S).pc = "read"
      BY DEF Proposed, Idle
    <3>2. ~ScanOrphan
      BY <1>1, <1>3, <3>1 DEF ScanOrphan
    <3>3. ~ScanOthers
      BY <1>3, <3>1 DEF ScanOthers
    <3> QED BY <3>2, <3>3 DEF ScanJob
  <2>4. ~KillTick
    <3> SUFFICES ASSUME KillTick PROVE FALSE
      OBVIOUS
    <3> DEFINE age == IF kill.round = 0 THEN 0 ELSE Later(kill.plan.age, Fresh + 1)
    <3>1. kill' = [kill EXCEPT !.plan.age = age]
      BY DEF KillTick
    <3> HIDE DEF age
    <3> QED BY <1>2, <1>3, <3>1
  <2>5. kill' # kill
    BY <1>3
  <2>6. ~(Refresh \/ Admit \/ Claim \/ Surround)
    BY <2>5 DEF Refresh, Admit, Claim, Surround
  <2>7. ~(\/ \E p \in Pids : Exits(p)
          \/ \E p \in {Root, Child} : Stranger(p) \/ \E q \in {Root, Child} : Forks(q, p)
          \/ \E p \in {Runner, Root, Child} : Becomes(p))
    BY <2>5 DEF Exits, Stranger, Forks, Starting, Becomes
  <2> QED BY <2>1, <2>2, <2>3, <2>4, <2>6, <2>7 DEF PlannedNext
<1> DEFINE allowed == Allowed(kill.round = 4) \ kill.kept
           pids == IF kill.round = 1 THEN allowed ELSE kill.pids \cap allowed
           pc == CASE kill.round = 1 -> "read" [] kill.round = 2 -> "note"
                   [] kill.round = 3 -> "term" [] OTHER -> "kill"
           round == IF kill.round = 1 THEN 2 ELSE kill.round
<1>5. /\ kill.round > 0
      /\ kill' = IF pids = {} THEN Idle
                 ELSE [kill EXCEPT !.pids = pids, !.seen = {}, !.kept = {}, !.job = NoEntry,
                                  !.round = round, !.pc = pc]
  BY <1>4 DEF Filter
<1>6. pc \in {"term", "kill"} => kill.round \in {3, 4}
  BY <1>5
<1> HIDE DEF pids, pc, round
<1>7. pids # {} /\ kill'.pids = pids /\ kill'.pc = pc
  BY <1>1, <1>2, <1>3, <1>5
<1> QED BY <1>3, <1>4, <1>6, <1>7 DEF pids

\* The entry that the watchdog has read is read once, and forgotten after each decision.
LEMMA JobMoves ==
  ASSUME PlannedTypeOK, PlannedNext
  PROVE  \/ kill'.job \in {kill.job, NoEntry}
         \/ kill'.job = entry /\ entry' = entry
<1> USE KillFields
<1>1. Idle.job = NoEntry
  BY DEF Idle
<1>2. kill \in [pc : {"read", "decide", "note", "term", "sleep", "kill"}, round : 0..4, plan : Plan,
                seen : SUBSET {"client"}, kept : SUBSET Pids, job : Entry \cup {NoEntry},
                pids : SUBSET Pids, idents : [Pids -> Named]]
  BY DEF Kill
<1>3. CASE Read
  BY <1>2, <1>3 DEF Read
<1>4. CASE ScanJob
  <2>1. \A job, S : Proposed(job, S).job = NoEntry
    BY DEF Proposed, Idle
  <2>2. CASE ScanOrphan
    BY <1>1, <2>1, <2>2 DEF ScanOrphan
  <2>3. CASE ScanOthers
    BY <2>1, <2>3 DEF ScanOthers
  <2> QED BY <1>4, <2>2, <2>3 DEF ScanJob
<1>5. CASE Filter
  <2> DEFINE allowed == Allowed(kill.round = 4) \ kill.kept
             pids == IF kill.round = 1 THEN allowed ELSE kill.pids \cap allowed
             pc == CASE kill.round = 1 -> "read" [] kill.round = 2 -> "note"
                     [] kill.round = 3 -> "term" [] OTHER -> "kill"
             round == IF kill.round = 1 THEN 2 ELSE kill.round
  <2>1. kill' = Idle \/ kill' = [kill EXCEPT !.pids = pids, !.seen = {}, !.kept = {}, !.job = NoEntry,
                                  !.round = round, !.pc = pc]
    BY <1>5 DEF Filter
  <2> HIDE DEF pids, pc, round
  <2> QED BY <1>1, <1>2, <2>1
<1>6. CASE NoteIdentities
  BY <1>2, <1>6 DEF NoteIdentities
<1>7. CASE Term \/ Survivors \/ KillNow \/ KillGivesUp
  BY <1>1, <1>2, <1>7 DEF Term, Survivors, KillNow, KillGivesUp
<1>8. CASE KillTick
  <2> DEFINE age == IF kill.round = 0 THEN 0 ELSE Later(kill.plan.age, Fresh + 1)
  <2>1. kill' = [kill EXCEPT !.plan.age = age]
    BY <1>8 DEF KillTick
  <2> HIDE DEF age
  <2> QED BY <1>2, <2>1
<1>9. CASE \/ Refresh \/ Admit \/ Claim \/ Surround
           \/ \E p \in Pids : Exits(p)
           \/ \E p \in {Root, Child} : Stranger(p) \/ \E q \in {Root, Child} : Forks(q, p)
           \/ \E p \in {Runner, Root, Child} : Becomes(p)
  BY <1>9 DEF Refresh, Admit, Claim, Surround, Exits, Stranger, Forks, Starting, Becomes
<1> QED BY <1>3, <1>4, <1>5, <1>6, <1>7, <1>8, <1>9 DEF PlannedNext

\* What holds of the entry, whatever the watchdog does.
EntryInv == PlannedTypeOK /\ Kinship /\ EntryKnows

LEMMA EntryInvInit == PlannedInit => EntryInv
<1> SUFFICES ASSUME PlannedInit PROVE EntryInv
  OBVIOUS
<1> USE KillConstants
<1>1. PlannedTypeOK
  BY KillInitTypes
<1>2. kill.job = NoEntry
  BY DEF PlannedInit, Idle
<1>3. /\ entry.lease = NoLease /\ entry.status \in {"waiting", "running"}
      /\ entry.status = "running" => entry.group = Root
      /\ \A p \in Pids : entry.members[p] <= 1
  BY DEF PlannedInit, Registered, Nobody
<1>4. EntryKnows
  BY <1>2, <1>3 DEF EntryKnows, Sound, NoLease, PlannedInit
<1>5. PICK runner, root, child, lost, old : table = Family(runner, root, child, lost, old)
  BY DEF PlannedInit, Begun
<1>6. ASSUME NEW p \in Pids
      PROVE  table[p].start <= 1 /\ (p \in Group(table, Root) => p \in {Root, Child})
  <2>1. Root \notin {Agent, Claimant, Runner}
    BY PlannedAssumption
  <2>2. CASE p \in lost \/ p \notin {Agent, Claimant, Runner, Root, Child}
    <3>1. table[p] = NoRow
      BY <1>5, <2>2 DEF Family
    <3> QED BY <3>1 DEF NoRow, Group, InUse
  <2>3. CASE p \notin lost /\ p \in {Agent, Claimant}
    <3>1. table[p] = Process(Init1, p, "agent", FALSE)
      BY <1>5, <2>3, PlannedAssumption DEF Family
    <3> QED BY <2>1, <2>3, <3>1 DEF Process, Group
  <2>4. CASE p \notin lost /\ p = Runner /\ p \notin {Agent, Claimant}
    <3>1. \E parent : table[p] = Process(parent, Runner, runner, old)
      BY <1>5, <2>4, PlannedAssumption DEF Family
    <3> QED BY <2>1, <2>4, <3>1 DEF Process, Group
  <2>5. CASE p \notin lost /\ p \in {Root, Child} /\ p \notin {Agent, Claimant, Runner}
    <3>1. \E parent, command, aged : table[p] = Process(parent, Root, command, aged)
      BY <1>5, <2>5, PlannedAssumption DEF Family
    <3> QED BY <2>5, <3>1 DEF Process
  <2> QED BY <2>2, <2>3, <2>4, <2>5
<1>7. Kinship
  <2>1. \A p \in Pids : born[p] = 1
    BY DEF PlannedInit
  <2> QED BY <1>6, <2>1 DEF Kinship, Group, InUse
<1> QED BY <1>1, <1>4, <1>7 DEF EntryInv

LEMMA EntryInvNext == EntryInv /\ [PlannedNext]_killvars => EntryInv'
<1> SUFFICES ASSUME EntryInv, [PlannedNext]_killvars PROVE EntryInv'
  OBVIOUS
<1>1. PlannedTypeOK /\ PlannedTypeOK'
  BY PlannedTypes DEF EntryInv
<1>2. CASE PlannedNext
  BY <1>1, <1>2, KinshipKept, StepMoves, EntryKept, JobMoves DEF EntryInv
<1>3. CASE UNCHANGED killvars
  BY <1>1, <1>3 DEF EntryInv, Kinship, EntryKnows, Sound, killvars, world
<1> QED BY <1>2, <1>3

\* GraceUninterrupted needs the type of the state and the age of the lease.
LEMMA GraceStep ==
  EntryInv /\ [PlannedNext]_killvars
  => (scope = "orphan" /\ (Decides("term") \/ Decides("kill")) => undisturbed = RecoveryGrace)
<1> SUFFICES ASSUME EntryInv, PlannedNext, scope = "orphan", Decides("term") \/ Decides("kill")
             PROVE  undisturbed = RecoveryGrace
  BY DEF Decides, killvars
<1>1. Allowed(kill.round = 4) # {}
  BY DecidesToSignal DEF EntryInv
<1>2. entry # NoEntry /\ LeaseRipe(entry.lease)
  BY <1>1 DEF Allowed, OrphanAllowed
<1>3. /\ RecoveryGrace \in Nat /\ undisturbed \in 0..RecoveryGrace
      /\ entry.lease.clear \in 0..RecoveryGrace /\ entry.lease.clear <= undisturbed
  BY <1>2, KillConstants DEF EntryInv, EntryKnows, PlannedTypeOK, Entry, LeaseShape
<1> QED BY <1>2, <1>3 DEF LeaseRipe

\* A target that is as noted was as noted before, and under the same parent if that lives.
LEMMA NotedBack ==
  ASSUME PlannedTypeOK, PlannedTypeOK', PlanKnows, kill.round > 0, \A q \in Pids : RowMoves(q),
         kill'.plan.members = kill.plan.members, NEW p \in Targets, AsNoted(p)'
  PROVE  /\ AsNoted(p) /\ p \in InUse(table)
         /\ \/ table'[p].ppid = table[p].ppid
            \/ table'[p].ppid = Init1 /\ (table[p].ppid \in Pids => table'[table[p].ppid].start = 0)
<1> USE KillFields
<1> DEFINE note == kill.plan.members[p]
<1>1. /\ p \in Pids /\ note.start \in Nat /\ note.start > 0 /\ note.start <= born[p]
      /\ note.command # "work"
  BY DEF PlanKnows, Targets
<1>2. table'[p].start = note.start /\ table'[p].command = note.command /\ table'[p].group = note.group
  BY <1>1, NotedIs
<1>3. Same(table', p, note.start)
  BY <1>1, <1>2 DEF Same
<1>4. ~(p = Child /\ note.group = Child)
  BY PlannedAssumption DEF PlanKnows
<1>5. /\ Same(table, p, note.start) /\ p \in InUse(table)
      /\ \/ table'[p].ppid = table[p].ppid
         \/ table'[p].ppid = Init1 /\ (table[p].ppid \in Pids => table'[table[p].ppid].start = 0)
      /\ table'[p].command \in {table[p].command, "work"}
      /\ \/ table'[p].group = table[p].group
         \/ p = Child /\ table[p].group = Root /\ table'[p].group = Child
  BY <1>1, <1>3, SameBack
<1>6. AsNoted(p)
  BY <1>1, <1>2, <1>4, <1>5, NotedIs DEF Same
<1> QED BY <1>5, <1>6

LEMMA ScopeStays == ASSUME [PlannedNext]_killvars PROVE scope' = scope
BY DEF killvars, world, PlannedNext, Read, ScanJob, Filter, NoteIdentities, Term, Survivors, KillNow,
       KillGivesUp, KillTick, Refresh, Admit, Claim, Surround, Exits, Stranger, Forks, Starting, Becomes

\* The plan is known as long as it is not replaced.
LEMMA PlanStays ==
  ASSUME KillInv, PlannedTypeOK', PlannedNext, kill.round > 0,
         kill'.plan.members = kill.plan.members, kill'.plan.status = kill.plan.status,
         \/ kill'.job \in {kill.job, NoEntry}
         \/ kill'.job = entry /\ entry' = entry
  PROVE  PlanKnows'
<1> USE KillFields
<1>1. /\ PlannedTypeOK /\ Kinship /\ EntryKnows /\ PlanKnows /\ EntryMoves
      /\ \A p \in Pids : RowMoves(p)
  BY EntryStep, StepMoves DEF KillInv
<1>2. Targets' = Targets /\ scope' = scope
  BY ScopeStays DEF Targets
<1>3. \A p \in Targets : kill'.plan.members[p].start <= born'[p] /\ kill'.plan.members[p].command # "work"
  BY <1>1 DEF PlanKnows, RowMoves
<1>4. ASSUME kill.plan.status = "running", scope \notin {"orphan", "boot"}
      PROVE  PollingKnows'
  <2>1. PollingKnows /\ \A p \in Targets : kill.plan.members[p].group = Root
    BY <1>1, <1>4 DEF PlanKnows
  <2>2. ASSUME AsNoted(Root)'
        PROVE  /\ \A p \in Targets \ {Root} : AsNoted(p)' => table'[p].ppid = Root
               /\ entry' # NoEntry => entry'.members[Root] = kill.plan.members[Root].start
               /\ kill'.job # NoEntry => kill'.job.members[Root] = kill.plan.members[Root].start
    <3>1. Root \in Targets /\ Root \in Pids /\ Root # Init1
      BY <2>1, KillConstants DEF PollingKnows
    <3>2. AsNoted(Root) /\ Root \in InUse(table)
      BY <1>1, <2>2, <3>1, NotedBack
    <3>3. table'[Root].start > 0
      BY <1>1, <2>2, <3>1, NotedIs DEF Targets
    <3>4. /\ table[Root].start = kill.plan.members[Root].start
          /\ table[Root].group = Root
      BY <1>1, <2>1, <3>1, <3>2, NotedIs
    <3>5. Root \in Group(table, Root)
      BY <3>2, <3>4 DEF Group
    <3>6. ASSUME NEW p \in Targets \ {Root}, AsNoted(p)' PROVE table'[p].ppid = Root
      <4>1. /\ AsNoted(p)
            /\ \/ table'[p].ppid = table[p].ppid
               \/ table'[p].ppid = Init1 /\ (table[p].ppid \in Pids => table'[table[p].ppid].start = 0)
        BY <1>1, <3>6, NotedBack
      <4>2. table[p].ppid = Root
        BY <2>1, <3>2, <3>6, <4>1 DEF PollingKnows
      <4> QED BY <3>1, <3>3, <4>1, <4>2
    <3>7. entry' # NoEntry => entry'.members[Root] = kill.plan.members[Root].start
      BY <1>1, <2>1, <3>2, <3>4, <3>5 DEF EntryMoves, PollingKnows
    <3>8. kill'.job # NoEntry => kill'.job.members[Root] = kill.plan.members[Root].start
      BY <2>1, <3>2, <3>7 DEF PollingKnows
    <3> QED BY <3>6, <3>7, <3>8
  <2> QED BY <1>2, <2>1, <2>2 DEF PollingKnows
<1> QED BY <1>1, <1>2, <1>3, <1>4 DEF PlanKnows

\* Around the watchdog, only the age of the plan moves.
LEMMA WorldKeeps ==
  ASSUME KillInv, PlannedTypeOK', PlannedNext,
         kill'.plan.members = kill.plan.members, kill'.plan.status = kill.plan.status,
         kill'.pc = kill.pc, kill'.round = kill.round, kill'.kept = kill.kept, kill'.job = kill.job,
         kill'.pids = kill.pids, kill'.idents = kill.idents
  PROVE  PlanKnows' /\ RoundKnows' /\ KeptKnows'
<1> USE KillFields
<1>1. /\ PlannedTypeOK /\ EntryKnows /\ PlanKnows /\ RoundKnows /\ KeptKnows
      /\ \A p \in Pids : RowMoves(p)
  BY StepMoves DEF KillInv
<1>2. Targets' = Targets /\ scope' = scope
  BY ScopeStays DEF Targets
<1>3. ASSUME kill.round > 0, NEW p \in Targets, AsNoted(p)'
      PROVE  /\ AsNoted(p)
             /\ table'[p].ppid = table[p].ppid \/ table'[p].ppid = Init1
  BY <1>1, <1>3, NotedBack
<1>4. PlanKnows'
  BY PlanStays DEF PlanKnows
<1>5. RoundKnows'
  BY <1>1, <1>2, <1>3 DEF RoundKnows
<1>6. ASSUME kill.kept # {} PROVE KeptKnows'
  <2>1. kill.round > 0 /\ kill.job \in Entry /\ Sound(kill.job)
    BY <1>1, <1>6 DEF RoundKnows, KeptKnows, EntryKnows
  <2>2. ASSUME NEW p \in Pids, Same(table', p, kill.job.members[p])
        PROVE  Same(table, p, kill.job.members[p])
    <3>1. kill.job.members[p] \in Nat /\ kill.job.members[p] <= born[p]
      BY <2>1, KillConstants DEF Sound, Entry, Members
    <3> QED BY <1>1, <2>2, <3>1, SameBack
  <2>3. ASSUME NEW p \in Targets, AsNoted(p)', table'[p].ppid = Root,
               Same(table', Root, kill.job.members[Root])
        PROVE  p \in kill.kept
    <3>1. AsNoted(p) /\ table[p].ppid = Root
      BY <1>3, <2>1, <2>3, KillConstants
    <3>2. Same(table, Root, kill.job.members[Root])
      BY <2>2, <2>3, KillConstants
    <3> QED BY <1>1, <1>6, <3>1, <3>2 DEF KeptKnows
  <2> QED BY <1>1, <1>2, <1>6, <2>2, <2>3 DEF KeptKnows
<1>7. KeptKnows'
  BY <1>6 DEF KeptKnows
<1> QED BY <1>4, <1>5, <1>7

LEMMA IdleKnows == ASSUME kill' = Idle PROVE PlanKnows' /\ RoundKnows' /\ KeptKnows'
BY DEF Idle, PlanKnows, RoundKnows, KeptKnows

\* What is kept is what the claim that was read covers.
LEMMA ReadKnows ==
  ASSUME KillInv, PlannedTypeOK', Read
  PROVE  PlanKnows' /\ RoundKnows' /\ KeptKnows'
<1> USE KillFields
<1> DEFINE seen == IF scope = "orphan" THEN around \cap {"client"} ELSE {}
           kept == IF scope = "orphan" \/ kill.round < 2 \/ entry = NoEntry THEN {}
                   ELSE ProtectedClaims(entry, table)
           job == IF scope = "orphan" THEN NoEntry ELSE entry
<1>1. /\ kill' = [kill EXCEPT !.pc = "decide", !.seen = seen, !.kept = kept, !.job = job]
      /\ kill.pc = "read" /\ UNCHANGED <<scope, table, born, entry>> /\ PlannedNext
  BY DEF Read, world, PlannedNext
<1>2. kill \in [pc : {"read", "decide", "note", "term", "sleep", "kill"}, round : 0..4, plan : Plan,
                seen : SUBSET {"client"}, kept : SUBSET Pids, job : Entry \cup {NoEntry},
                pids : SUBSET Pids, idents : [Pids -> Named]]
  BY DEF KillInv, PlannedTypeOK, Kill
<1>3. /\ PlannedTypeOK /\ EntryKnows /\ PlanKnows /\ RoundKnows
  BY DEF KillInv
<1> HIDE DEF seen, kept, job
<1>4. /\ kill'.pc = "decide" /\ kill'.round = kill.round /\ kill'.plan = kill.plan
      /\ kill'.kept = kept /\ kill'.job = job /\ kill'.pids = kill.pids /\ kill'.idents = kill.idents
  BY <1>1, <1>2
<1>5. Targets' = Targets /\ \A p \in Targets : AsNoted(p)' <=> AsNoted(p)
  BY <1>1, <1>4 DEF Targets, AsNoted, Naming
<1>6. PlanKnows'
  <2>1. kill'.job \in {kill.job, NoEntry} \/ (kill'.job = entry /\ entry' = entry)
    BY <1>1, <1>4 DEF job
  <2> QED BY <1>1, <1>4, <2>1, PlanStays DEF PlanKnows
<1>7. RoundKnows'
  BY <1>1, <1>3, <1>4, <1>5 DEF RoundKnows, kept
<1>8. ASSUME kept # {}
      PROVE  /\ job # NoEntry /\ \E q \in Pids : job.members[q] > 0
             /\ \A p \in Pids : Same(table, p, job.members[p]) => p \in kept
             /\ \A p \in Targets :
                  AsNoted(p) /\ table[p].ppid = Root /\ Same(table, Root, job.members[Root]) => p \in kept
  <2>1. job = entry /\ entry # NoEntry /\ kill.round > 0
        /\ kept = UNION {Descendants(p, table) : p \in {q \in Pids : Same(table, q, entry.members[q])}}
    BY <1>2, <1>8 DEF kept, job, ProtectedClaims
  <2>2. \E q \in Pids : job.members[q] > 0
    BY <1>8, <2>1 DEF Same
  <2>3. ASSUME NEW p \in Pids, Same(table, p, job.members[p]) PROVE Descendants(p, table) \subseteq kept
    BY <2>1, <2>3
  <2>4. ASSUME NEW p \in Pids, Same(table, p, job.members[p]) PROVE p \in kept
    BY <2>3, <2>4, DescendantsClosed
  <2>5. ASSUME NEW p \in Targets, AsNoted(p), table[p].ppid = Root, Same(table, Root, job.members[Root])
        PROVE  p \in kept
    <3>1. Root \in Pids /\ p \in Pids
      BY KillConstants, <1>3
    <3>2. p \in InUse(table)
      BY <1>3, <2>5, <3>1, NotedIs DEF Targets, InUse
    <3>3. p \in Descendants(Root, table)
      BY <2>5, <3>1, <3>2, DescendantsClosed
    <3> QED BY <2>3, <2>5, <3>1, <3>3
  <2> QED BY <2>1, <2>2, <2>4, <2>5
<1>9. KeptKnows'
  BY <1>1, <1>4, <1>5, <1>8 DEF KeptKnows
<1> QED BY <1>6, <1>7, <1>9

\* A new plan is for a group of the registry, or for the supervisor that waits.
LEMMA ProposedKnows ==
  ASSUME KillInv, PlannedTypeOK', NEW job \in Entry, NEW S \in SUBSET InUse(table),
         UNCHANGED <<scope, table, born>>, kill' = Proposed(job, S),
         S # {} =>
           /\ \A p \in S : table[p].command # "work"
           /\ job.status = "waiting" => S = {Runner}
           /\ job.status = "running" => S = Group(table, Root)
           /\ job.status = "running" /\ scope \notin {"orphan", "boot"} =>
                /\ Root \in S /\ \A p \in S \ {Root} : table[p].ppid = Root
                /\ entry' # NoEntry => entry'.members[Root] = table[Root].start
  PROVE  PlanKnows' /\ RoundKnows' /\ KeptKnows'
<1>0. PlannedTypeOK /\ \A p \in Pids : table[p].start \in Nat
  BY KillFields DEF KillInv
<1>1. CASE S = {}
  <2>1. kill' = Idle
    BY <1>1 DEF Proposed
  <2> QED BY <2>1, IdleKnows
<1>2. CASE S # {}
  <2> DEFINE members == Naming(S)
  <2>1. /\ kill'.round = 1 /\ kill'.plan.members = members /\ kill'.plan.status = job.status
        /\ kill'.pc = "read" /\ kill'.kept = {} /\ kill'.job = NoEntry
    <3> HIDE DEF members
    <3> QED BY <1>2 DEF Proposed, Idle, NoPlan, members
  <2>0. S \subseteq Pids
    BY DEF InUse
  <2>2. ASSUME NEW p \in Pids
        PROVE  /\ p \in S => /\ members[p].start = table[p].start /\ members[p].command = table[p].command
                            /\ members[p].group = table[p].group
               /\ p \notin S => members[p].start = 0
    <3>1. CASE p \in S
      <4>1. members[p] = [start |-> table[p].start, command |-> table[p].command, group |-> table[p].group]
        BY <3>1 DEF Naming
      <4> QED BY <3>1, <4>1
    <3>2. CASE p \notin S
      <4>1. members[p] = [start |-> 0, command |-> "none", group |-> Init1]
        BY <3>2 DEF Naming, Never
      <4> QED BY <3>2, <4>1
    <3> QED BY <3>1, <3>2
  <2> HIDE DEF members
  <2>3. \A p \in S : p \in Pids /\ table[p].start > 0 /\ table[p].start \in Nat
    BY <1>0 DEF InUse
  <2>4. Targets' = S
    BY <2>0, <2>1, <2>2, <2>3 DEF Targets
  <2>5. job.status \in {"waiting", "running"}
    BY DEF Entry
  <2>6. \A p \in S : members[p].start <= born'[p] /\ members[p].command # "work"
    BY <1>2, <2>2, <2>3 DEF KillInv, Kinship
  <2>7. ASSUME job.status = "running"
        PROVE  S \subseteq {Root, Child} /\ \A p \in S : members[p].group = Root
    BY <1>2, <2>2, <2>3, <2>7 DEF KillInv, Kinship, Group
  <2>8. ASSUME job.status = "running", scope \notin {"orphan", "boot"}
        PROVE  PollingKnows'
    <3>1. /\ Root \in S /\ \A p \in S \ {Root} : table[p].ppid = Root
          /\ entry' # NoEntry => entry'.members[Root] = table[Root].start
      BY <1>2, <2>8
    <3>2. members[Root].start = table[Root].start
      BY <2>2, <2>3, <3>1
    <3> QED BY <2>1, <2>4, <3>1, <3>2 DEF PollingKnows
  <2>9. PlanKnows'
    BY <1>2, <2>1, <2>4, <2>5, <2>6, <2>7, <2>8 DEF PlanKnows
  <2> QED BY <2>1, <2>9 DEF RoundKnows, KeptKnows
<1> QED BY <1>1, <1>2

LEMMA ScanKnows ==
  ASSUME KillInv, PlannedTypeOK', PlannedNext, ScanJob
  PROVE  PlanKnows' /\ RoundKnows' /\ KeptKnows'
<1> USE KillConstants
<1>1. PlannedTypeOK /\ EntryKnows /\ Kinship /\ UNCHANGED <<scope, table, born>>
  BY DEF KillInv, ScanJob, world
<1>2. CASE ScanOrphan
  <2> DEFINE job == Refreshed(entry)
             lease == Observed(job, table, kill.seen, around)
             S == IF LeaseRipe(lease) /\ ~Vetoed(job, table, kill.seen, around)
                  THEN Abandoned(job, table) ELSE {}
  <2>1. CASE job = NoEntry
    BY <1>2, <2>1, IdleKnows DEF ScanOrphan
  <2>2. CASE job # NoEntry
    <3>1. kill' = Proposed(job, S) /\ scope = "orphan"
      BY <1>2, <2>2 DEF ScanOrphan
    <3>2. entry # NoEntry /\ job \in Entry /\ entry \in Entry \cup {NoEntry}
      BY <1>1, <2>2, RefreshedTypes DEF PlannedTypeOK
    <3>3. Sound(job)
      BY <1>1, <2>2, <3>2, RefreshedSound DEF EntryKnows
    <3>4. ASSUME S # {}
          PROVE  /\ job.status = "running" /\ S = Group(table, Root)
                 /\ \A p \in S : table[p].command # "work"
      <4>1. S = Abandoned(job, table) /\ Abandoned(job, table) # {} /\ ~Vetoed(job, table, kill.seen, around)
        BY <3>4
      <4>2. job.status = "running" /\ Abandoned(job, table) = Group(table, job.group)
        BY <4>1 DEF Abandoned
      <4>3. job.group = Root
        BY <3>3, <4>2 DEF Sound
      <4>4. \A p \in Abandoned(job, table) : table[p].command = "server"
        BY <4>1 DEF Vetoed
      <4> QED BY <4>1, <4>2, <4>3, <4>4
    <3>5. S \subseteq InUse(table)
      BY <3>4 DEF Group
    <3> HIDE DEF S, job
    <3> QED BY <1>1, <3>1, <3>2, <3>4, <3>5, ProposedKnows
  <2> QED BY <2>1, <2>2
<1>3. CASE ScanOthers
  <2> DEFINE job == kill.job
  <2>1. CASE job = NoEntry
    BY <1>3, <2>1, IdleKnows DEF ScanOthers, Proposed
  <2>2. CASE job # NoEntry
    <3> DEFINE S == IF scope = "boot" THEN BootPlan(job, table) ELSE PollPlan(job, table)
    <3>1. kill' = Proposed(job, S) /\ scope # "orphan" /\ UNCHANGED entry
      BY <1>3, <2>2 DEF ScanOthers
    <3>2. job \in Entry /\ Sound(job)
      BY <1>1, <2>2 DEF PlannedTypeOK, Kill, EntryKnows
    <3>3. job.owner = Runner /\ (job.status = "running" => job.group = Root) /\ job.status \in {"waiting", "running"}
      BY <3>2 DEF Entry, Sound
    <3>4. CASE scope = "boot" /\ S # {}
      <4>1. /\ S = BootPlan(job, table) /\ S = BootBound(job, table) /\ BootBound(job, table) # {}
            /\ \A p \in S : table[p].command \in {"boot", "shell", "sleep"}
        BY <3>4 DEF BootPlan
      <4>2. S = Group(table, Root) /\ job.status = "running"
        BY <3>3, <4>1 DEF BootBound
      <4>3. S \subseteq InUse(table) /\ \A p \in S : table[p].command # "work"
        BY <4>1, <4>2 DEF Group
      <4> HIDE DEF S, job
      <4> QED BY <1>1, <3>1, <3>2, <3>4, <4>2, <4>3, ProposedKnows
    <3>5. CASE scope # "boot" /\ S # {} /\ job.status = "waiting"
      <4>1. S = PollWaiting(job, table) /\ S # {}
        BY <3>5 DEF PollPlan, PollRunning
      <4>2. S = {Runner} /\ Same(table, Runner, job.owner_start) /\ table[Runner].command = "waiter"
        BY <3>3, <4>1 DEF PollWaiting
      <4>3. S \subseteq InUse(table) /\ \A p \in S : table[p].command # "work"
        BY <4>2 DEF InUse, Same
      <4> HIDE DEF S, job
      <4> QED BY <1>1, <3>1, <3>2, <3>5, <4>2, <4>3, ProposedKnows
    <3>6. CASE scope # "boot" /\ S # {} /\ job.status = "running"
      <4>1. S = PollRunning(job, table) /\ S # {}
        BY <3>6 DEF PollPlan, PollWaiting
      <4>2. /\ S = Group(table, Root) /\ Root \in S
            /\ Same(table, Root, job.members[Root]) /\ table[Root].command = "poll"
            /\ \A p \in S \ {Root} : table[p].ppid = Root /\ table[p].command = "sleep"
        <5>1. /\ S = Group(table, Root) /\ Root \in InUse(table)
              /\ Descendants(Root, table) = Group(table, Root)
              /\ Same(table, Root, job.members[Root]) /\ table[Root].command = "poll"
              /\ \A p \in Group(table, Root) \ {Root} : table[p].ppid = Root /\ table[p].command = "sleep"
          BY <3>3, <3>6, <4>1 DEF PollRunning
        <5> QED BY <5>1, DescendantsClosed
      <4>3. S \subseteq InUse(table) /\ \A p \in S : table[p].command # "work"
        BY <4>2 DEF Group
      <4>4. entry' # NoEntry => entry'.members[Root] = table[Root].start
        BY <1>1, <2>2, <3>1, <3>6, <4>2 DEF EntryKnows, Same
      <4> HIDE DEF S, job
      <4> QED BY <1>1, <3>1, <3>2, <3>6, <4>2, <4>3, <4>4, ProposedKnows
    <3>7. CASE S = {}
      <4> HIDE DEF S
      <4> QED BY <3>1, <3>7, IdleKnows DEF Proposed
    <3> QED BY <3>3, <3>4, <3>5, <3>6, <3>7
  <2> QED BY <2>1, <2>2
<1> QED BY <1>2, <1>3 DEF ScanJob

\* Before SIGKILL, all targets are allowed or none.
LEMMA AllowedWhole ==
  ASSUME KillInv, kill.round > 0
  PROVE  Allowed(FALSE) \in {{}, Targets}
<1>1. Targets # {}
  BY DEF KillInv, PlanKnows
<1>2. \A job : OrphanAllowed(kill.plan, job, table, kill.seen, around, FALSE) \in {{}, Targets}
  BY DEF OrphanAllowed, Targets
<1>3. \A job : BootAllowed(kill.plan, job, table, FALSE) \in {{}, Targets}
  BY <1>1 DEF BootAllowed, BootPlan, Targets
<1>4. \A job : PollAllowed(kill.plan, job, table, FALSE) \in {{}, Targets}
  BY DEF PollAllowed, Targets
<1> QED BY <1>2, <1>3, <1>4 DEF Allowed

\* A claim keeps all targets or none.
LEMMA KeptWhole ==
  ASSUME KillInv, kill.round > 0, Allowed(FALSE) = Targets
  PROVE  Targets \cap kill.kept = {} \/ Targets \subseteq kill.kept
<1> USE KillFields
<1> DEFINE job == kill.job
<1>1. /\ PlannedTypeOK /\ EntryKnows /\ PlanKnows /\ RoundKnows /\ KeptKnows /\ Targets # {}
  BY DEF KillInv, PlanKnows
<1>2. SUFFICES ASSUME kill.kept # {} PROVE Targets \cap kill.kept = {} \/ Targets \subseteq kill.kept
  OBVIOUS
<1>3. scope # "orphan"
  BY <1>1, <1>2 DEF RoundKnows
<1>4. /\ job \in Entry /\ Sound(job) /\ \A p \in Pids : Same(table, p, job.members[p]) => p \in kill.kept
      /\ \A p \in Targets :
           AsNoted(p) /\ table[p].ppid = Root /\ Same(table, Root, job.members[Root]) => p \in kill.kept
  BY <1>1, <1>2 DEF KeptKnows, EntryKnows
<1>5. CASE scope = "boot"
  <2>1. BootAllowed(kill.plan, job, table, FALSE) = Targets
    BY <1>1, <1>3, <1>5 DEF Allowed
  <2>2. BootBound(job, table) = Targets
    BY <1>1, <2>1 DEF BootAllowed
  <2>3. \A p \in BootBound(job, table) : Same(table, p, job.members[p])
    BY DEF BootBound
  <2> QED BY <1>1, <1>4, <2>2, <2>3
<1>6. CASE scope # "boot"
  <2>1. PollAllowed(kill.plan, job, table, FALSE) = Targets /\ job.status = kill.plan.status
    BY <1>1, <1>3, <1>6 DEF Allowed
  <2>2. /\ PollPlan(job, table) = Targets
        /\ \A p \in Targets : /\ table[p].start = kill.plan.members[p].start
                              /\ table[p].command = kill.plan.members[p].command
                              /\ table[p].group = kill.plan.members[p].group
    BY <1>1, <2>1 DEF PollAllowed, AsPlanned, Targets
  <2>3. CASE job.status = "waiting"
    <3>1. Targets = {Runner}
      BY <1>1, <2>1, <2>3 DEF PlanKnows
    <3> QED BY <3>1
  <2>4. CASE job.status # "waiting"
    <3>1. PollRunning(job, table) = Targets
      BY <2>2, <2>4 DEF PollPlan, PollWaiting
    <3>2. job.status = "running" /\ job.group = Root
      BY <1>1, <1>4, <3>1 DEF PollRunning, Sound
    <3>3. /\ Same(table, Root, job.members[Root])
          /\ \A p \in Targets \ {Root} : table[p].ppid = Root
      BY <1>1, <3>1, <3>2 DEF PollRunning
    <3>4. \A p \in Targets : AsNoted(p)
      <4>1. \A p \in Pids : kill.plan.members[p] \in Named
        BY <1>1
      <4>2. \A p \in Pids : Naming({p})[p] = [start |-> table[p].start, command |-> table[p].command,
                                              group |-> table[p].group]
        BY DEF Naming
      <4> QED BY <1>1, <2>2, <4>1, <4>2 DEF AsNoted, Named
    <3> QED BY <1>1, <1>4, <3>3, <3>4, KillConstants
  <2> QED BY <2>3, <2>4
<1> QED BY <1>5, <1>6

LEMMA FilterKnows ==
  ASSUME KillInv, PlannedTypeOK', PlannedNext, Filter
  PROVE  PlanKnows' /\ RoundKnows' /\ KeptKnows'
<1> USE KillFields
<1> DEFINE allowed == Allowed(kill.round = 4) \ kill.kept
           pids == IF kill.round = 1 THEN allowed ELSE kill.pids \cap allowed
           pc == CASE kill.round = 1 -> "read" [] kill.round = 2 -> "note"
                   [] kill.round = 3 -> "term" [] OTHER -> "kill"
           round == IF kill.round = 1 THEN 2 ELSE kill.round
<1>1. /\ kill.round > 0 /\ UNCHANGED <<scope, table, born, entry>>
      /\ kill' = IF pids = {} THEN Idle
                 ELSE [kill EXCEPT !.pids = pids, !.seen = {}, !.kept = {}, !.job = NoEntry,
                                  !.round = round, !.pc = pc]
  BY DEF Filter, world
<1>2. kill \in [pc : {"read", "decide", "note", "term", "sleep", "kill"}, round : 0..4, plan : Plan,
                seen : SUBSET {"client"}, kept : SUBSET Pids, job : Entry \cup {NoEntry},
                pids : SUBSET Pids, idents : [Pids -> Named]]
  BY DEF KillInv, PlannedTypeOK, Kill
<1>3. /\ PlannedTypeOK /\ EntryKnows /\ PlanKnows /\ RoundKnows
  BY DEF KillInv
<1>4. CASE pids = {}
  <2>1. kill' = Idle
    BY <1>1, <1>4
  <2> QED BY <2>1, IdleKnows
<1>5. CASE pids # {}
  <2>1. kill.round < 4 => pids = Targets
    <3> SUFFICES ASSUME kill.round < 4 PROVE pids = Targets
      OBVIOUS
    <3>1. (kill.round = 4) = FALSE
      OBVIOUS
    <3>2. Allowed(FALSE) = Targets
      BY <1>1, <1>5, <3>1, AllowedWhole
    <3>3. Targets \cap kill.kept = {} \/ Targets \subseteq kill.kept
      BY <1>1, <3>2, KeptWhole
    <3>4. kill.round = 1 => kill.kept = {}
      BY <1>3 DEF RoundKnows
    <3>5. kill.round # 1 => kill.pids = Targets
      BY <1>1, <1>2, <1>3 DEF RoundKnows
    <3> QED BY <1>5, <3>1, <3>2, <3>3, <3>4, <3>5
  <2>2. /\ kill.round = 1 => pc = "read" /\ round = 2
        /\ kill.round = 2 => pc = "note" /\ round = 2
        /\ kill.round = 3 => pc = "term" /\ round = 3
        /\ kill.round = 4 => pc = "kill" /\ round = 4
    OBVIOUS
  <2> HIDE DEF pids, pc, round
  <2>3. /\ kill'.pc = pc /\ kill'.round = round /\ kill'.plan = kill.plan
        /\ kill'.kept = {} /\ kill'.job = NoEntry /\ kill'.pids = pids /\ kill'.idents = kill.idents
    BY <1>1, <1>2, <1>5
  <2>4. Targets' = Targets /\ \A p \in Targets : AsNoted(p)' <=> AsNoted(p)
    BY <1>1, <2>3 DEF Targets, AsNoted, Naming
  <2>5. PlanKnows'
    BY <1>1, <2>3, PlanStays DEF PlanKnows
  <2>6. kill.round \in {1, 2, 3, 4}
    BY <1>1, <1>2
  <2>7. RoundKnows'
    BY <1>1, <1>3, <2>1, <2>2, <2>3, <2>4, <2>6 DEF RoundKnows
  <2> QED BY <2>3, <2>5, <2>7 DEF KeptKnows
<1> QED BY <1>4, <1>5

LEMMA SignalsKnow ==
  ASSUME KillInv, PlannedTypeOK', PlannedNext,
         NoteIdentities \/ Term \/ Survivors \/ KillNow \/ KillGivesUp
  PROVE  PlanKnows' /\ RoundKnows' /\ KeptKnows'
<1> USE KillFields
<1>1. kill \in [pc : {"read", "decide", "note", "term", "sleep", "kill"}, round : 0..4, plan : Plan,
                seen : SUBSET {"client"}, kept : SUBSET Pids, job : Entry \cup {NoEntry},
                pids : SUBSET Pids, idents : [Pids -> Named]]
  BY DEF KillInv, PlannedTypeOK, Kill
<1>2. /\ PlannedTypeOK /\ EntryKnows /\ PlanKnows /\ RoundKnows /\ KeptKnows
  BY DEF KillInv
<1>3. ASSUME UNCHANGED <<scope, table, born, entry>>, kill'.plan = kill.plan, kill'.job = kill.job,
             kill'.kept = kill.kept, kill.round > 0
      PROVE  /\ Targets' = Targets /\ \A p \in Targets : AsNoted(p)' <=> AsNoted(p)
             /\ PlanKnows' /\ KeptKnows'
  <2>1. Targets' = Targets /\ \A p \in Targets : AsNoted(p)' <=> AsNoted(p)
    BY <1>3 DEF Targets, AsNoted, Naming
  <2>2. PlanKnows'
    BY <1>3, PlanStays
  <2> QED BY <1>2, <1>3, <2>1, <2>2 DEF KeptKnows
<1>4. CASE NoteIdentities
  <2> DEFINE idents == Naming(kill.pids)
  <2>1. /\ kill.pc = "note" /\ kill.round = 2 /\ kill.pids = Targets
        /\ kill' = [kill EXCEPT !.idents = idents, !.pc = "read", !.round = 3]
        /\ UNCHANGED <<scope, table, born, entry>>
    BY <1>2, <1>4 DEF NoteIdentities, world, RoundKnows
  <2>2. \A p \in Targets : idents[p] = Naming({p})[p]
    BY <1>2, <2>1 DEF Naming
  <2> HIDE DEF idents
  <2>3. /\ kill'.pc = "read" /\ kill'.round = 3 /\ kill'.plan = kill.plan /\ kill'.kept = kill.kept
        /\ kill'.job = kill.job /\ kill'.pids = kill.pids /\ kill'.idents = idents
    BY <1>1, <2>1
  <2>4. /\ Targets' = Targets /\ \A p \in Targets : AsNoted(p)' <=> AsNoted(p)
        /\ PlanKnows' /\ KeptKnows'
    BY <1>3, <2>1, <2>3
  <2>5. RoundKnows'
    BY <1>2, <2>1, <2>2, <2>3, <2>4 DEF RoundKnows, AsNoted
  <2> QED BY <2>4, <2>5
<1>5. CASE kill' = [kill EXCEPT !.pc = "sleep"] /\ Term
  <2>1. /\ kill.pc = "term" /\ kill.round = 3 /\ UNCHANGED <<scope, table, born, entry>>
    BY <1>2, <1>5 DEF Term, world, RoundKnows
  <2>2. /\ kill'.pc = "sleep" /\ kill'.round = kill.round /\ kill'.plan = kill.plan /\ kill'.kept = kill.kept
        /\ kill'.job = kill.job /\ kill'.pids = kill.pids /\ kill'.idents = kill.idents
    BY <1>1, <1>5
  <2>3. /\ Targets' = Targets /\ \A p \in Targets : AsNoted(p)' <=> AsNoted(p)
        /\ PlanKnows' /\ KeptKnows'
    BY <1>3, <2>1, <2>2
  <2> QED BY <1>2, <2>1, <2>2, <2>3 DEF RoundKnows
<1>6. CASE Survivors /\ kill' # Idle
  <2> DEFINE survivors == {p \in kill.pids \cap InUse(table) : Naming({p})[p] = kill.idents[p]}
  <2>1. /\ kill.pc = "sleep" /\ kill.round = 3 /\ kill.pids = Targets
        /\ kill' = [kill EXCEPT !.pids = survivors, !.pc = "read", !.round = 4]
        /\ UNCHANGED <<scope, table, born, entry>>
    BY <1>2, <1>6 DEF Survivors, world, RoundKnows
  <2>2. ASSUME NEW p \in Targets, AsNoted(p) PROVE p \in survivors
    <3>1. kill.idents[p] = kill.plan.members[p] /\ Naming({p})[p] = kill.plan.members[p]
      BY <1>2, <2>1, <2>2 DEF RoundKnows, AsNoted
    <3>2. table[p].start = kill.plan.members[p].start /\ p \in Pids /\ kill.plan.members[p].start > 0
      <4>1. Naming({p})[p] = [start |-> table[p].start, command |-> table[p].command, group |-> table[p].group]
            /\ p \in Pids /\ kill.plan.members[p].start > 0
        BY DEF Naming, Targets
      <4> QED BY <3>1, <4>1
    <3> QED BY <2>1, <3>1, <3>2 DEF InUse
  <2> HIDE DEF survivors
  <2>3. /\ kill'.pc = "read" /\ kill'.round = 4 /\ kill'.plan = kill.plan /\ kill'.kept = kill.kept
        /\ kill'.job = kill.job /\ kill'.pids = survivors /\ kill'.idents = kill.idents
    BY <1>1, <2>1
  <2>4. /\ Targets' = Targets /\ \A p \in Targets : AsNoted(p)' <=> AsNoted(p)
        /\ PlanKnows' /\ KeptKnows'
    BY <1>3, <2>1, <2>3
  <2>5. RoundKnows'
    BY <1>2, <2>1, <2>2, <2>3, <2>4, <1>6 DEF RoundKnows, Survivors, world
  <2> QED BY <2>4, <2>5
<1>7. CASE kill' = Idle
  BY <1>7, IdleKnows
<1> QED BY <1>4, <1>5, <1>6, <1>7 DEF Term, KillNow, KillGivesUp

LEMMA GroupNoted ==
  ASSUME PlannedTypeOK, NEW S, S \subseteq Targets, S \subseteq Group(table, Root),
         \A p \in S : /\ table[p].start = kill.plan.members[p].start
                      /\ table[p].command = kill.plan.members[p].command
                      /\ kill.plan.members[p].group = Root
  PROVE  \A p \in S : AsNoted(p)
<1> SUFFICES ASSUME NEW p \in S PROVE AsNoted(p)
  OBVIOUS
<1>1. kill.plan.members[p] \in Named /\ p \in Pids
  BY KillFields
<1>2. Naming({p})[p] = [start |-> table[p].start, command |-> table[p].command, group |-> table[p].group]
  BY <1>1 DEF Naming
<1>3. table[p].group = kill.plan.members[p].group
  BY DEF Group
<1> QED BY <1>1, <1>2, <1>3 DEF AsNoted, Named

LEMMA KillInvInit == PlannedInit => KillInv
<1> SUFFICES ASSUME PlannedInit PROVE KillInv
  OBVIOUS
<1>1. PlannedTypeOK /\ Kinship /\ EntryKnows
  BY EntryInvInit DEF EntryInv
<1>2. PlanKnows /\ RoundKnows /\ KeptKnows
  BY DEF PlannedInit, Idle, PlanKnows, RoundKnows, KeptKnows
<1> QED BY <1>1, <1>2 DEF KillInv

LEMMA KillInvNext == KillInv /\ [PlannedNext]_killvars => KillInv'
<1> SUFFICES ASSUME KillInv, [PlannedNext]_killvars PROVE KillInv'
  OBVIOUS
<1>1. PlannedTypeOK' /\ Kinship' /\ EntryKnows'
  BY EntryInvNext DEF EntryInv, KillInv
<1>2. CASE UNCHANGED killvars
  BY <1>1, <1>2 DEF KillInv, PlanKnows, PollingKnows, RoundKnows, KeptKnows, Targets, AsNoted, Naming,
                    killvars, world
<1>3. CASE PlannedNext
  <2>1. CASE Read
    BY <1>1, <2>1, ReadKnows DEF KillInv
  <2>2. CASE ScanJob
    BY <1>1, <1>3, <2>2, ScanKnows DEF KillInv
  <2>3. CASE Filter
    BY <1>1, <1>3, <2>3, FilterKnows DEF KillInv
  <2>4. CASE NoteIdentities \/ Term \/ Survivors \/ KillNow \/ KillGivesUp
    BY <1>1, <1>3, <2>4, SignalsKnow DEF KillInv
  <2>5. CASE KillTick
    <3> DEFINE age == IF kill.round = 0 THEN 0 ELSE Later(kill.plan.age, Fresh + 1)
    <3>1. kill' = [kill EXCEPT !.plan.age = age] /\ kill \in Kill /\ kill.plan \in Plan
      BY <2>5, KillFields DEF KillTick, KillInv
    <3> HIDE DEF age
    <3>2. /\ kill'.plan.members = kill.plan.members /\ kill'.plan.status = kill.plan.status
          /\ kill'.pc = kill.pc /\ kill'.round = kill.round /\ kill'.kept = kill.kept /\ kill'.job = kill.job
          /\ kill'.pids = kill.pids /\ kill'.idents = kill.idents
      BY <3>1 DEF Kill, Plan
    <3> QED BY <1>1, <1>3, <3>2, WorldKeeps DEF KillInv
  <2>6. CASE \/ Refresh \/ Admit \/ Claim \/ Surround
             \/ \E p \in Pids : Exits(p)
             \/ \E p \in {Root, Child} : Stranger(p) \/ \E q \in {Root, Child} : Forks(q, p)
             \/ \E p \in {Runner, Root, Child} : Becomes(p)
    <3>1. kill' = kill
      BY <2>6 DEF Refresh, Admit, Claim, Surround, Exits, Stranger, Forks, Starting, Becomes
    <3> QED BY <1>1, <1>3, <3>1, WorldKeeps DEF KillInv
  <2> QED BY <1>3, <2>1, <2>2, <2>3, <2>4, <2>5, <2>6 DEF PlannedNext
<1> QED BY <1>2, <1>3

\* The whole of a job, and that nothing of it has changed.
Whole(pids) ==
  LET job == IF scope = "orphan" THEN entry ELSE kill.job
      all == IF job.status = "waiting" THEN {Runner} \cap InUse(table) ELSE Group(table, Root)
  IN /\ pids = all
     /\ \A p \in all : /\ table[p].start = kill.plan.members[p].start
                       /\ Descendants(p, table) \subseteq all

\* What is allowed is a group of targets, to which nothing has been added.
LEMMA OrphanWhole ==
  ASSUME KillInv, kill.round \in {3, 4}, scope = "orphan", NEW escalating \in BOOLEAN,
         Allowed(escalating) # {}
  PROVE  /\ Whole(Allowed(escalating)) /\ \A p \in Allowed(escalating) : p \in Targets /\ AsNoted(p)
<1> USE KillFields
<1>1. /\ PlannedTypeOK /\ EntryKnows /\ PlanKnows
  BY DEF KillInv
<1>2. /\ entry # NoEntry /\ entry.status = kill.plan.status
      /\ Allowed(escalating) = OrphanAllowed(kill.plan, entry, table, kill.seen, around, escalating)
  BY DEF Allowed
<1>3. /\ Allowed(escalating) = Abandoned(entry, table) /\ Abandoned(entry, table) # {}
      /\ Abandoned(entry, table) \subseteq Targets
      /\ \A p \in Abandoned(entry, table) : /\ table[p].start = kill.plan.members[p].start
                                            /\ table[p].command = kill.plan.members[p].command
  BY <1>2 DEF OrphanAllowed, Targets
<1>4. /\ entry.status = "running" /\ Abandoned(entry, table) = Group(table, entry.group)
      /\ \A p \in Group(table, entry.group) : Descendants(p, table) \subseteq Group(table, entry.group)
  BY <1>3 DEF Abandoned
<1>5. entry.group = Root
  BY <1>1, <1>2, <1>4 DEF EntryKnows, Sound
<1>6. \A p \in Targets : kill.plan.members[p].group = Root
  BY <1>1, <1>2, <1>4 DEF PlanKnows
<1>7. \A p \in Allowed(escalating) : AsNoted(p)
  BY <1>1, <1>3, <1>4, <1>5, <1>6, GroupNoted
<1> QED BY <1>3, <1>4, <1>5, <1>7 DEF Whole

LEMMA BootWhole ==
  ASSUME KillInv, kill.round \in {3, 4}, scope = "boot", NEW escalating \in BOOLEAN,
         Allowed(escalating) # {}
  PROVE  /\ Whole(Allowed(escalating)) /\ \A p \in Allowed(escalating) : p \in Targets /\ AsNoted(p)
         /\ \A p \in Allowed(escalating) : Same(table, p, kill.job.members[p])
<1> USE KillFields
<1>1. /\ PlannedTypeOK /\ EntryKnows /\ PlanKnows
  BY DEF KillInv
<1> DEFINE job == kill.job
<1>2. /\ job # NoEntry /\ job.status = kill.plan.status
      /\ Allowed(escalating) = BootAllowed(kill.plan, job, table, escalating)
  BY DEF Allowed
<1>3. /\ Allowed(escalating) = BootBound(job, table) /\ BootBound(job, table) # {}
      /\ BootBound(job, table) \subseteq Targets
      /\ \A p \in BootBound(job, table) : /\ table[p].start = kill.plan.members[p].start
                                          /\ table[p].command = kill.plan.members[p].command
                                          /\ Descendants(p, table) \subseteq BootBound(job, table)
  BY <1>2 DEF BootAllowed, AsPlanned, Targets
<1>4. /\ job.status = "running" /\ BootBound(job, table) = Group(table, job.group)
      /\ \A p \in Group(table, job.group) : Same(table, p, job.members[p])
  BY <1>3 DEF BootBound
<1>5. job.group = Root
  BY <1>1, <1>2, <1>4 DEF EntryKnows, Sound
<1>6. \A p \in Targets : kill.plan.members[p].group = Root
  BY <1>1, <1>2, <1>4 DEF PlanKnows
<1>7. \A p \in Allowed(escalating) : AsNoted(p)
  BY <1>1, <1>3, <1>4, <1>5, <1>6, GroupNoted
<1> QED BY <1>3, <1>4, <1>5, <1>7 DEF Whole

\* A polling loop: what is allowed before SIGTERM is the plan, which is the group of
\* now; before SIGKILL it is what is left of the plan, of which the group is a part.
LEMMA PollWhole ==
  ASSUME KillInv, kill.round \in {3, 4}, scope \notin {"orphan", "boot"}, NEW escalating \in BOOLEAN,
         Allowed(escalating) # {}
  PROVE  /\ Whole(Allowed(escalating)) /\ \A p \in Allowed(escalating) : p \in Targets /\ AsNoted(p)
         /\ kill.job \in Entry /\ kill.job.status = kill.plan.status
<1> USE KillFields, KillConstants
<1> DEFINE job == kill.job
           left == Targets \cap InUse(table)
<1>1. /\ PlannedTypeOK /\ EntryKnows /\ PlanKnows
  BY DEF KillInv
<1>2. /\ job \in Entry /\ job.status = kill.plan.status /\ Sound(job) /\ job.status \in {"waiting", "running"}
      /\ job.owner = Runner
      /\ Allowed(escalating) = PollAllowed(kill.plan, job, table, escalating)
  BY <1>1 DEF Allowed, EntryKnows, PlanKnows, Entry
<1>3. ASSUME NEW p \in Targets, table[p].start = kill.plan.members[p].start,
             table[p].command = kill.plan.members[p].command, table[p].group = kill.plan.members[p].group
      PROVE  AsNoted(p)
  <2>1. kill.plan.members[p] \in Named /\ p \in Pids
    BY <1>1 DEF Targets
  <2>2. Naming({p})[p] = [start |-> table[p].start, command |-> table[p].command, group |-> table[p].group]
    BY <2>1 DEF Naming
  <2> QED BY <1>3, <2>1, <2>2 DEF AsNoted, Named
<1>4. CASE escalating = FALSE
  <2>1. /\ Allowed(escalating) = Targets /\ PollPlan(job, table) = Targets
        /\ \A p \in Targets : /\ table[p].start = kill.plan.members[p].start
                              /\ table[p].command = kill.plan.members[p].command
                              /\ table[p].group = kill.plan.members[p].group
    BY <1>2, <1>4 DEF PollAllowed, AsPlanned, Targets
  <2>2. CASE job.status = "waiting"
    <3>1. PollWaiting(job, table) = Targets /\ PollWaiting(job, table) # {}
      BY <1>1, <2>1, <2>2 DEF PollPlan, PollRunning, PlanKnows
    <3>2. Targets = {Runner} /\ Descendants(Runner, table) = {Runner} /\ Same(table, Runner, job.owner_start)
      BY <1>2, <3>1 DEF PollWaiting
    <3>3. {Runner} \cap InUse(table) = Targets
      BY <3>2 DEF InUse, Same
    <3> HIDE DEF job
    <3>4. Whole(Targets)
      BY <2>1, <2>2, <3>2, <3>3 DEF Whole, job
    <3> QED BY <1>2, <1>3, <2>1, <3>4 DEF job
  <2>3. CASE job.status = "running"
    <3>1. PollRunning(job, table) = Targets /\ PollRunning(job, table) # {} /\ job.group = Root
      BY <1>1, <1>2, <2>1, <2>3 DEF PollPlan, PollWaiting, PlanKnows, Sound
    <3>2. Targets = Group(table, Root) /\ Descendants(Root, table) = Group(table, Root)
      BY <3>1 DEF PollRunning
    <3>3. ASSUME NEW p \in Targets PROVE Descendants(p, table) \subseteq Targets
      <4>1. p \in Pids /\ p \in Targets
        BY <1>1
      <4>2. \A q \in InUse(table) : table[q].ppid \in Targets => q \in Targets
        BY <3>2, DescendantsClosed
      <4> QED BY <4>1, <4>2, DescendantsInduction
    <3>4. Whole(Targets)
      BY <2>1, <2>3, <3>2, <3>3 DEF Whole
    <3> QED BY <1>2, <1>3, <2>1, <3>4
  <2> QED BY <1>2, <2>2, <2>3
<1>5. CASE escalating = TRUE
  <2>1. /\ Allowed(escalating) = left
        /\ \A p \in left : /\ table[p].start = kill.plan.members[p].start
                           /\ table[p].command = kill.plan.members[p].command
                           /\ table[p].group = kill.plan.members[p].group
                           /\ Descendants(p, table) \subseteq left
        /\ job.status = "running" => Group(table, job.group) \subseteq left
    BY <1>2, <1>5 DEF PollAllowed, AsPlanned, Targets
  <2>2. CASE job.status = "waiting"
    <3>1. left = {Runner} \cap InUse(table)
      BY <1>1, <1>2, <2>2 DEF PlanKnows
    <3>2. Whole(left)
      BY <2>1, <2>2, <3>1 DEF Whole
    <3> QED BY <1>2, <1>3, <2>1, <3>2
  <2>3. CASE job.status = "running"
    <3>1. job.group = Root /\ \A p \in Targets : kill.plan.members[p].group = Root
      BY <1>1, <1>2, <2>3 DEF PlanKnows, Sound
    <3>2. left = Group(table, Root)
      BY <2>1, <2>3, <3>1 DEF Group
    <3>3. Whole(left)
      BY <2>1, <2>3, <3>2 DEF Whole
    <3> QED BY <1>2, <1>3, <2>1, <3>3
  <2> QED BY <1>2, <2>2, <2>3
<1> QED BY <1>4, <1>5

LEMMA WholeStep ==
  ASSUME KillInv, PlannedNext, Decides("term") \/ Decides("kill")
  PROVE  Whole(kill'.pids)
<1> USE KillFields
<1>1. /\ PlannedTypeOK /\ EntryKnows /\ PlanKnows /\ RoundKnows /\ KeptKnows
  BY DEF KillInv
<1>2. /\ kill.round \in {3, 4} /\ kill'.pids # {} /\ kill.pc = "decide"
      /\ kill'.pids = kill.pids \cap (Allowed(kill.round = 4) \ kill.kept)
      /\ Allowed(kill.round = 4) # {}
  BY <1>1, DecidesToSignal DEF Decides
<1> DEFINE escalating == (kill.round = 4)
           allowed == Allowed(escalating)
<1>3. escalating \in BOOLEAN
  OBVIOUS
<1>4. ASSUME \A p \in allowed : p \in Targets /\ AsNoted(p)
      PROVE  allowed \subseteq kill.pids
  <2>1. CASE kill.round = 3
    BY <1>1, <1>4, <2>1 DEF RoundKnows
  <2>2. CASE kill.round = 4
    BY <1>1, <1>2, <1>4, <2>2 DEF RoundKnows
  <2> QED BY <1>2, <2>1, <2>2
<1> HIDE DEF escalating
<1>5. CASE scope = "orphan"
  <2>1. Whole(allowed) /\ \A p \in allowed : p \in Targets /\ AsNoted(p)
    BY <1>2, <1>3, <1>5, OrphanWhole DEF escalating
  <2>2. kill.kept = {}
    BY <1>1, <1>5 DEF RoundKnows
  <2>3. kill'.pids = allowed
    BY <1>2, <1>4, <2>1, <2>2 DEF escalating
  <2> QED BY <2>1, <2>3
<1>6. CASE scope = "boot"
  <2>1. /\ Whole(allowed) /\ \A p \in allowed : p \in Targets /\ AsNoted(p)
        /\ \A p \in allowed : Same(table, p, kill.job.members[p])
    BY <1>2, <1>3, <1>6, BootWhole DEF escalating
  <2>2. kill.kept # {} => allowed \subseteq kill.kept
    BY <1>1, <2>1 DEF KeptKnows
  <2>3. kill'.pids = allowed
    BY <1>2, <1>4, <2>1, <2>2 DEF escalating
  <2> QED BY <2>1, <2>3
<1>7. CASE scope \notin {"orphan", "boot"}
  <2>1. /\ Whole(allowed) /\ \A p \in allowed : p \in Targets /\ AsNoted(p)
        /\ kill.job \in Entry /\ kill.job.status = kill.plan.status
    BY <1>2, <1>3, <1>7, PollWhole DEF escalating
  <2>2. kill.job # NoEntry
    BY <2>1, KillValues
  <2>3. CASE kill.plan.status = "waiting"
    <3>1. allowed \subseteq {Runner}
      BY <1>1, <1>2, <2>1, <2>3 DEF PlanKnows
    <3>2. kill'.pids = allowed
      BY <1>2, <3>1 DEF escalating
    <3> QED BY <2>1, <3>2
  <2>4. CASE kill.plan.status = "running" /\ Root \in allowed
    <3>1. PollingKnows /\ AsNoted(Root)
      BY <1>1, <1>2, <1>7, <2>1, <2>4 DEF PlanKnows
    <3>2. \A p \in allowed \ {Root} : AsNoted(p) /\ table[p].ppid = Root
      BY <2>1, <3>1 DEF PollingKnows
    <3>3. Same(table, Root, kill.job.members[Root])
      <4>1. Root \in Pids /\ Root \in Targets
        BY <2>1, <2>4, KillConstants
      <4>2. kill.job.members[Root] = kill.plan.members[Root].start
        BY <2>2, <3>1 DEF PollingKnows
      <4>3. Naming({Root})[Root] = [start |-> table[Root].start, command |-> table[Root].command,
                                    group |-> table[Root].group]
        BY <4>1 DEF Naming
      <4>4. table[Root].start = kill.plan.members[Root].start
        BY <3>1, <4>3 DEF AsNoted
      <4> QED BY <4>1, <4>2, <4>4 DEF Same, Targets
    <3>4. kill.kept # {} => allowed \subseteq kill.kept
      BY <1>1, <2>1, <3>2, <3>3, KillConstants DEF KeptKnows
    <3>5. kill'.pids = allowed
      BY <1>2, <1>4, <2>1, <3>4 DEF escalating
    <3> QED BY <2>1, <3>5
  <2>5. CASE kill.plan.status = "running" /\ Root \notin allowed
    <3>1. allowed \subseteq {Child}
      BY <1>1, <1>2, <2>1, <2>5 DEF PlanKnows
    <3>2. kill'.pids = allowed
      BY <1>2, <3>1 DEF escalating
    <3> QED BY <2>1, <3>2
  <2> QED BY <1>1, <1>2, <2>3, <2>4, <2>5 DEF PlanKnows
<1> QED BY <1>5, <1>6, <1>7

\* A planned kill never leaves its types: the plan, the identities that are noted and the
\* entry that is read have the shapes of the registry and of the process table.
THEOREM PlannedTypeCorrect == PlannedSpec => []PlannedTypeOK
<1>1. PlannedInit => PlannedTypeOK
  BY KillInitTypes
<1>2. PlannedTypeOK /\ [PlannedNext]_killvars => PlannedTypeOK'
  BY PlannedTypes
<1> QED BY <1>1, <1>2, PTL DEF PlannedSpec

\* No signal goes to an abandoned server before it has been without a claim, and without
\* the change of one, for the whole of the grace: a lease never has more clear time than
\* has passed since the last claim, whoever refreshes, observes or admits in between.
THEOREM GraceIsUninterrupted == PlannedSpec => GraceUninterrupted
<1>1. PlannedInit => EntryInv
  BY EntryInvInit
<1>2. EntryInv /\ [PlannedNext]_killvars => EntryInv'
  BY EntryInvNext
<1>3. EntryInv /\ [PlannedNext]_killvars
      => [scope = "orphan" /\ (Decides("term") \/ Decides("kill")) => undisturbed = RecoveryGrace]_killvars
  BY GraceStep
<1> QED BY <1>1, <1>2, <1>3, PTL DEF PlannedSpec, GraceUninterrupted

\* What a signal is decided on for is all that is left of the job, of the births of the plan,
\* and has no descendant outside: however the processes exit, fork, change and are numbered
\* again, and whatever claims are made, between the three times that the planner is asked.
THEOREM AttemptIsWhole == PlannedSpec => WholeAttempt
<1>1. PlannedInit => KillInv
  BY KillInvInit
<1>2. KillInv /\ [PlannedNext]_killvars => KillInv'
  BY KillInvNext
<1>3. KillInv /\ [PlannedNext]_killvars
      => [Decides("term") \/ Decides("kill") =>
            LET job == IF scope = "orphan" THEN entry ELSE kill.job
                all == IF job.status = "waiting" THEN {Runner} \cap InUse(table)
                       ELSE Group(table, Root)
            IN /\ kill'.pids = all
               /\ \A p \in all : /\ table[p].start = kill.plan.members[p].start
                                 /\ Descendants(p, table) \subseteq all]_killvars
  BY WholeStep DEF Whole
<1> QED BY <1>1, <1>2, <1>3, PTL DEF PlannedSpec, WholeAttempt

(***************************************************************************)
(* History.                                                                *)
(***************************************************************************)

\* The other jobs with a lifecycle event that is counted and no older.
NewerJobs(t, e) ==
  {k \in JobsSeen \ {JobOf[e]} : \E f \in Events :
     t.counts[f] > 0 /\ KindOf[f] = "job" /\ JobOf[f] = k /\ WallOf[f] >= WallOf[e]}

\* Tables whose counts and checkpoints say, on a day, what was counted.
TableType == [raw : SUBSET Events, marks : [JobsSeen -> Events \cup {NoEvent}],
              diagnostics : SUBSET Events, counts : [Events -> Nat], passed : [Events -> Nat]]
EachCounted(t) == \A e \in Events : t.counts[e] = t.passed[e] + (IF e \in t.raw THEN 1 ELSE 0)
MarksCounted(t) ==
  \A j \in JobsSeen : t.marks[j] # NoEvent =>
    KindOf[t.marks[j]] = "job" /\ JobOf[t.marks[j]] = j /\ t.counts[t.marks[j]] > 0
LatestMarked(t, d) ==
  \A e \in Events :
    /\ t.counts[e] > 0 /\ KindOf[e] = "job"
    /\ d - WallOf[e] <= CheckpointDays /\ Cardinality(NewerJobs(t, e)) < JobsKept
    => t.marks[JobOf[e]] # NoEvent /\ WallOf[t.marks[JobOf[e]]] >= WallOf[e]
TableTrue(t, d) == t \in TableType /\ EachCounted(t) /\ MarksCounted(t) /\ LatestMarked(t, d)

LEMMA JobsAreFinite == IsFiniteSet(JobsSeen)
<1> DEFINE X == {e \in Events : KindOf[e] = "job"}
           f == [e \in X |-> JobOf[e]]
<1>1. IsFiniteSet(X)
  BY HistoryAssumption, FS_Subset
<1>2. f \in Surjection(X, JobsSeen)
  BY DEF JobsSeen, Surjection
<1> QED BY <1>1, <1>2, FS_Surjection

LEMMA NewerIsFinite == ASSUME NEW t, NEW e PROVE IsFiniteSet(NewerJobs(t, e)) /\ Cardinality(NewerJobs(t, e)) \in Nat
<1>1. NewerJobs(t, e) \subseteq JobsSeen
  BY DEF NewerJobs
<1>2. IsFiniteSet(NewerJobs(t, e))
  BY <1>1, JobsAreFinite, FS_Subset
<1> QED BY <1>2, FS_CardinalityType

LEMMA WallsAreNumbers == \A e \in Events : WallOf[e] \in Nat
BY HistoryAssumption

\* With more that is counted, there are more newer jobs.
LEMMA NewerGrows ==
  ASSUME NEW t, NEW u, \A f \in Events : t.counts[f] > 0 => u.counts[f] > 0, NEW e
  PROVE  Cardinality(NewerJobs(t, e)) <= Cardinality(NewerJobs(u, e))
<1>1. NewerJobs(t, e) \subseteq NewerJobs(u, e)
  BY DEF NewerJobs
<1> QED BY <1>1, NewerIsFinite, FS_Subset

LEMMA InsertedIsTrue ==
  ASSUME NEW t, NEW d \in Nat, TableTrue(t, d), NEW e \in Events
  PROVE  /\ TableTrue(Inserted(t, e), d)
         /\ \A f \in Events : /\ t.counts[f] <= Inserted(t, e).counts[f]
                              /\ Inserted(t, e).counts[f] <= t.counts[f] + 1
<1> USE HistoryAssumption
<1>0. t \in TableType /\ \A f \in Events : t.counts[f] \in Nat /\ t.passed[f] \in Nat
  BY DEF TableTrue, TableType
<1>1. CASE e \in t.raw
  BY <1>0, <1>1 DEF Inserted
<1>2. CASE e \notin t.raw
  <2> DEFINE j == JobOf[e]
             u == Inserted(t, e)
             job == KindOf[e] = "job"
  <2>1. job => j \in JobsSeen
    BY DEF JobsSeen
  <2>2. /\ u.raw = t.raw \cup {e} /\ u.passed = t.passed
        /\ u.counts = [t.counts EXCEPT ![e] = @ + 1]
        /\ u.marks = IF ~job THEN t.marks ELSE [t.marks EXCEPT ![j] = Marked(t.marks[j], e)]
        /\ u.diagnostics = IF KindOf[e] = "action" THEN t.diagnostics \cup {e} ELSE t.diagnostics
    <3> DEFINE marks == IF ~job THEN t.marks ELSE [t.marks EXCEPT ![j] = Marked(t.marks[j], e)]
               actions == IF KindOf[e] = "action" THEN t.diagnostics \cup {e} ELSE t.diagnostics
    <3>1. u = [t EXCEPT !.raw = @ \cup {e}, !.counts[e] = @ + 1, !.marks = marks, !.diagnostics = actions]
      BY <1>0, <1>2, Zenon DEF Inserted, TableType
    <3> HIDE DEF u, marks, actions
    <3>2. /\ u.raw = t.raw \cup {e} /\ u.passed = t.passed
          /\ u.counts = [t.counts EXCEPT ![e] = @ + 1]
          /\ u.marks = marks /\ u.diagnostics = actions
      BY <1>0, <3>1 DEF TableType
    <3> QED BY <3>2, Zenon DEF marks, actions
  <2>4. t.marks \in [JobsSeen -> Events \cup {NoEvent}]
    BY <1>0 DEF TableType
  <2>5. \A m \in Events \cup {NoEvent} : Marked(m, e) \in Events /\ Marked(m, e) \in {m, e}
    BY DEF Marked
  <2>6. u.marks \in [JobsSeen -> Events \cup {NoEvent}]
    BY <2>1, <2>2, <2>4, <2>5
  <2>7. /\ u.counts \in [Events -> Nat] /\ u.counts[e] = t.counts[e] + 1
        /\ \A f \in Events : f # e => u.counts[f] = t.counts[f]
    BY <1>0, <2>2 DEF TableType
  <2>8. u \in TableType
    <3> DEFINE raw == u.raw
               marks == u.marks
               more == u.counts
               actions == u.diagnostics
    <3>1. /\ raw \in SUBSET Events /\ marks \in [JobsSeen -> Events \cup {NoEvent}]
          /\ more \in [Events -> Nat] /\ actions \in SUBSET Events
      BY <1>0, <2>2, <2>6, <2>7 DEF TableType
    <3>2. u = [t EXCEPT !.raw = raw, !.counts = more, !.marks = marks, !.diagnostics = actions]
      BY <1>0, <1>2 DEF Inserted, TableType
    <3> HIDE DEF raw, marks, more, actions, u
    <3> QED BY <1>0, <3>1, <3>2 DEF TableType
  <2> HIDE DEF u
  <2>9. EachCounted(u)
    BY <1>0, <1>2, <2>2, <2>7 DEF TableTrue, EachCounted
  <2>10. ASSUME NEW k \in JobsSeen
         PROVE  \/ u.marks[k] = t.marks[k] /\ ~(job /\ k = j)
                \/ job /\ k = j /\ u.marks[k] = Marked(t.marks[k], e)
    BY <2>1, <2>2, <2>4
  <2>11. MarksCounted(u)
    <3> SUFFICES ASSUME NEW k \in JobsSeen, u.marks[k] # NoEvent
                 PROVE  KindOf[u.marks[k]] = "job" /\ JobOf[u.marks[k]] = k /\ u.counts[u.marks[k]] > 0
      BY DEF MarksCounted
    <3>1. u.marks[k] \in Events /\ t.marks[k] \in Events \cup {NoEvent}
      BY <2>4, <2>6
    <3>2. CASE u.marks[k] = t.marks[k]
      <4>1. KindOf[t.marks[k]] = "job" /\ JobOf[t.marks[k]] = k /\ t.counts[t.marks[k]] > 0
        BY <3>2 DEF TableTrue, MarksCounted
      <4> QED BY <1>0, <2>7, <3>1, <3>2, <4>1
    <3>3. CASE u.marks[k] = e /\ job /\ k = j
      BY <1>0, <2>7, <3>3
    <3> QED BY <2>5, <2>10, <3>1, <3>2, <3>3
  <2>12. LatestMarked(u, d)
    <3> SUFFICES ASSUME NEW f \in Events, u.counts[f] > 0, KindOf[f] = "job",
                        d - WallOf[f] <= CheckpointDays, Cardinality(NewerJobs(u, f)) < JobsKept
                 PROVE  u.marks[JobOf[f]] # NoEvent /\ WallOf[u.marks[JobOf[f]]] >= WallOf[f]
      BY DEF LatestMarked
    <3> DEFINE k == JobOf[f]
    <3>1. k \in JobsSeen
      BY DEF JobsSeen
    <3>2. u.marks[k] \in Events \cup {NoEvent} /\ t.marks[k] \in Events \cup {NoEvent}
      BY <2>4, <2>6, <3>1
    <3>3. Cardinality(NewerJobs(t, f)) < JobsKept
      <4>1. \A x \in Events : t.counts[x] > 0 => u.counts[x] > 0
        BY <1>0, <2>7
      <4>2. Cardinality(NewerJobs(t, f)) <= Cardinality(NewerJobs(u, f))
        BY <4>1, NewerGrows
      <4>3. Cardinality(NewerJobs(t, f)) \in Nat /\ Cardinality(NewerJobs(u, f)) \in Nat
        BY NewerIsFinite
      <4> QED BY <4>2, <4>3
    <3> HIDE DEF k
    <3>4. t.counts[f] > 0 => t.marks[k] # NoEvent /\ WallOf[t.marks[k]] >= WallOf[f]
      BY <3>3 DEF TableTrue, LatestMarked, k
    <3>5. CASE job /\ k = j
      <4>1. u.marks[k] = Marked(t.marks[k], e)
        BY <2>10, <3>1, <3>5
      <4>2. u.marks[k] # NoEvent /\ WallOf[u.marks[k]] >= WallOf[e]
            /\ (t.marks[k] # NoEvent => WallOf[u.marks[k]] >= WallOf[t.marks[k]])
        BY <3>2, <4>1, WallsAreNumbers DEF Marked
      <4>3. CASE f = e
        BY <4>2, <4>3 DEF k
      <4>4. CASE f # e
        <5>1. t.marks[k] # NoEvent /\ WallOf[t.marks[k]] >= WallOf[f]
          BY <2>7, <3>4, <4>4
        <5>2. WallOf[u.marks[k]] \in Nat /\ WallOf[t.marks[k]] \in Nat /\ WallOf[f] \in Nat
          BY <3>2, <4>2, <5>1, WallsAreNumbers
        <5> QED BY <4>2, <5>1, <5>2 DEF k
      <4> QED BY <4>3, <4>4
    <3>6. CASE ~(job /\ k = j)
      <4>1. f # e
        BY <3>6 DEF k
      <4>2. u.marks[k] = t.marks[k]
        BY <2>10, <3>1, <3>6
      <4> QED BY <2>7, <3>4, <4>1, <4>2 DEF k
    <3> QED BY <3>5, <3>6
  <2>13. \A f \in Events : t.counts[f] <= u.counts[f] /\ u.counts[f] <= t.counts[f] + 1
    BY <1>0, <2>7
  <2> QED BY <2>8, <2>9, <2>11, <2>12, <2>13 DEF TableTrue, u
<1> QED BY <1>1, <1>2

LEMMA EvictedIsTrue ==
  ASSUME NEW t, NEW d, TableTrue(t, d), NEW S \in SUBSET t.raw
  PROVE  TableTrue(Without(t, S), d) /\ Without(t, S).counts = t.counts
<1> DEFINE u == Without(t, S)
           passed == [e \in Events |-> IF e \in S THEN t.passed[e] + 1 ELSE t.passed[e]]
           raw == t.raw \ S
<1>0. t \in TableType
  BY DEF TableTrue
<1>1. u = [t EXCEPT !.raw = raw, !.passed = passed]
  BY DEF Without
<1>2. passed \in [Events -> Nat] /\ raw \in SUBSET Events
  BY <1>0 DEF TableType
<1>3. \A e \in Events : passed[e] = IF e \in S THEN t.passed[e] + 1 ELSE t.passed[e]
  OBVIOUS
<1>4. \A e \in Events : e \in raw <=> e \in t.raw /\ e \notin S
  OBVIOUS
<1> HIDE DEF u, passed, raw
<1>5. /\ u \in TableType /\ u.raw = raw /\ u.passed = passed
      /\ u.counts = t.counts /\ u.marks = t.marks
  BY <1>0, <1>1, <1>2 DEF TableType
<1>6. EachCounted(u)
  <2> SUFFICES ASSUME NEW e \in Events
               PROVE  u.counts[e] = u.passed[e] + (IF e \in u.raw THEN 1 ELSE 0)
    BY DEF EachCounted
  <2>1. t.counts[e] = t.passed[e] + (IF e \in t.raw THEN 1 ELSE 0) /\ t.passed[e] \in Nat
    BY <1>0 DEF TableTrue, EachCounted, TableType
  <2>2. e \in S => e \in t.raw
    OBVIOUS
  <2> QED BY <1>3, <1>4, <1>5, <2>1, <2>2
<1>7. MarksCounted(u) /\ LatestMarked(u, d)
  <2>1. \A e : NewerJobs(u, e) = NewerJobs(t, e)
    BY <1>5 DEF NewerJobs
  <2> QED BY <1>5, <2>1 DEF TableTrue, MarksCounted, LatestMarked
<1> QED BY <1>5, <1>6, <1>7 DEF TableTrue, u

\* The jobs that go are older than JobsKept others.
LEMMA TrimmedIsTrue ==
  ASSUME NEW t, TableTrue(t, day), day \in Nat, NEW u \in Trimmed(t)
  PROVE  TableTrue(u, day) /\ u.counts = t.counts /\ u.raw = t.raw
<1> USE HistoryAssumption
<1> DEFINE fresh(e) == day - WallOf[e] <= CheckpointDays
           known == {j \in JobsSeen : t.marks[j] # NoEvent /\ fresh(t.marks[j])}
           newest(S) == \A j \in S, k \in known \ S : WallOf[t.marks[j]] >= WallOf[t.marks[k]]
           trimmed(S) == [t EXCEPT !.marks = [j \in JobsSeen |-> IF j \in S THEN @[j] ELSE NoEvent],
                                   !.diagnostics = {e \in @ : fresh(e)}]
<1>0. /\ t \in TableType /\ t.marks \in [JobsSeen -> Events \cup {NoEvent}]
      /\ t.counts \in [Events -> Nat] /\ t.diagnostics \in SUBSET Events
  BY DEF TableTrue, TableType
<1>1. PICK S \in kSubset(Smaller(JobsKept, Cardinality(known)), known) : newest(S) /\ u = trimmed(S)
  BY DEF Trimmed
<1>2. S \subseteq known /\ Cardinality(S) = Smaller(JobsKept, Cardinality(known))
  BY <1>1, Zenon DEF kSubset
<1>3. IsFiniteSet(known) /\ IsFiniteSet(S) /\ Cardinality(known) \in Nat /\ JobsKept \in Nat
  <2>1. known \subseteq JobsSeen
    OBVIOUS
  <2>2. IsFiniteSet(known)
    BY <2>1, JobsAreFinite, FS_Subset
  <2> HIDE DEF known
  <2> QED BY <1>2, <2>2, FS_Subset, FS_CardinalityType
<1>4. S = known \/ Cardinality(S) = JobsKept
  <2> HIDE DEF known
  <2> QED BY <1>2, <1>3, FS_Subset DEF Smaller
<1> DEFINE marks == [j \in JobsSeen |-> IF j \in S THEN t.marks[j] ELSE NoEvent]
           actions == {e \in t.diagnostics : fresh(e)}
<1>5. u = [t EXCEPT !.marks = marks, !.diagnostics = actions]
  BY <1>1
<1>6. marks \in [JobsSeen -> Events \cup {NoEvent}] /\ actions \in SUBSET Events
  BY <1>0
<1>7. \A j \in JobsSeen : marks[j] = IF j \in S THEN t.marks[j] ELSE NoEvent
  OBVIOUS
<1>8. \A j \in known : j \in JobsSeen /\ t.marks[j] \in Events /\ WallOf[t.marks[j]] \in Nat
  BY <1>0, WallsAreNumbers
<1>9. \A j \in JobsSeen : t.marks[j] # NoEvent /\ fresh(t.marks[j]) => j \in known
  OBVIOUS
<1> HIDE DEF marks, actions, known
<1>10. /\ u \in TableType /\ u.marks = marks /\ u.counts = t.counts /\ u.raw = t.raw /\ u.passed = t.passed
  BY <1>0, <1>5, <1>6 DEF TableType
<1>11. EachCounted(u)
  BY <1>10 DEF TableTrue, EachCounted
<1>12. MarksCounted(u)
  BY <1>7, <1>10 DEF TableTrue, MarksCounted
<1>13. LatestMarked(u, day)
  <2> SUFFICES ASSUME NEW e \in Events, t.counts[e] > 0, KindOf[e] = "job", fresh(e),
                      Cardinality(NewerJobs(u, e)) < JobsKept
               PROVE  marks[JobOf[e]] # NoEvent /\ WallOf[marks[JobOf[e]]] >= WallOf[e]
    BY <1>10 DEF LatestMarked
  <2> DEFINE j == JobOf[e]
  <2>1. j \in JobsSeen
    BY DEF JobsSeen
  <2>2. NewerJobs(u, e) = NewerJobs(t, e)
    BY <1>10 DEF NewerJobs
  <2>3. t.marks[j] # NoEvent /\ WallOf[t.marks[j]] >= WallOf[e]
    BY <2>2 DEF TableTrue, LatestMarked
  <2>4. t.marks[j] \in Events /\ WallOf[t.marks[j]] \in Nat /\ WallOf[e] \in Nat
    BY <1>0, <2>1, <2>3, WallsAreNumbers
  <2>5. fresh(t.marks[j])
    BY <2>3, <2>4
  <2>6. j \in known
    BY <1>9, <2>1, <2>3, <2>5
  <2>7. CASE j \in S
    BY <1>7, <2>1, <2>3, <2>7
  <2>8. CASE j \notin S
    <3>1. Cardinality(S) = JobsKept
      BY <1>4, <2>6, <2>8
    <3>2. ASSUME NEW k \in S PROVE k \in NewerJobs(t, e)
      <4>1. k \in known /\ k \in JobsSeen /\ t.marks[k] \in Events /\ WallOf[t.marks[k]] \in Nat
        BY <1>2, <1>8
      <4>2. WallOf[t.marks[k]] >= WallOf[t.marks[j]]
        BY <1>1, <2>6, <2>8
      <4>3. KindOf[t.marks[k]] = "job" /\ JobOf[t.marks[k]] = k /\ t.counts[t.marks[k]] > 0
        BY <4>1 DEF TableTrue, MarksCounted
      <4>4. WallOf[t.marks[k]] >= WallOf[e]
        BY <2>3, <2>4, <4>1, <4>2
      <4> QED BY <2>8, <4>1, <4>3, <4>4 DEF NewerJobs
    <3>3. Cardinality(S) <= Cardinality(NewerJobs(t, e))
      BY <3>2, NewerIsFinite, FS_Subset
    <3>4. Cardinality(NewerJobs(t, e)) < JobsKept /\ Cardinality(NewerJobs(t, e)) \in Nat
      BY <2>2, NewerIsFinite
    <3> QED BY <1>3, <3>1, <3>3, <3>4
  <2> QED BY <2>7, <2>8
<1> QED BY <1>10, <1>11, <1>12, <1>13 DEF TableTrue

LEMMA MaintainedIsTrue ==
  ASSUME NEW t, TableTrue(t, day), day \in Nat, NEW u \in Maintained(t)
  PROVE  TableTrue(u, day) /\ u.counts = t.counts
<1>0. \A raw, n : \A S \in Evictions(raw, n) : S \in SUBSET raw
  BY DEF Evictions, kSubset
<1>1. PICK T \in {{}} \cup Evictions(t.raw, (Cardinality(t.raw) + 4) \div 5) :
             \E v \in Trimmed(Without(t, T)) : u \in Aged(v)
  BY DEF Maintained
<1>2. TableTrue(Without(t, T), day) /\ Without(t, T).counts = t.counts
  <2>1. T \in SUBSET t.raw
    BY <1>0
  <2> QED BY <2>1, EvictedIsTrue
<1> PICK v \in Trimmed(Without(t, T)) : u \in Aged(v)
  BY <1>1
<1>3. TableTrue(v, day) /\ v.counts = t.counts
  BY <1>2, TrimmedIsTrue
<1>4. PICK S \in SUBSET v.raw : u = Without(v, S)
  <2> DEFINE old == {e \in v.raw : day - WallOf[e] > RawDays}
             left == v.raw \ old
             surplus == IF Cardinality(left) > RawRows THEN Cardinality(left) - RawRows ELSE 0
  <2>1. PICK R \in Evictions(left, surplus) : u = Without(v, old \cup R)
    BY DEF Aged
  <2>2. R \subseteq left
    BY <1>0
  <2>3. old \cup R \in SUBSET v.raw
    BY <2>2
  <2> QED BY <2>1, <2>3
<1> QED BY <1>3, <1>4, EvictedIsTrue

\* What is sent is counted at most as often: it is on its way, counted or lost.
HistoryInv ==
  /\ day \in 0..Days /\ sends \in 0..Sends
  /\ arriving \in [socket : Seq(Events), inbox : Seq(Exported)]
  /\ Len(arriving.socket) <= Backlog /\ Len(arriving.inbox) <= InboxSize
  /\ recorder \in [pc : {"down", "drain", "keep", "record", "beat"}, writable : BOOLEAN, due : BOOLEAN]
  /\ TableTrue(db, day) /\ TableTrue(tx, day)
  /\ \A e \in Events : /\ db.counts[e] <= tx.counts[e]
                       /\ tx.counts[e] + Len(arriving.socket) + Len(arriving.inbox) <= sends

HistoryBounds == /\ Backlog \in Nat /\ InboxSize \in Nat /\ Sends \in Nat /\ Days \in Nat
                 /\ CheckpointDays \in Nat /\ JobsKept \in Nat /\ Exported \subseteq Events

LEMMA BoundsAreNumbers == HistoryBounds
BY HistoryAssumption DEF HistoryBounds

LEMMA CountsAreNumbers ==
  ASSUME NEW t, NEW d, TableTrue(t, d) PROVE \A e \in Events : t.counts[e] \in Nat
BY DEF TableTrue, TableType

\* A later day asks for less.
LEMMA TableStaysTrue ==
  ASSUME NEW t, NEW d \in Nat, TableTrue(t, d)
  PROVE  TableTrue(t, d + 1)
<1>1. CheckpointDays \in Nat
  BY BoundsAreNumbers DEF HistoryBounds
<1>2. ASSUME NEW e \in Events, (d + 1) - WallOf[e] <= CheckpointDays PROVE d - WallOf[e] <= CheckpointDays
  BY <1>1, <1>2, WallsAreNumbers
<1>3. LatestMarked(t, d + 1)
  BY <1>2, Zenon DEF TableTrue, LatestMarked
<1> QED BY <1>3 DEF TableTrue

LEMMA HistoryStarts == HistoryInit => HistoryInv
<1> SUFFICES ASSUME HistoryInit PROVE HistoryInv
  OBVIOUS
<1>1. \A e \in Events : db.counts[e] = 0 /\ db.passed[e] = 0
  BY DEF HistoryInit
<1>2. db \in TableType /\ EachCounted(db) /\ MarksCounted(db) /\ LatestMarked(db, 0)
  BY <1>1 DEF HistoryInit, TableType, EachCounted, MarksCounted, LatestMarked
<1>3. TableTrue(db, day) /\ TableTrue(tx, day)
  BY <1>2 DEF HistoryInit, TableTrue
<1>4. arriving.socket = <<>> /\ arriving.inbox = <<>> /\ tx = db /\ sends = 0 /\ day = 0
  BY DEF HistoryInit
<1> QED BY <1>1, <1>3, <1>4, BoundsAreNumbers DEF HistoryInit, HistoryInv, HistoryBounds

LEMMA QueuesStep ==
  ASSUME HistoryInv, UNCHANGED <<day, db, tx>>,
         arriving' \in [socket : Seq(Events), inbox : Seq(Exported)],
         Len(arriving'.socket) <= Backlog, Len(arriving'.inbox) <= InboxSize,
         sends' \in 0..Sends,
         sends' - sends >= Len(arriving'.socket) + Len(arriving'.inbox)
                           - Len(arriving.socket) - Len(arriving.inbox),
         recorder' \in [pc : {"down", "drain", "keep", "record", "beat"}, writable : BOOLEAN, due : BOOLEAN]
  PROVE  HistoryInv'
<1>1. /\ arriving.socket \in Seq(Events) /\ arriving.inbox \in Seq(Exported)
      /\ arriving'.socket \in Seq(Events) /\ arriving'.inbox \in Seq(Exported)
      /\ sends \in Nat /\ sends' \in Nat
  BY DEF HistoryInv
<1>2. /\ Len(arriving.socket) \in Nat /\ Len(arriving.inbox) \in Nat
      /\ Len(arriving'.socket) \in Nat /\ Len(arriving'.inbox) \in Nat
  BY <1>1
<1>3. TableTrue(db, day)' /\ TableTrue(tx, day)'
  BY DEF HistoryInv, TableTrue, EachCounted, MarksCounted, LatestMarked
<1>4. ASSUME NEW e \in Events
      PROVE  /\ db'.counts[e] <= tx'.counts[e]
             /\ tx'.counts[e] + Len(arriving'.socket) + Len(arriving'.inbox) <= sends'
  <2>1. tx.counts[e] \in Nat
    BY CountsAreNumbers DEF HistoryInv
  <2>2. /\ db.counts[e] <= tx.counts[e] /\ db' = db /\ tx' = tx
        /\ tx.counts[e] + Len(arriving.socket) + Len(arriving.inbox) <= sends
        /\ sends' - sends >= Len(arriving'.socket) + Len(arriving'.inbox)
                              - Len(arriving.socket) - Len(arriving.inbox)
    BY DEF HistoryInv
  <2>3. tx.counts[e] + Len(arriving'.socket) + Len(arriving'.inbox) <= sends'
    <3>1. ASSUME NEW n \in Nat, NEW a \in Nat, NEW b \in Nat, NEW c \in Nat, NEW d \in Nat,
                 NEW k \in Nat, NEW m \in Nat, n + a + b <= k, m - k >= c + d - a - b
          PROVE  n + c + d <= m
      BY <3>1
    <3> DEFINE a == Len(arriving.socket)
               b == Len(arriving.inbox)
               c == Len(arriving'.socket)
               d == Len(arriving'.inbox)
               n == tx.counts[e]
    <3>2. /\ n \in Nat /\ a \in Nat /\ b \in Nat /\ c \in Nat /\ d \in Nat /\ sends \in Nat /\ sends' \in Nat
          /\ n + a + b <= sends /\ sends' - sends >= c + d - a - b
      BY <1>1, <1>2, <2>1, <2>2
    <3> HIDE DEF a, b, c, d, n
    <3>3. n + c + d <= sends'
      BY <3>1, <3>2
    <3> QED BY <3>3 DEF n, c, d
  <2> QED BY <2>2, <2>3
<1> QED BY <1>3, <1>4 DEF HistoryInv

LEMMA ArrivalSteps ==
  ASSUME HistoryInv, NEW e \in Events, Emit(e) \/ Imports(e) \/ Post(e)
  PROVE  HistoryInv'
<1>1. /\ UNCHANGED <<day, db, tx, recorder>> /\ sends' = sends + 1 /\ sends < Sends
      /\ \/ arriving' = arriving
         \/ /\ arriving' = [arriving EXCEPT !.socket = Append(@, e)]
            /\ Len(arriving.socket) < Backlog
         \/ /\ e \in Exported /\ arriving' = [arriving EXCEPT !.inbox = Append(@, e)]
            /\ Len(arriving.inbox) < InboxSize
  <2>1. CASE Emit(e) \/ Imports(e)
    BY <2>1 DEF Emit, Imports, Submits, Arrives
  <2>2. CASE Post(e)
    BY <2>2 DEF Post, Submits
  <2> QED BY <2>1, <2>2
<1>2. /\ arriving \in [socket : Seq(Events), inbox : Seq(Exported)]
      /\ arriving.socket \in Seq(Events) /\ arriving.inbox \in Seq(Exported)
      /\ Len(arriving.socket) \in Nat /\ Len(arriving.inbox) \in Nat
      /\ Len(arriving.socket) <= Backlog /\ Len(arriving.inbox) <= InboxSize
      /\ sends \in Nat /\ sends' \in 0..Sends
  BY <1>1, BoundsAreNumbers DEF HistoryInv, HistoryBounds
<1>3. CASE arriving' = arriving
  BY <1>1, <1>2, <1>3, QueuesStep DEF HistoryInv
<1>4. CASE arriving' = [arriving EXCEPT !.socket = Append(@, e)] /\ Len(arriving.socket) < Backlog
  <2>1. arriving'.socket = Append(arriving.socket, e) /\ arriving'.inbox = arriving.inbox
    BY <1>2, <1>4
  <2>2. Append(arriving.socket, e) \in Seq(Events) /\ Len(Append(arriving.socket, e)) = Len(arriving.socket) + 1
    BY <1>2
  <2>4. arriving' \in [socket : Seq(Events), inbox : Seq(Exported)]
    BY <1>2, <1>4, <2>2
  <2>5. Len(arriving'.socket) <= Backlog /\ Len(arriving'.inbox) <= InboxSize
        /\ sends' - sends >= Len(arriving'.socket) + Len(arriving'.inbox)
                             - Len(arriving.socket) - Len(arriving.inbox)
    BY <1>1, <1>2, <1>4, <2>1, <2>2, BoundsAreNumbers DEF HistoryBounds
  <2> QED BY <1>1, <1>2, <2>4, <2>5, QueuesStep DEF HistoryInv
<1>5. CASE /\ e \in Exported /\ arriving' = [arriving EXCEPT !.inbox = Append(@, e)]
           /\ Len(arriving.inbox) < InboxSize
  <2>1. arriving'.inbox = Append(arriving.inbox, e) /\ arriving'.socket = arriving.socket
    BY <1>2, <1>5
  <2>2. Append(arriving.inbox, e) \in Seq(Exported) /\ Len(Append(arriving.inbox, e)) = Len(arriving.inbox) + 1
    BY <1>2, <1>5
  <2>4. arriving' \in [socket : Seq(Events), inbox : Seq(Exported)]
    BY <1>2, <1>5, <2>2
  <2>5. Len(arriving'.socket) <= Backlog /\ Len(arriving'.inbox) <= InboxSize
        /\ sends' - sends >= Len(arriving'.socket) + Len(arriving'.inbox)
                             - Len(arriving.socket) - Len(arriving.inbox)
    BY <1>1, <1>2, <1>5, <2>1, <2>2, BoundsAreNumbers DEF HistoryBounds
  <2> QED BY <1>1, <1>2, <2>4, <2>5, QueuesStep DEF HistoryInv
<1> QED BY <1>1, <1>3, <1>4, <1>5

\* Whatever is made of the tables of the transaction keeps them true.
LEMMA TablesStep ==
  ASSUME HistoryInv, UNCHANGED <<day, sends>>,
         arriving' \in [socket : Seq(Events), inbox : Seq(Exported)],
         Len(arriving'.socket) <= Backlog, Len(arriving'.inbox) <= InboxSize,
         recorder' \in [pc : {"down", "drain", "keep", "record", "beat"}, writable : BOOLEAN, due : BOOLEAN],
         NEW n \in Nat,
         Len(arriving'.socket) + Len(arriving'.inbox) + n <= Len(arriving.socket) + Len(arriving.inbox),
         TableTrue(tx', day), \A e \in Events : tx'.counts[e] <= tx.counts[e] + n,
         \/ db' = db /\ \A e \in Events : db.counts[e] <= tx'.counts[e]
         \/ db' = tx'
  PROVE  HistoryInv'
<1>1. /\ arriving.socket \in Seq(Events) /\ arriving.inbox \in Seq(Exported)
      /\ arriving'.socket \in Seq(Events) /\ arriving'.inbox \in Seq(Exported)
      /\ sends \in Nat /\ TableTrue(db, day) /\ TableTrue(tx, day)
  BY DEF HistoryInv
<1>2. /\ Len(arriving.socket) \in Nat /\ Len(arriving.inbox) \in Nat
      /\ Len(arriving'.socket) \in Nat /\ Len(arriving'.inbox) \in Nat
  BY <1>1
<1>3. TableTrue(db', day)
  BY <1>1
<1>4. TableTrue(tx, day)' /\ TableTrue(db, day)'
  BY <1>3 DEF TableTrue, EachCounted, MarksCounted, LatestMarked
<1>5. ASSUME NEW e \in Events
      PROVE  /\ db'.counts[e] <= tx'.counts[e]
             /\ tx'.counts[e] + Len(arriving'.socket) + Len(arriving'.inbox) <= sends'
  <2>1. tx.counts[e] \in Nat /\ tx'.counts[e] \in Nat
    BY <1>1, CountsAreNumbers
  <2>2. db'.counts[e] <= tx'.counts[e]
    BY <2>1
  <2> DEFINE a == Len(arriving.socket)
             b == Len(arriving.inbox)
             c == Len(arriving'.socket)
             d == Len(arriving'.inbox)
             k == tx.counts[e]
             m == tx'.counts[e]
  <2>3. /\ a \in Nat /\ b \in Nat /\ c \in Nat /\ d \in Nat /\ k \in Nat /\ m \in Nat
        /\ c + d + n <= a + b /\ m <= k + n /\ k + a + b <= sends /\ sends' = sends
    BY <1>2, <2>1 DEF HistoryInv
  <2> HIDE DEF a, b, c, d, k, m
  <2>4. m + c + d <= sends'
    BY <1>1, <2>3
  <2> QED BY <2>2, <2>4 DEF m, c, d
<1> QED BY <1>4, <1>5 DEF HistoryInv

\* One that reads a queue takes its first out of it.
LEMMA TakesOne ==
  ASSUME HistoryInv,
         \/ arriving.socket # <<>> /\ arriving' = [arriving EXCEPT !.socket = Tail(@)]
         \/ arriving.inbox # <<>> /\ arriving' = [arriving EXCEPT !.inbox = Tail(@)]
  PROVE  /\ arriving' \in [socket : Seq(Events), inbox : Seq(Exported)]
         /\ Len(arriving'.socket) <= Backlog /\ Len(arriving'.inbox) <= InboxSize
         /\ Len(arriving'.socket) + Len(arriving'.inbox) + 1 <= Len(arriving.socket) + Len(arriving.inbox)
         /\ Len(arriving'.socket) + Len(arriving'.inbox) + 0 <= Len(arriving.socket) + Len(arriving.inbox)
         /\ arriving.socket # <<>> => Head(arriving.socket) \in Events
         /\ arriving.inbox # <<>> => Head(arriving.inbox) \in Events
<1>1. /\ arriving \in [socket : Seq(Events), inbox : Seq(Exported)]
      /\ arriving.socket \in Seq(Events) /\ arriving.inbox \in Seq(Exported)
      /\ Len(arriving.socket) \in Nat /\ Len(arriving.inbox) \in Nat
      /\ Len(arriving.socket) <= Backlog /\ Len(arriving.inbox) <= InboxSize
      /\ Backlog \in Nat /\ InboxSize \in Nat /\ Exported \subseteq Events
  BY BoundsAreNumbers DEF HistoryInv, HistoryBounds
<1>2. CASE arriving.socket # <<>> /\ arriving' = [arriving EXCEPT !.socket = Tail(@)]
  <2>1. Tail(arriving.socket) \in Seq(Events) /\ Len(Tail(arriving.socket)) = Len(arriving.socket) - 1
    BY <1>1, <1>2
  <2>2. arriving'.socket = Tail(arriving.socket) /\ arriving'.inbox = arriving.inbox
    BY <1>1, <1>2
  <2>3. arriving' \in [socket : Seq(Events), inbox : Seq(Exported)]
    BY <1>1, <1>2, <2>1
  <2> QED BY <1>1, <2>1, <2>2, <2>3
<1>3. CASE arriving.inbox # <<>> /\ arriving' = [arriving EXCEPT !.inbox = Tail(@)]
  <2>1. Tail(arriving.inbox) \in Seq(Exported) /\ Len(Tail(arriving.inbox)) = Len(arriving.inbox) - 1
    BY <1>1, <1>3
  <2>2. arriving'.inbox = Tail(arriving.inbox) /\ arriving'.socket = arriving.socket
    BY <1>1, <1>3
  <2>3. arriving' \in [socket : Seq(Events), inbox : Seq(Exported)]
    BY <1>1, <1>3, <2>1
  <2> QED BY <1>1, <2>1, <2>2, <2>3
<1> QED BY <1>2, <1>3

\* What a step may do with the tables: nothing, commit, roll back, or, for one that
\* is taken from a queue, insert.
LEMMA TablesMove ==
  ASSUME HistoryInv, UNCHANGED <<day, sends>>,
         recorder' \in [pc : {"down", "drain", "keep", "record", "beat"}, writable : BOOLEAN, due : BOOLEAN],
         \/ arriving' = arriving
         \/ arriving' = [socket |-> <<>>, inbox |-> <<>>]
         \/ arriving.socket # <<>> /\ arriving' = [arriving EXCEPT !.socket = Tail(@)]
         \/ arriving.inbox # <<>> /\ arriving' = [arriving EXCEPT !.inbox = Tail(@)],
         \/ UNCHANGED <<db, tx>>
         \/ Rollback
         \/ \E t : Commit(t) /\ TableTrue(t, day) /\ t.counts = tx.counts
  PROVE  HistoryInv'
<1>1. /\ arriving \in [socket : Seq(Events), inbox : Seq(Exported)]
      /\ arriving.socket \in Seq(Events) /\ arriving.inbox \in Seq(Exported)
      /\ Len(arriving.socket) \in Nat /\ Len(arriving.inbox) \in Nat
      /\ Len(arriving.socket) <= Backlog /\ Len(arriving.inbox) <= InboxSize
      /\ Backlog \in Nat /\ InboxSize \in Nat
  BY BoundsAreNumbers DEF HistoryInv, HistoryBounds
<1>2. /\ arriving' \in [socket : Seq(Events), inbox : Seq(Exported)]
      /\ Len(arriving'.socket) <= Backlog /\ Len(arriving'.inbox) <= InboxSize
      /\ Len(arriving'.socket) + Len(arriving'.inbox) + 0 <= Len(arriving.socket) + Len(arriving.inbox)
  <2>1. CASE arriving' = arriving
    BY <1>1, <2>1
  <2>2. CASE arriving' = [socket |-> <<>>, inbox |-> <<>>]
    <3>1. arriving'.socket = <<>> /\ arriving'.inbox = <<>>
      BY <2>2
    <3>2. arriving' \in [socket : Seq(Events), inbox : Seq(Exported)]
      BY <2>2
    <3>3. Len(arriving'.socket) = 0 /\ Len(arriving'.inbox) = 0
      BY <3>1
    <3> QED BY <1>1, <3>2, <3>3
  <2>3. CASE \/ arriving.socket # <<>> /\ arriving' = [arriving EXCEPT !.socket = Tail(@)]
             \/ arriving.inbox # <<>> /\ arriving' = [arriving EXCEPT !.inbox = Tail(@)]
    BY <2>3, TakesOne
  <2> QED BY <2>1, <2>2, <2>3
<1>3. /\ TableTrue(db, day) /\ TableTrue(tx, day)
      /\ \A e \in Events : db.counts[e] <= tx.counts[e] /\ tx.counts[e] \in Nat /\ db.counts[e] \in Nat
  BY CountsAreNumbers DEF HistoryInv
<1>4. /\ TableTrue(tx', day)
      /\ \A e \in Events : tx'.counts[e] <= tx.counts[e] + 0
      /\ (db' = db /\ \A e \in Events : db.counts[e] <= tx'.counts[e]) \/ db' = tx'
  <2>1. CASE UNCHANGED <<db, tx>>
    BY <1>3, <2>1
  <2>2. CASE Rollback
    <3>1. tx' = db /\ db' = db
      BY <2>2 DEF Rollback
    <3> QED BY <1>3, <3>1
  <2>3. CASE \E t : Commit(t) /\ TableTrue(t, day) /\ t.counts = tx.counts
    <3>1. TableTrue(tx', day) /\ tx'.counts = tx.counts /\ db' = tx'
      BY <2>3 DEF Commit
    <3> QED BY <1>3, <3>1
  <2> QED BY <2>1, <2>2, <2>3
<1>5. 0 \in Nat
  OBVIOUS
<1> QED BY <1>2, <1>4, <1>5, TablesStep

\* The first of a queue is inserted.
LEMMA TablesGrow ==
  ASSUME HistoryInv, UNCHANGED <<day, sends, recorder, db>>,
         NEW e \in Events, tx' = Inserted(tx, e),
         \/ arriving.socket # <<>> /\ arriving' = [arriving EXCEPT !.socket = Tail(@)]
         \/ arriving.inbox # <<>> /\ arriving' = [arriving EXCEPT !.inbox = Tail(@)]
  PROVE  HistoryInv'
<1>1. /\ arriving' \in [socket : Seq(Events), inbox : Seq(Exported)]
      /\ Len(arriving'.socket) <= Backlog /\ Len(arriving'.inbox) <= InboxSize
      /\ Len(arriving'.socket) + Len(arriving'.inbox) + 1 <= Len(arriving.socket) + Len(arriving.inbox)
  BY TakesOne
<1>2. TableTrue(tx, day) /\ TableTrue(db, day) /\ day \in Nat
  BY BoundsAreNumbers DEF HistoryInv, HistoryBounds
<1>3. /\ TableTrue(tx', day)
      /\ \A f \in Events : tx.counts[f] <= tx'.counts[f] /\ tx'.counts[f] <= tx.counts[f] + 1
  BY <1>2, InsertedIsTrue
<1>4. \A f \in Events : db.counts[f] <= tx'.counts[f]
  <2> SUFFICES ASSUME NEW f \in Events PROVE db.counts[f] <= tx'.counts[f]
    OBVIOUS
  <2>1. db.counts[f] <= tx.counts[f] /\ tx.counts[f] <= tx'.counts[f]
    BY <1>3 DEF HistoryInv
  <2>2. db.counts[f] \in Nat /\ tx.counts[f] \in Nat /\ tx'.counts[f] \in Nat
    BY <1>2, <1>3, CountsAreNumbers
  <2> QED BY <2>1, <2>2
<1>5. recorder' \in [pc : {"down", "drain", "keep", "record", "beat"}, writable : BOOLEAN, due : BOOLEAN]
  BY DEF HistoryInv
<1>6. 1 \in Nat
  OBVIOUS
<1> QED BY <1>1, <1>3, <1>4, <1>5, <1>6, TablesStep

LEMMA HistoryStep == HistoryInv /\ [HistoryNext]_historyvars => HistoryInv'
<1> SUFFICES ASSUME HistoryInv, [HistoryNext]_historyvars PROVE HistoryInv'
  OBVIOUS
<1> DEFINE Recorders == [pc : {"down", "drain", "keep", "record", "beat"}, writable : BOOLEAN, due : BOOLEAN]
<1>1. /\ recorder \in Recorders /\ TableTrue(tx, day) /\ day \in Nat
  BY BoundsAreNumbers DEF HistoryInv, HistoryBounds
<1>2. \A pc \in {"down", "drain", "keep", "record", "beat"} : Goes(pc) \/ Fails(pc) => recorder' \in Recorders
  BY <1>1 DEF Goes, Fails
<1>3. CASE UNCHANGED historyvars
  BY <1>1, <1>3, TablesMove DEF historyvars
<1>4. ASSUME NEW e \in Events, Emit(e) \/ Imports(e) \/ Post(e) PROVE HistoryInv'
  BY <1>4, ArrivalSteps
<1>5. CASE Drains
  <2>1. CASE /\ arriving.socket # <<>> /\ arriving' = [arriving EXCEPT !.socket = Tail(@)]
             /\ recorder.writable /\ tx' = Inserted(tx, Head(arriving.socket)) /\ UNCHANGED <<recorder, db, day, sends>>
    <3>1. Head(arriving.socket) \in Events
      BY <2>1, TakesOne
    <3> QED BY <2>1, <3>1, TablesGrow
  <2>2. CASE /\ arriving.socket # <<>> /\ arriving' = [arriving EXCEPT !.socket = Tail(@)]
             /\ UNCHANGED <<day, sends>>
             /\ \/ UNCHANGED <<recorder, db, tx>>
                \/ Fails("keep")
    BY <1>1, <1>2, <2>2, TablesMove DEF Fails
  <2>3. CASE Goes("keep") /\ UNCHANGED <<arriving, db, tx, day, sends>>
    BY <1>2, <2>3, TablesMove
  <2> QED BY <1>5, <2>1, <2>2, <2>3 DEF Drains
<1>6. CASE Maintains
  <2>1. UNCHANGED <<day, sends, arriving>>
    BY <1>6 DEF Maintains
  <2>2. CASE \E t \in Maintained(tx) : Commit(t) /\ recorder' = [recorder EXCEPT !.pc = "record", !.due = FALSE]
    <3>1. PICK t \in Maintained(tx) : Commit(t)
      BY <2>2
    <3>2. TableTrue(t, day) /\ t.counts = tx.counts
      BY <1>1, MaintainedIsTrue
    <3>3. recorder' \in Recorders
      BY <1>1, <2>2
    <3> QED BY <2>1, <3>1, <3>2, <3>3, TablesMove
  <2>3. CASE Fails("beat")
    BY <1>2, <2>1, <2>3, TablesMove DEF Fails
  <2>4. CASE Goes("record") /\ UNCHANGED <<db, tx>>
    BY <1>2, <2>1, <2>4, TablesMove
  <2> QED BY <1>6, <2>2, <2>3, <2>4 DEF Maintains
<1>7. CASE Reclaims
  <2>1. PICK S \in Evictions(tx.raw, Batch) : Commit(Without(tx, S))
    BY <1>7 DEF Reclaims
  <2>2. S \in SUBSET tx.raw
    BY DEF Evictions, kSubset
  <2>3. TableTrue(Without(tx, S), day) /\ Without(tx, S).counts = tx.counts
    BY <1>1, <2>2, EvictedIsTrue
  <2> QED BY <1>1, <1>7, <2>1, <2>3, TablesMove DEF Reclaims
<1>8. CASE Records
  <2>1. UNCHANGED <<day, sends>> /\ arriving.inbox # <<>> /\ arriving' = [arriving EXCEPT !.inbox = Tail(@)]
    BY <1>8 DEF Records
  <2>2. Head(arriving.inbox) \in Events
    BY <2>1, TakesOne
  <2>3. CASE tx' = Inserted(tx, Head(arriving.inbox)) /\ UNCHANGED <<recorder, db>>
    BY <2>1, <2>2, <2>3, TablesGrow
  <2>4. CASE UNCHANGED <<recorder, db, tx>>
    BY <1>1, <2>1, <2>4, TablesMove
  <2>5. CASE Fails("beat")
    BY <1>2, <2>1, <2>5, TablesMove DEF Fails
  <2> QED BY <1>8, <2>3, <2>4, <2>5 DEF Records
<1>9. CASE Commits
  BY <1>1, <1>2, <1>9, TablesMove DEF Commits
<1>10. CASE Beats
  <2>1. recorder' \in Recorders
    BY <1>1, <1>10 DEF Beats
  <2> QED BY <1>10, <2>1, TablesMove DEF Beats
<1>11. CASE Opens
  <2>1. recorder' \in Recorders
    BY <1>11 DEF Opens
  <2> QED BY <1>11, <2>1, TablesMove DEF Opens
<1>12. CASE Closes
  <2>1. recorder' \in Recorders
    BY <1>2, <1>12 DEF Closes
  <2> QED BY <1>1, <1>12, <2>1, TablesMove DEF Closes
<1>13. CASE HistoryTick
  <2>1. TableTrue(db, day + 1) /\ TableTrue(tx, day + 1)
    BY <1>1, TableStaysTrue DEF HistoryInv
  <2>2. TableTrue(db, day)' /\ TableTrue(tx, day)'
    <3>1. db' = db /\ tx' = tx /\ day' = day + 1
      BY <1>13 DEF HistoryTick
    <3> QED BY <2>1, <3>1 DEF TableTrue, EachCounted, MarksCounted, LatestMarked
  <2> QED BY <1>1, <1>13, <2>2, BoundsAreNumbers DEF HistoryTick, HistoryInv, HistoryBounds
<1> QED BY <1>3, <1>4, <1>5, <1>6, <1>7, <1>8, <1>9, <1>10, <1>11, <1>12, <1>13 DEF HistoryNext

\* No event is counted twice while its row is there, and the latest event of a phase
\* outlives its row: HistoryExact says of the committed tables what TableTrue says.
LEMMA TrueIsExact == HistoryInv => HistoryExact
<1> SUFFICES ASSUME HistoryInv PROVE HistoryExact
  OBVIOUS
<1>1. CountedOnce
  <2> SUFFICES ASSUME NEW e \in Events
               PROVE  db.counts[e] <= 1 + db.passed[e] /\ (e \in db.raw => db.counts[e] >= 1)
    BY DEF CountedOnce
  <2>1. /\ db.counts[e] = db.passed[e] + (IF e \in db.raw THEN 1 ELSE 0)
        /\ db.passed[e] \in Nat
    BY DEF HistoryInv, TableTrue, EachCounted, TableType
  <2> QED BY <2>1
<1>2. LatestPhaseKept
  <2> SUFFICES ASSUME NEW e \in Committed, KindOf[e] = "job", day - WallOf[e] <= CheckpointDays,
                      Cardinality({k \in JobsSeen \ {JobOf[e]} : \E f \in Committed :
                        KindOf[f] = "job" /\ JobOf[f] = k /\ WallOf[f] >= WallOf[e]}) < JobsKept
               PROVE  db.marks[JobOf[e]] # NoEvent /\ WallOf[db.marks[JobOf[e]]] >= WallOf[e]
    BY DEF LatestPhaseKept
  <2>1. {k \in JobsSeen \ {JobOf[e]} : \E f \in Committed :
           KindOf[f] = "job" /\ JobOf[f] = k /\ WallOf[f] >= WallOf[e]} = NewerJobs(db, e)
    BY DEF Committed, NewerJobs
  <2>2. Cardinality(NewerJobs(db, e)) < JobsKept
    BY <2>1, Zenon
  <2>3. e \in Events /\ db.counts[e] > 0
    BY DEF Committed
  <2> QED BY <2>2, <2>3 DEF HistoryInv, TableTrue, LatestMarked
<1> QED BY <1>1, <1>2 DEF HistoryExact

\* The queues of the recorder stay within their bounds, and no event is counted or
\* evicted more often than it was sent.
THEOREM HistoryTypeCorrect == HistorySpec => []HistoryTypeOK
<1>1. HistoryInv => HistoryTypeOK
  <2> SUFFICES ASSUME HistoryInv PROVE HistoryTypeOK
    OBVIOUS
  <2>1. ASSUME NEW t, t = db \/ t = tx PROVE t \in Tables
    <3>1. t \in TableType /\ EachCounted(t)
      BY <2>1 DEF HistoryInv, TableTrue
    <3>2. ASSUME NEW e \in Events PROVE t.counts[e] \in 0..Sends /\ t.passed[e] \in 0..Sends
      <4>1. /\ t.counts[e] \in Nat /\ t.passed[e] \in Nat /\ t.passed[e] <= t.counts[e]
        BY <3>1 DEF TableType, EachCounted
      <4>2. /\ db.counts[e] <= tx.counts[e]
            /\ tx.counts[e] + Len(arriving.socket) + Len(arriving.inbox) <= sends
            /\ Len(arriving.socket) \in Nat /\ Len(arriving.inbox) \in Nat
            /\ sends \in 0..Sends /\ Sends \in Nat
        BY BoundsAreNumbers DEF HistoryInv, HistoryBounds
      <4>3. db.counts[e] \in Nat /\ tx.counts[e] \in Nat
        BY CountsAreNumbers DEF HistoryInv
      <4>4. t.counts[e] <= tx.counts[e]
        BY <2>1, <4>2, <4>3
      <4>5. tx.counts[e] <= sends
        BY <4>2, <4>3
      <4> QED BY <4>1, <4>2, <4>3, <4>4, <4>5
    <3>3. t.counts \in [Events -> 0..Sends] /\ t.passed \in [Events -> 0..Sends]
      BY <3>1, <3>2 DEF TableType
    <3> QED BY <3>1, <3>3 DEF TableType, Tables
  <2>2. db \in Tables /\ tx \in Tables
    BY <2>1
  <2> QED BY <2>2 DEF HistoryInv, HistoryTypeOK
<1> QED BY <1>1, HistoryStarts, HistoryStep, PTL DEF HistorySpec

\* An event that is delivered again is not counted again while its row is retained, and
\* the latest committed event of a phase outlives the eviction of its row: for any number
\* of events, deliveries, restarts and failed transactions.
THEOREM HistoryStaysExact == HistorySpec => []HistoryExact
BY HistoryStarts, HistoryStep, TrueIsExact, PTL DEF HistorySpec

(***************************************************************************)
(* Reports.                                                                *)
(***************************************************************************)
\* The lock is held by the agent whose report is handled, and by nobody else.
LockInv ==
  /\ \A a \in Agents : report[a].pc # "idle" <=> holder = a
  /\ holder # NoAgent => reports >= 1

\* What the ledger says of a kind.
Settled(k) ==
  /\ ledger[k].url <=> ledger[k].status \notin {"none", "tried", "uncertain"}
  /\ ledger[k].url => Exists(k)
  /\ ledger[k].status \in {"none", "tried"} => github[k].own = 0 /\ github[k].comments = 0
  /\ github[k].own + github[k].comments <= 1

LedgerInv == \A k \in Problems : Settled(k)

\* What an agent knows whose report is handled.
Knows(a) ==
  LET k == report[a].kind
  IN /\ report[a].pc \in {"search", "answer"} =>
          /\ report[a].row = ledger[k] /\ ledger[k].status \in {"tried", "uncertain"}
     /\ report[a].pc \in {"answer", "post"} /\ report[a].found => Exists(k)
     /\ report[a].pc = "post" =>
          /\ ledger[k].status = "uncertain" /\ github[k].own = 0 /\ github[k].comments = 0
     /\ report[a].pc = "record" => Exists(k) /\ ledger[k].status = "uncertain"

ReportInv == \A a \in Agents : Knows(a)

ReportsInv == ReportsTypeOK /\ LockInv /\ LedgerInv /\ ReportInv

\* The type of report, named for the proofs.
ReportType == [pc : {"idle", "draft", "search", "answer", "post", "record"}, kind : Problems,
               row : RowTypes, found : BOOLEAN]
IssueType == [own : 0..Reportings, comments : 0..Reportings, foreign : BOOLEAN, indexed : BOOLEAN]

LEMMA ReportsStart == ReportsInit => ReportsInv
<1> SUFFICES ASSUME ReportsInit PROVE ReportsInv
  OBVIOUS
<1>1. NoReport \in ReportType /\ NoReport.pc = "idle" /\ Row0 \in RowTypes
  BY ReportsAssumption DEF NoReport, ReportType, RowTypes, Row0
<1>2. ReportsTypeOK
  BY <1>1, ReportsAssumption DEF ReportsInit, ReportsTypeOK, ReportType
<1>3. LockInv /\ ReportInv
  BY <1>1, ReportsAssumption DEF ReportsInit, LockInv, ReportInv, Knows
<1>4. LedgerInv
  BY DEF ReportsInit, LedgerInv, Settled, Row0
<1> QED BY <1>2, <1>3, <1>4 DEF ReportsInv

\* When a report ends, whatever it has left in the ledger, nobody holds the lock
\* and nobody knows anything any more.
LEMMA AfterEnd ==
  ASSUME ReportsInv, NEW a \in Agents, ReportEnds(a), report[a].pc # "idle"
  PROVE  /\ LockInv' /\ ReportInv' /\ holder' \in Agents \cup {NoAgent}
         /\ report' \in [Agents -> ReportType]
<1>1. NoReport \in ReportType /\ NoReport.pc = "idle"
  BY ReportsAssumption DEF NoReport, ReportType, RowTypes, Row0
<1>2. report \in [Agents -> ReportType]
  BY DEF ReportsInv, ReportsTypeOK, ReportType
<1>3. \A b \in Agents : report'[b].pc = "idle"
  <2> SUFFICES ASSUME NEW b \in Agents PROVE report'[b].pc = "idle"
    OBVIOUS
  <2>1. CASE b = a
    BY <1>1, <1>2, <2>1 DEF ReportEnds
  <2>2. CASE b # a
    <3>1. report[b].pc = "idle"
      BY <2>2 DEF ReportsInv, LockInv
    <3> QED BY <1>2, <2>2, <3>1 DEF ReportEnds
  <2> QED BY <2>1, <2>2
<1>4. holder' = NoAgent /\ report' \in [Agents -> ReportType]
  BY <1>1, <1>2 DEF ReportEnds
<1>5. LockInv'
  BY <1>3, <1>4, ReportsAssumption DEF LockInv
<1>6. ReportInv'
  BY <1>3 DEF ReportInv, Knows
<1> QED BY <1>4, <1>5, <1>6

\* Only the holder of the lock is at anything; the others do not change.
LEMMA OthersIdle ==
  ASSUME ReportsInv, NEW a \in Agents, report[a].pc # "idle", NEW b \in Agents \ {a}
  PROVE  report[b].pc = "idle" /\ holder = a
BY DEF ReportsInv, LockInv

\* When it goes on, only what its agent knows matters.
LEMMA AfterStep ==
  ASSUME NEW a \in Agents, \A b \in Agents \ {a} : report'[b].pc = "idle",
         report'[a].pc # "idle", holder' = a, reports' >= 1, Knows(a)'
  PROVE  LockInv' /\ ReportInv'
BY ReportsAssumption DEF LockInv, ReportInv, Knows

\* A kind whose row and issues stay is settled as before.
LEMMA StaysSettled ==
  ASSUME NEW k \in Problems, Settled(k), ledger'[k] = ledger[k], github'[k] = github[k]
  PROVE  Settled(k)'
BY DEF Settled, Exists

\* The facts that all steps of a report share.
LEMMA Handling ==
  ASSUME ReportsInv, NEW a \in Agents
  PROVE  /\ report \in [Agents -> ReportType] /\ ledger \in [Problems -> RowTypes]
         /\ github \in [Problems -> IssueType] /\ reports \in 0..Reportings
         /\ report[a].kind \in Problems /\ report[a].found \in BOOLEAN
         /\ Settled(report[a].kind) /\ Knows(a)
         /\ report[a].pc # "idle" => holder = a /\ reports >= 1
         /\ report[a].pc # "idle" => \A b \in Agents \ {a} : report[b].pc = "idle"
<1>1. report \in [Agents -> ReportType] /\ ledger \in [Problems -> RowTypes]
      /\ github \in [Problems -> IssueType] /\ reports \in 0..Reportings
  BY DEF ReportsInv, ReportsTypeOK, ReportType, IssueType
<1>2. report[a].kind \in Problems /\ report[a].found \in BOOLEAN
  BY <1>1 DEF ReportType
<1>3. Settled(report[a].kind) /\ Knows(a)
  BY <1>2 DEF ReportsInv, LedgerInv, ReportInv
<1>4. report[a].pc # "idle" => holder = a /\ reports >= 1
  BY ReportsAssumption DEF ReportsInv, LockInv
<1> QED BY <1>1, <1>2, <1>3, <1>4, OthersIdle

LEMMA ReportedStep ==
  ASSUME ReportsInv, NEW a \in Agents, NEW k \in Problems, Reported(a, k)
  PROVE  ReportsInv'
<1>1. NoReport \in ReportType /\ NoReport.pc = "idle"
  BY ReportsAssumption DEF NoReport, ReportType, RowTypes, Row0
<1>2. LedgerInv'
  BY StaysSettled DEF ReportsInv, LedgerInv, Reported
<1>3. reports' \in 1..Reportings
  BY ReportsAssumption DEF ReportsInv, ReportsTypeOK, Reported
<1>4. CASE holder # NoAgent
  <2>1. UNCHANGED <<consent, ledger, report, github, changes, holder>>
    BY <1>4 DEF Reported
  <2>2. ReportsTypeOK' /\ LockInv'
    BY <1>3, <2>1 DEF ReportsInv, ReportsTypeOK, LockInv
  <2>3. ReportInv'
    BY <2>1 DEF ReportsInv, ReportInv, Knows, Exists
  <2> QED BY <1>2, <2>2, <2>3 DEF ReportsInv
<1>5. CASE holder = NoAgent
  <2>1. UNCHANGED <<consent, ledger, github, changes>> /\ holder' = a
        /\ report' = [report EXCEPT ![a] = [NoReport EXCEPT !.pc = "draft", !.kind = k]]
    BY <1>5 DEF Reported
  <2>2. report' \in [Agents -> ReportType] /\ report'[a].pc = "draft"
        /\ \A b \in Agents \ {a} : report'[b] = report[b]
    BY <1>1, <2>1, Handling DEF ReportType
  <2>3. \A b \in Agents \ {a} : report'[b].pc = "idle"
    BY <1>5, <2>2, ReportsAssumption DEF ReportsInv, LockInv
  <2>4. Knows(a)'
    BY <2>2 DEF Knows
  <2>5. LockInv' /\ ReportInv'
    BY <1>3, <2>1, <2>2, <2>3, <2>4, AfterStep
  <2>6. ReportsTypeOK'
    BY <1>3, <2>1, <2>2 DEF ReportsInv, ReportsTypeOK, ReportType
  <2> QED BY <1>2, <2>5, <2>6 DEF ReportsInv
<1> QED BY <1>4, <1>5

LEMMA DraftedStep ==
  ASSUME ReportsInv, NEW a \in Agents, Drafted(a)
  PROVE  ReportsInv'
<1>k. PICK k \in Problems : k = report[a].kind
  BY Handling
<1> DEFINE tried == [ledger[k] EXCEPT !.status = IF @ = "none" THEN "tried" ELSE @]
<1>1. report[a].pc = "draft" /\ UNCHANGED <<consent, github, reports, changes>>
  BY DEF Drafted
<1>2. Settled(k) /\ ledger[k] \in RowTypes
  BY <1>k, Handling
<1>3. CASE ReportEnds(a) /\ UNCHANGED ledger
  <2>1. LedgerInv'
    BY <1>1, <1>3, StaysSettled DEF ReportsInv, LedgerInv
  <2> QED BY <1>1, <1>3, <2>1, AfterEnd DEF ReportsInv, ReportsTypeOK, ReportType
<1>4. CASE /\ ~ledger[k].url /\ ledger' = [ledger EXCEPT ![k] = tried] /\ UNCHANGED holder
           /\ report' = [report EXCEPT ![a].pc = "search", ![a].row = tried]
  <2>1. /\ tried \in RowTypes /\ ~tried.url /\ tried.status \in {"tried", "uncertain"}
        /\ tried.status = "tried" => ledger[k].status \in {"none", "tried"}
    BY <1>2, <1>4 DEF RowTypes, Settled
  <2>2. ledger' \in [Problems -> RowTypes] /\ ledger'[k] = tried
        /\ \A q \in Problems \ {k} : ledger'[q] = ledger[q]
    BY <1>2, <1>4, <2>1, Handling
  <2>3. Settled(k)'
    BY <1>1, <1>2, <2>1, <2>2 DEF Settled, Exists
  <2>4. LedgerInv'
    BY <1>1, <2>2, <2>3, StaysSettled DEF ReportsInv, LedgerInv
  <2>5. /\ report' \in [Agents -> ReportType] /\ report'[a].pc = "search" /\ report'[a].kind = k
        /\ report'[a].row = tried /\ \A b \in Agents \ {a} : report'[b] = report[b]
    BY <1>k, <1>4, <2>1, Handling DEF ReportType
  <2>6. Knows(a)'
    BY <2>1, <2>2, <2>5 DEF Knows
  <2>7. LockInv' /\ ReportInv'
    BY <1>1, <1>4, <2>5, <2>6, Handling, AfterStep
  <2>8. ReportsTypeOK'
    BY <1>1, <1>4, <2>2, <2>5 DEF ReportsInv, ReportsTypeOK, ReportType
  <2> QED BY <2>4, <2>7, <2>8 DEF ReportsInv
<1> QED BY <1>k, <1>3, <1>4 DEF Drafted, Kind

LEMMA SearchedStep ==
  ASSUME ReportsInv, NEW a \in Agents, Searched(a)
  PROVE  ReportsInv'
<1>k. PICK k \in Problems : k = report[a].kind
  BY Handling
<1>1. report[a].pc = "search" /\ UNCHANGED <<consent, ledger, github, reports, changes>>
  BY DEF Searched
<1>2. LedgerInv'
  BY <1>1, StaysSettled DEF ReportsInv, LedgerInv
<1>3. CASE ReportEnds(a)
  BY <1>1, <1>2, <1>3, AfterEnd DEF ReportsInv, ReportsTypeOK, ReportType
<1>4. CASE /\ UNCHANGED holder
           /\ report' = [report EXCEPT ![a].pc = "answer", ![a].found = Exists(k) /\ github[k].indexed]
  <2>1. (Exists(k) /\ github[k].indexed) \in BOOLEAN
    BY DEF Exists
  <2>2. /\ report' \in [Agents -> ReportType] /\ report'[a].pc = "answer" /\ report'[a].kind = k
        /\ report'[a].row = report[a].row /\ report'[a].found = (Exists(k) /\ github[k].indexed)
        /\ \A b \in Agents \ {a} : report'[b] = report[b]
    BY <1>k, <1>4, <2>1, Handling DEF ReportType
  <2>3. Knows(a)'
    BY <1>k, <1>1, <2>2, Handling DEF Knows, Exists
  <2>4. LockInv' /\ ReportInv'
    BY <1>1, <1>4, <2>2, <2>3, Handling, AfterStep
  <2> QED BY <1>1, <1>2, <1>4, <2>2, <2>4 DEF ReportsInv, ReportsTypeOK, ReportType
<1> QED BY <1>k, <1>3, <1>4 DEF Searched, Kind

LEMMA AnsweredStep ==
  ASSUME ReportsInv, NEW a \in Agents, Answered(a)
  PROVE  ReportsInv'
<1>k. PICK k \in Problems : k = report[a].kind
  BY Handling
<1> DEFINE found == [status |-> "deduplicated", url |-> TRUE]
<1>1. report[a].pc = "answer" /\ UNCHANGED <<consent, github, reports, changes>>
  BY DEF Answered
<1>2. /\ Settled(k) /\ ledger[k] \in RowTypes /\ report[a].row = ledger[k]
      /\ ledger[k].status \in {"tried", "uncertain"} /\ (report[a].found => Exists(k))
  BY <1>k, <1>1, Handling DEF Knows
<1>3. CASE ReportEnds(a) /\ UNCHANGED ledger
  <2>1. LedgerInv'
    BY <1>1, <1>3, StaysSettled DEF ReportsInv, LedgerInv
  <2> QED BY <1>1, <1>3, <2>1, AfterEnd DEF ReportsInv, ReportsTypeOK, ReportType
<1>4. CASE /\ ReportEnds(a) /\ ledger[k].status = "uncertain" /\ report[a].found
           /\ ledger' = [ledger EXCEPT ![k] = found]
  <2>1. /\ ledger' \in [Problems -> RowTypes] /\ ledger'[k] = found
        /\ \A q \in Problems \ {k} : ledger'[q] = ledger[q]
    BY <1>4, Handling DEF RowTypes
  <2>2. Settled(k)'
    BY <1>1, <1>2, <1>4, <2>1 DEF Settled, Exists
  <2>3. LedgerInv'
    BY <1>1, <2>1, <2>2, StaysSettled DEF ReportsInv, LedgerInv
  <2> QED BY <1>1, <1>4, <2>1, <2>3, AfterEnd DEF ReportsInv, ReportsTypeOK, ReportType
<1>5. CASE /\ Continues(a, "post") /\ ledger[k].status # "uncertain"
           /\ ledger' = [ledger EXCEPT ![k].status = "uncertain"]
  <2>1. /\ ledger' \in [Problems -> RowTypes] /\ ledger'[k].status = "uncertain"
        /\ ledger'[k].url = ledger[k].url /\ \A q \in Problems \ {k} : ledger'[q] = ledger[q]
    BY <1>5, Handling DEF RowTypes
  <2>2. ~ledger[k].url /\ github[k].own = 0 /\ github[k].comments = 0
    <3>1. ledger[k].status = "tried"
      BY <1>2, <1>5
    <3> QED BY <1>2, <3>1 DEF Settled
  <2>3. Settled(k)'
    BY <1>1, <1>2, <2>1, <2>2 DEF Settled, Exists
  <2>4. LedgerInv'
    BY <1>1, <2>1, <2>3, StaysSettled DEF ReportsInv, LedgerInv
  <2>5. /\ report' \in [Agents -> ReportType] /\ report'[a].pc = "post" /\ report'[a].kind = k
        /\ report'[a].found = report[a].found /\ \A b \in Agents \ {a} : report'[b] = report[b]
    BY <1>k, <1>5, Handling DEF ReportType, Continues
  <2>6. Knows(a)'
    <3>1. github'[k] = github[k] /\ (report'[a].found => Exists(k)')
      BY <1>1, <1>2, <2>5 DEF Exists
    <3> QED BY <2>1, <2>2, <2>5, <3>1 DEF Knows
  <2>7. LockInv' /\ ReportInv'
    BY <1>1, <1>5, <2>5, <2>6, Handling, AfterStep DEF Continues
  <2> QED BY <1>1, <1>5, <2>1, <2>4, <2>5, <2>7 DEF ReportsInv, ReportsTypeOK, ReportType, Continues
<1> QED BY <1>k, <1>2, <1>3, <1>4, <1>5 DEF Answered, Kind

LEMMA PostsStep ==
  ASSUME ReportsInv, NEW a \in Agents, Posts(a)
  PROVE  ReportsInv'
<1>k. PICK k \in Problems : k = report[a].kind
  BY Handling
<1>1. report[a].pc = "post" /\ UNCHANGED <<consent, ledger, reports, changes>>
  BY DEF Posts
<1>2. /\ Settled(k) /\ ledger[k].status = "uncertain"
      /\ github[k].own = 0 /\ github[k].comments = 0 /\ (report[a].found => Exists(k))
  BY <1>k, <1>1, Handling DEF Knows
<1>3. CASE ReportEnds(a) /\ UNCHANGED github
  <2>1. LedgerInv'
    BY <1>1, <1>3, StaysSettled DEF ReportsInv, LedgerInv
  <2> QED BY <1>1, <1>3, <2>1, AfterEnd DEF ReportsInv, ReportsTypeOK, ReportType
<1>4. CASE /\ github' = IF report[a].found THEN [github EXCEPT ![k].comments = @ + 1]
                         ELSE [github EXCEPT ![k].own = @ + 1]
           /\ Continues(a, "record") \/ ReportEnds(a)
  <2>1. 1 \in 0..Reportings
    BY <1>1, ReportsAssumption, Handling
  <2>2. /\ github' \in [Problems -> IssueType] /\ \A q \in Problems \ {k} : github'[q] = github[q]
        /\ github'[k].own + github'[k].comments = 1 /\ github'[k].foreign = github[k].foreign
        /\ github'[k].own >= github[k].own /\ (~report[a].found => github'[k].own = 1)
    BY <1>2, <1>4, <2>1, Handling DEF IssueType
  <2>3. Exists(k)'
    BY <1>2, <2>2, Handling DEF Exists, IssueType
  <2>4. Settled(k)'
    BY <1>1, <1>2, <2>2, <2>3 DEF Settled
  <2>5. LedgerInv'
    BY <1>1, <2>2, <2>4, StaysSettled DEF ReportsInv, LedgerInv
  <2>6. CASE ReportEnds(a)
    BY <1>1, <2>2, <2>5, <2>6, AfterEnd DEF ReportsInv, ReportsTypeOK, ReportType, IssueType
  <2>7. CASE Continues(a, "record")
    <3>1. /\ report' \in [Agents -> ReportType] /\ report'[a].pc = "record" /\ report'[a].kind = k
          /\ \A b \in Agents \ {a} : report'[b] = report[b]
      BY <1>k, <2>7, Handling DEF ReportType, Continues
    <3>2. Knows(a)'
      BY <1>1, <1>2, <2>3, <3>1 DEF Knows
    <3>3. LockInv' /\ ReportInv'
      BY <1>1, <2>7, <3>1, <3>2, Handling, AfterStep DEF Continues
    <3> QED BY <1>1, <2>2, <2>5, <2>7, <3>1, <3>3
            DEF ReportsInv, ReportsTypeOK, ReportType, IssueType, Continues
  <2> QED BY <1>4, <2>6, <2>7
<1> QED BY <1>k, <1>3, <1>4 DEF Posts, Kind

LEMMA RecordedStep ==
  ASSUME ReportsInv, NEW a \in Agents, Recorded(a)
  PROVE  ReportsInv'
<1>k. PICK k \in Problems : k = report[a].kind
  BY Handling
<1> DEFINE final == [status |-> IF report[a].found THEN "commented" ELSE "published", url |-> TRUE]
<1>1. /\ report[a].pc = "record" /\ ReportEnds(a) /\ UNCHANGED <<consent, github, reports, changes>>
      /\ UNCHANGED ledger \/ ledger' = [ledger EXCEPT ![k] = final]
  BY <1>k DEF Recorded, Kind
<1>2. Settled(k) /\ Exists(k) /\ ledger[k].status = "uncertain"
  BY <1>k, <1>1, Handling DEF Knows
<1>3. /\ final \in RowTypes /\ final.url
      /\ final.status \notin {"none", "tried", "uncertain"}
  BY DEF RowTypes
<1> HIDE DEF final
<1>4. /\ ledger' \in [Problems -> RowTypes]
      /\ \A q \in Problems \ {k} : ledger'[q] = ledger[q]
      /\ ledger'[k] \in {ledger[k], final}
  BY <1>1, <1>3, Handling
<1>5. Settled(k)'
  <2>1. CASE ledger'[k] = ledger[k]
    BY <1>1, <1>2, <2>1, StaysSettled
  <2>2. CASE ledger'[k] = final
    BY <1>1, <1>2, <1>3, <2>2 DEF Settled, Exists
  <2> QED BY <1>4, <2>1, <2>2
<1>6. LedgerInv'
  BY <1>1, <1>4, <1>5, StaysSettled DEF ReportsInv, LedgerInv
<1> QED BY <1>1, <1>4, <1>6, AfterEnd DEF ReportsInv, ReportsTypeOK, ReportType

\* Steps of the world change no ledger, no report, and only add issues of others.
LEMMA WorldStep ==
  ASSUME ReportsInv, UNCHANGED <<holder, ledger, report, reports>>,
         github' \in [Problems -> IssueType], consent' \in BOOLEAN, changes' \in 0..Changes,
         \A k \in Problems :
            /\ github'[k].own = github[k].own
            /\ github'[k].comments = github[k].comments
            /\ github[k].foreign => github'[k].foreign
  PROVE  ReportsInv'
<1>1. \A k \in Problems : Exists(k) => Exists(k)'
  BY DEF Exists
<1>2. LedgerInv'
  <2> SUFFICES ASSUME NEW k \in Problems PROVE Settled(k)'
    BY DEF LedgerInv
  <2> QED BY <1>1 DEF ReportsInv, LedgerInv, Settled
<1>3. ReportInv'
  <2> SUFFICES ASSUME NEW a \in Agents PROVE Knows(a)'
    BY DEF ReportInv
  <2>1. report[a].kind \in Problems /\ Knows(a)
    BY Handling
  <2> QED BY <1>1, <2>1 DEF Knows
<1>4. LockInv'
  BY DEF ReportsInv, LockInv
<1>5. ReportsTypeOK'
  BY DEF ReportsInv, ReportsTypeOK, IssueType
<1> QED BY <1>2, <1>3, <1>4, <1>5 DEF ReportsInv

LEMMA ReportsStep == ReportsInv /\ [ReportsNext]_reportvars => ReportsInv'
<1> SUFFICES ASSUME ReportsInv, [ReportsNext]_reportvars PROVE ReportsInv'
  OBVIOUS
<1>t. /\ github \in [Problems -> IssueType] /\ consent \in BOOLEAN /\ changes \in 0..Changes
  BY DEF ReportsInv, ReportsTypeOK, IssueType
<1>1. CASE ConsentChanges
  <2>1. changes' \in 0..Changes /\ consent' \in BOOLEAN
    BY <1>t, <1>1, ReportsAssumption DEF ConsentChanges
  <2> QED BY <1>t, <1>1, <2>1, WorldStep DEF ConsentChanges
<1>2. ASSUME NEW k \in Problems, Indexed(k) PROVE ReportsInv'
  <2>1. /\ github' \in [Problems -> IssueType]
        /\ \A q \in Problems :
              /\ github'[q].own = github[q].own
              /\ github'[q].comments = github[q].comments
              /\ github[q].foreign => github'[q].foreign
    BY <1>t, <1>2 DEF Indexed, IssueType
  <2> QED BY <1>t, <1>2, <2>1, WorldStep DEF Indexed
<1>3. ASSUME NEW k \in Problems, OthersReport(k) PROVE ReportsInv'
  <2>1. /\ github' \in [Problems -> IssueType]
        /\ \A q \in Problems :
              /\ github'[q].own = github[q].own
              /\ github'[q].comments = github[q].comments
              /\ github[q].foreign => github'[q].foreign
    BY <1>t, <1>3 DEF OthersReport, IssueType
  <2> QED BY <1>t, <1>3, <2>1, WorldStep DEF OthersReport
<1>4. ASSUME NEW a \in Agents, ReporterKilled(a) PROVE ReportsInv'
  <2>1. LedgerInv'
    BY <1>4, StaysSettled DEF ReportsInv, LedgerInv, ReporterKilled
  <2>2. LockInv' /\ ReportInv' /\ holder' \in Agents \cup {NoAgent} /\ report' \in [Agents -> ReportType]
    BY <1>4, AfterEnd DEF ReporterKilled
  <2> QED BY <1>4, <2>1, <2>2 DEF ReportsInv, ReportsTypeOK, ReportType, ReporterKilled
<1>5. CASE UNCHANGED reportvars
  BY <1>t, <1>5, WorldStep DEF reportvars
<1> QED BY <1>1, <1>2, <1>3, <1>4, <1>5, ReportedStep, DraftedStep, SearchedStep, AnsweredStep,
           PostsStep, RecordedStep DEF ReportsNext

LEMMA ReportsAlways == ReportsSpec => []ReportsInv
BY ReportsStart, ReportsStep, PTL DEF ReportsSpec

\* The state of report.py keeps its shape.
THEOREM ReportsTypes == ReportsSpec => []ReportsTypeOK
<1>1. ReportsInv => ReportsTypeOK
  BY DEF ReportsInv
<1> QED BY ReportsAlways, <1>1, PTL

\* report.py:394-395: whatever is lost, killed or repeated, and whoever reports,
\* every kind of problem is posted at most once.
THEOREM PostedOnce == ReportsSpec => []OnePost
<1>1. ReportsInv => OnePost
  BY DEF ReportsInv, LedgerInv, Settled, OnePost
<1> QED BY ReportsAlways, <1>1, PTL

\* Two reports are never handled at the same time: report.py:242-268.
Alone == \A a, b \in Agents : report[a].pc # "idle" /\ report[b].pc # "idle" => a = b

\* The lock of the directory reports is exclusive for as long as a report takes.
THEOREM HandledAlone == ReportsSpec => []Alone
<1>1. ReportsInv => Alone
  BY DEF ReportsInv, LockInv, Alone
<1> QED BY ReportsAlways, <1>1, PTL

(***************************************************************************)
(* The seven together.                                                     *)
(***************************************************************************)
\* Beside the others each module behaves as it does alone.
LEMMA UpkeptApart ==
  UpkeepSpec => /\ PlannedSpec /\ EnvSpec /\ HistorySpec /\ MergeSpec /\ IntegrationSpec
                /\ ReportsSpec /\ PendingSpec
<1>1. UpkeepInit => /\ PlannedInit /\ EnvInit /\ HistoryInit /\ MergeInit /\ IntegrationInit
                    /\ ReportsInit /\ PendingInit
  BY Zenon DEF UpkeepInit
<1>2. [UpkeepNext]_upkeepvars =>
        /\ [PlannedNext]_killvars /\ [EnvNext]_envvars /\ [HistoryNext]_historyvars
        /\ [MergeNext]_mergevars /\ [IntegrationNext]_integrationvars /\ [ReportsNext]_reportvars
        /\ [PendingNext]_pendingvars
  <2>1. ASSUME UNCHANGED upkeepvars
        PROVE  UNCHANGED <<killvars, envvars, historyvars, mergevars, integrationvars, reportvars, pendingvars>>
    BY <2>1 DEF upkeepvars
  <2>2. ASSUME UpkeepNext
        PROVE  /\ PlannedNext \/ UNCHANGED killvars
               /\ EnvNext \/ UNCHANGED envvars
               /\ HistoryNext \/ UNCHANGED historyvars
               /\ MergeNext \/ UNCHANGED mergevars
               /\ IntegrationNext \/ UNCHANGED integrationvars
               /\ ReportsNext \/ UNCHANGED reportvars
               /\ PendingNext \/ UNCHANGED pendingvars
    BY <2>2 DEF UpkeepNext, Still
  <2> QED BY <2>1, <2>2
<1> QED BY <1>1, <1>2, PTL DEF UpkeepSpec, PlannedSpec, EnvSpec, HistorySpec, MergeSpec,
                             IntegrationSpec, ReportsSpec, PendingSpec

\* Whichever of the modules moves, its variables keep their types, for any values of
\* the constants of all of them.
THEOREM UpkeepTypeCorrect == UpkeepSpec => []UpkeepTypeOK
<1>1. /\ PlannedTypeOK /\ EnvTypeOK /\ HistoryTypeOK /\ MergeTypeOK /\ IntegrationTypeOK
      /\ ReportsTypeOK /\ PendingTypeOK
      => UpkeepTypeOK
  BY DEF UpkeepTypeOK
<1> QED BY <1>1, UpkeptApart, PlannedTypeCorrect, EnvTypeCorrect, HistoryTypeCorrect,
           MergeTypeCorrect, IntegrationTypeCorrect, ReportsTypes, PendingTypeCorrect, PTL
=============================================================================
