---------------------------- MODULE Environments ----------------------------
(***************************************************************************)
(* environments.py and environments.sh: one disposable Compose project,    *)
(* from its registration by the worker to the stop of its containers, by   *)
(* the worker when the workload has ended or by the watchdog when worker   *)
(* and agent are gone; claims and pins of other agents; and the registry,  *)
(* whose lock is not waited for.  Times are ages, in units of 30 seconds.  *)
(***************************************************************************)
EXTENDS Naturals, FiniteSets

CONSTANTS Origin,       \* the agent that asked for the environment
          Guests,       \* other agents
          Services,     \* the containers of the project
          OrphanGrace,  \* the two minutes of eligible
          Observation,  \* and its 90 seconds
          Trouble       \* bounds crashes and failures

ASSUME EnvironmentAssumption ==
  /\ OrphanGrace \in Nat /\ Observation \in Nat /\ Trouble \in Nat
  /\ Origin \notin Guests

VARIABLES row,        \* the entry of resources.json, NoRecord when there is none
          docker,     \* the containers that exist, and those that run
          worker,     \* where the worker is; "dead" when its process is gone
          busy,       \* a process of the worker's group is left
          alive,      \* the agents: new, live or dead
          reaper,     \* the stop of the watchdog, and
          release,    \* that of the worker: mc_environment_stop
          trouble,
          gone        \* time since worker, group and agent are gone

stops == <<reaper, release>>
envvars == <<row, docker, worker, busy, alive, stops, trouble, gone>>

EnvAgents == Guests \cup {Origin}
NoRecord == [phase |-> "none"]
Unset == OrphanGrace + 1         \* no orphan_since

EnvRecord == [phase : {"starting", "prepared", "active", "releasing", "stopped"},
              containers : SUBSET Services, claims : SUBSET EnvAgents, pinned : BOOLEAN,
              stop_requested : BOOLEAN, orphan_since : 0..Unset, observed : 0..Observation + 1]
Stop == [pc : {"idle", "scan", "ready", "authorize", "stop", "finish"},
         table : SUBSET EnvAgents, owner : BOOLEAN, group : BOOLEAN, ids : SUBSET Services]

EnvTypeOK ==
  /\ row \in EnvRecord \cup {NoRecord}
  /\ docker \in [exist : SUBSET Services, running : SUBSET Services]
  /\ worker \in {"new", "up", "start", "work", "finally", "stopping", "done", "dead"}
  /\ busy \in BOOLEAN /\ alive \in [EnvAgents -> {"new", "live", "dead"}]
  /\ reaper \in Stop /\ release \in Stop
  /\ trouble \in 0..Trouble /\ gone \in 0..OrphanGrace

NoStop == [pc |-> "idle", table |-> {}, owner |-> FALSE, group |-> FALSE, ids |-> {}]

EnvInit ==
  /\ row = NoRecord
  /\ docker = [exist |-> {}, running |-> {}]
  /\ worker = "new" /\ busy = FALSE
  /\ alive = [a \in EnvAgents |-> IF a = Origin THEN "live" ELSE "new"]
  /\ reaper = NoStop /\ release = NoStop
  /\ trouble = 0 /\ gone = 0

WorkerAlive == worker \notin {"new", "done", "dead"}
Troubled == trouble < Trouble /\ trouble' = trouble + 1

(***************************************************************************)
(* The worker.                                                             *)
(***************************************************************************)
\* The registry was read, changed and written under its lock.
Registers ==
  /\ worker = "new"
  /\ row' = [phase |-> "starting", containers |-> {}, claims |-> {}, pinned |-> FALSE,
             stop_requested |-> FALSE, orphan_since |-> Unset, observed |-> Observation + 1]
  /\ worker' = "up" /\ busy' = TRUE
  /\ UNCHANGED <<docker, alive, stops, trouble, gone>>

\* docker compose up --no-start, a child of the worker, creates them one by one.
Creates(s) ==
  /\ worker \in {"up", "dead"} /\ busy /\ row.phase = "starting" /\ s \notin docker.exist
  /\ docker' = [docker EXCEPT !.exist = @ \cup {s}]
  /\ UNCHANGED <<row, worker, busy, alive, stops, trouble, gone>>

\* It has ended; its identities are recorded, whatever its result was.
Prepares ==
  /\ worker = "up"
  /\ busy' = FALSE
  /\ \/ /\ row' = [row EXCEPT !.containers = docker.exist, !.phase = "prepared"]
        /\ \/ docker.exist = Services /\ worker' = "start" /\ trouble' = trouble
           \/ Troubled /\ worker' = "finally"
     \/ Troubled /\ worker' = "finally" /\ row' = row
  /\ UNCHANGED <<docker, alive, stops, gone>>

\* docker compose start --wait
Starts1(s) ==
  /\ worker = "start" \/ (worker = "dead" /\ busy /\ row.phase = "prepared")
  /\ s \in docker.exist \ docker.running
  /\ docker' = [docker EXCEPT !.running = @ \cup {s}]
  /\ busy' = TRUE
  /\ UNCHANGED <<row, worker, alive, stops, trouble, gone>>

Activates ==
  /\ worker = "start"
  /\ busy' = FALSE
  /\ \/ /\ docker.running = Services /\ row.containers = docker.exist
        /\ row' = [row EXCEPT !.phase = "active"] /\ worker' = "work" /\ trouble' = trouble
     \/ Troubled /\ worker' = "finally" /\ row' = row
  /\ UNCHANGED <<docker, alive, stops, gone>>

\* The workload runs, and ends, well or not.
Works ==
  /\ worker = "work"
  /\ \/ ~busy /\ busy' = TRUE /\ UNCHANGED worker
     \/ busy /\ busy' = FALSE /\ worker' = "finally"
  /\ UNCHANGED <<row, docker, alive, stops, trouble, gone>>

\* finally: the workload is recorded as finished.  The registry is locked by
\* somebody else: BlockingIOError, and the worker is gone.
Releases ==
  /\ worker = "finally"
  /\ \/ /\ row' = [row EXCEPT !.phase = "releasing"]
        /\ worker' = "stopping" /\ release' = [NoStop EXCEPT !.pc = "ready"]
        /\ trouble' = trouble
     \/ Troubled /\ worker' = "dead" /\ UNCHANGED <<row, release>>
  /\ UNCHANGED <<docker, busy, alive, reaper, gone>>

\* The worker is killed; what it has started may live on.
WorkerDies ==
  /\ WorkerAlive /\ Troubled
  /\ worker' = "dead"
  /\ busy' = (busy \/ release # NoStop)
  /\ UNCHANGED <<row, docker, alive, stops, gone>>

GroupEnds ==
  /\ worker = "dead" /\ busy
  /\ busy' = FALSE /\ release' = NoStop
  /\ UNCHANGED <<row, docker, worker, alive, reaper, trouble, gone>>

(***************************************************************************)
(* eligible, authorize, scan, finish, and the script around them.          *)
(***************************************************************************)
LiveAgents == {a \in EnvAgents : alive[a] = "live"}

StopEligible(measured, caller) ==
  /\ ~row.pinned /\ row.claims \cap measured.table = {}
  /\ \/ caller /\ row.phase = "releasing" /\ measured.owner
     \/ /\ ~measured.owner /\ ~measured.group
        /\ row.phase = "releasing" \/ Origin \notin measured.table
        /\ row.orphan_since = OrphanGrace
        /\ row.observed <= Observation

\* processes(), before the lock is taken.
ReadProcesses(next) ==
  [pc |-> next, table |-> LiveAgents, owner |-> WorkerAlive, group |-> busy \/ WorkerAlive, ids |-> {}]

MeasureReaper ==
  /\ row # NoRecord
  /\ \/ reaper.pc = "idle" /\ row.phase # "stopped" /\ reaper' = ReadProcesses("scan")
     \/ reaper.pc = "ready" /\ reaper' = ReadProcesses("authorize")
  /\ UNCHANGED <<row, docker, worker, busy, alive, release, trouble, gone>>

MeasureRelease ==
  /\ release.pc = "ready" /\ release' = ReadProcesses("authorize")
  /\ UNCHANGED <<row, docker, worker, busy, alive, reaper, trouble, gone>>

\* Mutant: a group that is left does not hold the environment.
HeldByOwner(measured) == measured.owner \/ (row.phase # "releasing" /\ Origin \in measured.table)

Held(measured) ==
  measured.owner \/ measured.group \/ (row.phase # "releasing" /\ Origin \in measured.table)

\* scan: the grace goes on while nothing of the environment is left.
EnvScan ==
  LET since == IF Held(reaper) THEN Unset
               ELSE IF row.orphan_since = Unset \/ row.observed > Observation THEN 0
               ELSE row.orphan_since
      seen == [row EXCEPT !.orphan_since = since, !.observed = 0]
  IN /\ reaper.pc = "scan"
     /\ IF row.phase = "stopped" THEN UNCHANGED row /\ reaper' = NoStop
        ELSE /\ row' = seen
             /\ reaper' = IF /\ since = OrphanGrace /\ ~row.pinned
                             /\ row.claims \cap reaper.table = {}
                          THEN [NoStop EXCEPT !.pc = "ready"] ELSE NoStop
     /\ UNCHANGED <<docker, worker, busy, alive, release, trouble, gone>>

\* authorize.  The live worker enrols what its start has left; from the moment a
\* stop is authorized nobody can claim the environment any more.
Authorized(stop, caller) ==
  LET mine == caller /\ row.phase = "releasing"
      enrolled == IF mine THEN docker.exist ELSE row.containers
      ids == IF StopEligible(stop, caller) /\ enrolled = docker.exist THEN docker.running ELSE {}
  IN /\ row' = [row EXCEPT !.containers = IF StopEligible(stop, caller) THEN enrolled ELSE @,
                           !.stop_requested = @ \/ ids # {}]
     /\ LET next == IF ids = {} THEN [NoStop EXCEPT !.pc = "finish"]
                    ELSE [NoStop EXCEPT !.pc = "stop", !.ids = ids, !.table = stop.table]
        IN IF caller THEN release' = next /\ UNCHANGED reaper ELSE reaper' = next /\ UNCHANGED release

AuthorizeStop ==
  /\ \/ reaper.pc = "authorize" /\ Authorized(reaper, FALSE)
     \/ release.pc = "authorize" /\ Authorized(release, TRUE)
  /\ UNCHANGED <<docker, worker, busy, alive, trouble, gone>>

\* docker stop
StopContainers ==
  /\ \/ /\ reaper.pc = "stop" /\ reaper' = [NoStop EXCEPT !.pc = "finish"]
        /\ docker' = [docker EXCEPT !.running = @ \ reaper.ids] /\ UNCHANGED release
     \/ /\ release.pc = "stop" /\ release' = [NoStop EXCEPT !.pc = "finish"]
        /\ docker' = [docker EXCEPT !.running = @ \ release.ids] /\ UNCHANGED reaper
  /\ UNCHANGED <<row, worker, busy, alive, trouble, gone>>

\* Mutant: what docker says is not asked for again.
FinishedBlindly == [row EXCEPT !.phase = "stopped"]

\* finish: an environment that still runs, or has changed, is retained.
Finished ==
  IF docker.exist = {} \/ (docker.exist = row.containers /\ docker.running = {})
  THEN [row EXCEPT !.phase = "stopped"] ELSE row

Finish ==
  /\ \/ reaper.pc = "finish" /\ reaper' = NoStop /\ UNCHANGED release
     \/ release.pc = "finish" /\ release' = NoStop /\ UNCHANGED reaper
  /\ row' = Finished
  /\ UNCHANGED <<docker, worker, busy, alive, trouble, gone>>

\* A registry that is locked, memcap paused, or a docker that does not answer.
StopFails ==
  /\ Troubled
  /\ \/ reaper # NoStop /\ reaper' = NoStop /\ UNCHANGED release
     \/ release # NoStop /\ release' = NoStop /\ UNCHANGED reaper
  /\ UNCHANGED <<row, docker, worker, busy, alive, gone>>

WorkerDone ==
  /\ worker = "stopping" /\ release = NoStop /\ worker' = "done"
  /\ UNCHANGED <<row, docker, busy, alive, stops, trouble, gone>>

(***************************************************************************)
(* Agents, containers and time.                                            *)
(***************************************************************************)
\* Mutant: a stop that has been authorized does not refuse claims.
ClaimableLate == row # NoRecord /\ row.phase # "stopped"

Claimable == row # NoRecord /\ ~row.stop_requested /\ row.phase # "stopped"

ClaimEnv(a) ==
  /\ alive[a] = "live" /\ row # NoRecord
  /\ \/ Claimable /\ row' = [row EXCEPT !.claims = @ \cup {a}]
     \/ row' = [row EXCEPT !.claims = @ \ {a}]
     \/ a = Origin /\ Claimable /\ row' = [row EXCEPT !.pinned = TRUE]
     \/ a = Origin /\ row' = [row EXCEPT !.pinned = FALSE]
  /\ row' # row
  /\ UNCHANGED <<docker, worker, busy, alive, stops, trouble, gone>>

AgentChanges(a) ==
  /\ \/ alive[a] = "new" /\ alive' = [alive EXCEPT ![a] = "live"]
     \/ alive[a] = "live" /\ alive' = [alive EXCEPT ![a] = "dead"]
  /\ UNCHANGED <<row, docker, worker, busy, stops, trouble, gone>>

ContainerExits(s) ==
  /\ s \in docker.running /\ Troubled
  /\ docker' = [docker EXCEPT !.running = @ \ {s}]
  /\ UNCHANGED <<row, worker, busy, alive, stops, gone>>

Vacant == ~WorkerAlive /\ ~busy /\ (row.phase \in {"releasing", "stopped"} \/ alive[Origin] # "live")

EnvTick ==
  /\ row # NoRecord /\ row.phase # "stopped"
  /\ row' = [row EXCEPT !.orphan_since = IF @ < OrphanGrace THEN @ + 1 ELSE @,
                        !.observed = IF @ <= Observation THEN @ + 1 ELSE @]
  /\ gone' = IF Vacant /\ gone < OrphanGrace THEN gone + 1 ELSE gone
  /\ UNCHANGED <<docker, worker, busy, alive, stops, trouble>>

EnvNext ==
  \/ Registers \/ Prepares \/ Activates \/ Works \/ Releases \/ WorkerDies \/ WorkerDone \/ GroupEnds
  \/ MeasureReaper \/ MeasureRelease \/ EnvScan \/ AuthorizeStop \/ StopContainers \/ Finish \/ StopFails
  \/ EnvTick
  \/ \E s \in Services : Creates(s) \/ Starts1(s) \/ ContainerExits(s)
  \/ \E a \in EnvAgents : ClaimEnv(a) \/ AgentChanges(a)

EnvSpec == EnvInit /\ [][EnvNext]_envvars

(***************************************************************************)
(* Properties.                                                             *)
(***************************************************************************)
StopsNow(stop, next) == stop.pc = "stop" /\ next.pc = "finish"
Justified(stop) == ~row.pinned /\ row.claims \cap LiveAgents \cap stop.table = {}

\* environments.md:38: "Claims and pins prevent automatic disposal": containers are
\* never stopped in spite of a pin or under a live agent whose claim was accepted,
\* if it was alive when the stop read the processes.  environments.md:43-46: the
\* watchdog stops only when worker, process group and, unless the workload is
\* recorded as finished, agent have been gone for two minutes.
DisposalJustified ==
  [][/\ StopsNow(reaper, reaper') => Justified(reaper)
     /\ StopsNow(release, release') => Justified(release)
     /\ reaper.pc = "authorize" /\ reaper'.pc = "stop" => Vacant /\ gone = OrphanGrace]_envvars

\* A record says "stopped" only when no container runs, and then none ever will:
\* nothing that could start one is left.
StoppedIsFinal == row # NoRecord /\ row.phase = "stopped" => docker.running = {}
=============================================================================
