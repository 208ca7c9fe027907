------------------------------ MODULE Scheduler ------------------------------
(***************************************************************************)
(* The shared workload queue (libexec/scheduler.py): one supervisor        *)
(* process per `memcap run`, all of them sharing the registry jobs.json    *)
(* under one flock, each supervising at most one command that runs in a    *)
(* process group of its own.                                               *)
(*                                                                         *)
(* A critical section that reads the registry, saves it and releases the   *)
(* lock is one action.  The launch is not: between the admission decision, *)
(* the fork of the gated child, the save that publishes the job and the    *)
(* byte that opens the gate, the pause file, signals, processes and        *)
(* crashes interleave, so each of them is an action that keeps the lock.   *)
(*                                                                         *)
(* Memory is abstracted to a nondeterministic verdict per waiting request  *)
(* (module Admission models the decision itself).                          *)
(***************************************************************************)
EXTENDS Rotation

\* The processes that may be found in the group of a run's command.
Parts == {"leader", "helper", "foreign"}

CONSTANTS MaxJobs,     \* QUEUE_MAX_JOBS: slots for finite jobs
          MaxWaiting,  \* 64 in the code: requests that may wait
          Free,        \* the lock when nobody holds it
          \* Which supervisors the environment may disturb, and how.
          Crashable,   \* may be killed outright (SIGKILL, session limit)
          Signalable,  \* may receive SIGINT, SIGTERM or SIGHUP
          Forking,     \* commands that leave background children behind
          Agents,      \* what of a run's group mc_classify takes for an agent
                       \* CLI, or mc_ancestry for memcap's own ancestry
          Recycling,   \* process numbers may be given to strangers
          Failing,     \* fork, ps, write or bridge may fail
          Pausing      \* BOOLEAN: `memcap off` and `memcap on` happen

ASSUME SchedulerAssumption ==
  /\ MaxJobs \in Nat \ {0}
  /\ MaxWaiting \in Nat \ {0}
  /\ Free \notin Runs
  /\ \A S \in {Crashable, Signalable, Forking, Recycling, Failing} : S \subseteq Runs
  /\ Agents \in [Runs -> SUBSET Parts]
  /\ Pausing \in BOOLEAN

VARIABLES paused,      \* the file `paused` exists
          lock,        \* the supervisor that holds the registry lock
          jobs,        \* jobs.json on disk
          later,       \* session_turns on disk, as the order it induces
          data,        \* the registry copy the lock's holder is changing
          pc,          \* where each supervisor is in Scheduler.run
          local,       \* the variables of each Scheduler.run: see Local
          exit,        \* how each supervisor ended
          leader,      \* state of the process the supervisor forked
          helper,      \* a background child lives in the leader's group
          foreign,     \* an unrelated process now has the group's number
          stranger,    \* supervisors whose pid an unrelated process now has
          bypass,      \* history: launches allowed because memcap was paused
          ran          \* history: commands whose gate was opened

registry == <<jobs, later>>
workload == <<leader, helper, foreign, stranger>>
history  == <<bypass, ran>>
vars == <<paused, lock, registry, data, pc, local, exit, workload, history>>

NoJob == [status |-> "absent", members |-> {}, cancel |-> FALSE, ahead |-> {}]
Job == [status  : {"absent", "waiting", "running"},
        members : SUBSET Parts,
        cancel  : BOOLEAN,
        ahead   : SUBSET Runs]
NoJobs == [r \in Runs |-> NoJob]

\* A supervisor's own variables, forgotten where they are not read again.
Local == [cancelled : BOOLEAN,       \* self.cancelled: a signal was handled
          waited    : BOOLEAN,       \* some decision denied the request
          expired   : BOOLEAN,       \* the wait has passed its deadline
          sampled   : BOOLEAN,       \* `sample` is a measurement
          result    : BOOLEAN,       \* child.poll() returned a status
          seen      : SUBSET Parts,  \* `members` of the supervision loop
          termed    : SUBSET Parts]  \* sent SIGTERM, not yet SIGKILL
Blank == [cancelled |-> FALSE, waited |-> FALSE, expired |-> FALSE,
          sampled |-> FALSE, result |-> FALSE, seen |-> {}, termed |-> {}]

\* Control points of Scheduler.run.
Queueing    == {"sample", "admit"}                 \* registered, not decided
Launching   == {"launch", "forked", "published"}   \* holding the lock
Supervising == {"poll", "observe", "react", "bridge", "escalate", "cleanup"}
Ended       == {"done", "crashed", "native"}
PC == {"idle", "retire"} \cup Queueing \cup Launching \cup Supervising \cup Ended

Exits == {"none", "error", "cancelled", "expired", "claimed", "finished"}
Leader == {"none", "gated", "working", "zombie", "gone"}

TypeOK ==
  /\ paused \in BOOLEAN
  /\ lock \in Runs \cup {Free}
  /\ jobs \in [Runs -> Job] /\ data \in [Runs -> Job]
  /\ later \in SUBSET (Sessions \X Sessions)
  /\ pc \in [Runs -> PC] /\ local \in [Runs -> Local] /\ exit \in [Runs -> Exits]
  /\ leader \in [Runs -> Leader]
  /\ helper \in [Runs -> BOOLEAN] /\ foreign \in [Runs -> BOOLEAN]
  /\ stranger \in SUBSET Runs /\ bypass \in SUBSET Runs /\ ran \in SUBSET Runs

Init ==
  /\ paused = FALSE /\ lock = Free
  /\ jobs = NoJobs /\ data = NoJobs /\ later = {}
  /\ pc = [r \in Runs |-> "idle"] /\ local = [r \in Runs |-> Blank]
  /\ exit = [r \in Runs |-> "none"] /\ leader = [r \in Runs |-> "none"]
  /\ helper = [r \in Runs |-> FALSE] /\ foreign = [r \in Runs |-> FALSE]
  /\ stranger = {} /\ bypass = {} /\ ran = {}

(***************************************************************************)
(* What ps shows (processes) and what refresh makes of it.                 *)
(***************************************************************************)
\* The row at a supervisor's process number; zombies have no row.
OwnerRow(r) == IF pc[r] \notin Ended THEN "supervisor"
               ELSE IF r \in stranger THEN "stranger" ELSE "none"

\* Mutant: a process number alone identifies the supervisor.
OwnerAlivePidOnly(r) == OwnerRow(r) # "none"

\* The row is there and its start time is the recorded one.
OwnerAlive(r) == OwnerRow(r) = "supervisor"

\* Mutant: only the leader is looked for, not its process group.
GroupLeaderOnly(r) == {p \in {"leader"} : leader[r] \in {"gated", "working"}}

\* The processes whose group is the one the run's leader was given.
Group(r) == {p \in Parts : \/ p = "leader" /\ leader[r] \in {"gated", "working"}
                           \/ p = "helper" /\ helper[r]
                           \/ p = "foreign" /\ foreign[r]}

\* Mutants: a dead supervisor's group, or a live one's empty group, is dropped.
RetainedByOwner(reg, r) == reg[r].status # "absent" /\ OwnerAlive(r)
RetainedByMembers(reg, r) ==
  \/ reg[r].status = "waiting" /\ OwnerAlive(r)
  \/ reg[r].status = "running" /\ Group(r) # {}

\* Scheduler.refresh: an entry that no live supervisor vouches for, and no
\* member if it is running, is dropped.
Retained(reg, r) ==
  \/ reg[r].status = "waiting" /\ OwnerAlive(r)
  \/ reg[r].status = "running" /\ (OwnerAlive(r) \/ Group(r) # {})

\* Only a live supervisor's running entry adopts the members ps shows now.
Refreshed(reg, r) ==
  IF reg[r].status = "running" /\ OwnerAlive(r)
  THEN [reg[r] EXCEPT !.members = Group(r)] ELSE reg[r]

Refresh(reg) ==
  [r \in Runs |-> IF Retained(reg, r) THEN Refreshed(reg, r) ELSE NoJob]

(***************************************************************************)
(* Control.                                                                *)
(***************************************************************************)
Goto(r, label) == pc' = [pc EXCEPT ![r] = label] /\ UNCHANGED exit

\* return, or an exception, inside run(): on to its finally block.
Leave(r, label, how) ==
  /\ pc' = [pc EXCEPT ![r] = label]
  /\ exit' = [exit EXCEPT ![r] = how]
  /\ local' = [local EXCEPT ![r] = Blank]

\* The with block ends: the lock is released and the copy forgotten.
Unlock == lock' = Free /\ data' = NoJobs

\* The supervisor has collected its zombie, or init does after its end.
Reap(r) == leader' = [leader EXCEPT ![r] = IF @ = "zombie" THEN "gone" ELSE @]

(***************************************************************************)
(* Registration: run() up to the save of the new entry, under the lock.    *)
(***************************************************************************)
\* The caller descends from a member of a running job and holds its lease.
NestedIn(reg) == \E q \in Runs : reg[q].status = "running" /\ reg[q].members # {}

\* Mutant: the entry has a status that no reader of the registry knows.
EntryQueued(reg) == [status |-> "queued", members |-> {}, cancel |-> FALSE,
                     ahead |-> Waiting(reg)]

Entry(reg) == [status |-> "waiting", members |-> {}, cancel |-> FALSE,
               ahead |-> Waiting(reg)]

\* Mutant: one request too many may wait.
RegisterOffByOne(r) ==
  /\ pc[r] = "idle" /\ lock = Free /\ ~paused
  /\ Cardinality(Waiting(Refresh(jobs))) <= MaxWaiting
  /\ jobs' = [Refresh(jobs) EXCEPT ![r] = Entry(Refresh(jobs))]
  /\ Goto(r, "sample")
  /\ UNCHANGED <<paused, lock, later, data, local, workload, history>>

Register(r) ==
  /\ pc[r] = "idle" /\ lock = Free /\ ~paused
  /\ Cardinality(Waiting(Refresh(jobs))) < MaxWaiting
  /\ jobs' = [Refresh(jobs) EXCEPT ![r] = Entry(Refresh(jobs))]
  /\ Goto(r, "sample")
  /\ UNCHANGED <<paused, lock, later, data, local, workload, history>>

\* Paused, or nested in a running job: exec the command in place.
RunNatively(r) ==
  /\ pc[r] = "idle"
  /\ paused \/ (lock = Free /\ NestedIn(Refresh(jobs)))
  /\ Leave(r, "native", "none")
  /\ UNCHANGED <<paused, lock, registry, data, workload, history>>

\* 64 are waiting already; or the lock stays busy, ps or the save fails.
RegisterFails(r) ==
  /\ pc[r] = "idle"
  /\ \/ lock = Free /\ ~paused /\ Cardinality(Waiting(Refresh(jobs))) >= MaxWaiting
     \/ r \in Failing
  /\ Leave(r, "done", "error")
  /\ UNCHANGED <<paused, lock, registry, data, workload, history>>

(***************************************************************************)
(* The admission loop.                                                     *)
(***************************************************************************)
\* A cancelled request, or one that has waited past its deadline, gives up.
OutOfTime(r) == local[r].waited /\ local[r].expired
GivesUp(r) ==
  \/ local[r].cancelled /\ Leave(r, "retire", "cancelled")
  \/ ~local[r].cancelled /\ OutOfTime(r) /\ Leave(r, "retire", "expired")

\* Top of the loop.
GiveUp(r) ==
  /\ pc[r] = "sample" /\ GivesUp(r)
  /\ UNCHANGED <<paused, lock, registry, data, workload, history>>

\* Measure, without the lock, unless memcap is paused.
Sample(r) ==
  /\ pc[r] = "sample" /\ ~local[r].cancelled /\ ~OutOfTime(r)
  /\ local' = [local EXCEPT ![r].sampled = ~paused]
  /\ Goto(r, "admit")
  /\ UNCHANGED <<paused, lock, registry, data, workload, history>>

\* observed_registry(pending) yields None: the registry or ps was not
\* available, and the request has been cancelled or has expired meanwhile.
AdmitUnavailable(r) ==
  /\ pc[r] = "admit" /\ (local[r].cancelled \/ local[r].expired)
  /\ local' = [local EXCEPT ![r].waited = TRUE, ![r].sampled = FALSE]
  /\ Goto(r, "sample")
  /\ UNCHANGED <<paused, lock, registry, data, workload, history>>

\* Mutant: resources are looked up within the caller's session.
HoldersInSession(reg, r) ==
  {q \in Running(reg) : /\ r \notin Finite /\ ResourceOf[q] = ResourceOf[r]
                        /\ SessionOf[q] = SessionOf[r]}

\* The running entries that already hold the resource r asks for.
Holders(reg, r) ==
  {q \in Running(reg) : r \notin Finite /\ ResourceOf[q] = ResourceOf[r]}

\* A running entry holds the resource: tell the caller to reuse it, exit 0.
\* The claim, and with it the refreshed registry, is saved for known agents.
Claim(r) ==
  /\ pc[r] = "admit" /\ lock = Free
  /\ Holders(Refresh(jobs), r) # {}
  /\ jobs' \in {Refresh(jobs), jobs}
  /\ Leave(r, "retire", "claimed")
  /\ UNCHANGED <<paused, lock, later, data, workload, history>>

\* Mutant: the decision does not wait for the lock.
DecidingUnlocked(r) == pc[r] = "admit" /\ Holders(Refresh(jobs), r) = {}

\* Under the lock, and no running entry holds the resource.
Deciding(r) == pc[r] = "admit" /\ lock = Free /\ Holders(Refresh(jobs), r) = {}

\* Larger than the whole budget, or a malformed measurement: QueueError.
DecideFails(r) ==
  /\ Deciding(r) /\ r \in Failing /\ ~paused
  /\ Leave(r, "retire", "error")
  /\ UNCHANGED <<paused, lock, registry, data, workload, history>>

\* After the decision was computed a signal or the deadline still wins.
DecideTooLate(r) ==
  /\ Deciding(r) /\ GivesUp(r)
  /\ UNCHANGED <<paused, lock, registry, data, workload, history>>

\* Mutant: one finite job too many.
AdmissibleOffByOne(reg) ==
  {q \in Waiting(reg) :
     q \in Finite => Cardinality(FiniteRunning(reg)) <= MaxJobs}

\* Which waiting requests `admissible` can let through: a finite one needs a
\* slot; memory and pressure may refuse any of them.
Admissible(reg) ==
  {q \in Waiting(reg) :
     q \in Finite => Cardinality(FiniteRunning(reg)) < MaxJobs}

\* admissible(...) and next_waiter(...) = r under some measurement and ages.
Chosen(reg, r) ==
  /\ local[r].sampled
  /\ \E fits \in SUBSET Admissible(reg), aged \in SUBSET Waiting(reg) :
       IsNext(reg, later, fits, aged, r)

\* allowed: keep the lock and the refreshed copy, and launch.
Allow(r) ==
  /\ Deciding(r) /\ ~local[r].cancelled /\ ~OutOfTime(r)
  /\ \/ paused /\ bypass' = bypass \cup {r}
     \/ ~paused /\ Chosen(Refresh(jobs), r) /\ UNCHANGED bypass
  /\ lock' = r /\ data' = Refresh(jobs)
  /\ local' = [local EXCEPT ![r] = [Blank EXCEPT !.cancelled = local[r].cancelled]]
  /\ Goto(r, "launch")
  /\ UNCHANGED <<paused, registry, workload, ran>>

\* denied: save the refreshed registry with the reason; a request without
\* time left ends here, the others sleep and start over.
Deny(r) ==
  /\ Deciding(r) /\ ~local[r].cancelled /\ ~OutOfTime(r) /\ ~paused
  /\ jobs' = Refresh(jobs)
  /\ \/ local[r].expired /\ Leave(r, "retire", "expired")
     \/ /\ ~local[r].expired
        /\ local' = [local EXCEPT ![r].waited = TRUE, ![r].sampled = FALSE]
        /\ Goto(r, "sample")
  /\ UNCHANGED <<paused, lock, later, data, workload, history>>

(***************************************************************************)
(* Scheduler.launch, holding the lock.  The child is forked behind a pipe  *)
(* (`_exec`): it runs the command only after it has read the byte "1",     *)
(* which is written once the job is saved as running with its identity.    *)
(***************************************************************************)
\* Mutant: the child starts the command at once instead of waiting.
ForkUngated(r) ==
  /\ pc[r] = "launch"
  /\ leader' = [leader EXCEPT ![r] = "working"] /\ ran' = ran \cup {r}
  /\ Goto(r, "forked")
  /\ UNCHANGED <<paused, lock, registry, data, local, helper, foreign, stranger, bypass>>

Fork(r) ==
  /\ pc[r] = "launch"
  /\ leader' = [leader EXCEPT ![r] = "gated"]
  /\ Goto(r, "forked")
  /\ UNCHANGED <<paused, lock, registry, data, local, helper, foreign, stranger, history>>

\* ps shows the child leading its group: record_turn, then save the registry.
Publish(r) ==
  /\ pc[r] = "forked" /\ leader[r] = "gated"
  /\ jobs' = [data EXCEPT ![r].status = "running", ![r].members = {"leader"}]
  /\ later' = RecordTurn(later, SessionOf[r])
  /\ Goto(r, "published")
  /\ UNCHANGED <<paused, lock, data, local, workload, history>>

\* os.write(write_fd, "1"): the child execs the command; the lock is released.
Open(r) ==
  /\ pc[r] = "published" /\ leader[r] = "gated"
  /\ leader' = [leader EXCEPT ![r] = "working"]
  /\ ran' = ran \cup {r}
  /\ Unlock
  /\ Goto(r, "poll")
  /\ UNCHANGED <<paused, registry, local, helper, foreign, stranger, bypass>>

\* The fork, ps or the save fails, the child is dead, or nobody reads the
\* pipe any more: the exception releases the lock while `child` is None.
LaunchFails(r) ==
  /\ \/ pc[r] \in {"launch", "forked"} /\ r \in Failing
     \/ pc[r] \in {"forked", "published"} /\ leader[r] # "gated"
  /\ Unlock
  /\ Leave(r, "retire", "error")
  /\ UNCHANGED <<paused, registry, workload, history>>

(***************************************************************************)
(* The supervision loop.                                                   *)
(***************************************************************************)
\* Mutant: a status returned by an earlier poll is forgotten.
ExitedNow(r) == leader[r] = "zombie"

\* child.poll() has returned an exit status, now or before.
Exited(r) == local[r].result \/ leader[r] = "zombie"

Poll(r) ==
  /\ pc[r] = "poll"
  /\ local' = [local EXCEPT ![r].result = Exited(r)] /\ Reap(r)
  /\ Goto(r, "observe")
  /\ UNCHANGED <<paused, lock, registry, data, helper, foreign, stranger, history>>

\* Under the lock: refresh, save the cancel flag, read the members.  A job
\* that is observed process by process (learning_protocol 2) is polled again.
Observe(r) ==
  /\ pc[r] = "observe" /\ lock = Free
  /\ jobs' = [Refresh(jobs) EXCEPT ![r].cancel = local[r].cancelled]
  /\ \E result \in {local[r].result, Exited(r)} :
       /\ local' = [local EXCEPT ![r].seen = Refresh(jobs)[r].members,
                                 ![r].result = result]
       /\ IF result THEN Reap(r) ELSE UNCHANGED leader
  /\ Goto(r, "react")
  /\ UNCHANGED <<paused, lock, later, data, helper, foreign, stranger, history>>

\* The save fails: the exception leaves the loop with the command running.
ObserveFails(r) ==
  /\ pc[r] = "observe" /\ r \in Failing
  /\ Leave(r, "cleanup", "error")
  /\ UNCHANGED <<paused, lock, registry, data, workload, history>>

\* The lock is released and self.cancelled is read afresh: end when the group
\* was empty, cancel what was in it, or go round again.
React(r) ==
  /\ pc[r] = "react"
  /\ LET empty == local[r].seen = {} IN
     \/ local[r].cancelled /\ empty /\ Leave(r, "cleanup", "cancelled")
     \/ local[r].cancelled /\ ~empty /\ Goto(r, "bridge") /\ UNCHANGED local
     \/ /\ ~local[r].cancelled /\ local[r].result /\ empty
        /\ Leave(r, "cleanup", "finished")
     \/ /\ ~local[r].cancelled /\ ~(local[r].result /\ empty)
        /\ Goto(r, "poll")
        /\ local' = [local EXCEPT ![r].seen = {}]
  /\ UNCHANGED <<paused, lock, registry, data, workload, history>>

(***************************************************************************)
(* Cancellation: `memcap _queue-cancel` (mc_queue_cancel, mc_kill_pids),   *)
(* which authorizes every signal afresh (Scheduler.authorize_cancel).      *)
(***************************************************************************)
\* Mutant: only the group's leader may be signalled.
AuthorizedLeader(r) ==
  IF paused \/ ~jobs[r].cancel THEN {} ELSE jobs[r].members \cap Group(r) \cap {"leader"}

\* What the registry lets the supervisor's bridge signal.
Authorized(r) ==
  IF paused \/ ~jobs[r].cancel THEN {} ELSE jobs[r].members \cap Group(r)

\* mc_filter_protected, scope `scheduled`: an agent CLI or an ancestor does
\* not become a target because it appears in a registered group.
Targets(r) == Authorized(r) \ Agents[r]

\* The processes S of r's group end; a live supervisor's child is a zombie.
Kill(r, S) ==
  /\ leader' = [leader EXCEPT ![r] = IF "leader" \notin S THEN @
                                     ELSE IF OwnerAlive(r) THEN "zombie" ELSE "gone"]
  /\ helper' = [helper EXCEPT ![r] = @ /\ "helper" \notin S]
  /\ foreign' = [foreign EXCEPT ![r] = @ /\ "foreign" \notin S]

\* mc_queue_cancel returns 0 when memcap is paused: nothing is signalled and
\* the supervisor takes the cancellation as done.
BridgePaused(r) ==
  /\ pc[r] = "bridge" /\ paused
  /\ Leave(r, "cleanup", "cancelled")
  /\ UNCHANGED <<paused, lock, registry, data, workload, history>>

\* SIGTERM to every target; some of them exit.
BridgeTerm(r) ==
  /\ pc[r] = "bridge" /\ lock = Free /\ Targets(r) # {}
  /\ \E dying \in SUBSET Targets(r) :
       /\ Kill(r, dying)
       /\ local' = [local EXCEPT ![r].termed = Targets(r) \ dying, ![r].seen = {}]
  /\ Goto(r, "escalate")
  /\ UNCHANGED <<paused, lock, registry, data, stranger, history>>

\* No target (mc_kill_pids returns 1), or the bridge failed: keep supervising
\* and retry, for as long as it takes.
BridgeRefused(r) ==
  /\ pc[r] = "bridge"
  /\ \/ lock = Free /\ Targets(r) = {}
     \/ r \in Failing
  /\ local' = [local EXCEPT ![r].seen = {}]
  /\ Goto(r, "poll")
  /\ UNCHANGED <<paused, lock, registry, data, workload, history>>

\* Two seconds later, SIGKILL to the survivors still targets and still
\* identical; the bridge succeeds whatever it could signal.
Escalate(r) ==
  /\ pc[r] = "escalate"
  /\ \E killed \in SUBSET (local[r].termed \cap Targets(r)) :
       /\ lock # Free => killed = {}
       /\ Kill(r, killed)
  /\ Leave(r, "cleanup", "cancelled")
  /\ UNCHANGED <<paused, lock, registry, data, stranger, history>>

(***************************************************************************)
(* The finally block, then the supervisor's process ends.                  *)
(***************************************************************************)
End(r) == Goto(r, "done") /\ local' = [local EXCEPT ![r] = Blank] /\ Reap(r)

\* child is not None: the entry goes unless members are still alive.
Cleanup(r) ==
  /\ pc[r] = "cleanup" /\ lock = Free
  /\ jobs' = [Refresh(jobs) EXCEPT
                ![r] = IF @.status = "running" /\ @.members # {} THEN @ ELSE NoJob]
  /\ End(r)
  /\ UNCHANGED <<paused, lock, later, data, helper, foreign, stranger, history>>

\* Mutant: every waiting entry goes.
RetireWaiters(r) ==
  /\ pc[r] = "retire" /\ lock = Free
  /\ jobs' = [q \in Runs |-> IF jobs[q].status = "waiting" THEN NoJob ELSE jobs[q]]
  /\ End(r)
  /\ UNCHANGED <<paused, lock, later, data, helper, foreign, stranger, history>>

\* child is None: only the run's own entry, and only while it is waiting.
Retire(r) ==
  /\ pc[r] = "retire" /\ lock = Free
  /\ jobs' = [jobs EXCEPT
                ![r] = IF @.status = "waiting" /\ @.members = {} THEN NoJob ELSE @]
  /\ End(r)
  /\ UNCHANGED <<paused, lock, later, data, helper, foreign, stranger, history>>

\* The registry stays busy for 35 seconds, or the save fails.
LeaveUncleaned(r) ==
  /\ pc[r] \in {"cleanup", "retire"} /\ r \in Failing
  /\ End(r)
  /\ UNCHANGED <<paused, lock, registry, data, helper, foreign, stranger, history>>

(***************************************************************************)
(* The environment: signals, deadlines, the pause file, crashes, and the   *)
(* processes of the commands.                                              *)
(***************************************************************************)
\* handle_signal; what happens to a run on its way out is no longer read.
Signal(r) ==
  /\ r \in Signalable /\ ~local[r].cancelled
  /\ pc[r] \notin Ended \cup {"escalate", "cleanup", "retire"}
  /\ local' = [local EXCEPT ![r].cancelled = TRUE]
  /\ UNCHANGED <<paused, lock, registry, data, pc, exit, workload, history>>

\* time.monotonic() - began >= wait; only a queueing request looks at it.
\* A request without a deadline (--wait-forever) never takes this step.
Expire(r) ==
  /\ pc[r] \in Queueing /\ ~local[r].expired
  /\ local' = [local EXCEPT ![r].expired = TRUE]
  /\ UNCHANGED <<paused, lock, registry, data, pc, exit, workload, history>>

\* memcap off, memcap on
TogglePause ==
  /\ Pausing
  /\ paused' = ~paused
  /\ UNCHANGED <<lock, registry, data, pc, local, exit, workload, history>>

\* The supervisor dies without running its finally block; the kernel drops
\* its flock and closes its end of the pipe.
Crash(r) ==
  /\ r \in Crashable /\ pc[r] \notin Ended \cup {"idle"}
  /\ Leave(r, "crashed", "none") /\ Reap(r)
  /\ IF lock = r THEN Unlock ELSE UNCHANGED <<lock, data>>
  /\ UNCHANGED <<paused, registry, helper, foreign, stranger, history>>

LeaderForks(r) ==
  /\ r \in Forking /\ leader[r] = "working" /\ ~helper[r]
  /\ helper' = [helper EXCEPT ![r] = TRUE]
  /\ UNCHANGED <<paused, lock, registry, data, pc, local, exit, leader, foreign,
                 stranger, history>>

\* The command ends.
LeaderExits(r) ==
  /\ leader[r] = "working"
  /\ Kill(r, {"leader"})
  /\ UNCHANGED <<paused, lock, registry, data, pc, local, exit, stranger, history>>

\* The gated child reads end-of-file because nobody holds the writing end of
\* the pipe any more, and exits 75 (main's `_exec`); or somebody kills it.
GatedExits(r) ==
  /\ leader[r] = "gated" /\ (pc[r] \notin Launching \/ r \in Failing)
  /\ Kill(r, {"leader"})
  /\ UNCHANGED <<paused, lock, registry, data, pc, local, exit, stranger, history>>

HelperExits(r) ==
  /\ helper[r]
  /\ Kill(r, {"helper"})
  /\ UNCHANGED <<paused, lock, registry, data, pc, local, exit, stranger, history>>

\* The group is empty and its leader reaped: the number is given away.
GroupRecycled(r) ==
  /\ r \in Recycling /\ leader[r] = "gone" /\ Group(r) = {}
  /\ foreign' = [foreign EXCEPT ![r] = TRUE]
  /\ UNCHANGED <<paused, lock, registry, data, pc, local, exit, leader, helper,
                 stranger, history>>

ForeignExits(r) ==
  /\ foreign[r]
  /\ Kill(r, {"foreign"})
  /\ UNCHANGED <<paused, lock, registry, data, pc, local, exit, stranger, history>>

\* The process number of a dead supervisor is given away.
PidRecycled(r) ==
  /\ r \in Recycling \ stranger /\ pc[r] \in {"done", "crashed"}
  /\ stranger' = stranger \cup {r}
  /\ UNCHANGED <<paused, lock, registry, data, pc, local, exit, leader, helper,
                 foreign, history>>

-----------------------------------------------------------------------------
\* What the supervisor of r does when nothing fails.
Step(r) ==
  \/ Register(r) \/ RunNatively(r)
  \/ GiveUp(r) \/ Sample(r) \/ AdmitUnavailable(r)
  \/ Claim(r) \/ DecideTooLate(r) \/ Allow(r) \/ Deny(r)
  \/ Fork(r) \/ Publish(r) \/ Open(r)
  \/ Poll(r) \/ Observe(r) \/ React(r)
  \/ BridgePaused(r) \/ BridgeTerm(r) \/ BridgeRefused(r) \/ Escalate(r)
  \/ Cleanup(r) \/ Retire(r)

Failure(r) ==
  \/ RegisterFails(r) \/ DecideFails(r) \/ LaunchFails(r)
  \/ ObserveFails(r) \/ LeaveUncleaned(r) \/ Crash(r)

Workload(r) == LeaderForks(r) \/ LeaderExits(r) \/ GatedExits(r) \/ HelperExits(r)
Recycled(r) == GroupRecycled(r) \/ ForeignExits(r) \/ PidRecycled(r)

Next == \/ TogglePause
        \/ \E r \in Runs : \/ Step(r) \/ Failure(r) \/ Signal(r) \/ Expire(r)
                           \/ Workload(r) \/ Recycled(r)

Spec == Init /\ [][Next]_vars

(***************************************************************************)
(* Supervisors are ordinary processes that poll the lock every 50 ms for   *)
(* 35 s and hold it for milliseconds, so each of them keeps taking steps;  *)
(* an exception is raised rather than waited for; a gated child reads its  *)
(* pipe.  Nothing makes a wait expire: a request may have no deadline.     *)
(***************************************************************************)
Fairness == \A r \in Runs :
  /\ WF_vars(Step(r)) /\ WF_vars(RegisterFails(r)) /\ WF_vars(LaunchFails(r))
  /\ WF_vars(GatedExits(r))

\* For the properties that need it: commands, and strangers, end.
CommandsEnd == \A r \in Runs :
  WF_vars(LeaderExits(r)) /\ WF_vars(HelperExits(r)) /\ WF_vars(ForeignExits(r))

FairSpec == Spec /\ Fairness

(***************************************************************************)
(* Safety.                                                                 *)
(***************************************************************************)
\* Processes of a run's own command that are alive and past the gate.
Works(r) == leader[r] = "working" \/ helper[r]

\* Capacity is never given away behind the back of a live command: whatever
\* crashes, fails or is paused, the group of every opened gate is a running
\* entry of the registry (save before release; refresh and cleanup keep it).
WorkAccounted == \A r \in Runs : Works(r) => jobs[r].status = "running"

\* The supervisor finds its own entry wherever it looks it up: run() calls
\* next(j for j in jobs if j["id"] == ident) with no default.
OwnEntry ==
  \A r \in Runs :
    /\ pc[r] \in Queueing \cup {"launch", "forked"} => jobs[r].status = "waiting"
    /\ pc[r] \in Supervising \cup {"published"} => jobs[r].status = "running"

\* Two decisions never spend the same slot: finite jobs admitted by capacity
\* fit QUEUE_MAX_JOBS, those a pause let through not counted.
SlotBound == Cardinality(FiniteRunning(jobs) \ bypass) <= MaxJobs

\* One server per resource, paused or not.
OneHolder == \A q, r \in Running(jobs) \ Finite :
               ResourceOf[q] = ResourceOf[r] => q = r

\* At most 64 requests wait.
WaitingBound == Cardinality(Waiting(jobs)) <= MaxWaiting

\* A launch that was withheld, an expired wait and a reused resource never
\* ran the command, not even later (_exec reads end-of-file).
WithheldNeverRuns ==
  \A r \in Runs : pc[r] = "retire" \/ exit[r] \in {"expired", "claimed"} => r \notin ran

\* The supervisor reports the command's status only when its whole group,
\* background children included, has ended.
FinishedMeansEmpty ==
  \A r \in Runs : exit[r] = "finished" => leader[r] = "gone" /\ ~helper[r]

\* No step of another supervisor drops the entry of a live one, and no entry
\* ever goes back from running to waiting.
EntrySurvives(r) ==
  /\ jobs[r].status # "absent" /\ jobs'[r].status = "absent" /\ OwnerAlive(r)
       => pc[r] \in {"retire", "cleanup"}
  /\ jobs[r].status = "running" => jobs'[r].status # "waiting"
EntriesSurvive == [][\A r \in Runs : EntrySurvives(r)]_vars

(***************************************************************************)
(* Liveness.                                                               *)
(***************************************************************************)
\* The number of a command's group is not handed on for ever.
Unshared(r) == <>[]~foreign[r]

\* Nothing is left of the command but what must not be signalled.
OnlyAgents(r) == Group(r) # {} /\ Group(r) \subseteq Agents[r]

\* Once a signal is handled the supervisor ends, even if its command never
\* would (no failures; a pause, which disables the bridge, ends; it is not
\* an agent, which the bridge spares for ever, that keeps the group alive).
CancelHonoured ==
  \A r \in Runs : Unshared(r) /\ <>[]~paused /\ <>[]~OnlyAgents(r) =>
    (local[r].cancelled ~> pc[r] \in Ended)

\* r is decided, and is next if all that the slots admit fits in memory.
Turn(r) == /\ Deciding(r) /\ local[r].sampled
           /\ LET reg == Refresh(jobs) IN
              IsNext(reg, later, Admissible(reg), Waiting(reg), r)

\* From some point on memory denies nobody whose turn it is.
MemoryComes == <>[][\A r \in Runs : Deny(r) => ~Turn(r)]_vars

\* When commands end, so does every supervisor whose wait has a deadline, and
\* when memory comes so does one that would wait for ever: nobody is kept for
\* good by the lock, a slot, a server or somebody else's turn.
EveryRunEnds ==
  CommandsEnd /\ (\A r \in Runs : Unshared(r)) =>
    \A r \in Runs : WF_vars(Expire(r)) \/ MemoryComes => <>(pc[r] \in Ended)

\* A dead supervisor's waiting entry, or running entry without processes,
\* goes as long as another supervisor is at work.
AtWork(r) == pc[r] \in Queueing \cup Launching \cup Supervising
DeadEntry(r) == /\ pc[r] \in {"done", "crashed"}
                /\ \/ jobs[r].status = "waiting"
                   \/ jobs[r].status = "running" /\ Group(r) = {}
DeadEntriesPruned ==
  \A r \in Runs : DeadEntry(r) ~> (~DeadEntry(r) \/ \A q \in Runs : ~AtWork(q))

(***************************************************************************)
(* What repository texts say and the code does not do.                     *)
(***************************************************************************)
\* "Cancellation removes a waiting request without launching": no gate is
\* opened by a supervisor that has handled a signal.
CancelledNeverStarts == [][\A r \in ran' \ ran : ~local[r].cancelled]_vars

\* "resource already running as job ...; reuse it": some process of the
\* holder's group is alive when the request is turned away.
ClaimedIsAlive ==
  [][\A r \in Runs : exit'[r] = "claimed" /\ exit[r] # "claimed" =>
       \E q \in Holders(Refresh(jobs), r) : Group(q) # {}]_vars

(***************************************************************************)
(* The queue's promise, and how this state represents it.                  *)
(***************************************************************************)
Phase == [r \in Runs |->
  IF r \in ran THEN IF Works(r) THEN "started" ELSE "over"
  ELSE IF pc[r] = "idle" THEN "new"
  ELSE IF pc[r] \in Queueing \cup Launching THEN "queued" ELSE "refused"]

Queue == INSTANCE WorkloadQueue WITH phase <- Phase, waived <- bypass
Refinement == Queue!QueueSpec
=============================================================================
