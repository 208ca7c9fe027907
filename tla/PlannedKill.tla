---------------------------- MODULE PlannedKill -----------------------------
(***************************************************************************)
(* A registered job that is to be ended by a plan: scan proposes it, and   *)
(* mc_kill_pids (enforce.sh) carries it out, asking the planner again      *)
(* before it logs, before SIGTERM and, two seconds later, before SIGKILL.  *)
(* All the while the processes live on: they exit, fork, replace their     *)
(* program, leave the group; a number is used again; agents claim the job. *)
(* One behaviour is about one scope: an abandoned server (orphan), a boot  *)
(* that hangs, or a polling loop, waiting or running.                      *)
(***************************************************************************)
EXTENDS OrphanRecovery, HangingJobs

CONSTANTS Agent, Runner, Root, Child,   \* the processes that Init starts
          Scopes,                       \* the scopes of Init
          Moves                         \* bounds what happens around the watchdog

ASSUME PlannedAssumption ==
  /\ {Agent, Runner, Root, Child, Claimant} \subseteq Pids
  /\ Claimant \notin {Agent, Runner, Root, Child} /\ {Agent, Runner} \cap {Root, Child} = {}
  /\ Agent # Runner /\ Root # Child
  /\ Moves \in Nat

VARIABLES scope,    \* which plan the behaviour is about
          table,    \* the processes
          entry,    \* the entry of jobs.json, NoEntry when it is gone
          around,   \* what speaks against cleaning up, see Vetoed
          kill,     \* the watchdog: where it is, and its plan
          undisturbed, \* time since a claim was changed, or seen to hold
          born,     \* how often a number has been used
          moves     \* how much has happened around the watchdog

world == <<scope, table, around, born, moves>>
killvars == <<world, entry, kill, undisturbed>>

NoEntry == [status |-> "gone"]
Nobody == [p \in Pids |-> 0]
Never == [p \in Pids |-> [start |-> 0, command |-> "none", group |-> Init1]]

Members == [Pids -> 0..Uses]
LeaseShape == [at : 0..Lease + 1, since : 0..RecoveryGrace, clear : 0..RecoveryGrace,
               members : Members, commands : [Pids -> Commands \cup {"none"}]]
Entry == [status : {"waiting", "running"}, owner : {Runner}, owner_start : {1},
          agent : {Agent}, agent_start : {0, 1}, group : {Root, Init1},
          members : Members, footprint : Members, claim : 0..Uses,
          pinned : BOOLEAN, lease : LeaseShape]
Named == [start : 0..Uses, command : Commands \cup {"none"}, group : Pids \cup {Init1}]
Plan == [status : {"none", "waiting", "running"}, members : [Pids -> Named], age : 0..Fresh + 1]
Kill == [pc : {"read", "decide", "note", "term", "sleep", "kill"}, round : 0..4, plan : Plan,
         seen : SUBSET {"client"}, kept : SUBSET Pids, job : Entry \cup {NoEntry},
         pids : SUBSET Pids, idents : [Pids -> Named]]

PlannedTypeOK ==
  /\ scope \in Scopes
  /\ table \in [Pids -> Row]
  /\ entry \in Entry \cup {NoEntry}
  /\ around \in SUBSET {"session", "client"}
  /\ kill \in Kill
  /\ undisturbed \in 0..RecoveryGrace
  /\ born \in [Pids -> 0..Uses]
  /\ moves \in 0..Moves

NoPlan == [status |-> "none", members |-> Never, age |-> 0]
Idle == [pc |-> "read", round |-> 0, plan |-> NoPlan, seen |-> {}, kept |-> {}, job |-> NoEntry,
         pids |-> {}, idents |-> Never]

(***************************************************************************)
(* The beginnings.                                                         *)
(***************************************************************************)
Process(parent, group, command, old) ==
  [start |-> 1, ppid |-> parent, group |-> group, command |-> command, old |-> old]

\* The agents, the runner and the group of the job; some may be gone.
Family(runner, root, child, gone, old) ==
  LET Parent(p) == IF p \in gone THEN Init1 ELSE p
  IN [p \in Pids |->
       IF p \in gone THEN NoRow ELSE
       CASE p \in {Agent, Claimant} -> Process(Init1, p, "agent", FALSE)
         [] p = Runner -> Process(Parent(Agent), Runner, runner, old)
         [] p = Root -> Process(Parent(Runner), Root, root, old)
         [] p = Child -> Process(Root, Root, child, old)
         [] OTHER -> NoRow]

Begun(gone, old) ==
  CASE scope = "orphan" -> Family("runner", "server", "server", gone, FALSE)
    [] scope = "boot" -> Family("runner", "shell", "boot", {}, old)
    [] scope = "waiting" -> Family("waiter", "poll", "sleep", {Root, Child}, old)
    [] OTHER -> Family("runner", "poll", "sleep", gone \cup {Runner}, old)

Registered(status, started) ==
  [status |-> status, owner |-> Runner, owner_start |-> 1, agent |-> Agent, agent_start |-> 1,
   group |-> IF status = "running" THEN Root ELSE Init1,
   members |-> started, footprint |-> started,
   claim |-> 0, pinned |-> FALSE, lease |-> NoLease]

PlannedInit ==
  /\ scope \in Scopes
  /\ \E gone \in SUBSET {Agent, Runner}, old \in BOOLEAN : table = Begun(gone, old)
  /\ entry = IF scope = "waiting" THEN Registered("waiting", Nobody)
             ELSE Registered("running", [p \in Pids |-> IF p \in {Root, Child} THEN 1 ELSE 0])
  /\ around = {}
  /\ kill = Idle
  /\ undisturbed = 0
  /\ born = [p \in Pids |-> 1]
  /\ moves = 0

\* One more thing that happens.
Moved == moves < Moves /\ moves' = moves + 1

(***************************************************************************)
(* The processes.                                                          *)
(***************************************************************************)
\* Children of a process that is gone are given to launchd.
Ended(gone) ==
  [p \in Pids |-> IF p \in gone THEN NoRow
                  ELSE [table[p] EXCEPT !.ppid = IF @ \in gone THEN Init1 ELSE @]]

Exits(p) ==
  /\ p \in InUse(table) /\ Moved
  /\ table' = Ended({p})
  /\ UNCHANGED <<scope, around, born, entry, kill, undisturbed>>

\* A number is free when no process and no group has it.
Free(p) == /\ p \notin InUse(table) /\ Group(table, p) = {} /\ born[p] < Uses

Starting(p, row) ==
  /\ Free(p) /\ Moved
  /\ table' = [table EXCEPT ![p] = row]
  /\ born' = [born EXCEPT ![p] = @ + 1]
  /\ UNCHANGED <<scope, around, entry, kill, undisturbed>>

\* A process of the job forks.
Forks(q, p) ==
  /\ q \in {Root, Child} \cap InUse(table)
  /\ Starting(p, [table[q] EXCEPT !.start = born[p] + 1, !.ppid = q, !.old = FALSE])

\* Somebody else's process gets the number.
Stranger(p) ==
  Starting(p, [start |-> born[p] + 1, ppid |-> Init1, group |-> p, command |-> "work", old |-> FALSE])

\* Another program, another group, another age.
Becomes(p) ==
  /\ p \in InUse(table) /\ Moved
  /\ \/ table' = [table EXCEPT ![p].command = "work"]
     \/ p = Child /\ table[p].group = Root /\ table' = [table EXCEPT ![p].group = p]
     \/ scope # "orphan" /\ table' = [table EXCEPT ![p].old = TRUE]
  /\ table' # table
  /\ UNCHANGED <<scope, around, born, entry, kill, undisturbed>>

(***************************************************************************)
(* The registry.                                                           *)
(***************************************************************************)
Started(S) == [p \in Pids |-> IF p \in S THEN table[p].start ELSE 0]

\* Scheduler.refresh, for one job: what it has and what is attributed to it.
Refreshed(job) ==
  LET group == Group(table, Root)
      alive == Same(table, Runner, 1)
      members == IF alive THEN Started(group) ELSE job.members
      known == {p \in Pids : Same(table, p, members[p]) \/ Same(table, p, job.footprint[p])} \ {Runner}
  IN IF job = NoEntry THEN NoEntry
     ELSE IF job.status = "waiting" THEN IF alive THEN job ELSE NoEntry
     ELSE IF ~alive /\ group = {} THEN NoEntry
     ELSE [job EXCEPT !.members = members,
                      !.footprint = Started(UNION {Descendants(p, table) : p \in known} \ {Runner})]

\* Any supervisor that takes the lock refreshes all jobs.
Refresh ==
  /\ Refreshed(entry) # entry
  /\ entry' = Refreshed(entry)
  /\ UNCHANGED <<world, kill, undisturbed>>

\* The supervisor of a waiting job is admitted and starts its group.
Admit ==
  /\ entry # NoEntry /\ entry.status = "waiting" /\ Runner \in InUse(table)
  /\ Free(Root) /\ Moved
  /\ table' = [table EXCEPT ![Root] = [Process(Runner, Root, "poll", FALSE) EXCEPT !.start = born[Root] + 1]]
  /\ born' = [born EXCEPT ![Root] = @ + 1]
  /\ entry' = [entry EXCEPT !.status = "running", !.group = Root,
                            !.members[Root] = born[Root] + 1, !.footprint[Root] = born[Root] + 1]
  /\ UNCHANGED <<scope, around, kill, undisturbed>>

\* Mutant: a claim leaves the lease as it is.
ClaimedOnly(claim, pinned) == [entry EXCEPT !.claim = claim, !.pinned = pinned]

\* A claim takes the lease, and with it the grace, away.
Claimed(claim, pinned) == [entry EXCEPT !.claim = claim, !.pinned = pinned, !.lease = NoLease]

\* claim: by a live agent, or its release; a pin, by anybody, or its end.
Claim ==
  /\ entry # NoEntry /\ Moved
  /\ \/ /\ Claimant \in InUse(table)
        /\ \E claim \in {0, table[Claimant].start} : entry' = Claimed(claim, entry.pinned)
     \/ entry' = Claimed(entry.claim, ~entry.pinned)
  /\ undisturbed' = 0
  /\ UNCHANGED <<scope, table, around, born, kill>>

\* Sessions and clients come and go.
Surround ==
  /\ scope = "orphan" /\ Moved
  /\ \E what \in {{"session"}, {"client"}} : around' = (around \ what) \cup (what \ around)
  /\ UNCHANGED <<scope, table, born, entry, kill, undisturbed>>

(***************************************************************************)
(* The watchdog.                                                           *)
(***************************************************************************)
\* What is read first.  orphan: the network.  The others: the protected claims,
\* under the lock, and jobs.json, without it.
Read ==
  /\ kill.pc = "read"
  /\ kill' = [kill EXCEPT !.pc = "decide",
                !.seen = IF scope = "orphan" THEN around \cap {"client"} ELSE {},
                !.kept = IF scope = "orphan" \/ kill.round < 2 \/ entry = NoEntry THEN {}
                         ELSE ProtectedClaims(entry, table),
                !.job = IF scope = "orphan" THEN NoEntry ELSE entry]
  /\ UNCHANGED <<world, entry, undisturbed>>

Naming(S) ==
  [p \in Pids |-> IF p \in S THEN [start |-> table[p].start, command |-> table[p].command,
                                    group |-> table[p].group] ELSE Never[p]]
Proposed(job, S) ==
  IF S = {} THEN Idle
  ELSE [Idle EXCEPT !.round = 1, !.plan.members = Naming(S), !.plan.status = job.status]

\* scan: refresh and observe under the lock, and save; or only look.
ScanOrphan ==
  LET job == Refreshed(entry) IN
  /\ scope = "orphan"
  /\ IF job = NoEntry THEN /\ kill' = Idle /\ entry' = NoEntry /\ undisturbed' = undisturbed
     ELSE LET lease == Observed(job, table, kill.seen, around) IN
       /\ entry' = [job EXCEPT !.lease = lease]
       /\ kill' = Proposed(job, IF LeaseRipe(lease) /\ ~Vetoed(job, table, kill.seen, around)
                                THEN Abandoned(job, table) ELSE {})
       /\ undisturbed' = IF job.pinned \/ LiveClaim(job, table) THEN 0 ELSE undisturbed

ScanOthers ==
  /\ scope # "orphan"
  /\ kill' = Proposed(kill.job, IF kill.job = NoEntry THEN {}
                                ELSE IF scope = "boot" THEN BootPlan(kill.job, table)
                                ELSE PollPlan(kill.job, table))
  /\ UNCHANGED <<entry, undisturbed>>

ScanJob == /\ kill.pc = "decide" /\ kill.round = 0
           /\ ScanOrphan \/ ScanOthers
           /\ UNCHANGED world

\* authorize, with the registry of the scope and the table of now.  A job that
\* has been admitted since is not the one of the plan.
Allowed(escalating) ==
  LET job == IF scope = "orphan" THEN entry ELSE kill.job
  IN IF job = NoEntry THEN {}
     ELSE IF job.status # kill.plan.status \/ kill.plan.age > Fresh THEN {}
     ELSE CASE scope = "orphan" -> OrphanAllowed(kill.plan, job, table, kill.seen, around, escalating)
            [] scope = "boot" -> BootAllowed(kill.plan, job, table, escalating)
            [] OTHER -> PollAllowed(kill.plan, job, table, escalating)

\* mc_filter_protected: round 1 only asks, 2 comes before the identities are
\* noted, 3 before SIGTERM, 4 before SIGKILL.
Filter ==
  /\ kill.pc = "decide" /\ kill.round > 0
  /\ LET allowed == Allowed(kill.round = 4) \ kill.kept
         pids == IF kill.round = 1 THEN allowed ELSE kill.pids \cap allowed
     IN kill' = IF pids = {} THEN Idle
                ELSE [kill EXCEPT !.pids = pids, !.seen = {}, !.kept = {}, !.job = NoEntry,
                        !.round = IF kill.round = 1 THEN 2 ELSE @,
                        !.pc = CASE kill.round = 1 -> "read" [] kill.round = 2 -> "note"
                                 [] kill.round = 3 -> "term" [] OTHER -> "kill"]
  /\ UNCHANGED <<world, entry, undisturbed>>

\* mc_pid_identity of each, while it is logged.
NoteIdentities ==
  /\ kill.pc = "note"
  /\ kill' = [kill EXCEPT !.idents = Naming(kill.pids), !.pc = "read", !.round = 3]
  /\ UNCHANGED <<world, entry, undisturbed>>

\* SIGTERM fails if nobody is left.  Who honours it exits in his own time.
Term ==
  /\ kill.pc = "term"
  /\ kill' = IF kill.pids \cap InUse(table) = {} THEN Idle ELSE [kill EXCEPT !.pc = "sleep"]
  /\ UNCHANGED <<world, entry, undisturbed>>

\* Two seconds later: those that are still what they were.
Survivors ==
  /\ kill.pc = "sleep"
  /\ LET alive == {p \in kill.pids \cap InUse(table) : Naming({p})[p] = kill.idents[p]}
     IN kill' = IF alive = {} THEN Idle
                ELSE [kill EXCEPT !.pids = alive, !.pc = "read", !.round = 4]
  /\ UNCHANGED <<world, entry, undisturbed>>

KillNow ==
  /\ kill.pc = "kill"
  /\ table' = Ended(kill.pids)
  /\ kill' = Idle
  /\ UNCHANGED <<scope, around, born, moves, entry, undisturbed>>

\* memcap is paused, a measurement or a lock fails, another veto of the filter.
KillGivesUp ==
  /\ kill # Idle
  /\ kill' = Idle
  /\ UNCHANGED <<world, entry, undisturbed>>

Later(age, bound) == IF age < bound THEN age + 1 ELSE age

KillTick ==
  /\ kill' = [kill EXCEPT !.plan.age = IF kill.round = 0 THEN 0 ELSE Later(@, Fresh + 1)]
  /\ entry' = IF entry = NoEntry \/ entry.lease = NoLease THEN entry
              ELSE [entry EXCEPT !.lease.at = Later(@, Lease + 1),
                                 !.lease.since = Later(@, RecoveryGrace), !.lease.clear = Later(@, RecoveryGrace)]
  /\ undisturbed' = Later(undisturbed, RecoveryGrace)
  /\ scope = "orphan" \/ kill.round > 0
  /\ UNCHANGED world

PlannedNext ==
  \/ Read \/ ScanJob \/ Filter \/ NoteIdentities \/ Term \/ Survivors \/ KillNow \/ KillGivesUp \/ KillTick
  \/ Refresh \/ Admit \/ Claim \/ Surround
  \/ \E p \in Pids : Exits(p)
  \/ \E p \in {Root, Child} : Stranger(p) \/ \E q \in {Root, Child} : Forks(q, p)
  \/ \E p \in {Runner, Root, Child} : Becomes(p)

PlannedSpec == PlannedInit /\ [][PlannedNext]_killvars

(***************************************************************************)
(* Properties.                                                             *)
(***************************************************************************)
Decides(pc) == kill.pc = "decide" /\ kill'.pc = pc

\* README.md:456: "known development-server groups may be cleaned up after two
\* minutes"; a claim or a pin, even one that comes and goes between two scans
\* or during the kill itself, starts them again, and SIGKILL waits for it too.
GraceUninterrupted ==
  [][scope = "orphan" /\ (Decides("term") \/ Decides("kill")) => undisturbed = RecoveryGrace]_killvars

\* "Never cancel only the children of a protected shell and let its remaining
\* script continue": whenever a signal is decided on, it is for all that is left
\* of the job, for processes of the plan only, and nothing that has joined the
\* group or descends from it is left out.
WholeAttempt ==
  [][Decides("term") \/ Decides("kill") =>
       LET job == IF scope = "orphan" THEN entry ELSE kill.job
           all == IF job.status = "waiting" THEN {Runner} \cap InUse(table)
                  ELSE Group(table, Root)
       IN /\ kill'.pids = all
          /\ \A p \in all : /\ table[p].start = kill.plan.members[p].start
                            /\ Descendants(p, table) \subseteq all]_killvars
=============================================================================
