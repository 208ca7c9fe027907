----------------------------- MODULE HangingJobs ----------------------------
(***************************************************************************)
(* boot_timeout.py and poll_cleanup.py: which registered jobs hang in a    *)
(* simulator boot or do nothing but wait, as operators over a registry     *)
(* entry and the process table; PlannedKill runs them.                     *)
(***************************************************************************)
EXTENDS ProcessTable

(***************************************************************************)
(* boot_timeout.py                                                         *)
(***************************************************************************)
\* bound: the whole group of a job whose supervisor lives under a live agent.
BootBound(job, table) ==
  LET group == Group(table, job.group) IN
  IF /\ job.status = "running"
     /\ Same(table, job.owner, job.owner_start)
     /\ AgentsAbove(job.owner, table) # {}
     /\ \A p \in group : Same(table, p, job.members[p])
  THEN group ELSE {}

\* plan: one boot of more than LIMIT seconds, and only shells and helpers
\* around it; nothing of the attempt is outside of the group.
BootPlan(job, table) ==
  LET group == BootBound(job, table)
      boots == {p \in group : table[p].command = "boot" /\ table[p].old}
  IN IF /\ job.group \in group
        /\ table[job.group].ppid = job.owner
        /\ Descendants(job.group, table) = group
        /\ \E b \in boots : /\ boots = {b}
                            /\ \A p \in group \ {b} : table[p].command \in {"shell", "sleep"}
     THEN group ELSE {}

\* Every process is the one that was planned for.
AsPlanned(plan, table, S) ==
  \A p \in S : table[p].start = plan.members[p].start /\ table[p].command = plan.members[p].command

\* authorize
BootAllowed(plan, job, table, escalating) ==
  LET group == BootBound(job, table)
      named == {p \in Pids : plan.members[p].start > 0}
  IN IF /\ group \subseteq named
        /\ AsPlanned(plan, table, group)
        /\ \A p \in group : Descendants(p, table) \subseteq group
        /\ escalating \/ (BootPlan(job, table) = named)
     THEN group ELSE {}

(***************************************************************************)
(* poll_cleanup.py                                                         *)
(***************************************************************************)
\* plan, for a job that waits in the queue: its supervisor, whose command is a
\* polling loop.
PollWaiting(job, table) ==
  IF /\ job.status = "waiting"
     /\ Same(table, job.owner, job.owner_start)
     /\ AgentsAbove(job.owner, table) # {}
     /\ table[job.owner].old /\ table[job.owner].command = "waiter"
     /\ job.group = Init1 /\ \A p \in Pids : job.members[p] = 0
     /\ Descendants(job.owner, table) = {job.owner}
  THEN {job.owner} ELSE {}

\* plan, for a job that runs without supervisor: a polling shell and its sleeps.
PollRunning(job, table) ==
  LET root == job.group
      group == Group(table, root)
  IN IF /\ job.status = "running"
        /\ ~Same(table, job.owner, job.owner_start)
        /\ root \in InUse(table) /\ table[root].ppid = Init1 /\ table[root].old
        /\ Same(table, root, job.members[root])
        /\ table[root].command = "poll"
        /\ Descendants(root, table) = group
        /\ \A p \in group \ {root} : table[p].ppid = root /\ table[p].command = "sleep"
     THEN group ELSE {}

PollPlan(job, table) == PollWaiting(job, table) \cup PollRunning(job, table)

\* authorize: before SIGTERM the plan must come out the same; before SIGKILL
\* the survivors must be, and nobody else may have joined the group.
PollAllowed(plan, job, table, escalating) ==
  LET named == {p \in Pids : plan.members[p].start > 0}
      left == named \cap InUse(table)
  IN IF ~escalating
     THEN IF PollPlan(job, table) = named /\ AsPlanned(plan, table, named)
             /\ \A p \in named : table[p].group = plan.members[p].group
          THEN named ELSE {}
     ELSE IF /\ AsPlanned(plan, table, left)
             /\ \A p \in left : /\ table[p].group = plan.members[p].group
                                /\ Descendants(p, table) \subseteq left
             /\ job.status = "running" => Group(table, job.group) \subseteq left
          THEN left ELSE {}
=============================================================================
