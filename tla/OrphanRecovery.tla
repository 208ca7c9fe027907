--------------------------- MODULE OrphanRecovery ---------------------------
(***************************************************************************)
(* orphan_recovery.py: the observation lease of a managed job whose        *)
(* supervisor or whose agent is gone, and the plan to end its group.  The  *)
(* decisions, as operators over a registry entry and the process table;    *)
(* PlannedKill runs them.  Times are ages, in units of 30 seconds.         *)
(***************************************************************************)
EXTENDS ProcessTable

CONSTANTS RecoveryGrace, \* GRACE: observed without a veto for so long
          Lease,         \* LEASE: an observation is good for so long
          Fresh,         \* a plan is good for so long
          Claimant       \* the agent that may claim the group

ASSUME LeaseAssumption == RecoveryGrace \in Nat /\ Lease \in Nat /\ Fresh \in Nat /\ RecoveryGrace > Lease

\* Mutant: only a missing supervisor or agent is asked for.
AbandonedMembersBlind(job, table) ==
  IF \/ job.status # "running"
     \/ Same(table, job.owner, job.owner_start)
        /\ (job.agent_start = 0 \/ Same(table, job.agent, job.agent_start))
  THEN {} ELSE Group(table, job.group)

\* bound: the group of an abandoned job, if all of it is known.  The supervisor
\* is gone, or the agent that asked for the job.
Abandoned(job, table) ==
  LET group == Group(table, job.group)
      gone == job.agent_start > 0 /\ ~Same(table, job.agent, job.agent_start)
  IN IF /\ job.status = "running"
        /\ Same(table, job.owner, job.owner_start) => gone
        /\ \A p \in group : /\ Same(table, p, job.members[p])
                            /\ Descendants(p, table) \subseteq group
        \* remembered descendants outside the group are still work
        /\ \A p \in Pids \ group : ~Same(table, p, job.footprint[p])
     THEN group ELSE {}

\* The identities of a group, and the command lines with them.
Identities(table, S) == [p \in Pids |-> IF p \in S THEN table[p].start ELSE 0]
Described(table, S) == [p \in Pids |-> IF p \in S THEN table[p].command ELSE "none"]

NoLease == [at |-> Lease + 1, since |-> 0, clear |-> 0,
            members |-> [p \in Pids |-> 0], commands |-> [p \in Pids |-> "none"]]

Renewable(lease) == lease.at <= Lease

\* recovered: the watchdog has measured this very group within the lease.
Recovered(job, table) ==
  LET group == Abandoned(job, table)
  IN group # {} /\ Renewable(job.lease) /\ job.lease.members = Identities(table, group)

LiveClaim(job, table) == Same(table, Claimant, job.claim)

\* protected_claims: a pinned or claimed job keeps all other scopes off.
ProtectedClaims(job, table) ==
  IF ~job.pinned /\ ~LiveClaim(job, table) THEN {}
  ELSE UNION {Descendants(p, table) : p \in {q \in Pids : Same(table, q, job.members[q])}}

\* cleanup_reason: why the group is left alone.  "session" stands for what other
\* jobs and sessions say against it (a shared process, a related live session,
\* an agent without lifecycle), "client" for what the network reading says (not
\* known, connected clients, no listener).
Vetoed(job, table, seen, around) ==
  LET group == Abandoned(job, table) IN
  \/ group = {}
  \/ job.agent_start = 0
  \/ Same(table, job.agent, job.agent_start)
  \/ job.pinned \/ LiveClaim(job, table)
  \/ "session" \in around \/ "client" \in seen
  \/ \E p \in group : table[p].command # "server" \/ AgentsAbove(p, table) # {}

\* observe: the lease after a scan.  It is the same observation only if the
\* group and its commands are the same and the last one is recent; a veto
\* starts the grace again.
Observed(job, table, seen, around) ==
  LET group == Abandoned(job, table)
      old == job.lease
      same == /\ old.members = Identities(table, group)
              /\ old.commands = Described(table, group)
              /\ Renewable(old)
  IN IF group = {} THEN NoLease
     ELSE [at |-> 0,
           since |-> IF same THEN old.since ELSE 0,
           clear |-> IF same /\ ~Vetoed(job, table, seen, around) THEN old.clear ELSE 0,
           members |-> Identities(table, group),
           commands |-> Described(table, group)]

LeaseRipe(lease) == lease.since >= RecoveryGrace /\ lease.clear >= RecoveryGrace

\* authorize: the members the plan may still be carried out on.
OrphanAllowed(plan, job, table, seen, around, escalating) ==
  LET group == Abandoned(job, table)
      named == {p \in Pids : plan.members[p].start > 0}
  IN IF /\ group # {}
        /\ Recovered(job, table) \/ (escalating /\ Renewable(job.lease))
        /\ ~Vetoed(job, table, seen, around)
        /\ IF escalating THEN group \subseteq named ELSE group = named
        /\ \A p \in group : /\ table[p].start = plan.members[p].start
                            /\ table[p].command = plan.members[p].command
        /\ LeaseRipe(job.lease)
     THEN group ELSE {}
=============================================================================
