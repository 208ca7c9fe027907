-------------------------- MODULE OwnedObservation --------------------------
(***************************************************************************)
(* job_observation.py and the supervision loop of scheduler.py: how the    *)
(* memory of a running job is measured by its own supervisor, and when a   *)
(* finished run may lower the estimates of later ones.  A sample is two    *)
(* process tables, each followed by a reading of every process; reconcile  *)
(* compares it with the registry, which refresh has brought up to date.    *)
(* Meanwhile processes fork and exit, and numbers are used again.          *)
(* Times are ages, in units of 5 seconds.                                  *)
(***************************************************************************)
EXTENDS ProcessTable, Functions

CONSTANTS Leader,    \* the process the supervisor has started
          Births,    \* bounds the forks
          Gap        \* no more than this between two samples

ASSUME ObservationAssumption == Leader \in Pids /\ Births \in Nat /\ Gap \in Nat

VARIABLES procs,      \* the process table
          forks,      \* how often a number was used
          attributed, \* job.footprint_members
          watch,      \* job.owned_observation
          probe,      \* the supervisor: where it is, and the sample it makes
          unmeasured  \* identities it has found and not measured

obsvars == <<procs, forks, attributed, watch, probe, unmeasured>>

Idents == [Pids -> 0..Uses]
None == [p \in Pids |-> 0]
Found(idents) == {<<p, idents[p]>> : p \in {q \in Pids : idents[q] > 0}}
StartsOf(S, table) == [p \in Pids |-> IF p \in S THEN table[p].start ELSE 0]

Sample == [complete : BOOLEAN, identities : Idents, births : Idents, measured : SUBSET Pids,
           missing : BOOLEAN, fault : BOOLEAN, gap : BOOLEAN, age : 0..Gap + 1]
NoSample == [complete |-> FALSE, identities |-> None, births |-> None, measured |-> {},
             missing |-> FALSE, fault |-> FALSE, gap |-> FALSE, age |-> 0]

ObservationTypeOK ==
  /\ procs \in [Pids -> Row] /\ forks \in [Pids -> 0..Uses]
  /\ attributed \in Idents
  /\ watch \in [last : 0..Gap + 1, samples : 0..2, incomplete : BOOLEAN, pending : Idents]
  /\ probe \in [pc : {"poll", "first", "again", "second", "account", "end"}, exited : BOOLEAN,
                before : Idents, reads : SUBSET Pids, after : Idents,
                sample : Sample, sampled : BOOLEAN, certified : BOOLEAN]
  /\ unmeasured \subseteq Pids \X (1..Uses)

ObservationInit ==
  /\ procs = [p \in Pids |-> IF p = Leader THEN [NoRow EXCEPT !.start = 1, !.group = Leader] ELSE NoRow]
  /\ forks = None
  /\ attributed = [p \in Pids |-> IF p = Leader THEN 1 ELSE 0]
  /\ watch = [last |-> 0, samples |-> 0, incomplete |-> FALSE, pending |-> None]
  /\ probe = [pc |-> "poll", exited |-> FALSE, before |-> None, reads |-> {}, after |-> None,
              sample |-> NoSample, sampled |-> FALSE, certified |-> FALSE]
  /\ unmeasured = {}

(***************************************************************************)
(* The processes of the job.                                               *)
(***************************************************************************)
\* A child inherits the group, or leaves it at once.
JobForks(q, p) ==
  /\ probe.pc # "end" /\ q \in InUse(procs) /\ p \notin InUse(procs)
  /\ forks[p] < Uses /\ FoldFunction(+, 0, forks) < Births /\ forks' = [forks EXCEPT ![p] = @ + 1]
  /\ \E group \in {procs[q].group, p} :
       procs' = [procs EXCEPT ![p] = [NoRow EXCEPT !.start = forks[p] + 1, !.ppid = q, !.group = group]]
  /\ UNCHANGED <<attributed, watch, probe, unmeasured>>

JobExits(p) ==
  /\ p \in InUse(procs)
  /\ procs' = [q \in Pids |-> IF q = p THEN NoRow
                              ELSE [procs[q] EXCEPT !.ppid = IF @ = p THEN Init1 ELSE @]]
  /\ UNCHANGED <<forks, attributed, watch, probe, unmeasured>>

(***************************************************************************)
(* refresh: what any supervisor with the lock attributes to the job.       *)
(***************************************************************************)
Attributed ==
  LET known == Group(procs, Leader) \cup {p \in Pids : Same(procs, p, attributed[p])}
  IN StartsOf(UNION {Descendants(p, procs) : p \in known}, procs)

OthersRefresh ==
  /\ attributed' = Attributed /\ attributed' # attributed /\ probe.pc # "end"
  /\ UNCHANGED <<procs, forks, watch, probe, unmeasured>>

(***************************************************************************)
(* sample_job.                                                             *)
(***************************************************************************)
\* members: the anchors that are left, their group, and what descends from them.
MembersOf(idents) ==
  LET anchors == {p \in Pids : Same(procs, p, idents[p])}
  IN IF anchors = {} THEN None
     ELSE StartsOf(UNION {Descendants(p, procs) : p \in anchors \cup Group(procs, Leader)}, procs)

\* poll, and if the command still runs the first table.
Poll ==
  /\ probe.pc = "poll"
  /\ LET running == Leader \in InUse(procs)
         before == MembersOf(attributed)
     IN /\ probe' = [probe EXCEPT !.exited = ~running, !.before = IF running THEN before ELSE None,
                       !.sampled = running, !.sample = [NoSample EXCEPT !.gap = watch.last > Gap],
                       !.pc = IF ~running \/ before = None THEN "account" ELSE "first"]
        /\ unmeasured' = IF running THEN unmeasured \cup Found(before) ELSE unmeasured
  /\ UNCHANGED <<procs, forks, attributed, watch>>

StillThere(idents) == {p \in Pids : Same(procs, p, idents[p])}

FirstReads ==
  /\ probe.pc = "first"
  /\ probe' = [probe EXCEPT !.reads = StillThere(probe.before), !.pc = "again"]
  /\ UNCHANGED <<procs, forks, attributed, watch, unmeasured>>

\* The second table; its anchors are the members of the first.
AgainTable ==
  /\ probe.pc = "again"
  /\ probe' = [probe EXCEPT !.after = MembersOf(probe.before), !.pc = "second"]
  /\ unmeasured' = unmeasured \cup Found(MembersOf(probe.before))
  /\ UNCHANGED <<procs, forks, attributed, watch>>

\* Measured are the processes of both tables that both readings have found.
Paired(before, after, reads) == {p \in reads : after[p] = before[p]} \cap StillThere(before)

SecondReads ==
  /\ probe.pc = "second"
  /\ LET before == probe.before
         after == probe.after
         paired == Paired(before, after, probe.reads)
         missing == \E p \in Pids : before[p] > 0 /\ p \notin paired
         joined == [p \in Pids |-> IF before[p] = 0 THEN after[p] ELSE 0]
     IN probe' = [probe EXCEPT !.pc = "account", !.sample =
                    [complete |-> before = after /\ ~missing, identities |-> before,
                     births |-> IF missing \/ \E p \in Pids : before[p] > 0 /\ after[p] # before[p]
                                THEN None ELSE joined,
                     measured |-> paired, missing |-> missing, fault |-> FALSE,
                     gap |-> watch.last > Gap, age |-> 0]]
  /\ UNCHANGED <<procs, forks, attributed, watch, unmeasured>>

\* A probe fails; identities that are known by then stay in the sample.
SampleFails ==
  /\ probe.pc \in {"first", "again", "second"}
  /\ probe' = [probe EXCEPT !.pc = "account", !.sample =
                 [NoSample EXCEPT !.fault = TRUE, !.gap = watch.last > Gap,
                    !.identities = IF probe.pc = "second" THEN probe.before ELSE None]]
  /\ UNCHANGED <<procs, forks, attributed, watch, unmeasured>>

(***************************************************************************)
(* reconcile and accumulate.                                               *)
(***************************************************************************)
\* Mutant: an identity that is gone is simply forgotten.
LostForgotten(pending, sample, current) == {}

\* Pending identities that can never be measured any more: gone, or their number
\* belongs to a later birth.
Lost(pending, sample, current) ==
  LET settled(p) == sample.complete /\ sample.identities[p] = pending[p] /\ p \in sample.measured
  IN {p \in Pids : /\ pending[p] > 0
                   /\ \/ sample.births[p] \notin {0, pending[p]}
                      \/ ~settled(p) /\ current[p] # pending[p]}
     \cup {p \in Pids : sample.births[p] > 0 /\ current[p] # sample.births[p]}

Reconciled(state, sample, current) ==
  LET pending == [p \in Pids |-> IF sample.births[p] > 0 THEN sample.births[p] ELSE state.pending[p]]
      failed == Lost(state.pending, sample, current) # {}
      kept(p) == /\ pending[p] > 0 /\ current[p] = pending[p]
                 /\ ~(sample.complete /\ sample.identities[p] = pending[p] /\ p \in sample.measured)
      birthOnly == sample.births # None /\ ~sample.missing /\ ~sample.fault /\ ~failed
      complete == sample.complete /\ ~failed
  IN [last |-> sample.age,
      samples |-> IF complete /\ state.samples < 2 THEN state.samples + 1 ELSE state.samples,
      incomplete |-> state.incomplete \/ (~complete /\ ~birthOnly) \/ sample.gap,
      pending |-> [p \in Pids |-> IF kept(p) THEN pending[p]
                                  ELSE IF sample.identities[p] # current[p] THEN current[p]
                                  ELSE 0]]

\* complete_at
Certifies(state) ==
  state.samples = 2 /\ ~state.incomplete /\ state.pending = None /\ state.last <= Gap

\* The rest of the loop, under the lock.  A sample of nothing, made while the
\* command ended, does not count (terminal_empty).
Account ==
  /\ probe.pc = "account"
  /\ LET current == Attributed
         sample == probe.sample
         exited == probe.exited \/ (probe.sampled /\ Leader \notin InUse(procs))
         counts == probe.sampled /\ ~(exited /\ current = None /\ sample.identities = None /\ ~sample.fault)
         done == exited /\ Group(procs, Leader) = {}
         state == IF counts THEN Reconciled(watch, sample, current) ELSE watch
     IN /\ attributed' = current
        /\ watch' = state
        /\ unmeasured' = IF counts
             THEN (unmeasured \cup Found(current)) \ {<<p, sample.identities[p]>> : p \in sample.measured}
             ELSE unmeasured
        /\ \E success \in BOOLEAN :
             probe' = [probe EXCEPT !.pc = IF done THEN "end" ELSE "poll", !.exited = FALSE,
                         !.before = None, !.after = None, !.reads = {}, !.sample = NoSample,
                         !.sampled = FALSE,
                         !.certified = done /\ success /\ current = None /\ Certifies(state)]
  /\ UNCHANGED <<procs, forks>>

ObservationTick ==
  /\ probe.pc # "end"
  /\ watch' = [watch EXCEPT !.last = IF @ <= Gap THEN @ + 1 ELSE @]
  /\ probe' = [probe EXCEPT !.sample.age =
                 IF probe.pc = "account" /\ probe.sampled /\ @ <= Gap THEN @ + 1 ELSE @]
  /\ UNCHANGED <<procs, forks, attributed, unmeasured>>

ObservationNext ==
  \/ Poll \/ FirstReads \/ AgainTable \/ SecondReads \/ SampleFails \/ Account
  \/ OthersRefresh \/ ObservationTick
  \/ \E p \in Pids : JobExits(p) \/ \E q \in Pids : p # Leader /\ JobForks(q, p)

ObservationSpec == ObservationInit /\ [][ObservationNext]_obsvars

(***************************************************************************)
(* Properties.                                                             *)
(***************************************************************************)
\* job_observation.py:105-107: losing an identity before a complete paired read
\* permanently poisons downward learning.  A run whose peak may lower estimates
\* has measured every process its supervisor has found, in the tables of a
\* sample or in the registry, while the command ran.
CertifiedMeansMeasured == probe.certified => unmeasured = {}
=============================================================================
