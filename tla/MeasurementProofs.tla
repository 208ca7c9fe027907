------------------------- MODULE MeasurementProofs -------------------------
(***************************************************************************)
(* Proofs about the modules that measure.                                  *)
(*                                                                         *)
(* OwnedObservation: ObsInv says what a sample knows of the two tables it  *)
(* was made of, and that an identity which is found and not measured is    *)
(* pending, or of the tables in hand, as long as the observation counts as *)
(* complete.  A complete observation with nothing pending and no sample in *)
(* the making has thus measured everything.                                *)
(*                                                                         *)
(* NativeObserver: NativeInv follows a measurement through a tick.  The    *)
(* births of a number only go up, so that a process which is there at the  *)
(* end with the start that was measured was there at the second table too; *)
(* the second table agrees with the first, whose walk down from the        *)
(* command never left its tree.                                            *)
(*                                                                         *)
(* Allowance: AllowanceInv says what the allowance, the peak of the        *)
(* lifetime and the window of an entry know of what was measured: the      *)
(* first two cover it, and the window has a row for whatever was           *)
(* measured since it began (InWindow).  A window that is full reaches back *)
(* further than anything that still has to be covered, so that its highest *)
(* row does; one that restarts begins with a peak, which does too.         *)
(*                                                                         *)
(* Budget: SampleIsPast says that a sample has no more of the jobs than    *)
(* they had when the free memory was read and its excess, and nothing of   *)
(* one that was not running.  So what the sample has of a job, less the    *)
(* excess, and what is set aside for it cover its memory, job by job and   *)
(* thus (SumsCover) in sum.                                                *)
(*                                                                         *)
(* Estimates: EstimatesInv says that the floor of a profile is what the    *)
(* largest growth of its context, in runs with a profile, asks for, and    *)
(* that the samples which count as later are no more than the complete     *)
(* runs since (IsFloor).  A run completes with a peak it has shown before  *)
(* (Shows), so that only growth moves the floor; capping or expiring       *)
(* samples only makes later ones fewer.                                    *)
(***************************************************************************)
EXTENDS MCMeasurement, ProcessTableProofs, SequenceTheorems

(***************************************************************************)
(* OwnedObservation.                                                       *)
(***************************************************************************)
\* A sample of two tables.  Every process of the first was measured, or one is missing;
\* what only the second has is a birth, unless the first has changed by then.
OfTwoTables(sample) ==
  /\ probe.before # None /\ ~sample.fault /\ sample.identities = probe.before
  /\ ~sample.missing => \A p \in Pids : probe.before[p] > 0 => p \in sample.measured
  /\ sample.complete => probe.before = probe.after /\ ~sample.missing
  /\ sample.births # None =>
       \A p \in Pids : /\ probe.before[p] > 0 => probe.after[p] = probe.before[p]
                       /\ probe.before[p] = 0 => sample.births[p] = probe.after[p]

\* A probe that has failed, and one that has found nothing to measure.
OfFailure(sample) == sample.fault /\ ~sample.complete /\ sample.births = None
OfNothing(sample) ==
  /\ probe.before = None /\ probe.after = None
  /\ ~sample.fault /\ ~sample.complete /\ sample.births = None /\ sample.identities = None

SampleKnows ==
  /\ probe.pc \in {"poll", "end"} => probe.before = None /\ probe.after = None
  /\ probe.pc \in {"first", "again", "second"} => probe.sampled /\ probe.before # None
  /\ probe.pc \in {"first", "again"} => probe.after = None
  /\ probe.pc = "account" => \/ probe.sampled /\ OfTwoTables(probe.sample)
                             \/ probe.sampled /\ OfFailure(probe.sample)
                             \/ OfNothing(probe.sample)

\* As long as the observation counts as complete, what is still unmeasured is pending or
\* of the tables of the sample that is being made.
UnmeasuredPending ==
  /\ ~watch.incomplete => unmeasured \subseteq Found(watch.pending) \cup Found(probe.before) \cup Found(probe.after)
  /\ probe.certified => probe.pc = "end" /\ unmeasured = {}

ObsInv == ObservationTypeOK /\ SampleKnows /\ UnmeasuredPending

LEMMA TableTypes ==
  ASSUME NEW table \in [Pids -> Row], NEW S
  PROVE  StartsOf(S, table) \in Idents
BY PidsAssumption DEF StartsOf, Idents, Row

LEMMA BornRow ==
  ASSUME NEW born \in 0..Uses, born < Uses, NEW parent \in Pids \cup {Init1},
         NEW group \in Pids \cup {Init1}
  PROVE  /\ [NoRow EXCEPT !.start = born + 1, !.ppid = parent, !.group = group] \in Row
         /\ [NoRow EXCEPT !.start = born + 1, !.ppid = parent] \in Row
         /\ NoRow \in Row
<1>1. born + 1 \in 0..Uses /\ 0 \in 0..Uses
  BY PidsAssumption
<1> QED BY <1>1 DEF NoRow, Row, Commands

LEMMA IdentTypes ==
  /\ None \in Idents /\ Uses \in Nat
  /\ procs \in [Pids -> Row] => /\ Attributed \in Idents
                                /\ \A idents : MembersOf(idents) \in Idents
  /\ \A idents \in Idents : Found(idents) \subseteq Pids \X (1..Uses)
<1>1. None \in Idents /\ Uses \in Nat
  BY PidsAssumption DEF None, Idents
<1>2. ASSUME procs \in [Pids -> Row] PROVE Attributed \in Idents
  BY <1>2, TableTypes DEF Attributed
<1>3. ASSUME procs \in [Pids -> Row], NEW idents PROVE MembersOf(idents) \in Idents
  BY <1>1, <1>3, TableTypes DEF MembersOf
<1>4. ASSUME NEW idents \in Idents PROVE Found(idents) \subseteq Pids \X (1..Uses)
  BY <1>1, <1>4 DEF Found, Idents
<1> QED BY <1>1, <1>2, <1>3, <1>4

LEMMA FoundNone == Found(None) = {}
BY DEF Found, None

\* Every sample that the steps make.
LEMMA SampleTypes ==
  /\ NoSample \in Sample
  /\ \A gap \in BOOLEAN : [NoSample EXCEPT !.gap = gap] \in Sample
  /\ \A gap \in BOOLEAN, idents \in Idents :
       [NoSample EXCEPT !.fault = TRUE, !.gap = gap, !.identities = idents] \in Sample
  /\ \A complete, missing, gap \in BOOLEAN, idents, born \in Idents, measured \in SUBSET Pids :
       [complete |-> complete, identities |-> idents, births |-> born, measured |-> measured,
        missing |-> missing, fault |-> FALSE, gap |-> gap, age |-> 0] \in Sample
<1>1. 0 \in 0..Gap + 1 /\ None \in Idents
  BY ObservationAssumption, IdentTypes
<1> QED BY <1>1 DEF NoSample, Sample

\* The types of the fields, so that a step can name those it changes.
LEMMA ObsFields ==
  ASSUME ObservationTypeOK
  PROVE  /\ watch.last \in 0..Gap + 1 /\ watch.samples \in 0..2 /\ watch.incomplete \in BOOLEAN
         /\ watch.pending \in Idents /\ probe.before \in Idents /\ probe.after \in Idents
         /\ probe.sample \in Sample /\ probe.exited \in BOOLEAN /\ probe.sampled \in BOOLEAN
         /\ probe.certified \in BOOLEAN /\ probe.reads \subseteq Pids
         /\ probe.pc \in {"poll", "first", "again", "second", "account", "end"}
         /\ 0 \in 0..Gap + 1 /\ Gap \in Nat /\ NoSample \in Sample
         /\ probe.sample.age \in 0..Gap + 1 /\ probe.sample.identities \in Idents
         /\ probe.sample.births \in Idents /\ probe.sample.measured \subseteq Pids
<1>1. Gap \in Nat /\ 0 \in 0..Gap + 1
  BY ObservationAssumption
<1>2. NoSample \in Sample
  BY <1>1, IdentTypes, SampleTypes
<1>3. probe.sample \in Sample
  BY DEF ObservationTypeOK
<1> QED BY <1>1, <1>2, <1>3 DEF ObservationTypeOK, Sample

Watch == [last : 0..Gap + 1, samples : 0..2, incomplete : BOOLEAN, pending : Idents]

LEMMA ReconciledTypes ==
  ASSUME ObservationTypeOK, NEW current \in Idents
  PROVE  Reconciled(watch, probe.sample, current) \in Watch
<1>1. /\ watch.samples \in 0..2 /\ watch.incomplete \in BOOLEAN /\ watch.pending \in Idents
      /\ probe.sample.age \in 0..Gap + 1 /\ probe.sample.births \in Idents
  BY ObsFields
<1> DEFINE sample == probe.sample
           failed == Lost(watch.pending, sample, current) # {}
           complete == sample.complete /\ ~failed
           birthOnly == sample.births # None /\ ~sample.missing /\ ~sample.fault /\ ~failed
           pending == [p \in Pids |-> IF sample.births[p] > 0 THEN sample.births[p] ELSE watch.pending[p]]
           kept(p) == /\ pending[p] > 0 /\ current[p] = pending[p]
                      /\ ~(sample.complete /\ sample.identities[p] = pending[p] /\ p \in sample.measured)
           left == [p \in Pids |-> IF kept(p) THEN pending[p]
                                   ELSE IF sample.identities[p] # current[p] THEN current[p] ELSE 0]
           samples == IF complete /\ watch.samples < 2 THEN watch.samples + 1 ELSE watch.samples
           incomplete == watch.incomplete \/ (~complete /\ ~birthOnly) \/ sample.gap
<1>2. Reconciled(watch, sample, current)
        = [last |-> sample.age, samples |-> samples, incomplete |-> incomplete, pending |-> left]
  BY DEF Reconciled
<1>3. pending \in Idents
  BY <1>1 DEF Idents
<1>4. left \in Idents
  <2> HIDE DEF pending
  <2> SUFFICES ASSUME NEW p \in Pids
               PROVE  (IF kept(p) THEN pending[p]
                       ELSE IF sample.identities[p] # current[p] THEN current[p] ELSE 0) \in 0..Uses
    BY DEF Idents
  <2> HIDE DEF kept
  <2> QED BY <1>3, IdentTypes DEF Idents
<1>5. samples \in 0..2
  BY <1>1
<1>6. incomplete \in BOOLEAN
  BY <1>1, ObsFields DEF Sample
<1> HIDE DEF left, samples, incomplete
<1> QED BY <1>1, <1>2, <1>4, <1>5, <1>6 DEF Watch

\* What Account makes of the probe, and when it certifies the run.
AccountState(counts) == IF counts THEN Reconciled(watch, probe.sample, Attributed) ELSE watch

LEMMA AccountNext ==
  ASSUME Account
  PROVE  \E next \in {"end", "poll"}, certified \in BOOLEAN, counts \in BOOLEAN :
           /\ probe' = [probe EXCEPT !.pc = next, !.exited = FALSE, !.before = None, !.after = None,
                                     !.reads = {}, !.sample = NoSample, !.sampled = FALSE,
                                     !.certified = certified]
           /\ watch' = AccountState(counts)
           /\ counts => probe.sampled
           /\ ~counts => ~probe.sampled \/ (probe.sample.identities = None /\ ~probe.sample.fault)
           /\ unmeasured' = IF counts
                THEN (unmeasured \cup Found(Attributed))
                       \ {<<p, probe.sample.identities[p]>> : p \in probe.sample.measured}
                ELSE unmeasured
           /\ certified => next = "end" /\ Certifies(watch')
<1> DEFINE exited == probe.exited \/ (probe.sampled /\ Leader \notin InUse(procs))
           counts == /\ probe.sampled
                     /\ ~(exited /\ Attributed = None /\ probe.sample.identities = None /\ ~probe.sample.fault)
           done == exited /\ Group(procs, Leader) = {}
           next == IF done THEN "end" ELSE "poll"
<1>1. PICK success \in BOOLEAN :
        probe' = [probe EXCEPT !.pc = next, !.exited = FALSE,
                    !.before = None, !.after = None, !.reads = {}, !.sample = NoSample, !.sampled = FALSE,
                    !.certified = done /\ success /\ Attributed = None /\ Certifies(watch')]
  BY DEF Account
<1> DEFINE certified == done /\ success /\ Attributed = None /\ Certifies(watch')
<1>2. certified \in BOOLEAN /\ counts \in BOOLEAN /\ next \in {"end", "poll"}
  OBVIOUS
<1>3. watch' = AccountState(counts)
      /\ unmeasured' = IF counts
                THEN (unmeasured \cup Found(Attributed))
                       \ {<<p, probe.sample.identities[p]>> : p \in probe.sample.measured}
                ELSE unmeasured
  BY DEF Account, AccountState
<1>4. certified => next = "end" /\ Certifies(watch')
  OBVIOUS
<1>5. /\ counts => probe.sampled
      /\ ~counts => ~probe.sampled \/ (probe.sample.identities = None /\ ~probe.sample.fault)
  OBVIOUS
<1> HIDE DEF counts, next, certified
<1> QED BY <1>1, <1>2, <1>3, <1>4, <1>5 DEF certified

\* The whole step of a supervisor keeps the state well formed.
LEMMA ObsTypes ==
  ASSUME ObservationTypeOK, ObservationNext
  PROVE  ObservationTypeOK'
<1> USE ObsFields, IdentTypes
<1>1. procs \in [Pids -> Row] /\ attributed \in Idents /\ unmeasured \subseteq Pids \X (1..Uses)
  BY DEF ObservationTypeOK
<1>2. CASE Poll
  <2>1. MembersOf(attributed) \in Idents
    BY <1>1
  <2>2. probe' \in [pc : {"poll", "first", "again", "second", "account", "end"}, exited : BOOLEAN,
                before : Idents, reads : SUBSET Pids, after : Idents,
                sample : Sample, sampled : BOOLEAN, certified : BOOLEAN]
    <3> DEFINE running == Leader \in InUse(procs)
               before == IF running THEN MembersOf(attributed) ELSE None
               gap == watch.last > Gap
               sample == [NoSample EXCEPT !.gap = gap]
               next == IF ~running \/ MembersOf(attributed) = None THEN "account" ELSE "first"
    <3>1. probe' = [probe EXCEPT !.exited = ~running, !.before = before, !.sampled = running,
                                 !.sample = sample, !.pc = next]
      BY <1>2 DEF Poll
    <3>2. running \in BOOLEAN /\ before \in Idents /\ next \in {"account", "first"}
      BY <2>1
    <3>3. sample \in Sample
      <4>1. gap \in BOOLEAN
        OBVIOUS
      <4> HIDE DEF gap
      <4> QED BY <4>1, SampleTypes
    <3> HIDE DEF running, before, sample, next
    <3> QED BY <3>1, <3>2, <3>3 DEF ObservationTypeOK
  <2>3. unmeasured' \subseteq Pids \X (1..Uses)
    <3>1. unmeasured' \subseteq unmeasured \cup Found(MembersOf(attributed))
      BY <1>2 DEF Poll
    <3> QED BY <1>1, <2>1, <3>1
  <2> QED BY <1>2, <2>2, <2>3 DEF Poll, ObservationTypeOK
<1>3. CASE FirstReads
  BY <1>3 DEF FirstReads, ObservationTypeOK, StillThere
<1>4. CASE AgainTable
  <2>1. MembersOf(probe.before) \in Idents
    BY <1>1
  <2>2. unmeasured' \subseteq Pids \X (1..Uses)
    BY <1>1, <1>4, <2>1 DEF AgainTable
  <2> QED BY <1>4, <2>1, <2>2 DEF AgainTable, ObservationTypeOK
<1>5. CASE SecondReads
  <2>1. PICK sample : /\ probe' = [probe EXCEPT !.pc = "account", !.sample = sample]
                      /\ sample \in Sample
    <3> DEFINE paired == Paired(probe.before, probe.after, probe.reads)
               missing == \E p \in Pids : probe.before[p] > 0 /\ p \notin paired
               joined == [p \in Pids |-> IF probe.before[p] = 0 THEN probe.after[p] ELSE 0]
               born == IF missing \/ \E p \in Pids : probe.before[p] > 0 /\ probe.after[p] # probe.before[p]
                         THEN None ELSE joined
               complete == probe.before = probe.after /\ ~missing
               gap == watch.last > Gap
    <3>1. probe' = [probe EXCEPT !.pc = "account", !.sample =
                      [complete |-> complete, identities |-> probe.before, births |-> born,
                       measured |-> paired, missing |-> missing, fault |-> FALSE, gap |-> gap, age |-> 0]]
      BY <1>5 DEF SecondReads
    <3>2. paired \subseteq Pids /\ missing \in BOOLEAN /\ complete \in BOOLEAN /\ gap \in BOOLEAN
      BY DEF Paired, StillThere
    <3>3. joined \in Idents
      BY DEF Idents
    <3>4. born \in Idents
      BY <3>3
    <3> HIDE DEF paired, missing, joined, born, complete, gap
    <3> QED BY <3>1, <3>2, <3>4, SampleTypes
  <2> QED BY <1>5, <2>1 DEF SecondReads, ObservationTypeOK
<1>6. CASE SampleFails
  <2>1. PICK sample : /\ probe' = [probe EXCEPT !.pc = "account", !.sample = sample]
                      /\ sample \in Sample
    <3> DEFINE gap == watch.last > Gap
               idents == IF probe.pc = "second" THEN probe.before ELSE None
    <3>1. probe' = [probe EXCEPT !.pc = "account", !.sample =
                      [NoSample EXCEPT !.fault = TRUE, !.gap = gap, !.identities = idents]]
      BY <1>6 DEF SampleFails
    <3>2. gap \in BOOLEAN /\ idents \in Idents
      OBVIOUS
    <3> HIDE DEF gap, idents
    <3> QED BY <3>1, <3>2, SampleTypes
  <2> QED BY <1>6, <2>1 DEF SampleFails, ObservationTypeOK
<1>7. CASE OthersRefresh
  BY <1>1, <1>7 DEF OthersRefresh, ObservationTypeOK
<1>8. CASE ObservationTick
  <2>1. watch' \in [last : 0..Gap + 1, samples : 0..2, incomplete : BOOLEAN, pending : Idents]
    <3> DEFINE last == IF watch.last <= Gap THEN watch.last + 1 ELSE watch.last
    <3>1. watch' = [watch EXCEPT !.last = last] /\ last \in 0..Gap + 1
      BY <1>8 DEF ObservationTick
    <3> HIDE DEF last
    <3> QED BY <3>1 DEF ObservationTypeOK
  <2>2. PICK age \in 0..Gap + 1 : probe' = [probe EXCEPT !.sample.age = age]
    <3> DEFINE age == IF probe.pc = "account" /\ probe.sampled /\ probe.sample.age <= Gap
                      THEN probe.sample.age + 1 ELSE probe.sample.age
    <3>1. probe' = [probe EXCEPT !.sample.age = age] /\ age \in 0..Gap + 1
      BY <1>8 DEF ObservationTick
    <3> QED BY <3>1
  <2>3. [probe.sample EXCEPT !.age = age] \in Sample
    BY DEF Sample
  <2> QED BY <1>8, <2>1, <2>2, <2>3 DEF ObservationTick, ObservationTypeOK
<1>9. CASE Account
  <2>1. Attributed \in Idents /\ Found(Attributed) \subseteq Pids \X (1..Uses)
    BY <1>1
  <2>2. attributed' = Attributed /\ watch' \in {Reconciled(watch, probe.sample, Attributed), watch}
        /\ unmeasured' \subseteq unmeasured \cup Found(Attributed)
    BY <1>9 DEF Account
  <2>3. watch' \in Watch
    BY <2>1, <2>2, ReconciledTypes DEF ObservationTypeOK, Watch
  <2>4. PICK next \in {"end", "poll"}, certified \in BOOLEAN :
          probe' = [probe EXCEPT !.pc = next, !.exited = FALSE, !.before = None, !.after = None,
                                 !.reads = {}, !.sample = NoSample, !.sampled = FALSE,
                                 !.certified = certified]
    BY <1>9, AccountNext
  <2>5. probe' \in [pc : {"poll", "first", "again", "second", "account", "end"}, exited : BOOLEAN,
                before : Idents, reads : SUBSET Pids, after : Idents,
                sample : Sample, sampled : BOOLEAN, certified : BOOLEAN]
    BY <2>4 DEF ObservationTypeOK
  <2> QED BY <1>1, <1>9, <2>1, <2>2, <2>3, <2>5 DEF Account, ObservationTypeOK, Watch
<1>10. ASSUME NEW p \in Pids, JobExits(p) PROVE ObservationTypeOK'
  <2>1. procs' \in [Pids -> Row]
    BY <1>1, <1>10, PidsAssumption DEF JobExits, Row, NoRow, Commands
  <2> QED BY <1>10, <2>1 DEF JobExits, ObservationTypeOK
<1>11. ASSUME NEW p \in Pids, NEW q \in Pids, JobForks(q, p) PROVE ObservationTypeOK'
  <2>1. forks[p] \in 0..Uses /\ forks[p] < Uses /\ forks \in [Pids -> 0..Uses]
    BY <1>11 DEF JobForks, ObservationTypeOK
  <2>2. PICK group \in {procs[q].group, p} :
          procs' = [procs EXCEPT ![p] = [NoRow EXCEPT !.start = forks[p] + 1, !.ppid = q, !.group = group]]
    BY <1>11 DEF JobForks
  <2>3. group \in Pids \cup {Init1}
    BY <1>1 DEF Row
  <2>4. [NoRow EXCEPT !.start = forks[p] + 1, !.ppid = q, !.group = group] \in Row
    BY <2>1, <2>3, BornRow
  <2>5. procs' \in [Pids -> Row]
    BY <1>1, <2>2, <2>4
  <2>6. forks' \in [Pids -> 0..Uses]
    <3>1. forks' = [forks EXCEPT ![p] = forks[p] + 1]
      BY <1>11 DEF JobForks
    <3>2. forks[p] + 1 \in 0..Uses
      BY <2>1
    <3> QED BY <2>1, <3>1, <3>2
  <2> QED BY <1>11, <2>5, <2>6 DEF JobForks, ObservationTypeOK
<1> QED
  BY <1>2, <1>3, <1>4, <1>5, <1>6, <1>7, <1>8, <1>9, <1>10, <1>11 DEF ObservationNext

\* The heart of it: a sample that leaves the observation complete has measured, or makes
\* pending, every identity of its tables, of the registry, and of what was pending.
LEMMA NothingForgotten ==
  ASSUME ObservationTypeOK,
         \/ OfTwoTables(probe.sample) \/ OfFailure(probe.sample) \/ OfNothing(probe.sample),
         NEW current \in Idents, NEW state, state = Reconciled(watch, probe.sample, current),
         ~state.incomplete,
         NEW p \in Pids, NEW b \in 1..Uses,
         \/ b = current[p] \/ b = watch.pending[p] \/ b = probe.before[p] \/ b = probe.after[p],
         ~(p \in probe.sample.measured /\ probe.sample.identities[p] = b)
  PROVE  ~watch.incomplete /\ state.pending[p] = b
<1> DEFINE sample == probe.sample
           failed == Lost(watch.pending, sample, current) # {}
           complete == sample.complete /\ ~failed
           birthOnly == sample.births # None /\ ~sample.missing /\ ~sample.fault /\ ~failed
           pending == [q \in Pids |-> IF sample.births[q] > 0 THEN sample.births[q] ELSE watch.pending[q]]
           kept(q) == /\ pending[q] > 0 /\ current[q] = pending[q]
                      /\ ~(sample.complete /\ sample.identities[q] = pending[q] /\ q \in sample.measured)
<1>1. ~watch.incomplete /\ (complete \/ birthOnly)
  BY DEF Reconciled
<1>2. state.pending[p] = IF kept(p) THEN pending[p]
                         ELSE IF sample.identities[p] # current[p] THEN current[p] ELSE 0
  BY DEF Reconciled
<1>3. OfTwoTables(sample) /\ ~sample.missing
  BY <1>1 DEF OfTwoTables, OfFailure, OfNothing
<1>4. /\ sample.identities = probe.before
      /\ probe.before[p] > 0 => p \in sample.measured
      /\ sample.complete => probe.before = probe.after
      /\ ~sample.complete => /\ probe.before[p] > 0 => probe.after[p] = probe.before[p]
                             /\ probe.before[p] = 0 => sample.births[p] = probe.after[p]
  BY <1>1, <1>3 DEF OfTwoTables
<1>5. p \notin Lost(watch.pending, sample, current)
  BY <1>1
<1>6. /\ watch.pending[p] > 0 => /\ sample.births[p] \in {0, watch.pending[p]}
                                 /\ \/ /\ sample.complete /\ sample.identities[p] = watch.pending[p]
                                       /\ p \in sample.measured
                                    \/ current[p] = watch.pending[p]
      /\ sample.births[p] > 0 => current[p] = sample.births[p]
  BY <1>5 DEF Lost
<1>7. /\ current[p] \in 0..Uses /\ watch.pending[p] \in 0..Uses /\ probe.before[p] \in 0..Uses
      /\ probe.after[p] \in 0..Uses /\ sample.births[p] \in 0..Uses /\ Uses \in Nat
  BY ObsFields, IdentTypes DEF Idents
<1> HIDE DEF sample
<1>8. probe.before[p] # b
  BY <1>4, <1>7 DEF sample
<1>9. current[p] = b
  BY <1>4, <1>6, <1>7, <1>8 DEF sample
<1> QED BY <1>1, <1>2, <1>4, <1>7, <1>8, <1>9

LEMMA ObsKnows ==
  ASSUME ObsInv, ObservationNext
  PROVE  SampleKnows'
<1> USE ObsFields, FoundNone DEF ObsInv
<1>1. CASE Poll
  <2>1. /\ probe'.before = (IF Leader \in InUse(procs) THEN MembersOf(attributed) ELSE None)
        /\ probe'.pc = (IF Leader \notin InUse(procs) \/ MembersOf(attributed) = None THEN "account" ELSE "first")
        /\ probe'.sampled = (Leader \in InUse(procs)) /\ probe'.after = probe.after
        /\ probe'.sample = [NoSample EXCEPT !.gap = watch.last > Gap]
    BY <1>1 DEF Poll, ObservationTypeOK
  <2>2. /\ ~probe'.sample.fault /\ ~probe'.sample.complete /\ probe'.sample.births = None
        /\ probe'.sample.identities = None
    BY <2>1 DEF NoSample
  <2>3. probe.after = None /\ probe'.pc \in {"account", "first"}
    BY <1>1, <2>1 DEF Poll, SampleKnows
  <2>4. CASE probe'.pc = "first"
    BY <2>1, <2>3, <2>4 DEF SampleKnows
  <2>5. CASE probe'.pc = "account"
    <3>1. probe'.before = None
      BY <2>1, <2>5
    <3>2. OfNothing(probe.sample)'
      BY <2>1, <2>2, <2>3, <3>1 DEF OfNothing
    <3> QED BY <2>5, <3>2 DEF SampleKnows
  <2> QED BY <2>3, <2>4, <2>5
<1>2. CASE FirstReads
  BY <1>2 DEF FirstReads, ObservationTypeOK, SampleKnows
<1>3. CASE AgainTable
  BY <1>3 DEF AgainTable, ObservationTypeOK, SampleKnows
<1>4. CASE SecondReads
  <2> DEFINE paired == Paired(probe.before, probe.after, probe.reads)
             missing == \E p \in Pids : probe.before[p] > 0 /\ p \notin paired
             joined == [p \in Pids |-> IF probe.before[p] = 0 THEN probe.after[p] ELSE 0]
             born == IF missing \/ \E p \in Pids : probe.before[p] > 0 /\ probe.after[p] # probe.before[p]
                       THEN None ELSE joined
             complete == probe.before = probe.after /\ ~missing
             gap == watch.last > Gap
             sample == [complete |-> complete, identities |-> probe.before, births |-> born,
                        measured |-> paired, missing |-> missing, fault |-> FALSE, gap |-> gap, age |-> 0]
  <2>1. probe' = [probe EXCEPT !.pc = "account", !.sample = sample]
    BY <1>4 DEF SecondReads
  <2>2. /\ probe'.pc = "account" /\ probe'.before = probe.before /\ probe'.after = probe.after
        /\ probe'.sampled = probe.sampled /\ probe'.sample = sample
    <3> HIDE DEF sample
    <3> QED BY <2>1 DEF ObservationTypeOK
  <2>3. /\ probe.before # None /\ probe.sampled
    BY <1>4 DEF SecondReads, SampleKnows
  <2>4. OfTwoTables(probe.sample)'
    <3>1. /\ ~sample.fault /\ sample.identities = probe.before
          /\ ~sample.missing => \A p \in Pids : probe.before[p] > 0 => p \in sample.measured
          /\ sample.complete => probe.before = probe.after /\ ~sample.missing
      OBVIOUS
    <3>2. ASSUME sample.births # None, NEW p \in Pids
          PROVE  /\ probe.before[p] > 0 => probe.after[p] = probe.before[p]
                 /\ probe.before[p] = 0 => sample.births[p] = probe.after[p]
      BY <3>2
    <3> HIDE DEF sample
    <3> QED BY <2>2, <2>3, <3>1, <3>2 DEF OfTwoTables
  <2> QED BY <2>2, <2>3, <2>4 DEF SampleKnows
<1>5. CASE SampleFails
  <2>1. /\ probe'.pc = "account" /\ probe'.sampled = probe.sampled
        /\ probe'.sample.fault /\ ~probe'.sample.complete /\ probe'.sample.births = None
    BY <1>5 DEF SampleFails, ObservationTypeOK, NoSample
  <2> QED BY <1>5, <2>1 DEF SampleFails, SampleKnows, OfFailure
<1>6. CASE OthersRefresh
  BY <1>6 DEF OthersRefresh, SampleKnows, OfTwoTables, OfFailure, OfNothing
<1>7. CASE ObservationTick
  <2>1. /\ probe'.pc = probe.pc /\ probe'.before = probe.before /\ probe'.after = probe.after
        /\ probe'.sampled = probe.sampled /\ probe'.sample.fault = probe.sample.fault
        /\ probe'.sample.complete = probe.sample.complete /\ probe'.sample.births = probe.sample.births
        /\ probe'.sample.identities = probe.sample.identities /\ probe'.sample.missing = probe.sample.missing
        /\ probe'.sample.measured = probe.sample.measured
    BY <1>7 DEF ObservationTick, ObservationTypeOK, Sample
  <2> QED BY <2>1 DEF SampleKnows, OfTwoTables, OfFailure, OfNothing
<1>8. CASE Account
  <2>1. probe'.pc \in {"end", "poll"} /\ probe'.before = None /\ probe'.after = None
    BY <1>8, AccountNext DEF ObservationTypeOK
  <2> QED BY <2>1 DEF SampleKnows
<1>9. ASSUME NEW p \in Pids, JobExits(p) \/ \E q \in Pids : JobForks(q, p) PROVE SampleKnows'
  <2>1. UNCHANGED probe
    BY <1>9 DEF JobExits, JobForks
  <2> QED BY <2>1 DEF SampleKnows, OfTwoTables, OfFailure, OfNothing
<1> QED
  BY <1>1, <1>2, <1>3, <1>4, <1>5, <1>6, <1>7, <1>8, <1>9 DEF ObservationNext

LEMMA ObsPending ==
  ASSUME ObsInv, ObservationNext
  PROVE  UnmeasuredPending'
<1> USE ObsFields, FoundNone DEF ObsInv, UnmeasuredPending
<1>1. CASE Poll
  <2>1. /\ probe'.before = (IF Leader \in InUse(procs) THEN MembersOf(attributed) ELSE None)
        /\ probe'.after = probe.after /\ probe'.certified = probe.certified
    BY <1>1 DEF Poll, ObservationTypeOK
  <2>2. probe.before = None /\ probe.after = None /\ ~probe.certified
    BY <1>1 DEF Poll, SampleKnows
  <2> QED BY <1>1, <2>1, <2>2 DEF Poll
<1>2. CASE FirstReads
  BY <1>2 DEF FirstReads, ObservationTypeOK
<1>3. CASE AgainTable
  <2>1. /\ probe'.before = probe.before /\ probe'.after = MembersOf(probe.before)
        /\ probe'.certified = probe.certified /\ probe.after = None /\ ~probe.certified
    BY <1>3 DEF AgainTable, ObservationTypeOK, SampleKnows
  <2> QED BY <1>3, <2>1 DEF AgainTable
<1>4. CASE SecondReads
  <2>1. probe'.before = probe.before /\ probe'.after = probe.after /\ probe'.certified = probe.certified
    BY <1>4 DEF SecondReads, ObservationTypeOK
  <2> QED BY <1>4, <2>1 DEF SecondReads
<1>5. CASE SampleFails
  <2>1. probe'.before = probe.before /\ probe'.after = probe.after /\ probe'.certified = probe.certified
    BY <1>5 DEF SampleFails, ObservationTypeOK
  <2> QED BY <1>5, <2>1 DEF SampleFails
<1>6. CASE OthersRefresh
  BY <1>6 DEF OthersRefresh
<1>7. CASE ObservationTick
  <2>1. /\ probe'.pc = probe.pc /\ probe'.before = probe.before /\ probe'.after = probe.after
        /\ probe'.certified = probe.certified
        /\ watch'.pending = watch.pending /\ watch'.incomplete = watch.incomplete
    BY <1>7 DEF ObservationTick, ObservationTypeOK
  <2> QED BY <1>7, <2>1 DEF ObservationTick
<1>8. CASE Account
  <2>1. PICK next \in {"end", "poll"}, certified \in BOOLEAN, counts \in BOOLEAN :
           /\ probe' = [probe EXCEPT !.pc = next, !.exited = FALSE, !.before = None, !.after = None,
                                     !.reads = {}, !.sample = NoSample, !.sampled = FALSE,
                                     !.certified = certified]
           /\ watch' = AccountState(counts)
           /\ counts => probe.sampled
           /\ ~counts => ~probe.sampled \/ (probe.sample.identities = None /\ ~probe.sample.fault)
           /\ unmeasured' = IF counts
                THEN (unmeasured \cup Found(Attributed))
                       \ {<<p, probe.sample.identities[p]>> : p \in probe.sample.measured}
                ELSE unmeasured
           /\ certified => next = "end" /\ Certifies(watch')
    BY <1>8, AccountNext
  <2>2. /\ probe'.pc = next /\ probe'.before = None /\ probe'.after = None
        /\ probe'.certified = certified
    BY <2>1 DEF ObservationTypeOK
  <2>3. /\ probe.pc = "account"
        /\ \/ OfTwoTables(probe.sample) \/ OfFailure(probe.sample) \/ OfNothing(probe.sample)
        /\ ~probe.sampled => OfNothing(probe.sample)
    BY <1>8 DEF Account, SampleKnows
  <2>4. ASSUME ~watch'.incomplete PROVE unmeasured' \subseteq Found(watch'.pending)
    <3>1. CASE counts
      <4>1. watch' = Reconciled(watch, probe.sample, Attributed) /\ Attributed \in Idents
        BY <2>1, <3>1, IdentTypes DEF AccountState, ObservationTypeOK
      <4>2. /\ unmeasured \subseteq Pids \X (1..Uses) /\ Found(Attributed) \subseteq Pids \X (1..Uses)
        BY <4>1, IdentTypes DEF ObservationTypeOK
      <4>6. unmeasured' \subseteq Pids \X (1..Uses)
        BY <2>1, <3>1, <4>2
      <4> SUFFICES ASSUME NEW p \in Pids, NEW b \in 1..Uses, <<p, b>> \in unmeasured'
                   PROVE  watch'.pending[p] = b
        <5>1. \A p \in Pids, b \in 1..Uses : <<p, b>> \in unmeasured' => watch'.pending[p] = b
          OBVIOUS
        <5>2. \A p \in Pids, b \in 1..Uses : watch'.pending[p] = b => <<p, b>> \in Found(watch'.pending)
          BY IdentTypes DEF Found
        <5> QED BY <4>6, <5>1, <5>2
      <4>3. ~watch.incomplete
        BY <2>4, <4>1 DEF Reconciled
      <4>4. \/ b = Attributed[p] \/ b = watch.pending[p] \/ b = probe.before[p] \/ b = probe.after[p]
        BY <2>1, <3>1, <4>3 DEF Found
      <4>5. ~(p \in probe.sample.measured /\ probe.sample.identities[p] = b)
        BY <2>1, <3>1
      <4> QED BY <2>3, <2>4, <4>1, <4>4, <4>5, NothingForgotten
    <3>2. CASE ~counts
      <4>1. watch' = watch /\ unmeasured' = unmeasured
        BY <2>1, <3>2 DEF AccountState
      <4>2. probe.before = None /\ probe.after = None
        BY <2>1, <2>3, <3>2 DEF OfTwoTables, OfFailure, OfNothing
      <4> QED BY <2>4, <4>1, <4>2
    <3> QED BY <3>1, <3>2
  <2>5. ASSUME certified PROVE next = "end" /\ unmeasured' = {}
    BY <2>1, <2>4, <2>5 DEF Certifies
  <2> QED BY <2>2, <2>4, <2>5
<1>9. ASSUME NEW p \in Pids, JobExits(p) \/ \E q \in Pids : JobForks(q, p) PROVE UnmeasuredPending'
  BY <1>9 DEF JobExits, JobForks
<1> QED
  BY <1>1, <1>2, <1>3, <1>4, <1>5, <1>6, <1>7, <1>8, <1>9 DEF ObservationNext

LEMMA ObsAlways == ObservationSpec => []ObsInv
<1>1. ObservationInit => ObsInv
  <2> SUFFICES ASSUME ObservationInit PROVE ObsInv
    OBVIOUS
  <2>0. 1 \in 0..Uses /\ 0 \in 0..Uses /\ 0 \in 0..Gap + 1
    BY PidsAssumption, ObservationAssumption
  <2>1. NoRow \in Row /\ [NoRow EXCEPT !.start = 1, !.group = Leader] \in Row
    BY <2>0, ObservationAssumption DEF NoRow, Row, Commands
  <2>2. [p \in Pids |-> IF p = Leader THEN 1 ELSE 0] \in Idents /\ None \in Idents
    BY <2>0 DEF Idents, None
  <2>6. NoSample \in Sample
    BY SampleTypes
  <2>3. procs \in [Pids -> Row] /\ forks \in [Pids -> 0..Uses] /\ attributed \in Idents
    BY <2>1, <2>2 DEF ObservationInit, Idents
  <2>4. ObservationTypeOK
    BY <2>0, <2>2, <2>3, <2>6 DEF ObservationInit, ObservationTypeOK
  <2>5. SampleKnows /\ UnmeasuredPending
    BY DEF ObservationInit, SampleKnows, UnmeasuredPending
  <2> QED BY <2>4, <2>5 DEF ObsInv
<1>2. ObsInv /\ [ObservationNext]_obsvars => ObsInv'
  <2>1. ObsInv /\ UNCHANGED obsvars => ObsInv'
    BY DEF obsvars, ObsInv, ObservationTypeOK, SampleKnows, UnmeasuredPending, OfTwoTables, OfFailure, OfNothing
  <2> QED BY <2>1, ObsTypes, ObsKnows, ObsPending DEF ObsInv
<1> QED BY <1>1, <1>2, PTL DEF ObservationSpec

\* The state of the observation is well formed: every sample pairs two tables of known
\* identities, and the registry and the pending identities stay within the numbers.
THEOREM ObservationTypeCorrect == ObservationSpec => []ObservationTypeOK
<1>1. ObsInv => ObservationTypeOK
  BY DEF ObsInv
<1> QED BY <1>1, ObsAlways, PTL

\* job_observation.py:105-107: a run whose peak may lower estimates has measured every
\* process its supervisor has found.
THEOREM LearningIsMeasured == ObservationSpec => []CertifiedMeansMeasured
<1>1. ObsInv => CertifiedMeansMeasured
  BY DEF ObsInv, UnmeasuredPending, CertifiedMeansMeasured
<1> QED BY <1>1, ObsAlways, PTL

(***************************************************************************)
(* NativeObserver.                                                         *)
(***************************************************************************)
\* A number stands for its last birth or for none; every process but those of the
\* system itself has a parent that lives, and the command's tree is closed under it.
Lineage ==
  /\ \A p \in InUse(system) : system[p].start = births[p]
  /\ <<Registered, 1>> \in own /\ births[Registered] >= 1
  /\ \A q \in InUse(system) :
       \/ system[q].ppid = Init1
       \/ /\ system[q].ppid \in InUse(system)
          /\ <<system[q].ppid, system[system[q].ppid].start>> \in own => <<q, system[q].start>> \in own

\* What the observer remembers is of the command's tree.
Remembered ==
  /\ entry.counted \subseteq own
  /\ \A p \in Known : <<p, entry.members[p]>> \in own

\* If the birth that was measured is still there, it is of the command's tree.
OwnIfThere(p) == look.measured[p] > 0 /\ system[p].start = look.measured[p] => <<p, look.measured[p]>> \in own

\* What is known at each point of a tick.  A birth that was measured before the second
\* table and is there after it was in the second table.
TickKnows ==
  /\ \A p \in Pids : look.measured[p] <= births[p]
  /\ look.pc = "root" /\ look.stable /\ system[Registered].start = 1 => \A p \in Candidates : OwnIfThere(p)
  /\ look.pc = "confirm" => \A p \in Counted : IF p \in look.todo THEN OwnIfThere(p)
                                               ELSE <<p, look.measured[p]>> \in own

NativeInv == NativeTypeOK /\ Lineage /\ Remembered /\ TickKnows

LEMMA NativeFields ==
  ASSUME NativeTypeOK
  PROVE  /\ \A p \in Pids : /\ system[p] \in Row /\ system[p].start \in 0..Uses
                            /\ system[p].ppid \in Pids \cup {Init1} /\ births[p] \in 0..Uses
                            /\ look.measured[p] \in 0..Uses /\ entry.members[p] \in 0..Uses
         /\ look.todo \subseteq Pids /\ look.stable \in BOOLEAN /\ entry.active \in BOOLEAN
         /\ look.table \in [Pids -> Row] /\ look.measured \in Measurements
         /\ entry.counted \subseteq Pids \X (1..Uses) /\ own \subseteq Pids \X (1..Uses)
         /\ Uses \in Nat /\ Uses >= 1 /\ 0 \in 0..Uses
         /\ NoRow \in Row /\ Births0 \in Measurements
<1>1. Uses \in Nat /\ Uses >= 1 /\ 0 \in 0..Uses
  BY PidsAssumption
<1>2. NoRow \in Row /\ Births0 \in Measurements
  BY <1>1 DEF NoRow, Row, Commands, Births0, Measurements
<1>3. \A p \in Pids : system[p] \in Row
  BY DEF NativeTypeOK
<1> QED BY <1>1, <1>2, <1>3 DEF NativeTypeOK, Measurements, Row

\* A fork, without the bound on their number.
LEMMA ForkedRow ==
  ASSUME NativeTypeOK, NEW p \in Pids, NEW q \in Pids \cup {Init1}, Forked(q, p)
  PROVE  /\ q \in InUse(system) \cup {Init1} /\ p \notin InUse(system)
         /\ births' = [births EXCEPT ![p] = births[p] + 1] /\ births[p] + 1 \in 1..Uses
         /\ system' = [system EXCEPT ![p] = [NoRow EXCEPT !.start = births[p] + 1, !.ppid = q]]
         /\ [NoRow EXCEPT !.start = births[p] + 1, !.ppid = q] \in Row
         /\ own' = IF q # Init1 /\ <<q, system[q].start>> \in own THEN own \cup {<<p, births[p] + 1>>} ELSE own
         /\ UNCHANGED <<entry, look>>
<1>1. births[p] \in 0..Uses /\ births[p] < Uses /\ Uses \in Nat
  BY NativeFields DEF Forked
<1>2. births[p] + 1 \in 1..Uses /\ births[p] + 1 \in 0..Uses
  BY <1>1
<1>3. [NoRow EXCEPT !.start = births[p] + 1, !.ppid = q] \in Row
  BY <1>2, PidsAssumption DEF NoRow, Row, Commands
<1>4. /\ q \in InUse(system) \cup {Init1} /\ p \notin InUse(system)
      /\ births' = [births EXCEPT ![p] = births[p] + 1]
      /\ system' = [system EXCEPT ![p] = [NoRow EXCEPT !.start = births[p] + 1, !.ppid = q]]
      /\ own' = IF q # Init1 /\ <<q, system[q].start>> \in own THEN own \cup {<<p, births[p] + 1>>} ELSE own
      /\ UNCHANGED <<entry, look>>
  BY DEF Forked
<1> QED BY <1>2, <1>3, <1>4

LEMMA CandidatesTypes ==
  ASSUME NativeTypeOK
  PROVE  /\ Candidates \subseteq Pids /\ Counted \subseteq Pids /\ Unmeasured \subseteq Pids
         /\ UnderTask(system) \subseteq Pids
         /\ \A p \in Pids : Descendants(p, system) \subseteq Pids
<1>1. \A p \in Pids : \A table : Descendants(p, table) \subseteq Pids
  BY DescendantsOf DEF InUse
<1> QED BY <1>1, NativeAssumption DEF Candidates, Counted, Unmeasured, UnderTask, Known, Listed, InUse

\* What the steps of a tick make of what the observer looks at.
LEMMA LookTypes ==
  ASSUME NativeTypeOK, FirstTable \/ Measure \/ GivesUpTick \/ SecondTable \/ RootAgain \/ ConfirmMember
  PROVE  NativeTypeOK'
<1> DEFINE Look == [pc : {"wait", "measure", "again", "root", "confirm"}, table : [Pids -> Row],
                    todo : SUBSET Pids, measured : Measurements, stable : BOOLEAN]
<1>1. look \in Look /\ system \in [Pids -> Row]
  BY DEF NativeTypeOK
<1>2. NoLook \in Look
  BY NativeFields DEF NoLook
<1>3. CASE FirstTable
  <2> DEFINE todo == UnderTask(system) \cup UNION {Descendants(p, system) : p \in Known \cap InUse(system)}
  <2>1. todo \subseteq Pids
    BY CandidatesTypes DEF Known
  <2>2. look' = [NoLook EXCEPT !.pc = "measure", !.table = system, !.todo = todo]
    BY <1>3 DEF FirstTable
  <2> HIDE DEF todo
  <2>3. look' \in Look
    BY <1>1, <1>2, <2>1, <2>2 DEF NoLook
  <2> QED BY <1>3, <2>3 DEF FirstTable, NativeTypeOK
<1>4. CASE Measure
  <2>1. look' \in Look
    <3>1. ASSUME NEW p \in look.todo, look' = [look EXCEPT !.todo = @ \ {p}, !.measured[p] = system[p].start]
          PROVE  look' \in Look
      <4>1. p \in Pids /\ system[p].start \in 0..Uses
        BY NativeFields
      <4>2. [look.measured EXCEPT ![p] = system[p].start] \in Measurements
        BY <4>1, NativeFields DEF Measurements
      <4>3. look' = [look EXCEPT !.todo = look.todo \ {p}, !.measured = [look.measured EXCEPT ![p] = system[p].start]]
        BY <1>1, <3>1
      <4> QED BY <1>1, <4>2, <4>3
    <3>2. ASSUME look' = [look EXCEPT !.pc = "again"] PROVE look' \in Look
      BY <1>1, <3>2
    <3> QED BY <1>4, <3>1, <3>2 DEF Measure
  <2> QED BY <1>4, <2>1 DEF Measure, NativeTypeOK
<1>5. CASE GivesUpTick
  BY <1>2, <1>5 DEF GivesUpTick, NativeTypeOK
<1>6. CASE SecondTable
  <2> DEFINE stable == \A p \in Candidates : SameRow(p, look.table, system)
  <2>1. look' = [look EXCEPT !.pc = "root", !.stable = stable] /\ stable \in BOOLEAN
    BY <1>6 DEF SecondTable
  <2> HIDE DEF stable
  <2>2. look' \in Look
    BY <1>1, <2>1
  <2> QED BY <1>6, <2>2 DEF SecondTable, NativeTypeOK
<1>7. CASE RootAgain
  <2>1. look' \in Look
    BY <1>1, <1>2, <1>7, CandidatesTypes DEF RootAgain
  <2> QED BY <1>7, <2>1 DEF RootAgain, NativeTypeOK
<1>8. CASE ConfirmMember
  <2>1. look' \in Look
    BY <1>1, <1>2, <1>8 DEF ConfirmMember
  <2> QED BY <1>8, <2>1 DEF ConfirmMember, NativeTypeOK
<1> QED BY <1>3, <1>4, <1>5, <1>6, <1>7, <1>8

LEMMA NativeTypes ==
  ASSUME NativeTypeOK, NativeNext
  PROVE  NativeTypeOK'
<1>1. CASE FirstTable \/ Measure \/ GivesUpTick \/ SecondTable \/ RootAgain \/ ConfirmMember
  BY <1>1, LookTypes
<1>2. CASE Count
  <2>1. PICK expired \in BOOLEAN :
         entry' = [active |-> ~expired /\ (Counted # {} \/ Unmeasured # {}),
                 members |-> [p \in Pids |-> IF p \in Counted THEN look.measured[p]
                                             ELSE IF p \in Unmeasured THEN entry.members[p] ELSE 0],
                 counted |-> entry.counted \cup {<<p, look.measured[p]>> : p \in Counted}]
    BY <1>2 DEF Count
  <2> DEFINE active == ~expired /\ (Counted # {} \/ Unmeasured # {})
             members == [p \in Pids |-> IF p \in Counted THEN look.measured[p]
                                        ELSE IF p \in Unmeasured THEN entry.members[p] ELSE 0]
             counted == {<<p, look.measured[p]>> : p \in Counted}
  <2>2. active \in BOOLEAN
    OBVIOUS
  <2>3. members \in Measurements
    BY NativeFields DEF Measurements
  <2>4. counted \subseteq Pids \X (1..Uses)
    <3>1. ASSUME NEW p \in Counted PROVE p \in Pids /\ look.measured[p] \in 1..Uses
      <4>1. p \in Pids /\ look.measured[p] > 0
        BY CandidatesTypes DEF Counted
      <4> QED BY <4>1, NativeFields
    <3> QED BY <3>1
  <2>5. entry' = [active |-> active, members |-> members, counted |-> entry.counted \cup counted]
    BY <2>1
  <2> HIDE DEF active, members, counted
  <2>6. entry' \in [active : BOOLEAN, members : Measurements, counted : SUBSET (Pids \X (1..Uses))]
    BY <2>2, <2>3, <2>4, <2>5, NativeFields
  <2>7. look' = NoLook /\ UNCHANGED <<system, births, own>>
    BY <1>2 DEF Count
  <2> QED BY <2>6, <2>7, NativeFields DEF NativeTypeOK, NoLook
<1>3. ASSUME NEW p \in Pids, Exited(p) PROVE NativeTypeOK'
  <2>1. system' \in [Pids -> Row]
    <3>1. ASSUME NEW q \in Pids PROVE system'[q] \in Row
      <4> DEFINE parent == IF system[q].ppid = p THEN Init1 ELSE system[q].ppid
      <4>1. system'[q] = IF q = p THEN NoRow ELSE [system[q] EXCEPT !.ppid = parent]
        BY <1>3 DEF Exited
      <4>2. parent \in Pids \cup {Init1} /\ system[q] \in Row /\ NoRow \in Row
        BY NativeFields
      <4> HIDE DEF parent
      <4> QED BY <4>1, <4>2 DEF Row
    <3> QED BY <1>3, <3>1 DEF Exited
  <2> QED BY <1>3, <2>1 DEF Exited, NativeTypeOK
<1>4. ASSUME NEW p \in Pids, NEW q \in Pids \cup {Init1}, Forked(q, p) PROVE NativeTypeOK'
  <2>1. /\ births' = [births EXCEPT ![p] = births[p] + 1] /\ births[p] + 1 \in 1..Uses
        /\ system' = [system EXCEPT ![p] = [NoRow EXCEPT !.start = births[p] + 1, !.ppid = q]]
        /\ [NoRow EXCEPT !.start = births[p] + 1, !.ppid = q] \in Row
        /\ own' \subseteq own \cup {<<p, births[p] + 1>>} /\ UNCHANGED <<entry, look>>
    BY <1>4, ForkedRow
  <2>2. births[p] + 1 \in 0..Uses
    BY <2>1, NativeFields
  <2>3. own' \subseteq Pids \X (1..Uses)
    BY <2>1, NativeFields
  <2>4. births' \in Measurements
    BY <2>1, <2>2 DEF NativeTypeOK, Measurements
  <2> QED BY <2>1, <2>3, <2>4 DEF NativeTypeOK
<1> QED BY <1>1, <1>2, <1>3, <1>4 DEF NativeNext

\* A fork or an exit keeps the lineage: a child is of the tree of its parent.
LEMMA LineageForked ==
  ASSUME NativeInv, NEW p \in Pids, NEW q \in Pids \cup {Init1}, Forked(q, p)
  PROVE  /\ Lineage'
         /\ \A r \in Pids : births[r] <= births'[r] /\ own \subseteq own'
         /\ \A r \in Pids : system'[r].start = system[r].start
                              \/ (r = p /\ system'[r].start = births[r] + 1 /\ births[r] >= 0)
<1> USE DEF NativeInv
<1>1. /\ q \in InUse(system) \cup {Init1} /\ p \notin InUse(system)
      /\ births' = [births EXCEPT ![p] = births[p] + 1] /\ births[p] + 1 \in 1..Uses
      /\ system' = [system EXCEPT ![p] = [NoRow EXCEPT !.start = births[p] + 1, !.ppid = q]]
      /\ own' = IF q # Init1 /\ <<q, system[q].start>> \in own THEN own \cup {<<p, births[p] + 1>>} ELSE own
  BY ForkedRow
<1>2. /\ system'[p].start = births[p] + 1 /\ system'[p].ppid = q
      /\ \A r \in Pids \ {p} : system'[r] = system[r]
      /\ births'[p] = births[p] + 1 /\ \A r \in Pids \ {p} : births'[r] = births[r]
      /\ births[p] \in Nat
  BY <1>1, NativeFields DEF NativeTypeOK, Measurements, NoRow
<1>3. InUse(system') = InUse(system) \cup {p}
  BY <1>1, <1>2 DEF InUse
<1>4. own \subseteq own'
  BY <1>1
<1>5. \A r \in InUse(system') : system'[r].start = births'[r]
  BY <1>2, <1>3 DEF Lineage, InUse
<1>6. <<Registered, 1>> \in own' /\ births'[Registered] >= 1
  BY <1>2, <1>4, NativeAssumption, NativeFields DEF Lineage
<1>7. ASSUME NEW r \in InUse(system')
      PROVE \/ system'[r].ppid = Init1
            \/ /\ system'[r].ppid \in InUse(system')
               /\ <<system'[r].ppid, system'[system'[r].ppid].start>> \in own' => <<r, system'[r].start>> \in own'
  <2>1. CASE r = p
    BY <1>1, <1>2, <1>3, <2>1, PidsAssumption DEF InUse
  <2>2. CASE r # p
    <3>1. r \in InUse(system) /\ system'[r] = system[r]
      BY <1>2, <1>3, <2>2 DEF InUse
    <3>2. CASE system[r].ppid # Init1
      <4>1. /\ system[r].ppid \in InUse(system)
            /\ <<system[r].ppid, system[system[r].ppid].start>> \in own => <<r, system[r].start>> \in own
        BY <3>1, <3>2 DEF Lineage
      <4>2. system[r].ppid # p /\ system[r].ppid \in Pids
        BY <1>1, <4>1 DEF InUse
      <4>3. system'[system[r].ppid] = system[system[r].ppid]
        BY <1>2, <4>2
      <4>4. \A s : <<system[r].ppid, s>> \in own' => <<system[r].ppid, s>> \in own
        BY <1>1, <4>2
      <4> QED BY <1>3, <1>4, <3>1, <4>1, <4>3, <4>4
    <3> QED BY <3>1, <3>2
  <2> QED BY <2>1, <2>2
<1>8. Lineage'
  BY <1>5, <1>6, <1>7 DEF Lineage
<1>9. \A r \in Pids : births[r] <= births'[r] /\ own \subseteq own'
  BY <1>2, <1>4, NativeFields
<1> QED BY <1>2, <1>8, <1>9

LEMMA LineageExited ==
  ASSUME NativeInv, NEW p \in Pids, Exited(p)
  PROVE  /\ Lineage' /\ UNCHANGED <<births, own>>
         /\ \A r \in Pids : system'[r].start = system[r].start \/ (r = p /\ system'[r].start = 0)
<1> USE DEF NativeInv
<1>1. /\ UNCHANGED <<births, own>>
      /\ system'[p].start = 0
      /\ \A r \in Pids \ {p} : /\ system'[r].start = system[r].start
                               /\ system'[r].ppid = IF system[r].ppid = p THEN Init1 ELSE system[r].ppid
  <2>1. \A r \in Pids \ {p} :
          system'[r] = [system[r] EXCEPT !.ppid = IF system[r].ppid = p THEN Init1 ELSE system[r].ppid]
    BY DEF Exited
  <2>2. ASSUME NEW r \in Pids \ {p}
        PROVE  /\ system'[r].start = system[r].start
               /\ system'[r].ppid = IF system[r].ppid = p THEN Init1 ELSE system[r].ppid
    <3> DEFINE parent == IF system[r].ppid = p THEN Init1 ELSE system[r].ppid
    <3>1. system'[r] = [system[r] EXCEPT !.ppid = parent] /\ system[r] \in Row
      BY <2>1, NativeFields
    <3> HIDE DEF parent
    <3>2. system'[r].start = system[r].start /\ system'[r].ppid = parent
      BY <3>1 DEF Row
    <3> QED BY <3>2 DEF parent
  <2>3. system'[p].start = 0 /\ UNCHANGED <<births, own>>
    BY DEF Exited, NoRow
  <2> QED BY <2>2, <2>3
<1>2. InUse(system') = InUse(system) \ {p}
  BY <1>1 DEF InUse
<1>3. ASSUME NEW r \in InUse(system')
      PROVE /\ system'[r].start = births'[r]
            /\ \/ system'[r].ppid = Init1
               \/ /\ system'[r].ppid \in InUse(system')
                  /\ <<system'[r].ppid, system'[system'[r].ppid].start>> \in own' => <<r, system'[r].start>> \in own'
  <2>1. r \in InUse(system) /\ r # p /\ r \in Pids
    BY <1>2 DEF InUse
  <2>2. system'[r].start = births'[r]
    BY <1>1, <2>1 DEF Lineage
  <2>3. CASE system'[r].ppid # Init1
    <3>1. system'[r].ppid = system[r].ppid /\ system[r].ppid # p /\ system[r].ppid # Init1
      BY <1>1, <2>1, <2>3
    <3>2. /\ system[r].ppid \in InUse(system)
          /\ <<system[r].ppid, system[system[r].ppid].start>> \in own => <<r, system[r].start>> \in own
      BY <2>1, <3>1 DEF Lineage
    <3> QED BY <1>1, <1>2, <2>1, <2>2, <3>1, <3>2 DEF InUse
  <2> QED BY <2>2, <2>3
<1>4. <<Registered, 1>> \in own' /\ births'[Registered] >= 1
  BY <1>1 DEF Lineage
<1>5. Lineage'
  BY <1>3, <1>4 DEF Lineage
<1> QED BY <1>1, <1>5

\* A candidate whose row has not changed since the first table is of the command's tree now.
LEMMA StableIsOwn ==
  ASSUME NativeInv, \A p \in Candidates : SameRow(p, look.table, system),
         system[Registered].start = 1
  PROVE  \A p \in Candidates : <<p, system[p].start>> \in own
<1> SUFFICES ASSUME Candidates # {}
             PROVE  \A p \in Candidates : <<p, system[p].start>> \in own
  OBVIOUS
<1>1. Candidates = Descendants(Registered, look.table)
  BY DEF Candidates, UnderTask
<1> DEFINE S == {p \in Pids : <<p, system[p].start>> \in own}
<1>2. Registered \in S
  BY NativeAssumption DEF NativeInv, Lineage
<1>3. ASSUME NEW q \in Descendants(Registered, look.table) \cap InUse(look.table), look.table[q].ppid \in S
      PROVE  q \in S
  <2>1. q \in InUse(system) /\ system[q].ppid = look.table[q].ppid
    BY <1>1, <1>3 DEF SameRow, InUse
  <2>2. system[q].ppid # Init1
    BY <1>3, <2>1, PidsAssumption
  <2> QED BY <1>3, <2>1, <2>2 DEF NativeInv, Lineage, InUse
<1> HIDE DEF S
<1>4. Descendants(Registered, look.table) \subseteq S
  BY <1>2, <1>3, NativeAssumption, DescendantsInduction
<1> QED BY <1>1, <1>4 DEF S

LEMMA NativeKeeps ==
  ASSUME NativeInv, NativeNext
  PROVE  Lineage' /\ Remembered' /\ TickKnows'
<1> USE DEF NativeInv
<1>0. Candidates \subseteq Pids /\ Counted \subseteq Pids /\ Unmeasured \subseteq Pids
  BY CandidatesTypes
<1>1. ASSUME UNCHANGED <<system, births, entry, own>> PROVE Lineage' /\ Remembered'
  BY <1>1 DEF Lineage, Remembered, Known
<1>2. CASE FirstTable
  <2>1. look'.pc = "measure" /\ look'.measured = Births0
    BY <1>2 DEF FirstTable, NoLook
  <2>2. TickKnows'
    BY <1>2, <2>1, NativeFields DEF FirstTable, TickKnows, Births0
  <2> QED BY <1>1, <1>2, <2>2 DEF FirstTable
<1>3. CASE Measure
  <2>1. look'.pc \in {"measure", "again"} /\ \A p \in Pids : look'.measured[p] \in {look.measured[p], system[p].start}
    <3>1. ASSUME NEW p \in look.todo, look' = [look EXCEPT !.todo = @ \ {p}, !.measured[p] = system[p].start]
          PROVE  /\ look'.pc \in {"measure", "again"}
                 /\ \A r \in Pids : look'.measured[r] \in {look.measured[r], system[r].start}
      BY <1>3, <3>1 DEF Measure, NativeTypeOK, Measurements
    <3>2. ASSUME look' = [look EXCEPT !.pc = "again"]
          PROVE  /\ look'.pc \in {"measure", "again"}
                 /\ \A r \in Pids : look'.measured[r] \in {look.measured[r], system[r].start}
      BY <3>2 DEF NativeTypeOK
    <3> QED BY <1>3, <3>1, <3>2 DEF Measure
  <2>2. ASSUME NEW p \in Pids PROVE system[p].start <= births[p]
    BY NativeFields DEF Lineage, InUse
  <2>3. TickKnows'
    BY <1>3, <2>1, <2>2 DEF Measure, TickKnows
  <2> QED BY <1>1, <1>3, <2>3 DEF Measure
<1>4. ASSUME look' = NoLook, UNCHANGED births PROVE TickKnows'
  BY <1>4, NativeFields DEF NoLook, TickKnows, Births0
<1>5. CASE GivesUpTick
  BY <1>1, <1>4, <1>5 DEF GivesUpTick
<1>6. CASE SecondTable
  <2> DEFINE stable == \A p \in Candidates : SameRow(p, look.table, system)
  <2>1. /\ look'.pc = "root" /\ look'.measured = look.measured /\ look'.table = look.table
        /\ look'.stable = stable /\ UNCHANGED <<system, births, entry, own>>
    BY <1>6 DEF SecondTable, NativeTypeOK
  <2>2. Candidates' = Candidates
    BY <2>1 DEF Candidates, RootLives, Listed
  <2>3. ASSUME stable, system[Registered].start = 1, NEW p \in Candidates PROVE OwnIfThere(p)
    BY <2>3, StableIsOwn DEF OwnIfThere
  <2>4. TickKnows'
    <3> HIDE DEF stable
    <3> QED BY <2>1, <2>2, <2>3 DEF TickKnows, OwnIfThere
  <2> QED BY <1>1, <2>1, <2>4
<1>7. CASE RootAgain
  <2>1. UNCHANGED <<system, births, entry, own>>
    BY <1>7 DEF RootAgain
  <2>2. CASE look' # NoLook
    <3>1. /\ look'.pc = "confirm" /\ look'.measured = look.measured /\ look'.table = look.table
          /\ look'.todo = Counted
          /\ look.stable /\ (RootLives => Same(system, Registered, 1))
      BY <1>7, <2>2 DEF RootAgain, NativeTypeOK
    <3>2. Counted' = Counted
      BY <2>1, <3>1 DEF Counted, Candidates, RootLives, Listed, Known
    <3>3. ASSUME NEW p \in Counted PROVE OwnIfThere(p)
      <4>1. CASE p \in Candidates
        BY <1>7, <3>1, <4>1 DEF RootAgain, TickKnows, Candidates, Same
      <4>2. CASE p \in Known
        BY <3>3, <4>2 DEF Counted, Remembered, OwnIfThere, Known
      <4> QED BY <4>1, <4>2 DEF Counted
    <3>4. TickKnows'
      BY <2>1, <3>1, <3>2, <3>3 DEF TickKnows, OwnIfThere
    <3> QED BY <1>1, <2>1, <3>4
  <2>3. CASE look' = NoLook
    BY <1>1, <1>4, <2>1, <2>3
  <2> QED BY <2>2, <2>3
<1>8. CASE ConfirmMember
  <2>1. UNCHANGED <<system, births, entry, own>> /\ look.pc = "confirm"
    BY <1>8 DEF ConfirmMember
  <2>2. CASE look' # NoLook
    <3>1. PICK m \in look.todo : look' = [look EXCEPT !.todo = look.todo \ {m}] /\ Same(system, m, look.measured[m])
      BY <1>8, <2>2 DEF ConfirmMember, NativeTypeOK
    <3>2. /\ look'.pc = "confirm" /\ look'.measured = look.measured /\ look'.table = look.table
          /\ look'.todo = look.todo \ {m}
      BY <2>1, <3>1 DEF NativeTypeOK
    <3>3. Counted' = Counted
      BY <2>1, <3>2 DEF Counted, Candidates, RootLives, Listed, Known
    <3>4. TickKnows'
      BY <2>1, <3>1, <3>2, <3>3 DEF TickKnows, OwnIfThere, Same
    <3> QED BY <1>1, <2>1, <3>4
  <2>3. CASE look' = NoLook
    BY <1>1, <1>4, <2>1, <2>3
  <2> QED BY <2>2, <2>3
<1>9. CASE Count
  <2>1. UNCHANGED <<system, births, own>> /\ look' = NoLook
    BY <1>9 DEF Count
  <2>2. /\ entry'.members = [p \in Pids |-> IF p \in Counted THEN look.measured[p]
                                            ELSE IF p \in Unmeasured THEN entry.members[p] ELSE 0]
        /\ entry'.counted = entry.counted \cup {<<p, look.measured[p]>> : p \in Counted}
    BY <1>9 DEF Count
  <2>3. ASSUME NEW p \in Counted PROVE <<p, look.measured[p]>> \in own
    BY <1>9 DEF Count, TickKnows
  <2>4. Remembered'
    BY <1>0, <2>1, <2>2, <2>3 DEF Remembered, Known
  <2>5. Lineage'
    BY <2>1 DEF Lineage
  <2> QED BY <1>4, <2>1, <2>4, <2>5
<1>10. ASSUME Lineage', UNCHANGED <<entry, look>>, own \subseteq own',
              \A r \in Pids : births[r] <= births'[r],
              \A r \in Pids : \/ system'[r].start = system[r].start
                              \/ system'[r].start = births[r] + 1
                              \/ system'[r].start = 0
       PROVE  Lineage' /\ Remembered' /\ TickKnows'
  <2>1. Remembered'
    BY <1>10 DEF Remembered, Known
  <2>2. Candidates' = Candidates /\ Counted' = Counted
    BY <1>10 DEF Counted, Candidates, RootLives, Listed, Known
  <2>3. \A r \in Pids : look.measured[r] <= births[r] /\ look.measured[r] \in Nat /\ births[r] \in Nat
                        /\ births'[r] \in Nat
    <3>1. births' \in Measurements /\ Uses \in Nat
      BY NativeTypes, NativeFields DEF NativeTypeOK
    <3> QED BY <3>1, NativeFields DEF TickKnows, Measurements
  <2>4. ASSUME NEW r \in Pids, OwnIfThere(r) PROVE OwnIfThere(r)'
    BY <1>10, <2>3, <2>4 DEF OwnIfThere
  <2>5. system'[Registered].start = 1 => system[Registered].start = 1
    <3>1. births[Registered] + 1 # 1
      BY <2>3, NativeAssumption DEF Lineage
    <3> QED BY <1>10, <3>1, NativeAssumption
  <2>6. TickKnows'
    <3>1. \A p \in Pids : look'.measured[p] <= births'[p]
      BY <1>10, <2>3
    <3>2. look'.pc = "root" /\ look'.stable /\ system'[Registered].start = 1
            => \A p \in Candidates' : OwnIfThere(p)'
      BY <1>0, <1>10, <2>2, <2>4, <2>5 DEF TickKnows
    <3>3. look'.pc = "confirm" => \A p \in Counted' : IF p \in look'.todo THEN OwnIfThere(p)'
                                                      ELSE <<p, look'.measured[p]>> \in own'
      BY <1>0, <1>10, <2>2, <2>4 DEF TickKnows
    <3> QED BY <3>1, <3>2, <3>3 DEF TickKnows
  <2> QED BY <1>10, <2>1, <2>6
<1>11. ASSUME NEW p \in Pids, Exited(p) PROVE Lineage' /\ Remembered' /\ TickKnows'
  <2>1. UNCHANGED <<entry, look>>
    BY <1>11 DEF Exited
  <2>2. \A r \in Pids : births[r] <= births'[r]
    BY <1>11, LineageExited, NativeFields
  <2> QED BY <1>10, <1>11, <2>1, <2>2, LineageExited
<1>12. ASSUME NEW p \in Pids, NEW q \in Pids \cup {Init1}, Forked(q, p)
       PROVE  Lineage' /\ Remembered' /\ TickKnows'
  <2>1. UNCHANGED <<entry, look>>
    BY <1>12, ForkedRow
  <2> QED BY <1>10, <1>12, <2>1, LineageForked
<1> QED
  BY <1>2, <1>3, <1>5, <1>6, <1>7, <1>8, <1>9, <1>11, <1>12 DEF NativeNext

LEMMA NativeAlways == NativeSpec => []NativeInv
<1>1. NativeInit => NativeInv
  <2> SUFFICES ASSUME NativeInit PROVE NativeInv
    OBVIOUS
  <2>0. 1 \in 0..Uses /\ 0 \in 0..Uses /\ 1 \in 1..Uses /\ Registered \in Pids
    BY PidsAssumption, NativeAssumption
  <2>1. NoRow \in Row /\ [NoRow EXCEPT !.start = 1] \in Row
    BY <2>0 DEF NoRow, Row, Commands
  <2>2. Births0 \in Measurements /\ births \in Measurements
    BY <2>0 DEF NativeInit, Births0, Measurements
  <2>3. NativeTypeOK
    BY <2>0, <2>1, <2>2 DEF NativeInit, NativeTypeOK, NoLook
  <2>4. Lineage
    BY <2>0 DEF NativeInit, Lineage, InUse, NoRow
  <2>5. Remembered
    BY DEF NativeInit, Remembered, Known, Births0
  <2>6. TickKnows
    BY <2>0 DEF NativeInit, TickKnows, NoLook, Births0
  <2> QED BY <2>3, <2>4, <2>5, <2>6 DEF NativeInv
<1>2. NativeInv /\ [NativeNext]_nativevars => NativeInv'
  <2>1. NativeInv /\ UNCHANGED nativevars => NativeInv'
    BY DEF nativevars, NativeInv, NativeTypeOK, Lineage, Remembered, TickKnows, OwnIfThere, Known,
           Counted, Candidates, RootLives, Listed
  <2> QED BY <2>1, NativeTypes, NativeKeeps DEF NativeInv
<1> QED BY <1>1, <1>2, PTL DEF NativeSpec

\* The state of the observer is well formed, whatever the processes do between its steps.
THEOREM NativeTypeCorrect == NativeSpec => []NativeTypeOK
<1>1. NativeInv => NativeTypeOK
  BY DEF NativeInv
<1> QED BY <1>1, NativeAlways, PTL

\* native_observer.py:248-249: a number that is used again attaches no other tree to the
\* command; what is counted descends from it.
THEOREM OnlyOwnTree == NativeSpec => []OwnTreeMeasured
<1>1. NativeInv => OwnTreeMeasured
  BY DEF NativeInv, Remembered, OwnTreeMeasured
<1> QED BY <1>1, NativeAlways, PTL

(***************************************************************************)
(* Budget.                                                                 *)
(***************************************************************************)

\* The sum of a function over a finite set, as it is computed: one value after the other.
Picked(S) == CHOOSE x \in S : TRUE
Parts(f, S) ==
  CHOOSE part : part = [T \in SUBSET S |-> IF T = {} THEN 0 ELSE f[Picked(T)] + part[T \ {Picked(T)}]]

LEMMA SumIsPartial ==
  ASSUME NEW f, NEW S
  PROVE  SumFunctionOnSet(f, S) = Parts(f, S)[S]
BY Zenon DEF SumFunctionOnSet, FoldFunctionOnSet, MapThenFoldSet, Parts, Picked

\* The sets below a finite set, and the one that is left of each.
Sized(T, S) ==
  /\ T \subseteq S /\ IsFiniteSet(T) /\ Cardinality(T) \in Nat /\ Cardinality(T) <= Cardinality(S)
  /\ Cardinality(T) = 0 <=> T = {}
  /\ T # {} => /\ Picked(T) \in T /\ T \ {Picked(T)} \in SUBSET S
               /\ Cardinality(T \ {Picked(T)}) = Cardinality(T) - 1

LEMMA SizedParts ==
  ASSUME NEW S, IsFiniteSet(S), NEW T \in SUBSET S
  PROVE  Sized(T, S)
<1>1. IsFiniteSet(T) /\ Cardinality(T) <= Cardinality(S)
  BY FS_Subset
<1>2. Cardinality(T) \in Nat /\ (Cardinality(T) = 0 <=> T = {})
  BY <1>1, FS_CardinalityType, FS_EmptySet
<1>3. ASSUME T # {} PROVE Picked(T) \in T /\ Cardinality(T \ {Picked(T)}) = Cardinality(T) - 1
  <2>1. Picked(T) \in T
    BY <1>3 DEF Picked
  <2> QED BY <1>1, <2>1, FS_RemoveElement
<1> QED BY <1>1, <1>2, <1>3 DEF Sized

\* There is such a function, for as many values as one likes.
LEMMA PartialUnfolds ==
  ASSUME NEW S, IsFiniteSet(S), NEW f, \A x \in S : f[x] \in Int
  PROVE  /\ Parts(f, S) \in [SUBSET S -> Int]
         /\ Parts(f, S)[{}] = 0
         /\ \A T \in SUBSET S :
              T # {} => Parts(f, S)[T] = f[Picked(T)] + Parts(f, S)[T \ {Picked(T)}]
<1> DEFINE Works(part, n) ==
             \A T \in SUBSET S : Cardinality(T) <= n =>
               part[T] = IF T = {} THEN 0 ELSE f[Picked(T)] + part[T \ {Picked(T)}]
           N == {n \in Nat : \E part \in [SUBSET S -> Int] : Works(part, n)}
<1>1. \A T \in SUBSET S : Sized(T, S)
  BY SizedParts
<1>2. 0 \in N
  <2> DEFINE part == [T \in SUBSET S |-> 0]
  <2>1. part \in [SUBSET S -> Int]
    OBVIOUS
  <2>2. Works(part, 0)
    <3> SUFFICES ASSUME NEW T \in SUBSET S, Cardinality(T) <= 0 PROVE part[T] = 0 /\ T = {}
      OBVIOUS
    <3>1. Sized(T, S)
      BY <1>1
    <3> QED BY <3>1 DEF Sized
  <2> HIDE DEF part, Works
  <2> QED BY <2>1, <2>2
<1>3. ASSUME NEW n \in Nat, n \in N PROVE n + 1 \in N
  <2>1. PICK part \in [SUBSET S -> Int] : Works(part, n)
    BY <1>3
  <2> DEFINE more == [T \in SUBSET S |-> IF Cardinality(T) <= n THEN part[T]
                                         ELSE f[Picked(T)] + part[T \ {Picked(T)}]]
  <2>2. more \in [SUBSET S -> Int]
    <3>1. ASSUME NEW T \in SUBSET S, ~(Cardinality(T) <= n) PROVE f[Picked(T)] + part[T \ {Picked(T)}] \in Int
      <4>1. Sized(T, S)
        BY <1>1
      <4>2. T # {} /\ Picked(T) \in S /\ T \ {Picked(T)} \in SUBSET S
        BY <3>1, <4>1 DEF Sized
      <4> QED BY <4>2
    <3> QED BY <3>1
  <2>3. Works(more, n + 1)
    <3>1. ASSUME NEW T \in SUBSET S, Cardinality(T) <= n + 1
          PROVE  more[T] = IF T = {} THEN 0 ELSE f[Picked(T)] + more[T \ {Picked(T)}]
      <4>1. CASE T = {}
        <5>1. Cardinality(T) <= n
          <6>1. Sized(T, S)
            BY <1>1
          <6> QED BY <4>1, <6>1 DEF Sized
        <5> QED BY <2>1, <4>1, <5>1
      <4>2. CASE T # {}
        <5> DEFINE U == T \ {Picked(T)}
        <5>0. Sized(T, S)
          BY <1>1
        <5>1. U \in SUBSET S /\ Cardinality(U) <= n
          BY <3>1, <4>2, <5>0 DEF Sized
        <5>2. more[U] = part[U]
          BY <5>1
        <5>3. more[T] = f[Picked(T)] + part[U]
          BY <2>1, <4>2
        <5> QED BY <4>2, <5>2, <5>3
      <4> QED BY <4>1, <4>2
    <3> QED BY <3>1
  <2> HIDE DEF more, Works
  <2> QED BY <2>2, <2>3
<1>4. Cardinality(S) \in N
  <2> HIDE DEF N
  <2> QED BY <1>2, <1>3, NatInductionOverSet, FS_CardinalityType
<1>5. PICK part \in [SUBSET S -> Int] : Works(part, Cardinality(S))
  BY <1>4
<1>6. ASSUME NEW T \in SUBSET S
      PROVE  part[T] = IF T = {} THEN 0 ELSE f[Picked(T)] + part[T \ {Picked(T)}]
  <2>1. Sized(T, S)
    BY <1>1
  <2> QED BY <1>5, <2>1 DEF Sized
<1>7. part = [T \in SUBSET S |-> IF T = {} THEN 0 ELSE f[Picked(T)] + part[T \ {Picked(T)}]]
  BY <1>6
<1>8. Parts(f, S) = [T \in SUBSET S |-> IF T = {} THEN 0 ELSE f[Picked(T)] + Parts(f, S)[T \ {Picked(T)}]]
  BY <1>7, Zenon DEF Parts
<1>9. ASSUME NEW T \in SUBSET S
      PROVE  Parts(f, S)[T] = IF T = {} THEN 0 ELSE f[Picked(T)] + Parts(f, S)[T \ {Picked(T)}]
  BY <1>8, Zenon
<1> HIDE DEF N
<1> DEFINE M == {n \in Nat : \A T \in SUBSET S : Cardinality(T) <= n => Parts(f, S)[T] \in Int}
<1>10. 0 \in M
  <2> SUFFICES ASSUME NEW T \in SUBSET S, Cardinality(T) <= 0 PROVE Parts(f, S)[T] \in Int
    OBVIOUS
  <2>1. Sized(T, S)
    BY <1>1
  <2>2. T = {}
    BY <2>1 DEF Sized
  <2> QED BY <1>9, <2>2
<1>11. ASSUME NEW n \in Nat, n \in M PROVE n + 1 \in M
  <2> SUFFICES ASSUME NEW T \in SUBSET S, Cardinality(T) <= n + 1 PROVE Parts(f, S)[T] \in Int
    OBVIOUS
  <2>1. CASE T = {}
    <3>1. Parts(f, S)[T] = 0
      BY <1>9, <2>1, Zenon
    <3> QED BY <3>1
  <2>2. CASE T # {}
    <3> DEFINE U == T \ {Picked(T)}
    <3>1. Sized(T, S)
      BY <1>1
    <3>2. U \in SUBSET S /\ Cardinality(U) <= n /\ f[Picked(T)] \in Int
      BY <2>2, <3>1 DEF Sized
    <3>3. Parts(f, S)[T] = f[Picked(T)] + Parts(f, S)[U]
      BY <1>9, <2>2
    <3> HIDE DEF U
    <3>4. Parts(f, S)[U] \in Int
      BY <1>11, <3>2
    <3> QED BY <3>2, <3>3, <3>4
  <2> QED BY <2>1, <2>2
<1>12. Cardinality(S) \in M
  <2> HIDE DEF M
  <2> QED BY <1>10, <1>11, NatInductionOverSet, FS_CardinalityType
<1>13. ASSUME NEW T \in SUBSET S PROVE Parts(f, S)[T] \in Int
  <2>1. Sized(T, S)
    BY <1>1
  <2> QED BY <1>12, <2>1 DEF Sized
<1> QED BY <1>8, <1>9, <1>13

\* What it has for a set depends on nothing else.
LEMMA PartialAgrees ==
  ASSUME NEW S, IsFiniteSet(S), NEW f, \A x \in S : f[x] \in Int,
         NEW U \in SUBSET S, NEW g, \A x \in U : g[x] = f[x]
  PROVE  Parts(f, S)[U] = Parts(g, U)[U]
<1>0. IsFiniteSet(U) /\ \A x \in U : g[x] \in Int
  BY FS_Subset
<1> DEFINE N == {n \in Nat : \A T \in SUBSET U : Cardinality(T) <= n => Parts(f, S)[T] = Parts(g, U)[T]}
<1>1. \A T \in SUBSET U : Sized(T, U)
  BY <1>0, SizedParts
<1>2. /\ Parts(f, S)[{}] = 0
      /\ \A T \in SUBSET S : T # {} => Parts(f, S)[T] = f[Picked(T)] + Parts(f, S)[T \ {Picked(T)}]
  BY PartialUnfolds
<1>3. /\ Parts(g, U)[{}] = 0
      /\ \A T \in SUBSET U : T # {} => Parts(g, U)[T] = g[Picked(T)] + Parts(g, U)[T \ {Picked(T)}]
  BY <1>0, PartialUnfolds
<1>4. 0 \in N
  <2> SUFFICES ASSUME NEW T \in SUBSET U, Cardinality(T) <= 0 PROVE Parts(f, S)[T] = Parts(g, U)[T]
    OBVIOUS
  <2>1. Sized(T, U)
    BY <1>1
  <2>2. T = {}
    BY <2>1 DEF Sized
  <2> QED BY <1>2, <1>3, <2>2
<1>5. ASSUME NEW n \in Nat, n \in N PROVE n + 1 \in N
  <2> SUFFICES ASSUME NEW T \in SUBSET U, Cardinality(T) <= n + 1
               PROVE  Parts(f, S)[T] = Parts(g, U)[T]
    OBVIOUS
  <2>1. CASE T = {}
    BY <1>2, <1>3, <2>1
  <2>2. CASE T # {}
    <3> DEFINE V == T \ {Picked(T)}
    <3>1. Sized(T, U)
      BY <1>1
    <3>2. V \in SUBSET U /\ Cardinality(V) <= n /\ g[Picked(T)] = f[Picked(T)] /\ T \in SUBSET S
      BY <2>2, <3>1 DEF Sized
    <3>3. /\ Parts(f, S)[T] = f[Picked(T)] + Parts(f, S)[V]
          /\ Parts(g, U)[T] = g[Picked(T)] + Parts(g, U)[V]
      BY <1>2, <1>3, <2>2, <3>2
    <3> HIDE DEF V
    <3>4. Parts(f, S)[V] = Parts(g, U)[V]
      BY <1>5, <3>2
    <3> QED BY <3>2, <3>3, <3>4
  <2> QED BY <2>1, <2>2
<1>6. Cardinality(U) \in N
  <2> HIDE DEF N
  <2> QED BY <1>0, <1>4, <1>5, NatInductionOverSet, FS_CardinalityType
<1>7. Sized(U, U)
  BY <1>1
<1> QED BY <1>6, <1>7 DEF Sized

LEMMA SumUnfolds ==
  ASSUME NEW S, IsFiniteSet(S), NEW f, \A x \in S : f[x] \in Int
  PROVE  /\ SumFunctionOnSet(f, S) \in Int /\ SumFunctionOnSet(f, {}) = 0
         /\ S # {} => SumFunctionOnSet(f, S) = f[Picked(S)] + SumFunctionOnSet(f, S \ {Picked(S)})
<1>1. /\ SumFunctionOnSet(f, S) = Parts(f, S)[S] /\ SumFunctionOnSet(f, {}) = Parts(f, {})[{}]
      /\ SumFunctionOnSet(f, S \ {Picked(S)}) = Parts(f, S \ {Picked(S)})[S \ {Picked(S)}]
  BY SumIsPartial
<1>2. Parts(f, S)[S \ {Picked(S)}] = Parts(f, S \ {Picked(S)})[S \ {Picked(S)}]
  <2>1. S \ {Picked(S)} \in SUBSET S
    OBVIOUS
  <2> HIDE DEF Picked
  <2> QED BY <2>1, PartialAgrees
<1>3. Parts(f, {})[{}] = 0
  BY FS_EmptySet, PartialUnfolds
<1>4. S \in SUBSET S
  OBVIOUS
<1>5. /\ Parts(f, S)[S] \in Int
      /\ S # {} => Parts(f, S)[S] = f[Picked(S)] + Parts(f, S)[S \ {Picked(S)}]
  <2>1. /\ Parts(f, S) \in [SUBSET S -> Int]
        /\ \A T \in SUBSET S :
             T # {} => Parts(f, S)[T] = f[Picked(T)] + Parts(f, S)[T \ {Picked(T)}]
    BY PartialUnfolds
  <2> HIDE DEF Picked
  <2>2. S # {} => Parts(f, S)[S] = f[Picked(S)] + Parts(f, S)[S \ {Picked(S)}]
    BY <1>4, <2>1, Zenon
  <2> QED BY <1>4, <2>1, <2>2
<1> QED BY <1>1, <1>2, <1>3, <1>5

\* Any value may be taken out.
LEMMA SumWithout ==
  ASSUME NEW S, IsFiniteSet(S), NEW f, \A x \in S : f[x] \in Int, NEW x \in S
  PROVE  /\ SumFunctionOnSet(f, S) = f[x] + SumFunctionOnSet(f, S \ {x})
         /\ SumFunctionOnSet(f, S) \in Int /\ SumFunctionOnSet(f, S \ {x}) \in Int
<1> DEFINE Total(T) == SumFunctionOnSet(f, T)
           N == {n \in Nat : \A T \in SUBSET S : Cardinality(T) <= n =>
                               \A y \in T : Total(T) = f[y] + Total(T \ {y})}
<1>1. ASSUME NEW T \in SUBSET S
      PROVE  /\ Sized(T, S) /\ Total(T) \in Int
             /\ T # {} => Total(T) = f[Picked(T)] + Total(T \ {Picked(T)})
  <2>1. Sized(T, S)
    BY SizedParts
  <2>2. IsFiniteSet(T) /\ \A y \in T : f[y] \in Int
    BY <2>1 DEF Sized
  <2> QED BY <2>1, <2>2, SumUnfolds
<1> HIDE DEF Total
<1>2. 0 \in N
  <2> SUFFICES ASSUME NEW T \in SUBSET S, Cardinality(T) <= 0 PROVE T = {}
    OBVIOUS
  <2>1. Sized(T, S)
    BY <1>1
  <2> QED BY <2>1 DEF Sized
<1>3. ASSUME NEW n \in Nat, n \in N PROVE n + 1 \in N
  <2> SUFFICES ASSUME NEW T \in SUBSET S, Cardinality(T) <= n + 1, NEW y \in T
               PROVE  Total(T) = f[y] + Total(T \ {y})
    OBVIOUS
  <2> DEFINE z == Picked(T)
             U == T \ {z}
             V == T \ {y}
             W == T \ {y, z}
  <2>1. /\ z \in T /\ U \in SUBSET S /\ Cardinality(U) <= n
        /\ Total(T) = f[z] + Total(U)
    <3>1. T # {} /\ Sized(T, S) /\ Total(T) = f[z] + Total(U)
      BY <1>1
    <3> QED BY <3>1 DEF Sized
  <2>2. V \in SUBSET S /\ Cardinality(V) <= n
    <3>1. IsFiniteSet(T) /\ V \in SUBSET S
      BY FS_Subset
    <3>2. Cardinality(V) = Cardinality(T) - 1 /\ Cardinality(T) \in Nat
      BY <3>1, FS_RemoveElement, FS_CardinalityType
    <3> QED BY <3>1, <3>2
  <2>3. CASE y = z
    BY <2>1, <2>3
  <2>4. CASE y # z
    <3>1. y \in U /\ z \in V /\ U \ {y} = W /\ V \ {z} = W /\ W \in SUBSET S
      BY <2>1, <2>4
    <3> HIDE DEF U, V, W, z
    <3>2. \A R \in SUBSET S : Cardinality(R) <= n => \A r \in R : Total(R) = f[r] + Total(R \ {r})
      BY <1>3
    <3>3. Total(U) = f[y] + Total(W)
      BY <2>1, <3>1, <3>2
    <3>4. Total(V) = f[z] + Total(W)
      BY <2>2, <3>1, <3>2
    <3>5. Total(W) \in Int /\ f[y] \in Int /\ f[z] \in Int
      BY <1>1, <2>1, <3>1
    <3> QED BY <2>1, <3>3, <3>4, <3>5 DEF V
  <2> QED BY <2>3, <2>4
<1>4. Cardinality(S) \in N /\ Cardinality(S) \in Nat
  <2> HIDE DEF N
  <2> QED BY <1>2, <1>3, NatInductionOverSet, FS_CardinalityType
<1>5. S \in SUBSET S /\ S \ {x} \in SUBSET S
  OBVIOUS
<1>6. Total(S) = f[x] + Total(S \ {x})
  BY <1>4, <1>5
<1>7. Total(S) \in Int /\ Total(S \ {x}) \in Int
  BY <1>1, <1>5
<1> QED BY <1>6, <1>7 DEF Total

\* What is covered value by value is covered as a whole.
LEMMA SumsCover ==
  ASSUME NEW D, IsFiniteSet(D), NEW S \in SUBSET D, NEW T \in SUBSET D, NEW U \in SUBSET D,
         NEW f, NEW g, NEW h, \A x \in D : f[x] \in Int /\ g[x] \in Int /\ h[x] \in Int,
         \A x \in D : (IF x \in S THEN f[x] ELSE 0)
                     <= (IF x \in T THEN g[x] ELSE 0) + (IF x \in U THEN h[x] ELSE 0)
  PROVE  SumFunctionOnSet(f, S) <= SumFunctionOnSet(g, T) + SumFunctionOnSet(h, U)
<1> DEFINE Fine(E) == SumFunctionOnSet(f, S \cap E)
                      <= SumFunctionOnSet(g, T \cap E) + SumFunctionOnSet(h, U \cap E)
           N == {n \in Nat : \A E \in SUBSET D : Cardinality(E) <= n => Fine(E)}
<1>1. \A E \in SUBSET D : Sized(E, D)
  BY SizedParts
<1>2. \A E \in SUBSET D : IsFiniteSet(E)
  BY FS_Subset
<1>3. \A k : SumFunctionOnSet(k, {}) = 0
  <2> TAKE k
  <2>1. IsFiniteSet({}) /\ \A x \in {} : k[x] \in Int
    BY FS_EmptySet
  <2> QED BY <2>1, SumUnfolds
<1>4. 0 \in N
  <2> SUFFICES ASSUME NEW E \in SUBSET D, Cardinality(E) <= 0 PROVE Fine(E)
    OBVIOUS
  <2>1. Sized(E, D)
    BY <1>1
  <2>2. S \cap E = {} /\ T \cap E = {} /\ U \cap E = {}
    BY <2>1 DEF Sized
  <2>3. /\ SumFunctionOnSet(f, S \cap E) = SumFunctionOnSet(f, {})
        /\ SumFunctionOnSet(g, T \cap E) = SumFunctionOnSet(g, {})
        /\ SumFunctionOnSet(h, U \cap E) = SumFunctionOnSet(h, {})
    BY <2>2, Zenon
  <2> QED BY <1>3, <2>3
<1>5. ASSUME NEW n \in Nat, n \in N PROVE n + 1 \in N
  <2>a. ASSUME NEW E \in SUBSET D, E = {} PROVE Fine(E)
    <3>1. Cardinality(E) <= 0
      BY <2>a, FS_EmptySet
    <3> QED BY <1>4, <3>1
  <2> SUFFICES ASSUME NEW E \in SUBSET D, Cardinality(E) <= n + 1, E # {} PROVE Fine(E)
    <3> HIDE DEF Fine
    <3> QED BY <2>a
  <2> DEFINE x == Picked(E)
             F == E \ {x}
  <2>1. x \in E /\ F \in SUBSET D /\ Cardinality(F) <= n
    <3>1. Sized(E, D)
      BY <1>1
    <3> QED BY <3>1 DEF Sized
  <2>2. ASSUME NEW R \in SUBSET D, NEW k, \A y \in D : k[y] \in Int
        PROVE  /\ SumFunctionOnSet(k, R \cap E)
                    = (IF x \in R THEN k[x] ELSE 0) + SumFunctionOnSet(k, R \cap F)
               /\ SumFunctionOnSet(k, R \cap F) \in Int
    <3>1. IsFiniteSet(R \cap E) /\ IsFiniteSet(R \cap F)
      BY <1>2
    <3>2. SumFunctionOnSet(k, R \cap F) \in Int
      BY <2>2, <3>1, SumUnfolds
    <3>3. CASE x \in R
      <4>1. x \in R \cap E /\ (R \cap E) \ {x} = R \cap F /\ \A y \in R \cap E : k[y] \in Int
        BY <2>1, <2>2, <3>3
      <4> HIDE DEF x, F
      <4>2. SumFunctionOnSet(k, R \cap E) = k[x] + SumFunctionOnSet(k, (R \cap E) \ {x})
        BY <3>1, <4>1, SumWithout
      <4> QED BY <3>2, <3>3, <4>1, <4>2
    <3>4. CASE x \notin R
      <4>1. R \cap E = R \cap F
        BY <3>4
      <4> HIDE DEF x, F
      <4>2. SumFunctionOnSet(k, R \cap E) = SumFunctionOnSet(k, R \cap F)
        BY <4>1, Zenon
      <4> QED BY <3>2, <3>4, <4>2
    <3> QED BY <3>3, <3>4
  <2> HIDE DEF x, F
  <2>3. Fine(F)
    BY <1>5, <2>1
  <2>4. /\ f[x] \in Int /\ g[x] \in Int /\ h[x] \in Int
        /\ (IF x \in S THEN f[x] ELSE 0) <= (IF x \in T THEN g[x] ELSE 0) + (IF x \in U THEN h[x] ELSE 0)
    BY <2>1
  <2>5. /\ SumFunctionOnSet(f, S \cap E) = (IF x \in S THEN f[x] ELSE 0) + SumFunctionOnSet(f, S \cap F)
        /\ SumFunctionOnSet(g, T \cap E) = (IF x \in T THEN g[x] ELSE 0) + SumFunctionOnSet(g, T \cap F)
        /\ SumFunctionOnSet(h, U \cap E) = (IF x \in U THEN h[x] ELSE 0) + SumFunctionOnSet(h, U \cap F)
        /\ SumFunctionOnSet(f, S \cap F) \in Int /\ SumFunctionOnSet(g, T \cap F) \in Int
        /\ SumFunctionOnSet(h, U \cap F) \in Int
    BY <2>2
  <2> QED BY <2>3, <2>4, <2>5
<1>6. Fine(D)
  <2>1. Cardinality(D) \in N /\ Cardinality(D) \in Nat
    <3> HIDE DEF N
    <3> QED BY <1>4, <1>5, NatInductionOverSet, FS_CardinalityType
  <2>2. D \in SUBSET D
    OBVIOUS
  <2> HIDE DEF Fine
  <2> QED BY <2>1, <2>2
<1>7. S \cap D = S /\ T \cap D = T /\ U \cap D = U
  OBVIOUS
<1> QED BY <1>6, <1>7

\* The sums of sizes are sizes.
LEMMA SumIsSize ==
  ASSUME NEW D, IsFiniteSet(D), NEW S \in SUBSET D, NEW f, \A x \in D : f[x] \in Nat
  PROVE  SumFunctionOnSet(f, S) \in Nat
<1>1. SumFunctionOnSet(f, S) \in Int /\ SumFunctionOnSet(f, {}) = 0
  <2>1. IsFiniteSet(S) /\ \A x \in S : f[x] \in Int
    BY FS_Subset
  <2> QED BY <2>1, SumUnfolds
<1>2. SumFunctionOnSet(f, {}) <= SumFunctionOnSet(f, S) + SumFunctionOnSet(f, {})
  <2>1. /\ {} \in SUBSET D
        /\ \A x \in D : f[x] \in Int /\ f[x] \in Int /\ f[x] \in Int
        /\ \A x \in D : (IF x \in {} THEN f[x] ELSE 0)
                        <= (IF x \in S THEN f[x] ELSE 0) + (IF x \in {} THEN f[x] ELSE 0)
    OBVIOUS
  <2> QED BY <2>1, SumsCover
<1> QED BY <1>1, <1>2

LEMMA MaxOfTwo ==
  ASSUME NEW a \in Int, NEW b \in Int
  PROVE  Max({a, b}) \in Int /\ Max({a, b}) >= a /\ Max({a, b}) >= b
<1>1. \E x \in {a, b} : \A y \in {a, b} : x >= y
  <2>1. CASE a >= b
    BY <2>1
  <2>2. CASE b >= a
    BY <2>2
  <2> QED BY <2>1, <2>2
<1>2. Max({a, b}) \in {a, b} /\ \A y \in {a, b} : Max({a, b}) >= y
  BY <1>1, Zenon DEF Max
<1> QED BY <1>2

LEMMA MinOfTwo ==
  ASSUME NEW a \in Int, NEW b \in Int
  PROVE  Min({a, b}) \in Int
<1>1. \E x \in {a, b} : \A y \in {a, b} : x =< y
  <2>1. CASE a >= b
    BY <2>1
  <2>2. CASE b >= a
    BY <2>2
  <2> QED BY <2>1, <2>2
<1>2. Min({a, b}) \in {a, b}
  BY <1>1, Zenon DEF Min
<1> QED BY <1>2

\* But for its excess, a sample is of one moment: the free memory is at most what was
\* left then by what it says of the jobs that are still alive.
UsedThen(sample, used) ==
  /\ sample.available - sample.excess <= Memory - Elsewhere - SumFunctionOnSet(used, Tasks)
  /\ \A j \in Tasks : load[j].alive => sample.footprints[j] <= used[j]

SampleIsPast(sample) ==
  /\ \A j \in Tasks : load[j].status = "waiting" => sample.footprints[j] = 0
  /\ sample.pc \in {"table", "full"} =>
       sample.tracked = Elsewhere + SumFunctionOnSet(sample.footprints, sample.counted)
  /\ sample.pc = "full" => \E used \in [Tasks -> Nat] : UsedThen(sample, used)

WaitingIsNotAlive == \A j \in Tasks : load[j].status = "waiting" => ~load[j].alive

BudgetInv ==
  /\ BudgetTypeOK /\ WaitingIsNotAlive
  /\ \A s \in Probes : SampleIsPast(sampled[s])

LEMMA BudgetStarts == BudgetInit => BudgetInv
<1> SUFFICES ASSUME BudgetInit PROVE BudgetInv
  OBVIOUS
<1> USE BudgetAssumption
<1>1. BudgetTypeOK
  BY DEF BudgetInit, BudgetTypeOK, Loads, Queued, ProbeType, NoProbe
<1>2. WaitingIsNotAlive
  BY DEF BudgetInit, WaitingIsNotAlive, Queued
<1>3. ASSUME NEW s \in Probes PROVE SampleIsPast(sampled[s])
  <2>1. sampled[s] = NoProbe
    BY DEF BudgetInit
  <2> QED BY <2>1 DEF NoProbe, SampleIsPast
<1> QED BY <1>1, <1>2, <1>3 DEF BudgetInv

\* The steps of the commands and of the queue: no sample changes, and what it says of a
\* job that is alive or waiting is as true as before.
LEMMA LoadsMoveOn ==
  ASSUME BudgetInv, sampled' = sampled, policy' = policy, overstated' \in Int, NEW j \in Tasks,
         NEW l \in Loads, load' = [load EXCEPT ![j] = l],
         l.uses <= (IF l.alive THEN MemoryOf[j] ELSE 0), l.status # "waiting",
         \/ load[j].status = "waiting"
         \/ load[j].alive
         \/ ~l.alive
  PROVE  BudgetInv'
<1> USE BudgetAssumption
<1>0. /\ load \in [Tasks -> Loads] /\ load' \in [Tasks -> Loads] /\ load'[j] = l
      /\ \A i \in Tasks : i # j => load'[i] = load[i]
      /\ sampled \in [Probes -> ProbeType]
  BY DEF BudgetInv, BudgetTypeOK
<1>1. BudgetTypeOK'
  BY <1>0 DEF BudgetInv, BudgetTypeOK
<1>2. WaitingIsNotAlive'
  BY <1>0 DEF BudgetInv, WaitingIsNotAlive
<1>3. ASSUME NEW s \in Probes PROVE SampleIsPast(sampled[s])'
  <2> DEFINE sample == sampled[s]
  <2>1. sample \in ProbeType /\ sampled'[s] = sample /\ SampleIsPast(sample)
    BY <1>0 DEF BudgetInv
  <2>2. sample.footprints \in [Tasks -> Nat]
    BY <2>1 DEF ProbeType
  <2>3. ASSUME NEW i \in Tasks, load[i].status # "waiting", load'[i].alive
        PROVE  load[i].alive
    BY <1>0, <2>3
  <2>4. \A i \in Tasks : load'[i].status = "waiting" => load[i].status = "waiting"
    BY <1>0
  <2>5. \A i \in Tasks : load[i].status = "waiting" => sample.footprints[i] = 0
    BY <2>1 DEF SampleIsPast
  <2> HIDE DEF sample
  <2>8. ASSUME sample.pc = "full"
        PROVE  \E used \in [Tasks -> Nat] : UsedThen(sample, used)'
    <3>1. PICK used \in [Tasks -> Nat] : UsedThen(sample, used)
      BY <2>1, <2>8 DEF SampleIsPast
    <3>2. ASSUME NEW i \in Tasks, load'[i].alive PROVE sample.footprints[i] <= used[i]
      <4>1. CASE load[i].status = "waiting"
        BY <2>5, <3>1, <4>1
      <4>2. CASE load[i].status # "waiting"
        BY <2>3, <3>1, <3>2, <4>2 DEF UsedThen
      <4> QED BY <4>1, <4>2
    <3>3. sample' = sample
      BY <2>1 DEF sample
    <3>4. UsedThen(sample, used)'
      BY <3>1, <3>2, <3>3 DEF UsedThen
    <3> QED BY <3>4
  <2>9. SampleIsPast(sample)'
    <3>1. sample' = sample
      BY <2>1 DEF sample
    <3>2. sample.pc \in {"table", "full"} =>
            sample.tracked = Elsewhere + SumFunctionOnSet(sample.footprints, sample.counted)
      BY <2>1 DEF SampleIsPast
    <3> QED BY <2>4, <2>5, <2>8, <3>1, <3>2 DEF SampleIsPast
  <2> QED BY <2>9 DEF sample
<1> QED BY <1>1, <1>2, <1>3 DEF BudgetInv

\* The steps of a sample that is being made.
LEMMA SampleMovesOn ==
  ASSUME BudgetInv, UNCHANGED <<policy, load, overstated>>, NEW s \in Probes,
         NEW sample \in ProbeType, sampled' = [sampled EXCEPT ![s] = sample], SampleIsPast(sample)
  PROVE  BudgetInv'
<1>1. sampled \in [Probes -> ProbeType] /\ sampled' \in [Probes -> ProbeType]
  BY DEF BudgetInv, BudgetTypeOK
<1>2. BudgetTypeOK' /\ WaitingIsNotAlive'
  BY <1>1 DEF BudgetInv, BudgetTypeOK, WaitingIsNotAlive
<1>3. ASSUME NEW r \in Probes PROVE SampleIsPast(sampled[r])'
  <2>1. sampled'[r] = IF r = s THEN sample ELSE sampled[r]
    BY <1>1
  <2>2. SampleIsPast(sampled'[r])
    <3>1. CASE r = s
      <4>1. sampled'[r] = sample
        BY <2>1, <3>1
      <4> QED BY <4>1
    <3>2. CASE r # s
      <4>1. sampled'[r] = sampled[r] /\ SampleIsPast(sampled[r])
        BY <2>1, <3>2 DEF BudgetInv
      <4> QED BY <4>1
    <3> QED BY <3>1, <3>2
  <2> QED BY <2>2 DEF SampleIsPast, UsedThen
<1> QED BY <1>2, <1>3 DEF BudgetInv

LEMMA SampleSteps ==
  ASSUME BudgetInv, NEW s \in Probes, ReadsTop(s) \/ ReadsTable(s) \/ ReadsFree(s)
  PROVE  BudgetInv'
<1> USE BudgetAssumption
<1>1. /\ load \in [Tasks -> Loads] /\ sampled \in [Probes -> ProbeType]
      /\ \A j \in Tasks : load[j].uses <= (IF load[j].alive THEN MemoryOf[j] ELSE 0)
      /\ \A j \in Tasks : load[j].uses \in Nat /\ load[j].alive \in BOOLEAN
  BY DEF BudgetInv, BudgetTypeOK, Loads
<1>2. \A j \in Tasks : load[j].status = "waiting" => ~load[j].alive /\ load[j].uses = 0
  BY <1>1 DEF BudgetInv, WaitingIsNotAlive
<1>3. Living \in SUBSET Tasks /\ \A j \in Tasks : load[j].status = "waiting" => j \notin Living
  BY <1>2 DEF Living
<1>4. CASE ReadsTop(s)
  <2>1. PICK listed \in SUBSET Living :
          sampled' = [sampled EXCEPT ![s] =
            [NoProbe EXCEPT !.pc = "top",
               !.footprints = [j \in Tasks |-> IF j \in listed THEN load[j].uses ELSE 0]]]
    BY <1>4 DEF ReadsTop
  <2> DEFINE read == [j \in Tasks |-> IF j \in listed THEN load[j].uses ELSE 0]
             sample == [NoProbe EXCEPT !.pc = "top", !.footprints = read]
  <2>2. read \in [Tasks -> Nat] /\ \A j \in Tasks : load[j].status = "waiting" => read[j] = 0
    BY <1>1, <1>3
  <2> HIDE DEF read
  <2>3. sample.pc = "top" /\ sample.footprints = read /\ sample \in ProbeType
    <3>1. NoProbe \in ProbeType
      BY DEF NoProbe, ProbeType
    <3> QED BY <2>2, <3>1 DEF NoProbe, ProbeType
  <2>4. sampled' = [sampled EXCEPT ![s] = sample] /\ UNCHANGED <<policy, load, overstated>>
    BY <1>4, <2>1 DEF ReadsTop, read
  <2> HIDE DEF sample
  <2>5. SampleIsPast(sample)
    BY <2>2, <2>3 DEF SampleIsPast
  <2> QED BY <2>3, <2>4, <2>5, SampleMovesOn
<1>5. CASE ReadsTable(s)
  <2> DEFINE seen == sampled[s].footprints
             Fallen == {j \in Living : seen[j] = 0}
             read(rss) == [j \in Tasks |-> IF j \in Fallen THEN rss[j]
                                           ELSE IF j \in Living THEN seen[j] ELSE 0]
             sample(footprints, counted) ==
               [sampled[s] EXCEPT !.pc = "table", !.footprints = footprints, !.counted = counted,
                  !.tracked = Elsewhere + SumFunctionOnSet(footprints, counted)]
  <2>1. PICK rss \in [Fallen -> UNION {ResidentSize(j) : j \in Fallen}], tree \in Trees :
          /\ \A j \in Fallen : rss[j] \in ResidentSize(j)
          /\ sampled' = [sampled EXCEPT ![s] = sample(read(rss), Living \cap tree)]
    <3>1. \E rss \in [Fallen -> UNION {ResidentSize(j) : j \in Fallen}] :
            /\ \A j \in Fallen : rss[j] \in ResidentSize(j)
            /\ \E tree \in Trees :
                 sampled' = [sampled EXCEPT ![s] = sample(read(rss), Living \cap tree)]
      <4>1. sampled \in [Probes -> ProbeType]
        BY <1>1
      <4> QED BY <1>5, <4>1, Zenon DEF ReadsTable
    <3> QED BY <3>1, Zenon
  <2>2. sampled[s] \in ProbeType /\ sampled[s].pc = "top" /\ seen \in [Tasks -> Nat]
    BY <1>1, <1>5 DEF ReadsTable, ProbeType
  <2> DEFINE footprints == read(rss)
             counted == Living \cap tree
  <2>3. /\ footprints \in [Tasks -> Nat]
        /\ \A j \in Tasks : load[j].status = "waiting" => footprints[j] = 0
    <3>1. \A j \in Fallen : j \in Living /\ rss[j] \in Nat
      BY <1>1, <1>3, <2>1 DEF ResidentSize
    <3> HIDE DEF Fallen
    <3> QED BY <1>3, <2>2, <3>1
  <2>4. counted \in SUBSET Tasks
    BY <1>3
  <2>5. sampled' = [sampled EXCEPT ![s] = sample(footprints, counted)]
    BY <2>1
  <2> HIDE DEF footprints, counted, read
  <2>6. SumFunctionOnSet(footprints, counted) \in Nat
    BY <2>3, <2>4, SumIsSize
  <2>7. /\ sample(footprints, counted).pc = "table"
        /\ sample(footprints, counted).footprints = footprints
        /\ sample(footprints, counted).counted = counted
        /\ sample(footprints, counted).tracked = Elsewhere + SumFunctionOnSet(footprints, counted)
        /\ sample(footprints, counted) \in ProbeType
    <3> DEFINE total == Elsewhere + SumFunctionOnSet(footprints, counted)
    <3>1. total \in Nat
      BY <2>6
    <3> HIDE DEF total
    <3> DEFINE it == [sampled[s] EXCEPT !.pc = "table", !.footprints = footprints, !.counted = counted,
                                   !.tracked = total]
    <3>3. it.pc = "table" /\ it.footprints = footprints /\ it.counted = counted /\ it.tracked = total /\ it \in ProbeType
      BY <2>2, <2>3, <2>4, <3>1 DEF ProbeType
    <3> QED BY <3>3 DEF total
  <2>8. SampleIsPast(sample(footprints, counted))
    <3> HIDE DEF sample
    <3> QED BY <2>3, <2>7 DEF SampleIsPast
  <2>9. UNCHANGED <<policy, load, overstated>>
    BY <1>5 DEF ReadsTable
  <2> HIDE DEF sample
  <2> QED BY <2>5, <2>7, <2>8, <2>9, SampleMovesOn
<1>6. CASE ReadsFree(s)
  <2> DEFINE now == [j \in Tasks |-> load[j].uses]
             read == sampled[s].footprints
             over == Excess(read)
             used == [j \in Tasks |-> now[j] + (IF j \in Living THEN over[j] ELSE 0)]
             sample(inactive) == [sampled[s] EXCEPT !.pc = "full", !.available = Spare + inactive,
                                    !.excess = inactive + SumFunctionOnSet(over, Living)]
  <2>1. PICK inactive \in 0..InactivePages : sampled' = [sampled EXCEPT ![s] = sample(inactive)]
    BY <1>6 DEF ReadsFree
  <2>2. sampled[s] \in ProbeType /\ sampled[s].pc = "table" /\ SampleIsPast(sampled[s])
    BY <1>1, <1>6 DEF ReadsFree, BudgetInv
  <2>3. read \in [Tasks -> Nat] /\ now \in [Tasks -> Nat]
    BY <1>1, <2>2 DEF ProbeType
  <2>4. ASSUME NEW j \in Tasks
        PROVE  over[j] \in Nat /\ read[j] <= now[j] + over[j]
    <3>1. over[j] = Max({0, read[j] - now[j]})
      BY DEF Excess
    <3>2. read[j] \in Nat /\ now[j] \in Nat
      BY <2>3
    <3>3. 0 \in Int /\ read[j] - now[j] \in Int
      BY <3>2
    <3> HIDE DEF over, read, now
    <3>4. over[j] \in Int /\ over[j] >= 0 /\ over[j] >= read[j] - now[j]
      BY <3>1, <3>3, MaxOfTwo
    <3> QED BY <3>2, <3>4
  <2>5. Spare = Memory - Elsewhere - SumFunctionOnSet(now, Tasks)
    BY DEF Spare
  <2> HIDE DEF now, over, read
  <2>6. used \in [Tasks -> Nat] /\ \A j \in Tasks : j \in Living => read[j] <= used[j]
    BY <2>3, <2>4
  <2>7. /\ SumFunctionOnSet(now, Tasks) \in Nat /\ SumFunctionOnSet(over, Living) \in Nat
        /\ SumFunctionOnSet(used, Tasks) \in Nat
    BY <1>3, <2>3, <2>4, <2>6, SumIsSize
  <2>8. SumFunctionOnSet(used, Tasks) <= SumFunctionOnSet(now, Tasks) + SumFunctionOnSet(over, Living)
    <3>1. \A j \in Tasks : used[j] \in Int /\ now[j] \in Int /\ over[j] \in Int
      BY <2>3, <2>4, <2>6
    <3>2. \A j \in Tasks : (IF j \in Tasks THEN used[j] ELSE 0)
                           <= (IF j \in Tasks THEN now[j] ELSE 0) + (IF j \in Living THEN over[j] ELSE 0)
      BY <3>1
    <3> HIDE DEF used
    <3> QED BY <1>3, <3>1, <3>2, SumsCover
  <2> HIDE DEF used
  <2> DEFINE free == Spare + inactive
             more == inactive + SumFunctionOnSet(over, Living)
  <2>9. free \in Int /\ more \in Int /\ free - more <= Memory - Elsewhere - SumFunctionOnSet(used, Tasks)
    <3>1. inactive \in Int /\ Memory \in Int /\ Elsewhere \in Int
      OBVIOUS
    <3> QED BY <2>5, <2>7, <2>8, <3>1
  <2>10. sampled' = [sampled EXCEPT ![s] = [sampled[s] EXCEPT !.pc = "full", !.available = free, !.excess = more]]
    BY <2>1
  <2> HIDE DEF free, more, sample
  <2> DEFINE it == [sampled[s] EXCEPT !.pc = "full", !.available = free, !.excess = more]
  <2>11. /\ it.pc = "full" /\ it.footprints = read /\ it.available = free /\ it.excess = more
         /\ it.counted = sampled[s].counted /\ it.tracked = sampled[s].tracked /\ it \in ProbeType
    BY <2>2, <2>9 DEF ProbeType, read
  <2> HIDE DEF it
  <2>12. UsedThen(it, used)
    <3>1. \A j \in Tasks : load[j].alive => j \in Living
      BY DEF Living
    <3> QED BY <2>6, <2>9, <2>11, <3>1 DEF UsedThen
  <2>13. SampleIsPast(it)
    BY <2>2, <2>6, <2>11, <2>12 DEF SampleIsPast, read
  <2>14. UNCHANGED <<policy, load, overstated>>
    BY <1>6 DEF ReadsFree
  <2> QED BY <2>10, <2>11, <2>13, <2>14, SampleMovesOn DEF it
<1> QED BY <1>4, <1>5, <1>6

LEMMA BudgetStep ==
  ASSUME BudgetInv, [BudgetNext]_budgetvars
  PROVE  BudgetInv'
<1> USE BudgetAssumption
<1>1. CASE UNCHANGED budgetvars
  BY <1>1 DEF budgetvars, BudgetInv, BudgetTypeOK, WaitingIsNotAlive, SampleIsPast, UsedThen
<1>2. ASSUME NEW s \in Probes, ReadsTop(s) \/ ReadsTable(s) \/ ReadsFree(s) PROVE BudgetInv'
  BY <1>2, SampleSteps
<1>3. ASSUME NEW j \in Tasks, CommandGrows(j) \/ CommandShrinks(j) \/ CommandEnds(j) \/ EntryGoes(j)
      PROVE  BudgetInv'
  <2>1. /\ load \in [Tasks -> Loads] /\ load[j] \in Loads /\ sampled' = sampled /\ policy' = policy
        /\ overstated' \in Int
        /\ load[j].uses <= (IF load[j].alive THEN MemoryOf[j] ELSE 0)
        /\ load[j].alive => load[j].status # "waiting"
    BY <1>3 DEF BudgetInv, BudgetTypeOK, WaitingIsNotAlive, CommandGrows, CommandShrinks, CommandEnds,
                EntryGoes
  <2>2. CASE CommandGrows(j)
    <3> DEFINE l == [load[j] EXCEPT !.uses = @ + 1]
    <3>1. /\ l \in Loads /\ l.uses <= MemoryOf[j] /\ l.alive /\ load[j].alive
          /\ l.status = load[j].status
      BY <2>1, <2>2 DEF CommandGrows, Loads
    <3>2. load' = [load EXCEPT ![j] = l]
      BY <2>1, <2>2 DEF CommandGrows
    <3> HIDE DEF l
    <3> QED BY <2>1, <3>1, <3>2, LoadsMoveOn
  <2>5. CASE CommandShrinks(j)
    <3> DEFINE l == [load[j] EXCEPT !.uses = @ - 1]
    <3>0. load[j].uses \in Nat /\ load[j].uses > 0 /\ load[j].uses <= MemoryOf[j] /\ MemoryOf[j] \in Nat
      BY <2>1, <2>5 DEF CommandShrinks, Loads
    <3>1. /\ l \in Loads /\ l.uses <= MemoryOf[j] /\ l.alive /\ load[j].alive
          /\ l.status = load[j].status
      BY <2>1, <2>5, <3>0 DEF CommandShrinks, Loads
    <3>2. load' = [load EXCEPT ![j] = l]
      BY <2>1, <2>5 DEF CommandShrinks
    <3> HIDE DEF l
    <3> QED BY <2>1, <3>1, <3>2, LoadsMoveOn
  <2>3. CASE CommandEnds(j)
    <3> DEFINE l == [load[j] EXCEPT !.alive = FALSE, !.uses = 0]
    <3>1. l \in Loads /\ l.uses = 0 /\ ~l.alive /\ load[j].alive /\ l.status = load[j].status
      BY <2>1, <2>3 DEF CommandEnds, Loads
    <3>2. load' = [load EXCEPT ![j] = l]
      BY <2>1, <2>3 DEF CommandEnds
    <3>3. l.uses <= (IF l.alive THEN MemoryOf[j] ELSE 0) /\ l.status # "waiting"
      BY <2>1, <3>1
    <3> HIDE DEF l
    <3> QED BY <2>1, <3>1, <3>2, <3>3, LoadsMoveOn
  <2>4. CASE EntryGoes(j)
    <3> DEFINE l == [load[j] EXCEPT !.status = "gone"]
    <3>1. l \in Loads /\ l.uses = load[j].uses /\ ~l.alive /\ ~load[j].alive /\ l.status = "gone"
      BY <2>1, <2>4 DEF EntryGoes, Loads
    <3>2. load' = [load EXCEPT ![j] = l]
      BY <2>1, <2>4 DEF EntryGoes
    <3>3. l.uses <= (IF l.alive THEN MemoryOf[j] ELSE 0) /\ l.status # "waiting"
      BY <2>1, <3>1
    <3> HIDE DEF l
    <3> QED BY <2>1, <3>1, <3>2, <3>3, LoadsMoveOn
  <2> QED BY <1>3, <2>2, <2>3, <2>4, <2>5
<1>4. ASSUME NEW j \in Tasks, NEW s \in Probes, AdmitsLoad(j, s) PROVE BudgetInv'
  <2> DEFINE l == [status |-> "running", alive |-> TRUE, uses |-> 0]
  <2>1. l \in Loads /\ l.uses = 0 /\ l.uses <= MemoryOf[j] /\ l.alive /\ l.status = "running"
    BY DEF Loads
  <2>2. /\ load' = [load EXCEPT ![j] = l] /\ sampled' = sampled /\ policy' = policy
        /\ load[j].status = "waiting" /\ overstated' = sampled[s].excess
    BY <1>4 DEF AdmitsLoad
  <2>3. overstated' \in Int
    BY <2>2 DEF BudgetInv, BudgetTypeOK, ProbeType
  <2> HIDE DEF l
  <2> QED BY <2>1, <2>2, <2>3, LoadsMoveOn
<1> QED BY <1>1, <1>2, <1>3, <1>4 DEF BudgetNext

\* What the check in decide leaves to be shown: MEMORY of the jobs that run is covered by
\* what the sample has of them and by what is set aside for them.
LEMMA SampleCovers ==
  ASSUME BudgetInv, NEW s \in Probes, sampled[s].pc = "full"
  PROVE  /\ Promised \in Nat /\ Outstanding(sampled[s]) \in Int /\ Accounted(sampled[s]) \in Int
         /\ sampled[s].available \in Int /\ sampled[s].excess \in Int
         /\ Elsewhere + Promised <= Accounted(sampled[s])
         /\ Memory - Elsewhere - Promised
              >= sampled[s].available - sampled[s].excess - Outstanding(sampled[s])
<1> USE BudgetAssumption
<1> DEFINE sample == sampled[s]
           rest == [j \in Tasks |-> Reserve(j, sample) - Measured(j, sample)]
           extra == [j \in Tasks |-> Reserve(j, sample) - Already(j, sample)]
<1>1. /\ sample \in ProbeType /\ SampleIsPast(sample) /\ sample.pc = "full"
      /\ sample.footprints \in [Tasks -> Nat] /\ sample.counted \in SUBSET Tasks
      /\ sample.tracked \in Nat /\ sample.available \in Int /\ sample.excess \in Int
      /\ load \in [Tasks -> Loads]
  BY DEF BudgetInv, BudgetTypeOK, ProbeType
<1>2. PICK used \in [Tasks -> Nat] : UsedThen(sample, used)
  BY <1>1 DEF SampleIsPast
<1> HIDE DEF sample
<1>3. ASSUME NEW j \in Tasks
      PROVE  /\ MemoryOf[j] \in Nat /\ used[j] \in Nat /\ sample.footprints[j] \in Nat
             /\ Measured(j, sample) \in Nat /\ Measured(j, sample) <= used[j]
             /\ Measured(j, sample) <= sample.footprints[j]
             /\ Already(j, sample) = IF j \in sample.counted THEN Measured(j, sample) ELSE 0
             /\ Reserve(j, sample) \in Int /\ MemoryOf[j] <= Reserve(j, sample)
  <2>1. MemoryOf[j] \in Nat /\ used[j] \in Nat /\ sample.footprints[j] \in Nat /\ load[j].alive \in BOOLEAN
    BY <1>1 DEF Loads
  <2>2. load[j].alive => sample.footprints[j] <= used[j]
    BY <1>2 DEF UsedThen
  <2>3. /\ Measured(j, sample) \in Nat /\ Measured(j, sample) <= used[j]
        /\ Measured(j, sample) <= sample.footprints[j]
    BY <2>1, <2>2 DEF Measured
  <2>4. Reserve(j, sample) \in Int /\ Reserve(j, sample) >= MemoryOf[j]
    <3>1. MemoryOf[j] \in Int /\ Measured(j, sample) \in Int
      BY <2>1, <2>3
    <3> HIDE DEF Measured
    <3> QED BY <3>1, MaxOfTwo DEF Reserve
  <2> QED BY <2>1, <2>3, <2>4 DEF Already
<1>4. /\ Active \in SUBSET Tasks /\ Tasks \in SUBSET Tasks
      /\ Outstanding(sample) = SumFunctionOnSet(rest, Active)
      /\ Accounted(sample) = sample.tracked + SumFunctionOnSet(extra, Active)
      /\ Promised = SumFunctionOnSet(MemoryOf, Active)
      /\ sample.tracked = Elsewhere + SumFunctionOnSet(sample.footprints, sample.counted)
      /\ sample.available - sample.excess <= Memory - Elsewhere - SumFunctionOnSet(used, Tasks)
  BY <1>1, <1>2 DEF Active, Outstanding, Accounted, Promised, SampleIsPast, UsedThen
<1>5. \A j \in Tasks : /\ rest[j] = Reserve(j, sample) - Measured(j, sample)
                       /\ extra[j] = Reserve(j, sample) - Already(j, sample)
  OBVIOUS
<1> HIDE DEF rest, extra
<1>6. \A j \in Tasks :
        /\ MemoryOf[j] \in Int /\ used[j] \in Int /\ sample.footprints[j] \in Int
        /\ rest[j] \in Int /\ extra[j] \in Int
  BY <1>3, <1>5
<1>7. SumFunctionOnSet(MemoryOf, Active) <= SumFunctionOnSet(used, Tasks) + SumFunctionOnSet(rest, Active)
  <2>1. \A j \in Tasks : (IF j \in Active THEN MemoryOf[j] ELSE 0)
                         <= (IF j \in Tasks THEN used[j] ELSE 0) + (IF j \in Active THEN rest[j] ELSE 0)
    BY <1>3, <1>5
  <2> QED BY <1>4, <1>6, <2>1, SumsCover
<1>8. SumFunctionOnSet(MemoryOf, Active)
        <= SumFunctionOnSet(sample.footprints, sample.counted) + SumFunctionOnSet(extra, Active)
  <2>1. ASSUME NEW j \in Tasks
        PROVE  (IF j \in Active THEN MemoryOf[j] ELSE 0)
               <= (IF j \in sample.counted THEN sample.footprints[j] ELSE 0)
                  + (IF j \in Active THEN extra[j] ELSE 0)
    BY <1>3, <1>5
  <2> QED BY <1>1, <1>4, <1>6, <2>1, SumsCover
<1>9. /\ SumFunctionOnSet(MemoryOf, Active) \in Nat /\ SumFunctionOnSet(used, Tasks) \in Nat
      /\ SumFunctionOnSet(sample.footprints, sample.counted) \in Nat
  BY <1>1, <1>3, <1>4, SumIsSize
<1>10. SumFunctionOnSet(rest, Active) \in Int /\ SumFunctionOnSet(extra, Active) \in Int
  <2>1. IsFiniteSet(Active) /\ \A j \in Active : rest[j] \in Int /\ extra[j] \in Int
    BY <1>4, <1>6, FS_Subset
  <2> QED BY <2>1, SumUnfolds
<1>11. Memory \in Nat /\ Elsewhere \in Nat
  OBVIOUS
<1> QED BY <1>1, <1>4, <1>7, <1>8, <1>9, <1>10, <1>11 DEF sample

LEMMA MarginIsInt == ASSUME BudgetTypeOK PROVE Margin \in Int
<1>1. policy.headroom \in Int /\ HalfGib \in Int
  BY BudgetAssumption DEF BudgetTypeOK, HalfGib
<1> QED BY <1>1, MinOfTwo DEF Margin

LEMMA OvercommitStep ==
  ASSUME BudgetInv, NothingOvercommitted, [BudgetNext]_budgetvars
  PROVE  NothingOvercommitted'
<1> USE BudgetAssumption
<1>1. /\ load \in [Tasks -> Loads] /\ policy \in Policies /\ policy.cap \in Nat
      /\ Margin \in Int /\ Memory \in Nat /\ Elsewhere \in Nat
      /\ Active \in SUBSET Tasks /\ IsFiniteSet(Active) /\ \A j \in Active : MemoryOf[j] \in Int
  <2>1. Active \in SUBSET Tasks
    BY DEF Active
  <2> QED BY <2>1, MarginIsInt, FS_Subset DEF BudgetInv, BudgetTypeOK
<1>2. Promised \in Nat /\ Promised = SumFunctionOnSet(MemoryOf, Active)
  <2>1. \A j \in Tasks : MemoryOf[j] \in Nat
    OBVIOUS
  <2> QED BY <1>1, <2>1, SumIsSize DEF Promised
<1>3. ASSUME UNCHANGED <<policy, overstated>>, Active' = Active PROVE NothingOvercommitted'
  <2>1. Promised' = Promised
    BY <1>3, Zenon DEF Promised
  <2>2. Margin' = Margin
    BY <1>3 DEF Margin
  <2> HIDE DEF Active
  <2> QED BY <1>3, <2>1, <2>2 DEF NothingOvercommitted
<1>4. CASE UNCHANGED budgetvars
  BY <1>3, <1>4 DEF budgetvars, Active
<1>5. ASSUME NEW s \in Probes, ReadsTop(s) \/ ReadsTable(s) \/ ReadsFree(s) PROVE NothingOvercommitted'
  BY <1>3, <1>5 DEF ReadsTop, ReadsTable, ReadsFree, Active
<1>6. ASSUME NEW j \in Tasks, CommandGrows(j) \/ CommandShrinks(j) \/ CommandEnds(j)
      PROVE  NothingOvercommitted'
  <2>1. UNCHANGED <<policy, overstated>> /\ \A i \in Tasks : load'[i].status = load[i].status
    BY <1>1, <1>6 DEF CommandGrows, CommandShrinks, CommandEnds, Loads
  <2> QED BY <1>3, <2>1 DEF Active
<1>7. ASSUME NEW j \in Tasks, EntryGoes(j) PROVE NothingOvercommitted'
  <2>1. /\ UNCHANGED <<policy, overstated>> /\ j \in Active /\ Active' = Active \ {j}
    BY <1>1, <1>7 DEF EntryGoes, Active
  <2>2. Promised' = SumFunctionOnSet(MemoryOf, Active \ {j})
    BY <2>1, Zenon DEF Promised
  <2>3. /\ Promised = MemoryOf[j] + SumFunctionOnSet(MemoryOf, Active \ {j}) /\ MemoryOf[j] \in Nat
        /\ SumFunctionOnSet(MemoryOf, Active \ {j}) \in Int
    BY <1>1, <1>2, <2>1, SumWithout
  <2>4. Margin' = Margin
    BY <2>1 DEF Margin
  <2>5. Active # {}
    BY <2>1
  <2> HIDE DEF Active, Margin
  <2>6. /\ policy.mode = "strict" => Elsewhere + Promised <= policy.cap
        /\ Memory - Elsewhere - Promised >= Margin - overstated /\ overstated \in Int
    BY <2>5 DEF NothingOvercommitted, BudgetInv, BudgetTypeOK
  <2>7. Promised' \in Int /\ Promised' <= Promised
    <3> DEFINE before == Promised
               after == SumFunctionOnSet(MemoryOf, Active \ {j})
    <3> HIDE DEF before, after
    <3>1. before = MemoryOf[j] + after /\ MemoryOf[j] \in Nat /\ after \in Int /\ Promised' = after
      BY <2>2, <2>3 DEF before, after
    <3>2. after \in Int /\ after <= before
      BY <3>1
    <3> QED BY <3>1, <3>2 DEF before
  <2>8. /\ policy.mode = "strict" => Elsewhere + Promised' <= policy.cap
        /\ Memory - Elsewhere - Promised' >= Margin - overstated
    <3> DEFINE before == Promised
               after == Promised'
    <3> HIDE DEF before, after
    <3>1. before \in Nat /\ after \in Int /\ after <= before
      BY <1>2, <2>7 DEF before, after
    <3>2. /\ policy.mode = "strict" => Elsewhere + before <= policy.cap
          /\ Memory - Elsewhere - before >= Margin - overstated
      BY <2>6 DEF before
    <3>3. /\ policy.cap \in Nat /\ Margin \in Int /\ Memory \in Nat /\ Elsewhere \in Nat
          /\ overstated \in Int
      BY <1>1, <2>6
    <3>4. /\ policy.mode = "strict" => Elsewhere + after <= policy.cap
          /\ Memory - Elsewhere - after >= Margin - overstated
      BY <3>1, <3>2, <3>3
    <3> QED BY <3>4 DEF after
  <2> QED BY <2>1, <2>4, <2>8 DEF NothingOvercommitted
<1>8. ASSUME NEW j \in Tasks, NEW s \in Probes, AdmitsLoad(j, s) PROVE NothingOvercommitted'
  <2>0. /\ load[j].status = "waiting" /\ load'[j].status = "running"
        /\ \A i \in Tasks : i # j => load'[i] = load[i]
    BY <1>1, <1>8 DEF AdmitsLoad
  <2>1. /\ UNCHANGED policy /\ j \in Active' /\ Active' \ {j} = Active /\ Active' \in SUBSET Tasks
        /\ Fits(j, sampled[s]) /\ sampled[s].pc = "full" /\ overstated' = sampled[s].excess
    <3>1. j \in Active' /\ Active' \ {j} = Active /\ Active' \in SUBSET Tasks
      BY <2>0 DEF Active
    <3>2. /\ UNCHANGED policy /\ Fits(j, sampled[s]) /\ sampled[s].pc = "full"
          /\ overstated' = sampled[s].excess
      BY <1>8, Zenon DEF AdmitsLoad
    <3> QED BY <3>1, <3>2
  <2>2. Promised' = MemoryOf[j] + Promised
    <3> DEFINE S == Active'
    <3>1. IsFiniteSet(S) /\ j \in S /\ \A i \in S : MemoryOf[i] \in Int
      BY <2>1, FS_Subset
    <3>2. Promised' = SumFunctionOnSet(MemoryOf, S)
      BY Zenon DEF Promised
    <3>3. S \ {j} = Active
      BY <2>1
    <3> HIDE DEF S
    <3>4. SumFunctionOnSet(MemoryOf, S) = MemoryOf[j] + SumFunctionOnSet(MemoryOf, S \ {j})
      BY <3>1, SumWithout
    <3>5. SumFunctionOnSet(MemoryOf, S \ {j}) = Promised
      BY <3>3, Zenon DEF Promised
    <3> QED BY <3>2, <3>4, <3>5
  <2>3. Margin' = Margin
    BY <2>1 DEF Margin
  <2>4. /\ Outstanding(sampled[s]) \in Int /\ Accounted(sampled[s]) \in Int
        /\ sampled[s].available \in Int /\ sampled[s].excess \in Int
        /\ Elsewhere + Promised <= Accounted(sampled[s])
        /\ Memory - Elsewhere - Promised
             >= sampled[s].available - sampled[s].excess - Outstanding(sampled[s])
    BY <2>1, SampleCovers
  <2>5. /\ policy.mode = "strict" => Accounted(sampled[s]) + MemoryOf[j] <= policy.cap
        /\ sampled[s].available - Outstanding(sampled[s]) - MemoryOf[j] >= Margin
    BY <2>1 DEF Fits
  <2>6. MemoryOf[j] \in Nat
    OBVIOUS
  <2> HIDE DEF Active, Margin, Outstanding, Accounted
  <2>7. /\ policy.mode = "strict" => Elsewhere + Promised' <= policy.cap
        /\ Memory - Elsewhere - Promised' >= Margin - overstated'
    BY <1>1, <1>2, <2>1, <2>2, <2>4, <2>5, <2>6
  <2> QED BY <2>1, <2>3, <2>7 DEF NothingOvercommitted
<1> QED BY <1>4, <1>5, <1>6, <1>7, <1>8 DEF BudgetNext

\* The types of the jobs and of the samples, and no command uses more than it has
\* asked for.
THEOREM BudgetTypeCorrect == BudgetSpec => []BudgetTypeOK
<1>1. BudgetInv => BudgetTypeOK
  BY DEF BudgetInv
<1> QED BY <1>1, BudgetStarts, BudgetStep, PTL DEF BudgetSpec

\* What decide has promised to the running jobs stays within the budget, and leaves the
\* headroom of the host but for the excess of the last sample: for any number of jobs that
\* keep to their requests and any number of samples, whatever their ages and errors.
THEOREM MemoryIsNotOvercommitted == BudgetSpec => []NothingOvercommitted
<1>1. BudgetInit => NothingOvercommitted
  BY DEF BudgetInit, Queued, Active, NothingOvercommitted
<1> QED BY <1>1, BudgetStarts, BudgetStep, OvercommitStep, PTL DEF BudgetSpec

(***************************************************************************)
(* Allowance.                                                              *)
(***************************************************************************)

Rows == [at : 0..Horizon, kb : Nat]
ShareType == [reserve : Nat, peak : Usages, floor : Nat \cup {Unknown}, window : SUBSET Rows,
              since : 0..Horizon, last : 0..Horizon, orphaned : BOOLEAN, recovery : BOOLEAN]
Readings == [0..Horizon -> Usages]

\* Neither the allowance nor a peak grows out of bounds, however often it is carried on.
Bounded(job) == /\ job.reserve <= Ceiling
                /\ job.floor <= Highest
                /\ \A row \in job.window : row.kb <= Highest

\* What was measured is in the allowance, and in the peak of the lifetime.
Reserves(job, seen) == /\ \A t \in 0..Horizon : seen[t] <= job.reserve
                       /\ kind = "explicit" => job.reserve >= Request
Peaked(job, seen) == \A t \in 0..Horizon : seen[t] <= job.peak

\* What was measured since the window began is in a row of it, and later than its
\* last row nothing was measured.
InWindow(window, since, seen) ==
  \E newest \in window :
    /\ \A row \in window : row.at <= newest.at /\ (row.at = newest.at => row = newest)
    /\ newest.at <= clock /\ since <= newest.at
    /\ \A t \in 0..Horizon : seen[t] # 0 => t <= newest.at
    /\ \A t \in 0..Horizon : since < t /\ seen[t] # 0 => \E row \in window : row.at = t /\ seen[t] <= row.kb
WindowTrue(job, seen) ==
  /\ IsFiniteSet(job.window)
  /\ kind = "adaptive" /\ job.window # {} => InWindow(job.window, job.since, seen)

Recent(seen) == \A t \in 0..Horizon : seen[t] # 0 => t <= clock /\ clock - t <= Window

\* A host sample that was applied is in the peak.
LastTrue(job) ==
  /\ job.last <= clock
  /\ job.last = clock => host.at = clock /\ (~host.fault => host.kb <= job.peak)

AllowanceInv ==
  /\ AllowanceTypeOK /\ Recent(grown)
  /\ Reserves(share, grown) /\ Peaked(share, grown) /\ WindowTrue(share, grown) /\ LastTrue(share)
  /\ host.at <= clock /\ (host.busy => host = Busy)

LEMMA LargerIs ==
  \A m, n \in Int : Larger(m, n) >= m /\ Larger(m, n) >= n /\ Larger(m, n) \in {m, n}
BY DEF Larger

LEMMA QuarterIs == \A kb \in Nat : Quarter(kb) \in Nat /\ Quarter(kb) >= kb
BY DEF Quarter

\* Four fifths, rounded up, with the margin are no less than the whole.
LEMMA FourFifths == \A kb \in Nat : (kb * 4 + 4) \div 5 \in Nat /\ Quarter((kb * 4 + 4) \div 5) >= kb
BY DEF Quarter

LEMMA QuarterGrows == \A m, n \in Nat : m <= n => Quarter(m) <= Quarter(n)
BY DEF Quarter

LEMMA MaxOfThree ==
  ASSUME NEW a \in Nat, NEW b \in Nat, NEW c \in Nat
  PROVE  Max({a, b, c}) \in {a, b, c} /\ Max({a, b, c}) \in Nat /\ Max({a, b, c}) >= a /\ Max({a, b, c}) >= b /\ Max({a, b, c}) >= c
<1>1. IsFiniteSet({a, b, c})
  <2>1. IsFiniteSet({a})
    BY FS_Singleton
  <2>2. IsFiniteSet({a} \cup {b})
    BY <2>1, FS_AddElement
  <2>3. IsFiniteSet(({a} \cup {b}) \cup {c})
    BY <2>2, FS_AddElement
  <2>4. {a, b, c} = ({a} \cup {b}) \cup {c}
    OBVIOUS
  <2> QED BY <2>3, <2>4, Zenon
<1> QED BY <1>1, GreatestIn

\* What the bounds allow; they are fixed points of carrying on and of the margin.
LEMMA BoundsAre ==
  /\ Highest \in Nat /\ Ceiling \in Nat /\ Highest <= Ceiling /\ LeastShare <= Ceiling /\ Request <= Ceiling
  /\ \A kb \in Usages : kb <= Highest
  /\ \A kb \in Nat : kb <= Highest => Quarter(kb) <= Ceiling
  /\ \A kb \in Nat : kb <= Ceiling => (kb * 4 + 4) \div 5 <= Highest
<1>1. /\ Usages \subseteq Nat /\ Usages # {} /\ IsFiniteSet(Usages) /\ Request \in Nat
  BY AllowanceAssumption
<1>2. Largest \in Nat /\ \A kb \in Usages : kb <= Largest
  <2>1. Max(Usages) \in Usages /\ \A kb \in Usages : Max(Usages) >= kb
    BY <1>1, GreatestIn
  <2>2. Largest \in Usages /\ \A kb \in Usages : Largest >= kb
    BY <2>1, Zenon DEF Largest
  <2>3. Largest \in Nat
    BY <1>1, <2>2
  <2>4. \A kb \in Usages : kb \in Nat
    BY <1>1
  <2> QED BY <2>2, <2>3, <2>4
<1> DEFINE r == (Request + 4) \div 5
           l == (Largest + 3) \div 4
<1>3. r \in Nat /\ l \in Nat /\ Request <= 5 * r /\ Largest <= 4 * l
  BY <1>1, <1>2
<1>4. Part = Max({r, l, 1})
  BY Zenon DEF Part
<1> HIDE DEF r, l
<1>5. Part \in Nat /\ Part >= r /\ Part >= l /\ Part >= 1
  <2>1. /\ Max({r, l, 1}) \in Nat /\ Max({r, l, 1}) >= r /\ Max({r, l, 1}) >= l /\ Max({r, l, 1}) >= 1
    BY <1>3, MaxOfThree
  <2> QED BY <1>4, <2>1, Zenon
<1> HIDE DEF Part
<1>6. Highest \in Nat /\ Ceiling \in Nat /\ Highest <= Ceiling /\ LeastShare <= Ceiling /\ Request <= Ceiling
  BY <1>1, <1>3, <1>5 DEF Highest, Ceiling, LeastShare
<1>7. \A kb \in Usages : kb <= Highest
  <2>1. Largest <= Highest
    BY <1>2, <1>3, <1>5 DEF Highest
  <2>2. \A kb \in Usages : kb \in Nat
    BY <1>1
  <2> QED BY <1>2, <1>6, <2>1, <2>2
<1>8. /\ \A kb \in Nat : kb <= Highest => Quarter(kb) <= Ceiling
      /\ \A kb \in Nat : kb <= Ceiling => (kb * 4 + 4) \div 5 <= Highest
  BY <1>5 DEF Highest, Ceiling, Quarter
<1> QED BY <1>6, <1>7, <1>8

LEMMA NewestIs ==
  ASSUME NEW window, NEW since, NEW seen, window \subseteq Rows, InWindow(window, since, seen)
  PROVE  /\ Newest(window) \in window /\ Newest(window).at <= clock /\ since <= Newest(window).at
         /\ \A row \in window : row.at <= Newest(window).at /\ (row.at = Newest(window).at => row = Newest(window))
         /\ \A t \in 0..Horizon : seen[t] # 0 => t <= Newest(window).at
<1>1. PICK n \in window :
        /\ \A row \in window : row.at <= n.at /\ (row.at = n.at => row = n)
        /\ n.at <= clock /\ since <= n.at
        /\ \A t \in 0..Horizon : seen[t] # 0 => t <= n.at
  BY DEF InWindow
<1> DEFINE r == Newest(window)
<1>2. r \in window /\ \A other \in window : other.at <= r.at
  <2>1. \E row \in window : \A other \in window : other.at <= row.at
    BY <1>1
  <2> QED BY <2>1, Zenon DEF Newest
<1> HIDE DEF r
<1>3. r.at \in Nat /\ n.at \in Nat
  BY <1>1, <1>2 DEF Rows
<1>4. r.at = n.at
  BY <1>1, <1>2, <1>3
<1>5. r = n
  BY <1>1, <1>2, <1>4
<1> QED BY <1>1, <1>5 DEF r

GoesOn(after, begun, held) ==
  /\ held \subseteq Rows /\ IsFiniteSet(held) /\ held # {} /\ begun \in 0..Horizon
  /\ InWindow(held, begun, after)
  /\ clock - begun > Window =>
       /\ Max({row.kb : row \in held}) \in Nat
       /\ \A t \in 0..Horizon : after[t] <= Max({row.kb : row \in held})

\* A fresh and complete sample: the window goes on, and when it is full it covers
\* all that was measured.
LEMMA WindowedTrue ==
  ASSUME NEW window \in SUBSET Rows, IsFiniteSet(window), NEW since \in 0..Horizon, NEW seen \in Readings,
         NEW kb \in Usages, NEW peak \in Nat, clock \in 0..Horizon, Recent(seen),
         window # {} => InWindow(window, since, seen)
  PROVE  LET after == [seen EXCEPT ![clock] = Larger(@, kb)]
             begun == IF Restarted(window, clock) THEN clock ELSE since
             held == Windowed(window, clock, kb, peak)
         IN GoesOn(after, begun, held)
<1> USE AllowanceAssumption
<1> DEFINE after == [seen EXCEPT ![clock] = Larger(@, kb)]
           begun == IF Restarted(window, clock) THEN clock ELSE since
           held == Windowed(window, clock, kb, peak)
<1>a. after = [seen EXCEPT ![clock] = Larger(@, kb)]
  OBVIOUS
<1>b. begun = IF Restarted(window, clock) THEN clock ELSE since
  OBVIOUS
<1>c. held = Windowed(window, clock, kb, peak)
  OBVIOUS
<1> HIDE DEF after, begun, held
<1>1. /\ \A t \in 0..Horizon : seen[t] \in Nat /\ after[t] \in Nat
      /\ \A t \in 0..Horizon : after[t] = IF t = clock THEN Larger(seen[t], kb) ELSE seen[t]
      /\ kb \in Nat /\ clock \in Nat /\ Window \in Nat /\ Horizon \in Nat
  <2>1. \A t \in 0..Horizon : seen[t] \in Nat
    BY DEF Readings
  <2>2. kb \in Nat /\ clock \in Nat /\ Window \in Nat /\ Horizon \in Nat
    OBVIOUS
  <2>3. \A t \in 0..Horizon : after[t] = IF t = clock THEN Larger(seen[t], kb) ELSE seen[t]
    BY <1>a DEF Readings
  <2> QED BY <2>1, <2>2, <2>3 DEF Larger
<1>2. \A t \in 0..Horizon : after[t] # 0 => t <= clock /\ t >= clock - Window
  BY <1>1 DEF Recent
<1> DEFINE Kept(longer) == {row \in longer : row.at >= clock - Window}
<1>3. /\ held \subseteq Rows /\ IsFiniteSet(held) /\ begun \in 0..Horizon
      /\ InWindow(held, begun, after)
  <2>1. CASE Restarted(window, clock)
    <3> DEFINE r == [at |-> clock, kb |-> peak]
    <3>1. held = Kept({r})
      BY <1>c, <2>1, Zenon DEF Windowed
    <3>2. held = {r} /\ r \in Rows /\ r.at = clock
      BY <1>1, <3>1 DEF Rows
    <3>3. begun = clock
      BY <1>b, <2>1
    <3> HIDE DEF r
    <3>4. IsFiniteSet(held)
      <4>1. IsFiniteSet({r})
        BY FS_Singleton
      <4> QED BY <3>2, <4>1
    <3>5. InWindow(held, begun, after)
      BY <1>1, <1>2, <3>2, <3>3 DEF InWindow
    <3> QED BY <3>2, <3>3, <3>4, <3>5
  <2>2. CASE ~Restarted(window, clock)
    <3> DEFINE n == Newest(window)
    <3>1. window # {} /\ n.at >= clock - 1
      BY <1>1, <2>2, NewestIs DEF Restarted, Rows
    <3>2. /\ n \in window /\ n.at <= clock /\ since <= n.at
          /\ \A row \in window : row.at <= n.at /\ (row.at = n.at => row = n)
          /\ \A t \in 0..Horizon : seen[t] # 0 => t <= n.at
      BY <3>1, NewestIs
    <3>3. \A t \in 0..Horizon : since < t /\ seen[t] # 0 => \E row \in window : row.at = t /\ seen[t] <= row.kb
      BY <3>1 DEF InWindow
    <3>4. begun = since
      BY <1>b, <2>2
    <3>5. n \in Rows /\ n.at \in Nat /\ n.kb \in Nat
      BY <3>2 DEF Rows
    <3>6. CASE clock > n.at
      <4> DEFINE r == [at |-> clock, kb |-> kb]
      <4>1. held = Kept(window \cup {r})
        BY <1>c, <2>2, <3>6, Zenon DEF Windowed
      <4>2. r \in Rows /\ r.at = clock /\ r.kb = kb
        BY DEF Rows
      <4> HIDE DEF n, r
      <4>3. held \subseteq Rows /\ r \in held
        BY <1>1, <4>1, <4>2
      <4>4. IsFiniteSet(held)
        <5>1. IsFiniteSet(window \cup {r})
          BY FS_AddElement
        <5> QED BY <4>1, <5>1, FS_Subset
      <4>5. \A row \in held : row.at <= r.at /\ (row.at = r.at => row = r)
        BY <3>2, <3>5, <3>6, <4>1, <4>2, <1>1 DEF Rows
      <4>6. ASSUME NEW t \in 0..Horizon, since < t, after[t] # 0
            PROVE  \E row \in held : row.at = t /\ after[t] <= row.kb
        <5>1. CASE t = clock
          <6>1. seen[t] = 0
            BY <3>2, <3>5, <3>6, <5>1, <1>1
          <6>2. after[t] = kb
            BY <1>1, <5>1, <6>1 DEF Larger
          <6> QED BY <1>1, <4>2, <4>3, <5>1, <6>2
        <5>2. CASE t # clock
          <6>1. after[t] = seen[t]
            BY <1>1, <5>2
          <6>2. PICK row \in window : row.at = t /\ seen[t] <= row.kb
            BY <3>3, <4>6, <6>1
          <6>3. row \in held
            BY <1>2, <4>1, <4>6, <6>2
          <6> QED BY <6>1, <6>2, <6>3
        <5> QED BY <5>1, <5>2
      <4>7. since <= clock /\ \A t \in 0..Horizon : after[t] # 0 => t <= r.at
        BY <1>1, <1>2, <3>2, <3>5, <3>6, <4>2
      <4> QED BY <3>4, <4>2, <4>3, <4>4, <4>5, <4>6, <4>7, <1>1 DEF InWindow
    <3>7. CASE ~(clock > n.at)
      <4> DEFINE m == Larger(n.kb, kb)
                 r == [n EXCEPT !.kb = m]
      <4>1. held = Kept((window \ {n}) \cup {r})
        BY <1>c, <2>2, <3>7, Zenon DEF Windowed
      <4>2. n.at = clock
        BY <1>1, <3>2, <3>5, <3>7
      <4>3. m \in Nat /\ m >= n.kb /\ m >= kb
        BY <1>1, <3>5 DEF Larger
      <4> HIDE DEF m
      <4>4. r \in Rows /\ r.at = clock /\ r.kb = m
        BY <3>5, <4>2, <4>3 DEF Rows
      <4> HIDE DEF n, r
      <4>5. held \subseteq Rows /\ r \in held
        BY <1>1, <4>1, <4>4
      <4>6. IsFiniteSet(held)
        <5>1. IsFiniteSet(window \ {n})
          BY FS_Subset
        <5>2. IsFiniteSet((window \ {n}) \cup {r})
          BY <5>1, FS_AddElement
        <5> QED BY <4>1, <5>2, FS_Subset
      <4>7. \A row \in held : row.at <= r.at /\ (row.at = r.at => row = r)
        BY <3>2, <4>1, <4>2, <4>4, <1>1
      <4>8. ASSUME NEW t \in 0..Horizon, since < t, after[t] # 0
            PROVE  \E row \in held : row.at = t /\ after[t] <= row.kb
        <5>1. CASE t = clock
          <6>1. seen[t] <= n.kb
            <7>1. CASE seen[t] = 0
              BY <3>5, <7>1
            <7>2. CASE seen[t] # 0
              BY <3>2, <3>3, <4>2, <4>8, <5>1, <7>2
            <7> QED BY <7>1, <7>2
          <6>2. after[t] <= m
            BY <1>1, <3>5, <4>3, <5>1, <6>1 DEF Larger
          <6> QED BY <4>4, <4>5, <5>1, <6>2
        <5>2. CASE t # clock
          <6>1. after[t] = seen[t]
            BY <1>1, <5>2
          <6>2. PICK row \in window : row.at = t /\ seen[t] <= row.kb
            BY <3>3, <4>8, <6>1
          <6>3. row \in held
            BY <1>2, <4>1, <4>2, <4>8, <5>2, <6>2
          <6> QED BY <6>1, <6>2, <6>3
        <5> QED BY <5>1, <5>2
      <4>9. since <= clock /\ \A t \in 0..Horizon : after[t] # 0 => t <= r.at
        BY <1>2, <3>2, <4>2, <4>4
      <4> QED BY <3>4, <4>4, <4>5, <4>6, <4>7, <4>8, <4>9, <1>1 DEF InWindow
    <3> QED BY <3>6, <3>7
  <2> QED BY <2>1, <2>2
<1>4. held # {}
  BY <1>3 DEF InWindow
<1>5. ASSUME clock - begun > Window
      PROVE  /\ Max({row.kb : row \in held}) \in Nat
             /\ \A t \in 0..Horizon : after[t] <= Max({row.kb : row \in held})
  <2> DEFINE S == {row.kb : row \in held}
  <2>1. S \subseteq Nat /\ S # {}
    BY <1>3, <1>4 DEF Rows
  <2>2. IsFiniteSet(S)
    <3> DEFINE f == [row \in held |-> row.kb]
    <3>1. f \in Surjection(held, S)
      BY DEF Surjection
    <3> QED BY <1>3, <3>1, FS_Surjection
  <2>3. Max(S) \in Nat /\ \A x \in S : Max(S) >= x
    BY <2>1, <2>2, GreatestIn
  <2>4. ASSUME NEW t \in 0..Horizon PROVE after[t] <= Max(S)
    <3>1. CASE after[t] = 0
      BY <2>3, <3>1
    <3>2. CASE after[t] # 0
      <4>1. begun < t
        BY <1>1, <1>2, <1>3, <1>5, <3>2
      <4>2. PICK row \in held : row.at = t /\ after[t] <= row.kb
        BY <1>3, <3>2, <4>1 DEF InWindow
      <4>3. row.kb \in S /\ row.kb \in Nat
        BY <1>3 DEF Rows
      <4> HIDE DEF S
      <4> QED BY <1>1, <2>3, <4>2, <4>3
    <3> QED BY <3>1, <3>2
  <2> QED BY <2>3, <2>4
<1>6. GoesOn(after, begun, held)
  BY <1>3, <1>4, <1>5, Zenon DEF GoesOn
<1> QED BY <1>6, Zenon DEF after, begun, held

\* A window has no row higher than the sample, the peak it begins with, or before.
LEMMA WindowedBounded ==
  ASSUME NEW window \in SUBSET Rows, NEW since \in 0..Horizon, NEW seen, NEW kb \in Nat, NEW peak \in Nat,
         window # {} => InWindow(window, since, seen), NEW top \in Nat, kb <= top, peak <= top,
         \A row \in window : row.kb <= top
  PROVE  \A row \in Windowed(window, clock, kb, peak) : row.kb <= top
<1> DEFINE n == Newest(window)
           m == Larger(n.kb, kb)
           fresh == [at |-> clock, kb |-> peak]
           new == [at |-> clock, kb |-> kb]
           raised == [n EXCEPT !.kb = m]
<1>1. Windowed(window, clock, kb, peak) \subseteq
        IF Restarted(window, clock) THEN {fresh} ELSE window \cup {new} \cup {raised}
  BY Zenon DEF Windowed
<1>2. fresh.kb = peak /\ new.kb = kb
  OBVIOUS
<1>3. ASSUME ~Restarted(window, clock) PROVE raised.kb <= top
  <2>1. window # {}
    BY <1>3 DEF Restarted
  <2>2. n \in window
    BY <2>1, NewestIs
  <2>3. n.kb \in Nat /\ n.kb <= top /\ n \in Rows
    BY <2>2 DEF Rows
  <2>4. m \in Nat /\ m <= top
    BY <2>3 DEF Larger
  <2> HIDE DEF n, m
  <2> QED BY <2>3, <2>4 DEF Rows
<1> HIDE DEF n, m, fresh, new, raised
<1> QED BY <1>1, <1>2, <1>3

LEMMA ShareTypes ==
  /\ AllowanceTypeOK => share \in ShareType /\ Bounded(share) /\ grown \in Readings
  /\ \A job \in ShareType : Bounded(job) =>
       job \in [reserve : 0..Ceiling, peak : Usages, floor : Unknown..Highest,
               window : SUBSET [at : 0..Horizon, kb : 0..Highest],
               since : 0..Horizon, last : 0..Horizon, orphaned : BOOLEAN, recovery : BOOLEAN]
<1>1. Highest \in Nat /\ Ceiling \in Nat
  BY BoundsAre
<1> HIDE DEF Highest, Ceiling
<1>2. ASSUME AllowanceTypeOK PROVE share \in ShareType /\ Bounded(share) /\ grown \in Readings
  <2>1. share \in [reserve : 0..Ceiling, peak : Usages, floor : Unknown..Highest,
               window : SUBSET [at : 0..Horizon, kb : 0..Highest],
               since : 0..Horizon, last : 0..Horizon, orphaned : BOOLEAN, recovery : BOOLEAN]
    BY <1>2 DEF AllowanceTypeOK
  <2>2. Bounded(share)
    BY <1>1, <2>1 DEF Bounded, Unknown
  <2>3. share \in ShareType
    <3>1. 0..Ceiling \subseteq Nat /\ Unknown..Highest \subseteq Nat \cup {Unknown} /\ 0..Highest \subseteq Nat
      BY <1>1 DEF Unknown
    <3>2. share.window \in SUBSET Rows
      BY <2>1, <3>1 DEF Rows
    <3> QED BY <2>1, <3>1, <3>2 DEF ShareType
  <2> QED BY <1>2, <2>2, <2>3 DEF AllowanceTypeOK, Readings
<1>3. ASSUME NEW job \in ShareType, Bounded(job)
      PROVE  job \in [reserve : 0..Ceiling, peak : Usages, floor : Unknown..Highest,
               window : SUBSET [at : 0..Horizon, kb : 0..Highest],
               since : 0..Horizon, last : 0..Horizon, orphaned : BOOLEAN, recovery : BOOLEAN]
  <2>1. job.reserve \in 0..Ceiling /\ job.floor \in Unknown..Highest
    BY <1>1, <1>3 DEF Bounded, ShareType, Unknown
  <2>2. job.window \in SUBSET [at : 0..Horizon, kb : 0..Highest]
    BY <1>1, <1>3 DEF Bounded, ShareType, Rows
  <2> QED BY <2>1, <2>2 DEF ShareType
<1> QED BY <1>2, <1>3

\* One sample, applied: the allowance covers it and all before it.
LEMMA ReservedTrue ==
  ASSUME NEW job \in ShareType, NEW s \in Reading, kind \in {"explicit", "strict", "adaptive"},
         clock \in 0..Horizon, s.at <= clock, s.busy => ~s.complete /\ s.kb = 0,
         NEW seen \in Readings, Reserves(job, seen), Bounded(job), Peaked(job, seen), WindowTrue(job, seen), Recent(seen),
         NEW after \in Readings,
         after = seen \/ (s.at = clock /\ after = [seen EXCEPT ![s.at] = Larger(@, s.kb)]),
         s.at = clock /\ ~s.fault => after = [seen EXCEPT ![s.at] = Larger(@, s.kb)]
  PROVE  /\ Reserved(job, s) \in ShareType /\ Bounded(Reserved(job, s))
         /\ Reserves(Reserved(job, s), after) /\ WindowTrue(Reserved(job, s), after)
         /\ Reserved(job, s).peak >= job.peak /\ Reserved(job, s).last = job.last
<1> USE AllowanceAssumption
<1> DEFINE base == IF kind # "adaptive" \/ Uncertain(job) THEN Larger(Request, job.reserve) ELSE job.reserve
           carried == Carried([job EXCEPT !.reserve = base], s.kb)
           kept == [job EXCEPT !.floor = carried, !.reserve = Larger(base, s.kb)]
           peak == IF carried # Unknown THEN carried ELSE Larger(s.kb, job.peak)
           since == IF Restarted(job.window, s.at) THEN s.at ELSE job.since
           window == Windowed(job.window, s.at, s.kb, peak)
           full == s.at - since > Window
           high == IF full THEN Max({row.kb : row \in window}) ELSE peak
           noted == [job EXCEPT !.peak = Larger(@, s.kb), !.floor = IF full THEN high ELSE carried,
                                !.window = window, !.since = since]
           retained == [kept EXCEPT !.window = IF s.busy THEN @ ELSE {}]
           late == [kept EXCEPT !.peak = Larger(@, s.kb), !.reserve = Larger(@, Quarter(s.kb))]
           fresh == [noted EXCEPT !.reserve = Larger(s.kb, IF clock >= Startup THEN Larger(LeastShare, Quarter(high))
                                                           ELSE Larger(base, Quarter(high)))]
           retains == kind = "explicit" \/ Uncertain(job) \/ ~s.complete \/ s.fault
<1>1. Reserved(job, s) = IF retains THEN retained
                         ELSE IF kind = "strict" THEN ReservedStrict(kept, base, s)
                         ELSE IF clock > s.at THEN late
                         ELSE fresh
  BY Zenon DEF Reserved
<1>2. /\ job.reserve \in Nat /\ job.peak \in Usages /\ job.floor \in Nat \cup {Unknown} /\ job.window \in SUBSET Rows
      /\ job.since \in 0..Horizon /\ s.at \in 0..Horizon /\ s.kb \in Usages /\ Usages \subseteq Nat
      /\ Request \in Nat /\ s.busy \in BOOLEAN /\ clock \in Nat /\ Horizon \in Nat
  BY DEF ShareType, Reading
<1>3. /\ \A t \in 0..Horizon : seen[t] \in Nat /\ seen[t] <= job.reserve /\ seen[t] <= job.peak
      /\ \A t \in 0..Horizon : after[t] \in Nat
      /\ \A t \in 0..Horizon : after[t] = seen[t] \/ (t = s.at /\ after[t] = Larger(seen[t], s.kb))
  BY <1>2 DEF Readings, Reserves, Peaked
<1>0. /\ Highest \in Nat /\ Ceiling \in Nat /\ Highest <= Ceiling /\ LeastShare <= Ceiling /\ Request <= Ceiling
      /\ job.reserve <= Ceiling /\ s.kb <= Highest /\ job.peak <= Highest
      /\ job.floor <= Highest /\ \A row \in job.window : row.kb <= Highest
  <2>1. job.reserve <= Ceiling /\ job.floor <= Highest /\ \A row \in job.window : row.kb <= Highest
    BY Zenon DEF Bounded
  <2> QED BY <1>2, <2>1, BoundsAre
<1>00. /\ \A kb \in Nat : kb <= Highest => Quarter(kb) <= Ceiling
       /\ \A kb \in Nat : kb <= Ceiling => (kb * 4 + 4) \div 5 <= Highest
  BY BoundsAre
<1> HIDE DEF Highest, Ceiling
<1>4. /\ base \in Nat /\ base >= job.reserve /\ (kind = "explicit" => base >= Request) /\ base <= Ceiling
  BY <1>0, <1>2, LargerIs
<1> HIDE DEF base
<1>5. /\ carried \in Nat \cup {Unknown} /\ carried <= Highest
      /\ carried # Unknown => carried >= s.kb /\ Quarter(carried) >= base
      /\ kind # "adaptive" => carried = Unknown
  <2> DEFINE j == [job EXCEPT !.reserve = base]
  <2>1. j.floor = job.floor /\ j.reserve = base
    BY <1>4 DEF ShareType
  <2> HIDE DEF j
  <2>2. CASE kind = "adaptive" /\ job.floor # Unknown
    <3> DEFINE m == (base * 4 + 4) \div 5
               c == Max({job.floor, s.kb, m})
    <3>1. carried = c
      BY <2>1, <2>2, Zenon DEF Carried, j
    <3>2. m \in Nat /\ Quarter(m) >= base /\ m <= Highest
      <4>1. m \in Nat /\ Quarter(m) >= base
        BY <1>4, FourFifths
      <4>2. m <= Highest
        BY <1>00, <1>4
      <4> QED BY <4>1, <4>2
    <3> HIDE DEF m
    <3>3. c \in Nat /\ c >= s.kb /\ c >= m /\ c <= Highest
      <4>1. c \in {job.floor, s.kb, m} /\ c \in Nat /\ c >= s.kb /\ c >= m
        BY <1>2, <2>2, <3>2, MaxOfThree
      <4>2. job.floor <= Highest /\ s.kb <= Highest /\ m <= Highest
        BY <1>0, <3>2
      <4> HIDE DEF c
      <4> QED BY <4>1, <4>2
    <3> HIDE DEF c
    <3>4. Quarter(c) >= Quarter(m) /\ Quarter(c) \in Nat /\ Quarter(m) \in Nat
      BY <3>2, <3>3, QuarterGrows, QuarterIs
    <3>5. Quarter(c) >= base
      BY <1>4, <3>2, <3>4
    <3> QED BY <2>2, <3>1, <3>3, <3>5
  <2>3. CASE ~(kind = "adaptive" /\ job.floor # Unknown)
    <3>1. carried = Unknown
      BY <2>1, <2>3, Zenon DEF Carried, j
    <3> QED BY <1>0, <3>1 DEF Unknown
  <2> QED BY <2>2, <2>3
<1> HIDE DEF carried
<1> DEFINE k == Larger(base, s.kb)
<1>6. k \in Nat /\ k >= base /\ k >= s.kb /\ k <= Ceiling /\ \A t \in 0..Horizon : after[t] <= k
  <2>1. k \in Nat /\ k >= base /\ k >= s.kb /\ k <= Ceiling
    BY <1>0, <1>2, <1>4 DEF Larger
  <2> HIDE DEF k
  <2> QED BY <1>2, <1>3, <1>4, <2>1 DEF Larger
<1>7. /\ kept \in ShareType /\ kept.reserve = k /\ kept.peak = job.peak /\ kept.window = job.window
      /\ kept.since = job.since /\ kept.last = job.last /\ kept.floor = carried
  BY <1>2, <1>5, <1>6 DEF ShareType
<1> HIDE DEF kept, k
<1>8. CASE retains
  <2>1. Reserved(job, s) = retained
    BY <1>1, <1>8, Zenon
  <2>2. /\ retained \in ShareType /\ retained.reserve = k /\ retained.peak = job.peak /\ retained.last = job.last
        /\ retained.since = job.since /\ retained.window = IF s.busy THEN job.window ELSE {}
    BY <1>2, <1>7 DEF ShareType
  <2> HIDE DEF retained
  <2>3. Reserves(retained, after)
    BY <1>2, <1>4, <1>6, <2>2 DEF Reserves
  <2>4. WindowTrue(retained, after)
    <3>1. CASE s.busy
      <4>1. \A t \in 0..Horizon : after[t] = seen[t]
        BY <1>2, <1>3, <3>1 DEF Larger
      <4> QED BY <2>2, <3>1, <4>1 DEF WindowTrue, InWindow
    <3>2. CASE ~s.busy
      BY <1>2, <2>2, <3>2, FS_EmptySet DEF WindowTrue
    <3> QED BY <3>1, <3>2
  <2>5. retained.peak >= job.peak
    <3>1. job.peak \in Nat /\ retained.peak = job.peak
      BY <1>2, <2>2
    <3> QED BY <3>1
  <2>6. Bounded(retained)
    <3>1. retained.floor = carried
      BY <1>7 DEF retained, ShareType
    <3> QED BY <1>0, <1>5, <1>6, <2>2, <3>1 DEF Bounded
  <2> QED BY <2>1, <2>2, <2>3, <2>4, <2>5, <2>6, Zenon
<1>9. CASE ~retains /\ kind = "strict"
  <2> DEFINE p == Larger(kept.peak, s.kb)
             padded == IF clock >= Startup THEN Larger(LeastShare, Quarter(p)) ELSE Larger(base, Quarter(p))
             r == Larger(s.kb, padded)
             strict == [kept EXCEPT !.peak = p, !.window = {}, !.reserve = r]
  <2>1. Reserved(job, s) = strict
    BY <1>1, <1>9, Zenon DEF ReservedStrict
  <2>2. p \in Usages /\ p \in Nat /\ p >= job.peak /\ p >= s.kb /\ p <= Highest
    BY <1>0, <1>2, <1>7 DEF Larger
  <2> HIDE DEF p
  <2>3. padded \in Nat /\ padded >= p /\ padded <= Ceiling
    <3>1. Quarter(p) \in Nat /\ Quarter(p) >= p /\ Quarter(p) <= Ceiling
      <4>1. Quarter(p) \in Nat /\ Quarter(p) >= p
        BY <2>2, QuarterIs
      <4>2. Quarter(p) <= Ceiling
        BY <1>00, <2>2
      <4> QED BY <4>1, <4>2
    <3> QED BY <1>0, <1>4, <2>2, <3>1 DEF Larger, LeastShare
  <2> HIDE DEF padded
  <2>4. r \in Nat /\ r >= p /\ r <= Ceiling
    BY <1>0, <1>2, <2>2, <2>3 DEF Larger
  <2> HIDE DEF r
  <2>5. /\ strict \in ShareType /\ strict.reserve = r /\ strict.peak = p /\ strict.last = job.last /\ strict.window = {}
        /\ strict.floor = carried
    BY <1>7, <2>2, <2>4 DEF ShareType
  <2> HIDE DEF strict
  <2>6. \A t \in 0..Horizon : after[t] <= r
    BY <1>2, <1>3, <2>2, <2>4 DEF Larger
  <2>7. Bounded(strict)
    BY <1>5, <2>4, <2>5 DEF Bounded
  <2> QED BY <1>9, <1>2, <2>1, <2>2, <2>5, <2>6, <2>7, FS_EmptySet DEF Reserves, WindowTrue
<1>10. CASE ~retains /\ kind = "adaptive" /\ clock > s.at
  <2> DEFINE r == Larger(kept.reserve, Quarter(s.kb))
             p == Larger(kept.peak, s.kb)
  <2>1. Reserved(job, s) = late
    BY <1>1, <1>10, Zenon
  <2>2. r \in Nat /\ r >= k /\ r <= Ceiling /\ p \in Usages /\ p >= job.peak
    <3>1. Quarter(s.kb) \in Nat /\ Quarter(s.kb) <= Ceiling
      <4>1. s.kb \in Nat /\ s.kb <= Highest
        BY <1>0, <1>2
      <4>2. Quarter(s.kb) \in Nat
        BY <4>1, QuarterIs
      <4> QED BY <1>00, <4>1, <4>2
    <3> QED BY <1>2, <1>6, <1>7, <3>1 DEF Larger
  <2>3. late = [kept EXCEPT !.peak = p, !.reserve = r]
    OBVIOUS
  <2> HIDE DEF late, r, p
  <2>4. late \in ShareType /\ late.reserve = r /\ late.peak = p /\ late.last = job.last /\ late.window = job.window
        /\ late.since = job.since /\ late.floor = carried
    BY <1>2, <1>7, <2>2, <2>3 DEF ShareType
  <2>5. after = seen
    BY <1>10
  <2>6. Reserves(late, after)
    BY <1>3, <1>6, <1>10, <2>2, <2>4 DEF Reserves
  <2>7. WindowTrue(late, after)
    BY <2>4, <2>5 DEF WindowTrue
  <2>8. Bounded(late)
    BY <1>0, <1>5, <2>2, <2>4 DEF Bounded
  <2> QED BY <1>2, <2>1, <2>2, <2>4, <2>6, <2>7, <2>8
<1>11. CASE ~retains /\ kind = "adaptive" /\ ~(clock > s.at)
  <2>1. Reserved(job, s) = fresh
    BY <1>1, <1>11, Zenon
  <2>2. s.at = clock /\ ~s.fault
    BY <1>2, <1>11
  <2>3. after = [seen EXCEPT ![clock] = Larger(@, s.kb)]
    BY <2>2
  <2>4. peak \in Nat /\ peak <= Highest /\ (carried = Unknown => \A t \in 0..Horizon : after[t] <= peak)
    BY <1>0, <1>2, <1>3, <1>5 DEF Larger
  <2>5. /\ since = IF Restarted(job.window, clock) THEN clock ELSE job.since
        /\ window = Windowed(job.window, clock, s.kb, peak)
    BY <2>2, Zenon
  <2> HIDE DEF since, window, peak
  <2>6. /\ window \subseteq Rows /\ IsFiniteSet(window) /\ window # {} /\ since \in 0..Horizon
        /\ InWindow(window, since, after)
        /\ clock - since > Window =>
             /\ Max({row.kb : row \in window}) \in Nat
             /\ \A t \in 0..Horizon : after[t] <= Max({row.kb : row \in window})
    <3>1. IsFiniteSet(job.window) /\ (job.window # {} => InWindow(job.window, job.since, seen))
      BY <1>11 DEF WindowTrue
    <3>2. /\ job.window \in SUBSET Rows /\ job.since \in 0..Horizon /\ s.kb \in Usages /\ peak \in Nat
          /\ clock \in 0..Horizon
      BY <1>2, <2>4
    <3>3. GoesOn(after, since, window)
      <4>1. GoesOn([seen EXCEPT ![clock] = Larger(@, s.kb)], IF Restarted(job.window, clock) THEN clock ELSE job.since,
                   Windowed(job.window, clock, s.kb, peak))
        BY <3>1, <3>2, WindowedTrue
      <4> QED BY <2>3, <2>5, <4>1, Zenon
    <3> QED BY <3>3, Zenon DEF GoesOn
  <2>15. \A row \in window : row.kb <= Highest
    <3>1. job.window # {} => InWindow(job.window, job.since, seen)
      BY <1>11 DEF WindowTrue
    <3>2. \A row \in Windowed(job.window, clock, s.kb, peak) : row.kb <= Highest
      <4>1. /\ job.window \in SUBSET Rows /\ job.since \in 0..Horizon /\ s.kb \in Nat /\ peak \in Nat
            /\ Highest \in Nat /\ s.kb <= Highest /\ peak <= Highest /\ \A row \in job.window : row.kb <= Highest
        BY <1>0, <1>2, <2>4
      <4> QED BY <3>1, <4>1, WindowedBounded
    <3> QED BY <2>5, <3>2
  <2>16. high <= Highest
    <3>1. CASE full
      <4> DEFINE S == {row.kb : row \in window}
      <4>1. S \subseteq Nat /\ S # {} /\ IsFiniteSet(S)
        <5>1. IsFiniteSet(S)
          <6> DEFINE f == [row \in window |-> row.kb]
          <6>1. f \in Surjection(window, S)
            BY DEF Surjection
          <6> QED BY <2>6, <6>1, FS_Surjection
        <5> QED BY <2>6, <5>1 DEF Rows
      <4>2. Max(S) \in S
        BY <4>1, GreatestIn
      <4>3. high = Max(S)
        BY <3>1
      <4> HIDE DEF high
      <4> QED BY <2>15, <4>2, <4>3
    <3>2. CASE ~full
      BY <2>4, <3>2
    <3> QED BY <3>1, <3>2
  <2>7. high \in Nat /\ \A t \in 0..Horizon : after[t] <= Quarter(high) \/ after[t] <= s.kb
    <3>1. CASE full
      <4> DEFINE m == Max({row.kb : row \in window})
      <4>1. high = m
        BY <3>1
      <4>2. m \in Nat /\ \A t \in 0..Horizon : after[t] <= m
        BY <2>2, <2>6, <3>1
      <4> HIDE DEF m
      <4>3. Quarter(m) \in Nat /\ Quarter(m) >= m
        BY <4>2, QuarterIs
      <4>4. \A t \in 0..Horizon : after[t] <= Quarter(m)
        BY <1>3, <4>2, <4>3
      <4> HIDE DEF high
      <4> QED BY <4>1, <4>2, <4>4
    <3>2. CASE ~full /\ carried = Unknown
      <4>1. high = peak /\ Quarter(peak) \in Nat /\ Quarter(peak) >= peak
        BY <2>4, <3>2, QuarterIs
      <4>2. \A t \in 0..Horizon : after[t] <= Quarter(peak)
        BY <1>3, <2>4, <3>2, <4>1
      <4> HIDE DEF high
      <4> QED BY <2>4, <4>1, <4>2
    <3>3. CASE ~full /\ carried # Unknown
      <4>1. high = carried /\ carried \in Nat
        BY <1>5, <3>3 DEF peak
      <4>2. Quarter(carried) \in Nat /\ Quarter(carried) >= base
        BY <1>5, <3>3, <4>1, QuarterIs
      <4>3. \A t \in 0..Horizon : seen[t] <= Quarter(carried)
        BY <1>2, <1>3, <1>4, <4>2
      <4>4. \A t \in 0..Horizon : after[t] <= Quarter(carried) \/ after[t] <= s.kb
        BY <1>2, <1>3, <4>3 DEF Larger
      <4> HIDE DEF high
      <4> QED BY <4>1, <4>4
    <3> QED BY <3>1, <3>2, <3>3
  <2> HIDE DEF high
  <2> DEFINE padded == IF clock >= Startup THEN Larger(LeastShare, Quarter(high)) ELSE Larger(base, Quarter(high))
             r == Larger(s.kb, padded)
             p == Larger(job.peak, s.kb)
             f == IF full THEN high ELSE carried
  <2>8. padded \in Nat /\ padded >= Quarter(high) /\ Quarter(high) \in Nat /\ padded <= Ceiling
    <3>1. Quarter(high) \in Nat /\ Quarter(high) <= Ceiling
      <4>1. Quarter(high) \in Nat /\ Quarter(high) >= high
        BY <2>7, <2>16, QuarterIs
      <4>2. Quarter(high) <= Ceiling
        BY <1>00, <2>7, <2>16
      <4> QED BY <4>1, <4>2
    <3> QED BY <1>0, <1>4, <3>1 DEF Larger, LeastShare
  <2>9. fresh = [noted EXCEPT !.reserve = r] /\ noted = [job EXCEPT !.peak = p, !.floor = f, !.window = window, !.since = since]
    OBVIOUS
  <2> HIDE DEF padded, noted, fresh
  <2>10. /\ r \in Nat /\ r >= padded /\ r >= s.kb /\ r <= Ceiling /\ p \in Usages /\ p >= job.peak
         /\ f \in Nat \cup {Unknown} /\ f <= Highest
    BY <1>0, <1>2, <1>5, <2>7, <2>8, <2>16 DEF Larger
  <2> HIDE DEF r, p, f
  <2>11. /\ noted \in ShareType /\ noted.peak = p /\ noted.last = job.last /\ noted.window = window /\ noted.since = since
         /\ noted.floor = f
    BY <1>2, <2>6, <2>9, <2>10 DEF ShareType
  <2>12. /\ fresh \in ShareType /\ fresh.reserve = r /\ fresh.peak = p /\ fresh.last = job.last
         /\ fresh.window = window /\ fresh.since = since /\ fresh.floor = f
    BY <2>9, <2>10, <2>11 DEF ShareType
  <2>13. Reserves(fresh, after)
    <3>1. \A t \in 0..Horizon : after[t] <= r
      BY <1>2, <1>3, <2>7, <2>8, <2>10
    <3> QED BY <1>11, <2>12, <3>1 DEF Reserves
  <2>14. WindowTrue(fresh, after)
    BY <2>6, <2>12 DEF WindowTrue
  <2>17. Bounded(fresh)
    BY <2>10, <2>12, <2>15 DEF Bounded
  <2> QED BY <1>2, <2>1, <2>10, <2>12, <2>13, <2>14, <2>17
<1> QED BY <1>8, <1>9, <1>10, <1>11

LEMMA AllowanceNow ==
  ASSUME AllowanceInv
  PROVE  /\ share \in ShareType /\ Bounded(share) /\ grown \in Readings /\ kind \in {"explicit", "strict", "adaptive"}
         /\ clock \in 0..Horizon /\ clock \in Nat /\ host \in Reading /\ Usages \subseteq Nat /\ Recent(grown)
         /\ Reserves(share, grown) /\ Peaked(share, grown) /\ WindowTrue(share, grown) /\ LastTrue(share)
BY ShareTypes, AllowanceAssumption DEF AllowanceInv, AllowanceTypeOK

\* What a sample adds is a measurement of now.
LEMMA AppliedIs ==
  ASSUME AllowanceInv, NEW s \in Reading, s.at <= clock, Applied(s)
  PROVE  /\ grown' \in Readings /\ Recent(grown')
         /\ grown' = IF s.fault \/ clock > s.at THEN grown ELSE [grown EXCEPT ![s.at] = Larger(@, s.kb)]
         /\ \A t \in 0..Horizon : grown'[t] = grown[t] \/ (~s.fault /\ t = clock /\ s.at = clock /\ grown'[t] = Larger(grown[t], s.kb))
<1>1. grown' = IF s.fault \/ clock > s.at THEN grown ELSE [grown EXCEPT ![s.at] = Larger(@, s.kb)]
  BY DEF Applied
<1>2. /\ s.at \in 0..Horizon /\ s.kb \in Usages /\ Usages \subseteq Nat /\ clock \in 0..Horizon /\ Window \in Nat /\ Horizon \in Nat
      /\ grown \in Readings /\ Recent(grown)
  BY AllowanceNow, AllowanceAssumption DEF Reading
<1>3. CASE s.fault \/ clock > s.at
  BY <1>1, <1>2, <1>3
<1>4. CASE ~(s.fault \/ clock > s.at)
  <2>0. s.at = clock /\ ~s.fault
    <3>1. s.at \in Int /\ clock \in Int /\ s.at <= clock
      BY <1>2
    <3> QED BY <1>4, <3>1
  <2>1. grown' = [grown EXCEPT ![clock] = Larger(@, s.kb)]
    BY <1>1, <1>4, <2>0, Zenon
  <2>2. Larger(grown[clock], s.kb) \in Usages
    BY <1>2 DEF Larger, Readings
  <2>3. grown' \in Readings /\ \A t \in 0..Horizon : grown'[t] = grown[t] \/ (t = clock /\ grown'[t] = Larger(grown[t], s.kb))
    BY <1>2, <2>1, <2>2 DEF Readings
  <2>4. Recent(grown')
    BY <1>2, <2>3 DEF Recent
  <2> QED BY <1>1, <2>0, <2>3, <2>4
<1> QED BY <1>3, <1>4

LEMMA OwnedKeeps == AllowanceInv /\ ObserveOwned => AllowanceInv'
<1> SUFFICES ASSUME AllowanceInv, ObserveOwned PROVE AllowanceInv'
  OBVIOUS
<1>1. PICK late \in {0, 1} : late <= clock /\ \E s \in Taken(clock - late) :
        /\ share' = Reserved([share EXCEPT !.peak = Larger(@, s.kb)], [s EXCEPT !.fault = ~s.complete])
        /\ Applied(s)
  BY Zenon DEF ObserveOwned
<1>2. PICK s \in Taken(clock - late) :
        /\ share' = Reserved([share EXCEPT !.peak = Larger(@, s.kb)], [s EXCEPT !.fault = ~s.complete])
        /\ Applied(s)
  BY <1>1
<1>3. kind' = kind /\ clock' = clock /\ host' = host
  BY DEF ObserveOwned
<1> DEFINE p == Larger(share.peak, s.kb)
           job == [share EXCEPT !.peak = p]
           z == [s EXCEPT !.fault = ~s.complete]
<1>4. /\ s.at = clock - late /\ s.kb \in Usages /\ s.complete \in BOOLEAN /\ s.fault \in BOOLEAN /\ s.busy = FALSE
      /\ s \in [at : {clock - late}, kb : Usages, complete : BOOLEAN, fault : BOOLEAN, busy : {FALSE}]
      /\ s.complete => ~s.fault
  BY DEF Taken
<1>5. s.at \in 0..Horizon /\ s.at <= clock /\ s \in Reading
  <2>1. s.at \in 0..Horizon /\ s.at <= clock
    <3>1. clock \in 0..Horizon /\ Horizon \in Nat
      BY AllowanceNow, AllowanceAssumption
    <3> QED BY <1>1, <1>4, <3>1
  <2>2. s = [at |-> s.at, kb |-> s.kb, complete |-> s.complete, fault |-> s.fault, busy |-> s.busy]
    BY <1>4
  <2> QED BY <1>4, <2>1, <2>2 DEF Reading
<1>6. /\ grown' \in Readings /\ Recent(grown')
      /\ \A t \in 0..Horizon : grown'[t] = grown[t] \/ (~s.fault /\ t = clock /\ s.at = clock /\ grown'[t] = Larger(grown[t], s.kb))
  BY <1>2, <1>5, AppliedIs
<1>7. p \in Usages /\ p \in Nat /\ p >= share.peak /\ p >= s.kb /\ share.peak \in Nat /\ s.kb \in Nat
  BY <1>4, AllowanceNow DEF ShareType, Larger
<1> HIDE DEF p
<1>8. /\ job \in ShareType /\ job.peak = p /\ job.reserve = share.reserve /\ job.window = share.window
      /\ job.since = share.since /\ job.last = share.last /\ Bounded(job)
  BY <1>7, AllowanceNow DEF ShareType, Bounded
<1>9. z \in Reading /\ z.at = s.at /\ z.kb = s.kb /\ z.complete = s.complete /\ z.fault = ~s.complete /\ z.busy = FALSE
  BY <1>4, <1>5 DEF Reading
<1>10. share' = Reserved(job, z)
  BY <1>2, Zenon DEF p
<1> HIDE DEF job, z
<1>12. /\ grown' = grown \/ (z.at = clock /\ grown' = [grown EXCEPT ![z.at] = Larger(@, z.kb)])
       /\ z.at = clock /\ ~z.fault => grown' = [grown EXCEPT ![z.at] = Larger(@, z.kb)]
  <2>1. s.at \in Int /\ clock \in Int
    BY <1>5, AllowanceNow
  <2>2. grown' = IF s.fault \/ clock > s.at THEN grown ELSE [grown EXCEPT ![s.at] = Larger(@, s.kb)]
    BY <1>2, Zenon DEF Applied
  <2>3. CASE s.fault \/ clock > s.at
    BY <1>4, <1>9, <2>1, <2>2, <2>3
  <2>4. CASE ~(s.fault \/ clock > s.at)
    BY <1>5, <1>9, <2>1, <2>2, <2>4
  <2> QED BY <2>3, <2>4
<1>11. /\ Reserves(job, grown) /\ Peaked(job, grown) /\ WindowTrue(job, grown)
  <2>1. \A t \in 0..Horizon : grown[t] \in Nat
    BY AllowanceNow DEF Readings
  <2>2. Reserves(job, grown) /\ WindowTrue(job, grown)
    BY <1>8, AllowanceNow DEF Reserves, WindowTrue
  <2>3. Peaked(job, grown)
    BY <1>7, <1>8, <2>1, AllowanceNow DEF Peaked
  <2> QED BY <2>2, <2>3
<1>13. /\ share' \in ShareType /\ Bounded(share') /\ Reserves(share', grown') /\ WindowTrue(share', grown')
       /\ share'.peak >= p /\ share'.last = share.last
  <2>1. z.busy => ~z.complete /\ z.kb = 0
    BY <1>9
  <2>2. z.at <= clock /\ z \in Reading /\ job \in ShareType
    BY <1>5, <1>8, <1>9
  <2>3. /\ Reserved(job, z) \in ShareType /\ Bounded(Reserved(job, z))
        /\ Reserves(Reserved(job, z), grown') /\ WindowTrue(Reserved(job, z), grown')
        /\ Reserved(job, z).peak >= job.peak /\ Reserved(job, z).last = job.last
    BY <1>6, <1>8, <1>11, <1>12, <2>1, <2>2, AllowanceNow, ReservedTrue
  <2> QED BY <1>8, <1>10, <2>3, Zenon
<1>14. share'.peak \in Nat /\ \A t \in 0..Horizon : grown'[t] <= share'.peak
  <2>1. share'.peak \in Nat
    BY <1>13, AllowanceNow DEF ShareType
  <2>2. \A t \in 0..Horizon : grown[t] \in Nat /\ grown[t] <= share.peak
    BY AllowanceNow DEF Readings, Peaked
  <2> QED BY <1>6, <1>7, <1>13, <2>1, <2>2 DEF Larger
<1>15. LastTrue(share')
  <2>1. LastTrue(share) /\ host.kb \in Nat /\ share'.last = share.last
    BY <1>13, AllowanceNow DEF Reading
  <2>2. share'.peak \in Nat /\ share.peak \in Nat /\ share'.peak >= share.peak
    BY <1>7, <1>13, <1>14
  <2> QED BY <2>1, <2>2 DEF LastTrue
<1> QED
  <2>1. /\ Reserves(share, grown)' /\ Peaked(share, grown)' /\ WindowTrue(share, grown)' /\ LastTrue(share)' /\ Recent(grown)'
    BY <1>3, <1>6, <1>13, <1>14, <1>15 DEF Reserves, Peaked, WindowTrue, InWindow, LastTrue, Recent
  <2>2. AllowanceTypeOK'
    BY <1>3, <1>6, <1>13, ShareTypes, AllowanceNow DEF AllowanceTypeOK, Readings
  <2> QED BY <1>3, <2>1, <2>2 DEF AllowanceInv, Busy

\* The samples a waiter may hold.
LEMMA HeldIs ==
  ASSUME AllowanceInv, NEW s \in {host, Busy} \cup (IF clock > 0 THEN Taken(clock - 1) ELSE {})
  PROVE  /\ s \in Reading /\ s.at <= clock /\ (s.busy => ~s.complete /\ s.kb = 0)
         /\ s.at = clock /\ ~s.busy => s = host
<1>1. clock \in 0..Horizon /\ Horizon \in Nat /\ Usages \subseteq Nat /\ 0 \in Usages
  BY AllowanceNow, AllowanceAssumption
<1>2. Busy \in Reading /\ Busy.at <= clock /\ Busy.busy /\ ~Busy.complete /\ Busy.kb = 0
  BY <1>1 DEF Busy, Reading
<1>3. CASE s = Busy
  BY <1>2, <1>3
<1>4. CASE s = host
  BY <1>2, <1>4, AllowanceNow DEF AllowanceInv
<1>5. CASE clock > 0 /\ s \in Taken(clock - 1)
  <2>1. /\ s.at = clock - 1 /\ s.kb \in Usages /\ s.complete \in BOOLEAN /\ s.fault \in BOOLEAN /\ s.busy = FALSE
        /\ s = [at |-> s.at, kb |-> s.kb, complete |-> s.complete, fault |-> s.fault, busy |-> s.busy]
    BY <1>5 DEF Taken
  <2>2. s.at \in 0..Horizon /\ s.at <= clock /\ s.at # clock
    BY <1>1, <1>5, <2>1
  <2>3. s \in Reading
    BY <2>1, <2>2 DEF Reading
  <2> QED BY <2>1, <2>2, <2>3, Zenon
<1> QED BY <1>3, <1>4, <1>5

\* Applying a sample once more changes nothing that was measured.
LEMMA AgainSame ==
  ASSUME NEW seen \in Readings, Usages \subseteq Nat, NEW t \in 0..Horizon, NEW kb \in Usages
  PROVE  LET after == [seen EXCEPT ![t] = Larger(@, kb)]
         IN after \in Readings /\ after[t] >= kb /\ after = [after EXCEPT ![t] = Larger(@, kb)]
<1> DEFINE m == Larger(seen[t], kb)
           after == [seen EXCEPT ![t] = m]
<1>1. m \in Usages /\ m >= kb /\ Larger(m, kb) = m
  <2>1. seen[t] \in Usages /\ seen[t] \in Nat /\ kb \in Nat
    BY DEF Readings
  <2> QED BY <2>1 DEF Larger
<1> HIDE DEF m
<1>2. after \in Readings /\ after[t] = m
  BY <1>1 DEF Readings
<1>3. [after EXCEPT ![t] = m] = after
  BY <1>1, <1>2 DEF Readings
<1>4. [after EXCEPT ![t] = Larger(@, kb)] = after
  BY <1>1, <1>2, <1>3
<1> QED BY <1>1, <1>2, <1>4 DEF m

LEMMA WaiterKeeps == AllowanceInv /\ HostRound => AllowanceInv'
<1> SUFFICES ASSUME AllowanceInv, HostRound PROVE AllowanceInv'
  OBVIOUS
<1>1. PICK s \in {host, Busy} \cup (IF clock > 0 THEN Taken(clock - 1) ELSE {}) :
        share' = Reserved(Observed(share, s), s) /\ Applied(s)
  BY Zenon DEF HostRound
<1>2. kind' = kind /\ clock' = clock /\ host' = host
  BY DEF HostRound
<1>3. /\ s \in Reading /\ s.at <= clock /\ (s.busy => ~s.complete /\ s.kb = 0)
      /\ s.at = clock /\ ~s.busy => s = host
  BY HeldIs
<1>4. /\ grown' \in Readings /\ Recent(grown')
      /\ grown' = IF s.fault \/ clock > s.at THEN grown ELSE [grown EXCEPT ![s.at] = Larger(@, s.kb)]
      /\ \A t \in 0..Horizon : grown'[t] = grown[t] \/ (~s.fault /\ t = clock /\ s.at = clock /\ grown'[t] = Larger(grown[t], s.kb))
  BY <1>1, <1>3, AppliedIs
<1>5. /\ s.at \in 0..Horizon /\ s.kb \in Usages /\ s.kb \in Nat /\ s.at \in Nat /\ clock \in Nat /\ Usages \subseteq Nat
      /\ s.fault \in BOOLEAN /\ s.busy \in BOOLEAN
  <2>1. clock \in Nat /\ Usages \subseteq Nat /\ Horizon \in Nat
    BY AllowanceNow, AllowanceAssumption
  <2>2. s.at \in 0..Horizon /\ s.kb \in Usages /\ s.fault \in BOOLEAN /\ s.busy \in BOOLEAN
    BY <1>3 DEF Reading
  <2>3. s.kb \in Nat
    BY <2>1, <2>2
  <2>4. s.at \in Nat
    BY <2>2
  <2> QED BY <2>1, <2>2, <2>3, <2>4, Zenon
<1>6. /\ share \in ShareType /\ share.peak \in Nat /\ share.last \in Nat
      /\ \A t \in 0..Horizon : grown[t] \in Nat /\ grown[t] <= share.peak
      /\ share.last <= clock
  <2>1. share \in ShareType /\ grown \in Readings /\ Peaked(share, grown) /\ LastTrue(share)
    BY AllowanceNow
  <2>2. share.peak \in Usages /\ share.last \in 0..Horizon
    BY <2>1 DEF ShareType
  <2>3. \A t \in 0..Horizon : grown[t] \in Usages
    BY <2>1 DEF Readings
  <2>4. share.peak \in Nat /\ \A t \in 0..Horizon : grown[t] \in Nat
    BY <1>5, <2>2, <2>3
  <2>5. share.last \in Nat
    BY <2>2
  <2>6. share.last <= clock /\ \A t \in 0..Horizon : grown[t] <= share.peak
    BY <2>1, Zenon DEF Peaked, LastTrue
  <2> QED BY <2>1, <2>4, <2>5, <2>6, Zenon
<1>7. /\ grown' = grown \/ (s.at = clock /\ grown' = [grown EXCEPT ![s.at] = Larger(@, s.kb)])
      /\ s.at = clock /\ ~s.fault => grown' = [grown EXCEPT ![s.at] = Larger(@, s.kb)]
  <2>1. CASE s.fault \/ clock > s.at
    BY <1>4, <1>5, <2>1
  <2>2. CASE ~(s.fault \/ clock > s.at)
    <3>1. s.at = clock
      BY <1>3, <1>5, <2>2
    <3>2. grown' = [grown EXCEPT ![s.at] = Larger(@, s.kb)]
      BY <1>4, <2>2, Zenon
    <3> QED BY <3>1, <3>2
  <2> QED BY <2>1, <2>2
<1>8. /\ share' \in ShareType /\ Bounded(share') /\ Reserves(share', grown') /\ WindowTrue(share', grown')
      /\ share'.peak \in Nat /\ share'.peak >= share.peak
      /\ s.at = clock /\ ~s.fault => s.kb <= share'.peak
      /\ share'.last <= clock
      /\ share'.last = clock => host.at = clock /\ (~host.fault => host.kb <= share'.peak)
  <2>1. CASE s.busy \/ s.at <= share.last
    <3>1. share' = Reserved(share, s)
      BY <1>1, <2>1, Zenon DEF Observed
    <3>2. /\ Reserved(share, s) \in ShareType /\ Bounded(Reserved(share, s))
          /\ Reserves(Reserved(share, s), grown') /\ WindowTrue(Reserved(share, s), grown')
          /\ Reserved(share, s).peak >= share.peak /\ Reserved(share, s).last = share.last
      BY <1>3, <1>4, <1>7, AllowanceNow, ReservedTrue
    <3>3. /\ share' \in ShareType /\ Bounded(share') /\ Reserves(share', grown') /\ WindowTrue(share', grown')
          /\ share'.peak >= share.peak /\ share'.last = share.last
      BY <3>1, <3>2, Zenon
    <3>4. share'.peak \in Nat
      BY <1>5, <3>3 DEF ShareType
    <3>5. share.last = clock => host.at = clock /\ (~host.fault => host.kb <= share.peak)
      BY AllowanceNow DEF LastTrue
    <3>6. host.kb \in Nat
      BY <1>5, AllowanceNow DEF Reading
    <3>7. s.at = clock /\ ~s.fault => s.kb <= share'.peak
      <4>1. CASE s.busy
        BY <1>3, <3>4, <4>1
      <4>2. CASE ~s.busy /\ s.at = clock /\ ~s.fault
        <5>1. share.last = clock /\ s = host
          BY <1>3, <1>5, <1>6, <2>1, <4>2
        <5> QED BY <1>6, <3>3, <3>4, <3>5, <3>6, <4>2, <5>1
      <4> QED BY <4>1, <4>2
    <3> QED BY <1>6, <3>3, <3>4, <3>5, <3>6, <3>7
  <2>2. CASE ~(s.busy \/ s.at <= share.last)
    <3> DEFINE told == [share EXCEPT !.last = s.at]
               next == Reserved(told, s)
               p == Larger(next.peak, s.kb)
               job == Observed(share, s)
    <3>1. job = IF s.fault THEN next ELSE [next EXCEPT !.peak = p]
      BY <2>2, Zenon DEF Observed
    <3>2. share' = Reserved(job, s)
      BY <1>1, Zenon
    <3> HIDE DEF job
    <3>3. /\ told \in ShareType /\ told.reserve = share.reserve /\ told.peak = share.peak /\ told.window = share.window
          /\ told.since = share.since /\ told.last = s.at /\ Bounded(told)
      BY <1>5, <1>6, AllowanceNow DEF ShareType, Bounded
    <3> HIDE DEF told
    <3>4. Reserves(told, grown) /\ Peaked(told, grown) /\ WindowTrue(told, grown)
      BY <3>3, AllowanceNow DEF Reserves, Peaked, WindowTrue
    <3>5. /\ next \in ShareType /\ Bounded(next) /\ Reserves(next, grown') /\ WindowTrue(next, grown')
          /\ next.peak >= share.peak /\ next.last = s.at
      <4>1. /\ Reserved(told, s) \in ShareType /\ Bounded(Reserved(told, s))
            /\ Reserves(Reserved(told, s), grown') /\ WindowTrue(Reserved(told, s), grown')
            /\ Reserved(told, s).peak >= told.peak /\ Reserved(told, s).last = told.last
        BY <1>3, <1>4, <1>7, <3>3, <3>4, AllowanceNow, ReservedTrue
      <4> QED BY <3>3, <4>1, Zenon
    <3> HIDE DEF next
    <3>6. /\ next.peak \in Nat /\ next.peak \in Usages /\ p \in Usages /\ p \in Nat /\ p >= next.peak /\ p >= s.kb
      <4>1. next.peak \in Usages
        BY <3>5 DEF ShareType
      <4>2. next.peak \in Nat
        BY <1>5, <4>1
      <4> QED BY <1>5, <4>1, <4>2 DEF Larger
    <3> HIDE DEF p
    <3>7. /\ job \in ShareType /\ job.reserve = next.reserve /\ job.window = next.window /\ job.since = next.since
          /\ job.floor = next.floor
          /\ job.last = s.at /\ job.peak \in Nat /\ job.peak >= share.peak /\ (~s.fault => job.peak >= s.kb)
      <4>1. CASE s.fault
        BY <1>6, <3>1, <3>5, <3>6, <4>1
      <4>2. CASE ~s.fault
        <5>1. job = [next EXCEPT !.peak = p]
          BY <3>1, <4>2, Zenon
        <5>2. /\ job \in ShareType /\ job.reserve = next.reserve /\ job.window = next.window /\ job.since = next.since
              /\ job.last = next.last /\ job.peak = p /\ job.floor = next.floor
          BY <3>5, <3>6, <5>1 DEF ShareType
        <5> QED BY <1>6, <3>5, <3>6, <5>2
      <4> QED BY <4>1, <4>2
    <3>8. Bounded(job) /\ Reserves(job, grown') /\ WindowTrue(job, grown')
      BY <3>5, <3>7 DEF Bounded, Reserves, WindowTrue
    <3>9. Peaked(job, grown')
      <4> SUFFICES ASSUME NEW t \in 0..Horizon PROVE grown'[t] <= job.peak
        BY DEF Peaked
      <4>1. grown[t] \in Nat /\ grown[t] <= job.peak
        BY <1>6, <3>7
      <4>2. grown'[t] = grown[t] \/ (~s.fault /\ grown'[t] = Larger(grown[t], s.kb))
        BY <1>4
      <4> QED BY <1>5, <3>7, <4>1, <4>2 DEF Larger
    <3>10. s.at = clock /\ ~s.fault => grown' = [grown' EXCEPT ![s.at] = Larger(@, s.kb)]
      <4> SUFFICES ASSUME s.at = clock, ~s.fault PROVE grown' = [grown' EXCEPT ![s.at] = Larger(@, s.kb)]
        OBVIOUS
      <4> DEFINE g == [grown EXCEPT ![s.at] = Larger(@, s.kb)]
      <4>1. grown' = g
        BY <1>7
      <4>2. g = [g EXCEPT ![s.at] = Larger(@, s.kb)]
        <5>1. grown \in Readings /\ Usages \subseteq Nat /\ s.at \in 0..Horizon /\ s.kb \in Usages
          BY <1>5, AllowanceNow
        <5> HIDE DEF g
        <5>2. [grown EXCEPT ![s.at] = Larger(@, s.kb)] =
                [[grown EXCEPT ![s.at] = Larger(@, s.kb)] EXCEPT ![s.at] = Larger(@, s.kb)]
          BY <5>1, AgainSame, ZenonT(40)
        <5> QED BY <5>2, Zenon DEF g
      <4> QED BY <4>1, <4>2, Zenon
    <3>11. /\ Reserved(job, s) \in ShareType /\ Bounded(Reserved(job, s))
           /\ Reserves(Reserved(job, s), grown') /\ WindowTrue(Reserved(job, s), grown')
           /\ Reserved(job, s).peak >= job.peak /\ Reserved(job, s).last = job.last
      BY <1>3, <1>4, <3>7, <3>8, <3>9, <3>10, AllowanceNow, ReservedTrue
    <3>12. /\ share' \in ShareType /\ Bounded(share') /\ Reserves(share', grown') /\ WindowTrue(share', grown')
           /\ share'.peak >= job.peak /\ share'.last = s.at
      BY <3>2, <3>7, <3>11, Zenon
    <3>13. share'.peak \in Nat
      BY <1>5, <3>12 DEF ShareType
    <3>14. s.at = clock => s = host
      BY <1>3, <2>2
    <3> QED BY <1>3, <1>5, <1>6, <3>7, <3>12, <3>13, <3>14
  <2> QED BY <2>1, <2>2
<1>9. \A t \in 0..Horizon : grown'[t] <= share'.peak
  BY <1>4, <1>5, <1>6, <1>8 DEF Larger
<1> QED
  <2>1. /\ Reserves(share, grown)' /\ Peaked(share, grown)' /\ WindowTrue(share, grown)' /\ LastTrue(share)' /\ Recent(grown)'
    BY <1>2, <1>4, <1>8, <1>9 DEF Reserves, Peaked, WindowTrue, InWindow, LastTrue, Recent
  <2>2. AllowanceTypeOK'
    BY <1>2, <1>4, <1>8, ShareTypes, AllowanceNow DEF AllowanceTypeOK, Readings
  <2> QED BY <1>2, <2>1, <2>2 DEF AllowanceInv, Busy

LEMMA OthersKeep == AllowanceInv /\ (PublishSample \/ Orphaned \/ AllowanceTick \/ UNCHANGED allowvars) => AllowanceInv'
<1> USE AllowanceAssumption
<1>1. ASSUME AllowanceInv, PublishSample PROVE AllowanceInv'
  <2>1. /\ clock > host.at /\ host' \in Taken(clock)
        /\ kind' = kind /\ clock' = clock /\ share' = share /\ grown' = grown
    BY <1>1 DEF PublishSample
  <2>2. /\ host' \in [at : {clock}, kb : Usages, complete : BOOLEAN, fault : BOOLEAN, busy : {FALSE}]
    BY <2>1 DEF Taken
  <2>3. host' \in Reading /\ host'.at = clock /\ host'.busy = FALSE
    <3>1. clock \in 0..Horizon
      BY <1>1, AllowanceNow
    <3> QED BY <2>2, <3>1 DEF Reading
  <2>4. share.last <= clock /\ share.last # clock
    BY <1>1, <2>1, AllowanceNow DEF LastTrue, ShareType, Reading
  <2>5. LastTrue(share)'
    BY <2>1, <2>4 DEF LastTrue
  <2>6. Recent(grown)' /\ Reserves(share, grown)' /\ Peaked(share, grown)' /\ WindowTrue(share, grown)'
    BY <1>1, <2>1, AllowanceNow DEF Recent, Reserves, Peaked, WindowTrue, InWindow
  <2>7. AllowanceTypeOK'
    BY <1>1, <2>1, <2>3 DEF AllowanceInv, AllowanceTypeOK
  <2>8. host'.at <= clock'
    BY <1>1, <2>1, <2>3, AllowanceNow
  <2> QED BY <2>3, <2>5, <2>6, <2>7, <2>8 DEF AllowanceInv
<1>2. ASSUME AllowanceInv, Orphaned PROVE AllowanceInv'
  <2>1. kind' = kind /\ clock' = clock /\ host' = host /\ grown' = grown
    BY <1>2 DEF Orphaned
  <2>2. /\ share' \in ShareType /\ share'.reserve = share.reserve /\ share'.peak = share.peak
        /\ share'.window = share.window /\ share'.since = share.since /\ share'.last = share.last /\ share'.floor = share.floor
    BY <1>2, AllowanceNow DEF Orphaned, ShareType
  <2>3. Recent(grown)' /\ Reserves(share, grown)' /\ Peaked(share, grown)' /\ WindowTrue(share, grown)' /\ LastTrue(share)'
    BY <1>2, <2>1, <2>2, AllowanceNow DEF Recent, Reserves, Peaked, WindowTrue, InWindow, LastTrue
  <2>4. AllowanceTypeOK'
    <3>1. Bounded(share')
      BY <1>2, <2>2, AllowanceNow DEF Bounded
    <3> QED BY <1>2, <2>1, <2>2, <3>1, ShareTypes DEF AllowanceInv, AllowanceTypeOK
  <2> QED BY <1>2, <2>1, <2>3, <2>4 DEF AllowanceInv, Busy
<1>3. ASSUME AllowanceInv, AllowanceTick PROVE AllowanceInv'
  <2>1. /\ clock < Horizon /\ clock' = clock + 1 /\ kind' = kind /\ share' = share /\ host' = host
        /\ grown' = [t \in 0..Horizon |-> IF clock' - t > Window THEN 0 ELSE grown[t]]
    BY <1>3 DEF AllowanceTick
  <2>2. /\ clock \in Nat /\ clock' \in 0..Horizon /\ clock' > clock /\ share \in ShareType /\ share.reserve \in Nat /\ share.peak \in Nat
        /\ \A t \in 0..Horizon : grown[t] \in Usages /\ grown[t] \in Nat
    <3>1. clock \in 0..Horizon /\ Horizon \in Nat /\ Usages \subseteq Nat /\ share \in ShareType /\ grown \in Readings
      BY <1>3, AllowanceNow
    <3>2. share.reserve \in Nat /\ share.peak \in Usages /\ \A t \in 0..Horizon : grown[t] \in Usages
      BY <3>1 DEF ShareType, Readings
    <3>3. share.peak \in Nat /\ \A t \in 0..Horizon : grown[t] \in Nat
      BY <3>1, <3>2
    <3>4. clock \in Nat /\ clock' \in 0..Horizon /\ clock' > clock
      BY <2>1, <3>1
    <3> QED BY <3>1, <3>2, <3>3, <3>4, Zenon
  <2>3. /\ grown' \in Readings
        /\ \A t \in 0..Horizon : grown'[t] = grown[t] \/ grown'[t] = 0
        /\ \A t \in 0..Horizon : grown'[t] # 0 => clock' - t <= Window /\ grown[t] # 0
    BY <2>1, <2>2 DEF Readings
  <2>4. Recent(grown)'
    <3>1. \A t \in 0..Horizon : grown[t] # 0 => t <= clock
      BY <1>3, AllowanceNow DEF Recent
    <3>2. \A t \in 0..Horizon : grown'[t] # 0 => t <= clock' /\ clock' - t <= Window
      <4> SUFFICES ASSUME NEW t \in 0..Horizon, grown'[t] # 0 PROVE t <= clock' /\ clock' - t <= Window
        OBVIOUS
      <4>1. t \in Nat /\ t <= clock /\ clock' - t <= Window
        BY <2>3, <3>1
      <4>2. clock \in Nat /\ clock' \in Nat /\ clock < clock'
        BY <2>2
      <4>3. t <= clock'
        BY <4>1, <4>2
      <4> QED BY <4>1, <4>3, Zenon
    <3> QED BY <3>2 DEF Recent
  <2>5. Reserves(share, grown)' /\ Peaked(share, grown)'
    <3>1. /\ \A t \in 0..Horizon : grown[t] <= share.reserve /\ grown[t] <= share.peak
          /\ kind = "explicit" => share.reserve >= Request
      BY <1>3, AllowanceNow DEF Reserves, Peaked
    <3>2. \A t \in 0..Horizon : grown'[t] <= share.reserve /\ grown'[t] <= share.peak
      BY <2>2, <2>3, <3>1
    <3> QED BY <2>1, <3>1, <3>2 DEF Reserves, Peaked
  <2>6. WindowTrue(share, grown)'
    <3>1. ASSUME kind = "adaptive", share.window # {}
          PROVE  InWindow(share.window, share.since, grown)'
      <4>1. PICK n \in share.window :
              /\ \A row \in share.window : row.at <= n.at /\ (row.at = n.at => row = n)
              /\ n.at <= clock /\ share.since <= n.at
              /\ \A t \in 0..Horizon : grown[t] # 0 => t <= n.at
              /\ \A t \in 0..Horizon : share.since < t /\ grown[t] # 0 => \E row \in share.window : row.at = t /\ grown[t] <= row.kb
        BY <1>3, <3>1, AllowanceNow DEF WindowTrue, InWindow
      <4>2. n.at \in Nat /\ n.at <= clock'
        BY <2>2, <4>1 DEF ShareType, Rows
      <4>3. \A t \in 0..Horizon : grown'[t] # 0 => grown'[t] = grown[t] /\ grown[t] # 0
        BY <2>3
      <4>4. /\ \A t \in 0..Horizon : grown'[t] # 0 => t <= n.at
            /\ \A t \in 0..Horizon : share.since < t /\ grown'[t] # 0 => \E row \in share.window : row.at = t /\ grown'[t] <= row.kb
        BY <4>1, <4>3
      <4> QED BY <2>1, <4>1, <4>2, <4>4 DEF InWindow
    <3>2. IsFiniteSet(share.window)
      BY <1>3, AllowanceNow DEF WindowTrue
    <3> QED BY <2>1, <3>1, <3>2 DEF WindowTrue
  <2>7. LastTrue(share)' /\ host'.at <= clock'
    <3>1. share.last \in Nat /\ share.last <= clock /\ host.at \in Nat /\ host.at <= clock
      BY <1>3, AllowanceNow DEF LastTrue, AllowanceInv, ShareType, Reading
    <3>2. share.last <= clock' /\ share.last # clock' /\ host.at <= clock'
      BY <2>2, <3>1
    <3> QED BY <2>1, <3>2 DEF LastTrue
  <2>8. AllowanceTypeOK'
    BY <1>3, <2>1, <2>2, <2>3 DEF AllowanceInv, AllowanceTypeOK, Readings
  <2>9. host'.busy => host' = Busy'
    BY <1>3, <2>1 DEF AllowanceInv, Busy
  <2> QED BY <2>4, <2>5, <2>6, <2>7, <2>8, <2>9 DEF AllowanceInv
<1>4. ASSUME AllowanceInv, UNCHANGED allowvars PROVE AllowanceInv'
  BY <1>4, SMTT(40) DEF allowvars, AllowanceInv, AllowanceTypeOK, Recent, Reserves, Peaked, WindowTrue,
                        InWindow, LastTrue, Reading, Busy
<1> QED BY <1>1, <1>2, <1>3, <1>4

LEMMA AllowanceBegins == AllowanceInit => AllowanceInv
<1> SUFFICES ASSUME AllowanceInit PROVE AllowanceInv
  OBVIOUS
<1> USE AllowanceAssumption
<1>1. /\ kind \in {"explicit", "strict", "adaptive"} /\ clock = 0 /\ host = Busy /\ grown = [t \in 0..Horizon |-> 0]
      /\ share = [reserve |-> Request, peak |-> 0, floor |-> Unknown, window |-> {}, since |-> 0,
                  last |-> 0, orphaned |-> FALSE, recovery |-> FALSE]
  BY DEF AllowanceInit
<1>2. Busy \in Reading /\ Busy.at = 0 /\ Busy.kb = 0 /\ 0 \in Usages
  BY DEF Busy, Reading
<1>3. /\ share \in ShareType /\ share.reserve = Request /\ share.peak = 0 /\ share.window = {} /\ share.last = 0 /\ Bounded(share)
  <2>1. share \in ShareType
    BY <1>1, <1>2 DEF ShareType
  <2>2. share.reserve = Request /\ share.peak = 0 /\ share.window = {} /\ share.last = 0 /\ share.floor = Unknown
    BY <1>1
  <2> QED BY <2>1, <2>2, BoundsAre DEF Bounded, Unknown
<1>4. AllowanceTypeOK
  BY <1>1, <1>2, <1>3, ShareTypes DEF AllowanceTypeOK
<1>5. Recent(grown) /\ Reserves(share, grown) /\ Peaked(share, grown)
  BY <1>1, <1>3 DEF Recent, Reserves, Peaked
<1>6. WindowTrue(share, grown) /\ LastTrue(share)
  BY <1>1, <1>2, <1>3, FS_EmptySet DEF WindowTrue, LastTrue
<1> QED BY <1>1, <1>2, <1>4, <1>5, <1>6 DEF AllowanceInv

LEMMA AllowanceInductive == AllowanceSpec => []AllowanceInv
<1>1. AllowanceInv /\ [AllowanceNext]_allowvars => AllowanceInv'
  BY OwnedKeeps, WaiterKeeps, OthersKeep DEF AllowanceNext
<1> QED BY AllowanceBegins, <1>1, PTL DEF AllowanceSpec

\* The entry of a running job, the samples and what was measured have their types
\* in every behaviour, for any usages, window and horizon; in particular an allowance
\* that is carried forward again and again, with its margin, stays below Ceiling.
THEOREM AllowanceTypeCorrect == AllowanceSpec => []AllowanceTypeOK
<1>1. AllowanceInv => AllowanceTypeOK
  BY DEF AllowanceInv
<1> QED BY <1>1, AllowanceInductive, PTL

\* The memory set aside for a job covers whatever it was measured to use in the last
\* minute, and never falls below an explicit request: for any usages and any window,
\* samples that are late, partial, failed or applied again, and a lost supervisor.
THEOREM PeaksAreCovered == AllowanceSpec => []AllowanceCoversPeaks
<1>1. AllowanceInv => AllowanceCoversPeaks
  BY DEF AllowanceInv, Reserves, AllowanceCoversPeaks
<1> QED BY <1>1, AllowanceInductive, PTL

(***************************************************************************)
(* Estimates.                                                              *)
(***************************************************************************)

Samples == [kb : Sizes, after : BOOLEAN]
EstimateRows == [estimate : 0..Bound, peaks : Seq(Sizes), runs : 0..Runs]
Profiles == [samples : Seq(Samples), floor : 0..Bound]
WorkType == [pc : {"none", "waiting", "running"}, key : Keys, prior : 0..Bound,
             profiled : BOOLEAN, memory : 0..Bound, peak : {0} \cup Sizes]
GrowthType == [kb : {0} \cup Sizes, later : 0..3]
EveryRow == [Keys -> EstimateRows]
EveryProfile == [Workers -> Profiles]

Busyness == {j \in Jobs : work[j].pc # "none"}

\* The floor of a profile is the largest growth, with its margin, and its later runs
\* are counted.
IsFloor(profile, shown) ==
  /\ profile.floor = Times3Halves(shown.kb)
  /\ shown.later < 3 => Cardinality(Later(profile.samples)) <= shown.later
FloorKnown(w) == IsFloor(profiles[w], growth[w])

\* What a run with a profile has shown is recorded.
Shows(j) == /\ work[j].profiled => work[j].peak <= growth[work[j].key[2]].kb
            /\ work[j].pc = "waiting" => work[j].peak = 0

EstimatesInv ==
  /\ EstimatesTypeOK
  /\ \A w \in Workers : FloorKnown(w)
  /\ \A j \in Jobs : Shows(j)
  /\ \A k \in Keys : rows[k].runs + Cardinality(Busyness) <= ran

(***************************************************************************)
(* What the numbers are bounded by.                                        *)
(***************************************************************************)
LEMMA BoundIs ==
  /\ Bound \in Nat /\ Least <= Bound /\ Prior <= Bound /\ Prior \in Nat /\ Least \in Nat
  /\ \A kb \in Sizes : kb \in Nat /\ Times5Quarters(kb) <= Bound /\ Times3Halves(kb) <= Bound
<1>1. Sizes \subseteq Nat /\ Sizes # {} /\ IsFiniteSet(Sizes) /\ Prior \in Nat
  BY EstimatesAssumption
<1> DEFINE most == Max(Sizes)
<1>2. most \in Nat /\ \A kb \in Sizes : kb \in Nat /\ kb <= most
  <2>1. Max(Sizes) \in Sizes /\ \A kb \in Sizes : Max(Sizes) >= kb
    BY <1>1, GreatestIn
  <2>2. \A kb \in Sizes : kb \in Nat
    BY <1>1
  <2>3. Max(Sizes) \in Nat
    BY <2>1, <2>2
  <2> QED BY <2>1, <2>2, <2>3
<1>3. Bound = Max({Least, Prior, 2 * most})
  BY Zenon DEF Bound
<1> HIDE DEF most
<1>4. Bound \in Nat /\ Bound >= Least /\ Bound >= Prior /\ Bound >= 2 * most /\ Least \in Nat
  <2>1. Least \in Nat /\ 2 * most \in Nat
    BY <1>2 DEF Least
  <2>2. /\ Max({Least, Prior, 2 * most}) \in Nat /\ Max({Least, Prior, 2 * most}) >= Least
        /\ Max({Least, Prior, 2 * most}) >= Prior /\ Max({Least, Prior, 2 * most}) >= 2 * most
    BY <1>1, <2>1, MaxOfThree
  <2> QED BY <1>3, <2>1, <2>2, Zenon
<1> HIDE DEF Bound
<1>5. \A kb \in Sizes : Times5Quarters(kb) <= 2 * kb /\ Times3Halves(kb) <= 2 * kb /\ kb \in Nat
  BY <1>2 DEF Times5Quarters, Times3Halves
<1>6. \A kb \in Sizes : Times5Quarters(kb) \in Nat /\ Times3Halves(kb) \in Nat
  BY <1>2 DEF Times5Quarters, Times3Halves
<1> QED BY <1>1, <1>2, <1>4, <1>5, <1>6 DEF Least

LEMMA MarginGrows ==
  /\ \A a \in Nat : Times3Halves(a) \in Nat /\ Times5Quarters(a) \in Nat
  /\ \A a, b \in Nat : a < b => Times3Halves(a) < Times3Halves(b)
  /\ Times3Halves(0) = 0
  /\ \A a \in Nat : Ninth(a) \in Nat /\ Ninth(a) <= a
BY DEF Times3Halves, Times5Quarters, Ninth

LEMMA TopIs ==
  ASSUME NEW S, S \subseteq Nat, IsFiniteSet(S)
  PROVE  Top(S) \in Nat /\ (Top(S) = 0 \/ Top(S) \in S) /\ \A x \in S : x <= Top(S)
<1>1. CASE S = {}
  BY <1>1 DEF Top
<1>2. CASE S # {}
  <2>1. Max(S) \in S /\ \A x \in S : Max(S) >= x
    BY <1>2, GreatestIn
  <2>2. Top(S) = Max(S)
    BY <1>2, Zenon DEF Top
  <2>3. Max(S) \in Nat /\ \A x \in S : x \in Nat
    BY <2>1
  <2> QED BY <2>1, <2>2, <2>3
<1> QED BY <1>1, <1>2

LEMMA LargerOfIs == \A a, b \in Nat : /\ LargerOf(a, b) \in Nat /\ LargerOf(a, b) >= a /\ LargerOf(a, b) >= b
                                      /\ LargerOf(a, b) \in {a, b}
BY DEF LargerOf

LEMMA WorkersMax == Max(Workers) \in Workers
BY EstimatesAssumption, GreatestIn

(***************************************************************************)
(* Lists.                                                                  *)
(***************************************************************************)
LEMMA DomainFinite ==
  ASSUME NEW S, NEW list \in Seq(S)
  PROVE  /\ DOMAIN list = 1..Len(list) /\ Len(list) \in Nat /\ IsFiniteSet(DOMAIN list)
         /\ \A i \in DOMAIN list : list[i] \in S
<1>1. DOMAIN list = 1..Len(list) /\ Len(list) \in Nat /\ \A i \in DOMAIN list : list[i] \in S
  OBVIOUS
<1>2. IsFiniteSet(1..Len(list))
  BY <1>1, FS_Interval
<1> QED BY <1>1, <1>2

IsPartOf(t, list) == \E d \in Nat : \A i \in DOMAIN t : i + d \in DOMAIN list /\ t[i] = list[i + d]

LEMMA LatestIs ==
  ASSUME NEW S, NEW list \in Seq(S), NEW k \in Nat, k # 0
  PROVE  /\ Latest(list, k) \in Seq(S)
         /\ list # <<>> => Latest(list, k) # <<>>
         /\ IsPartOf(Latest(list, k), list)
<1> DEFINE a == IF Len(list) > k THEN Len(list) - k + 1 ELSE 1
           t == SubSeq(list, a, Len(list))
<1>1. Latest(list, k) = t
  BY Zenon DEF Latest
<1>2. Len(list) \in Nat /\ a \in Nat /\ a >= 1 /\ a <= Len(list) + 1 /\ (Len(list) # 0 => a <= Len(list))
  OBVIOUS
<1> HIDE DEF a
<1>3. /\ t \in Seq(S) /\ Len(t) = IF a <= Len(list) THEN Len(list) - a + 1 ELSE 0
      /\ \A i \in 1..(Len(list) - a + 1) : t[i] = list[a + i - 1]
  <2>1. \A i \in a..Len(list) : list[i] \in S
    BY <1>2
  <2> QED BY <1>2, <2>1, SubSeqProperties
<1> HIDE DEF t
<1>4. list # <<>> => t # <<>>
  <2>1. list # <<>> => Len(list) # 0
    BY EmptySeq, <1>2
  <2>2. list # <<>> => Len(t) # 0
    BY <1>2, <1>3, <2>1
  <2> QED BY <2>2
<1>5. a - 1 \in Nat /\ \A i \in DOMAIN t : i + (a - 1) \in DOMAIN list /\ t[i] = list[i + (a - 1)]
  <2>1. a - 1 \in Nat /\ DOMAIN t = 1..Len(t) /\ DOMAIN list = 1..Len(list) /\ Len(t) \in Nat
    BY <1>2, <1>3, DomainFinite
  <2>2. ASSUME NEW i \in DOMAIN t PROVE i + (a - 1) \in DOMAIN list /\ t[i] = list[i + (a - 1)]
    <3>1. i \in 1..(Len(list) - a + 1) /\ i \in Nat
      BY <1>2, <1>3, <2>1
    <3>2. t[i] = list[a + i - 1] /\ a + i - 1 = i + (a - 1)
      BY <1>2, <1>3, <3>1
    <3> QED BY <1>2, <2>1, <3>1, <3>2
  <2> QED BY <2>1, <2>2
<1>6. IsPartOf(t, list)
  BY <1>5 DEF IsPartOf
<1> QED BY <1>1, <1>3, <1>4, <1>6

\* What was after the floor in a list that goes on is so in the list.
LEMMA LaterShifts ==
  ASSUME NEW list \in Seq(Samples), NEW t \in Seq(Samples), NEW d \in Nat,
         \A i \in DOMAIN t : i + d \in DOMAIN list /\ t[i] = list[i + d]
  PROVE  /\ IsFiniteSet(Later(list)) /\ IsFiniteSet(Later(t))
         /\ Cardinality(Later(list)) \in Nat /\ Cardinality(Later(t)) \in Nat
         /\ Cardinality(Later(t)) <= Cardinality(Later(list))
<1>1. /\ Later(list) \subseteq DOMAIN list /\ Later(t) \subseteq DOMAIN t /\ DOMAIN t \subseteq Nat
      /\ IsFiniteSet(DOMAIN list) /\ IsFiniteSet(DOMAIN t)
  BY DomainFinite DEF Later
<1>2. IsFiniteSet(Later(list)) /\ IsFiniteSet(Later(t))
  BY <1>1, FS_Subset
<1> DEFINE f == [i \in Later(t) |-> i + d]
<1>3. f \in Injection(Later(t), Later(list))
  <2>1. \A i \in Later(t) : i \in Nat /\ i + d \in Later(list)
    BY <1>1 DEF Later
  <2>2. f \in [Later(t) -> Later(list)]
    BY <2>1
  <2>3. \A i, j \in Later(t) : f[i] = f[j] => i = j
    BY <2>1
  <2> HIDE DEF f
  <2>4. DOMAIN f = Later(t)
    BY <2>2
  <2>5. IsInjective(f)
    BY <2>3, <2>4 DEF IsInjective
  <2> QED BY <2>2, <2>5 DEF Injection
<1>4. Cardinality(Later(t)) <= Cardinality(Later(list))
  BY <1>2, <1>3, FS_Injection
<1> QED BY <1>2, <1>4, FS_CardinalityType

LEMMA LaterAppended ==
  ASSUME NEW list \in Seq(Samples), NEW s \in Samples
  PROVE  /\ Latest(Append(list, s), 20) \in Seq(Samples)
         /\ Cardinality(Later(Latest(Append(list, s), 20))) \in Nat /\ Cardinality(Later(list)) \in Nat
         /\ Cardinality(Later(Latest(Append(list, s), 20))) <= Cardinality(Later(list)) + 1
<1> DEFINE longer == Append(list, s)
           t == Latest(longer, 20)
<1>1. /\ longer \in Seq(Samples) /\ Len(longer) = Len(list) + 1
      /\ \A i \in 1..Len(list) : longer[i] = list[i]
  BY AppendProperties
<1> HIDE DEF longer
<1>2. t \in Seq(Samples) /\ \E d \in Nat : \A i \in DOMAIN t : i + d \in DOMAIN longer /\ t[i] = longer[i + d]
  <2>1. 20 \in Nat /\ 20 # 0
    OBVIOUS
  <2>2. Latest(longer, 20) \in Seq(Samples) /\ IsPartOf(Latest(longer, 20), longer)
    BY <1>1, <2>1, LatestIs, Zenon
  <2> QED BY <2>2 DEF IsPartOf
<1> HIDE DEF t
<1>3. /\ Cardinality(Later(t)) \in Nat /\ Cardinality(Later(longer)) \in Nat
      /\ IsFiniteSet(Later(longer)) /\ Cardinality(Later(t)) <= Cardinality(Later(longer))
  BY <1>1, <1>2, LaterShifts
<1>4. IsFiniteSet(Later(list)) /\ Cardinality(Later(list)) \in Nat
  <2>1. Later(list) \subseteq DOMAIN list /\ IsFiniteSet(DOMAIN list)
    BY DomainFinite DEF Later
  <2> QED BY <2>1, FS_Subset, FS_CardinalityType
<1>5. Later(longer) \subseteq Later(list) \cup {Len(list) + 1}
  <2>1. DOMAIN longer = 1..(Len(list) + 1) /\ DOMAIN list = 1..Len(list) /\ Len(list) \in Nat
    BY <1>1, DomainFinite
  <2> QED BY <1>1, <2>1 DEF Later
<1>6. /\ IsFiniteSet(Later(list) \cup {Len(list) + 1})
      /\ Cardinality(Later(list) \cup {Len(list) + 1}) <= Cardinality(Later(list)) + 1
  <2> DEFINE n == Cardinality(Later(list))
             more == Later(list) \cup {Len(list) + 1}
  <2>1. IsFiniteSet(more) /\ Cardinality(more) = IF Len(list) + 1 \in Later(list) THEN n ELSE n + 1
    BY <1>4, FS_AddElement, Zenon
  <2>2. n \in Nat
    BY <1>4
  <2> HIDE DEF n, more
  <2>3. Cardinality(more) <= n + 1
    BY <2>1, <2>2
  <2> QED BY <2>1, <2>3 DEF n, more
<1>7. Cardinality(Later(longer)) <= Cardinality(Later(list) \cup {Len(list) + 1})
  BY <1>5, <1>6, FS_Subset
<1>8. Cardinality(Later(list) \cup {Len(list) + 1}) \in Nat
  BY <1>6, FS_CardinalityType
<1> QED BY <1>2, <1>3, <1>4, <1>6, <1>7, <1>8 DEF t, longer

LEMMA LaterTail ==
  ASSUME NEW list \in Seq(Samples), list # <<>>
  PROVE  /\ Tail(list) \in Seq(Samples)
         /\ Cardinality(Later(Tail(list))) \in Nat /\ Cardinality(Later(list)) \in Nat
         /\ Cardinality(Later(Tail(list))) <= Cardinality(Later(list))
<1> DEFINE t == Tail(list)
<1>1. t \in Seq(Samples) /\ Len(t) = Len(list) - 1 /\ \A i \in 1..Len(t) : t[i] = list[i + 1]
  BY HeadTailProperties
<1> HIDE DEF t
<1>2. \A i \in DOMAIN t : i + 1 \in DOMAIN list /\ t[i] = list[i + 1]
  <2>1. DOMAIN t = 1..Len(t) /\ DOMAIN list = 1..Len(list) /\ Len(list) \in Nat /\ Len(t) \in Nat
    BY <1>1, DomainFinite
  <2> QED BY <1>1, <2>1
<1>3. /\ Cardinality(Later(t)) \in Nat /\ Cardinality(Later(list)) \in Nat
      /\ Cardinality(Later(t)) <= Cardinality(Later(list))
  BY <1>1, <1>2, LaterShifts
<1> QED BY <1>1, <1>3 DEF t

LEMMA PeaksAre ==
  ASSUME NEW list \in Seq(Sizes)
  PROVE  PeaksOf(list) \subseteq Sizes /\ IsFiniteSet(PeaksOf(list)) /\ (list # <<>> => PeaksOf(list) # {})
<1>1. PeaksOf(list) \subseteq Sizes
  BY DomainFinite DEF PeaksOf
<1>2. IsFiniteSet(PeaksOf(list))
  BY <1>1, EstimatesAssumption, FS_Subset
<1>3. ASSUME list # <<>> PROVE PeaksOf(list) # {}
  <2>1. 1 \in DOMAIN list
    BY <1>3, DomainFinite, EmptySeq
  <2> QED BY <2>1 DEF PeaksOf
<1> QED BY <1>1, <1>2, <1>3

LEMMA TypicalIs ==
  ASSUME NEW list \in Seq(Sizes), list # <<>>, NEW ran0 \in Nat
  PROVE  Typical(list, ran0) \in Sizes
<1> DEFINE P == PeaksOf(list)
           AtMost(p) == {i \in DOMAIN list : list[i] <= p}
           Q == {p \in P : 100 * Cardinality(AtMost(p)) >= 95 * Len(list)}
<1>1. P \subseteq Sizes /\ IsFiniteSet(P) /\ P # {} /\ P \subseteq Nat
  BY PeaksAre, EstimatesAssumption
<1>2. Max(P) \in P /\ \A x \in P : Max(P) >= x
  BY <1>1, GreatestIn
<1>3. CASE ran0 < 20
  <2>1. Typical(list, ran0) = Max(P)
    BY <1>3, Zenon DEF Typical
  <2> QED BY <1>1, <1>2, <2>1
<1>4. CASE ~(ran0 < 20)
  <2> DEFINE p == Max(P)
  <2>1. AtMost(p) = DOMAIN list
    <3>1. \A i \in DOMAIN list : list[i] \in P
      BY DEF PeaksOf
    <3>2. \A i \in DOMAIN list : list[i] <= p
      <4>1. \A i \in DOMAIN list : p >= list[i]
        BY <1>2, <3>1
      <4>2. p \in Nat /\ \A i \in DOMAIN list : list[i] \in Nat
        BY <1>1, <1>2, <3>1
      <4> HIDE DEF p
      <4> QED BY <4>1, <4>2
    <3> HIDE DEF p
    <3> QED BY <3>2
  <2>2. Cardinality(DOMAIN list) = Len(list) /\ Len(list) \in Nat
    <3>1. DOMAIN list = 1..Len(list) /\ Len(list) \in Nat
      BY DomainFinite
    <3>2. Cardinality(1..Len(list)) = IF 1 > Len(list) THEN 0 ELSE Len(list) - 1 + 1
      BY <3>1, FS_Interval
    <3> QED BY <3>1, <3>2
  <2>3. 100 * Cardinality(AtMost(p)) >= 95 * Len(list)
    BY <2>1, <2>2
  <2>4. p \in Q
    <3> HIDE DEF p, AtMost, P
    <3>1. p \in P
      BY <1>2 DEF p
    <3> QED BY <2>3, <3>1
  <2>5. Q \subseteq Nat /\ Q # {} /\ Q \subseteq P
    <3> HIDE DEF p, AtMost, P
    <3> QED BY <1>1, <2>4
  <2>6. Min(Q) \in Q
    <3> HIDE DEF Q
    <3> QED BY <2>5, LeastIn
  <2>7. Typical(list, ran0) = Min(Q)
    BY <1>4, Zenon DEF Typical
  <2> HIDE DEF Q, P
  <2> QED BY <1>1, <2>5, <2>6, <2>7
<1> QED BY <1>3, <1>4

LEMMA RecordedIs ==
  ASSUME NEW row \in EstimateRows, NEW prior \in 0..Bound, NEW kb \in Sizes, NEW complete \in BOOLEAN,
         complete => row.runs < Runs
  PROVE  /\ Recorded(row, prior, kb, complete) \in EstimateRows
         /\ Recorded(row, prior, kb, complete).runs = IF complete THEN row.runs + 1 ELSE row.runs
<1> DEFINE known == IF row.estimate = 0 THEN prior ELSE row.estimate
           peaks == Latest(Append(row.peaks, kb), 50)
           t == Typical(peaks, row.runs + 1)
           low == Max({Least, Times5Quarters(t), Ninth(known)})
           e == LargerOf(low, Times5Quarters(kb))
           f == LargerOf(known, Times5Quarters(kb))
<1>1. /\ row.estimate \in 0..Bound /\ row.peaks \in Seq(Sizes) /\ row.runs \in 0..Runs
      /\ Bound \in Nat /\ Runs \in Nat /\ row.runs \in Nat
  BY BoundIs, EstimatesAssumption DEF EstimateRows
<1>2. known \in Nat /\ known <= Bound
  BY <1>1
<1> HIDE DEF known
<1>3. kb \in Nat /\ Times5Quarters(kb) \in Nat /\ Times5Quarters(kb) <= Bound
  BY BoundIs, MarginGrows
<1>4. f \in 0..Bound
  BY <1>1, <1>2, <1>3 DEF LargerOf
<1> HIDE DEF f
<1>5. CASE ~complete
  <2>1. Recorded(row, prior, kb, complete) = [row EXCEPT !.estimate = f]
    BY <1>5, Zenon DEF Recorded, f, known
  <2>2. [row EXCEPT !.estimate = f] \in EstimateRows /\ [row EXCEPT !.estimate = f].runs = row.runs
    BY <1>4 DEF EstimateRows
  <2> QED BY <1>5, <2>1, <2>2
<1>6. CASE complete
  <2>1. peaks \in Seq(Sizes) /\ peaks # <<>>
    <3>1. Append(row.peaks, kb) \in Seq(Sizes) /\ Append(row.peaks, kb) # <<>>
      BY <1>1, AppendProperties
    <3>2. 50 \in Nat /\ 50 # 0
      OBVIOUS
    <3> QED BY <3>1, <3>2, LatestIs, Zenon
  <2> HIDE DEF peaks
  <2>2. t \in Sizes
    BY <1>1, <2>1, TypicalIs
  <2> HIDE DEF t
  <2>3. low \in Nat /\ low <= Bound
    <3>1. Times5Quarters(t) \in Nat /\ Times5Quarters(t) <= Bound
      BY <2>2, BoundIs, MarginGrows
    <3>2. Ninth(known) \in Nat /\ Ninth(known) <= Bound
      <4>1. Ninth(known) \in Nat /\ Ninth(known) <= known
        BY <1>2, MarginGrows
      <4> QED BY <1>1, <1>2, <4>1
    <3>3. Least \in Nat /\ Least <= Bound
      BY BoundIs
    <3>4. low \in {Least, Times5Quarters(t), Ninth(known)}
      BY <3>1, <3>2, <3>3, MaxOfThree
    <3> HIDE DEF low
    <3> QED BY <3>1, <3>2, <3>3, <3>4
  <2> HIDE DEF low
  <2>4. e \in 0..Bound
    BY <1>1, <1>3, <2>3 DEF LargerOf
  <2> HIDE DEF e
  <2>5. Recorded(row, prior, kb, complete) = [estimate |-> e, peaks |-> peaks, runs |-> row.runs + 1]
    BY <1>6, Zenon DEF Recorded, e, low, t, peaks, known
  <2>6. row.runs + 1 \in 0..Runs
    BY <1>1, <1>6
  <2>7. [estimate |-> e, peaks |-> peaks, runs |-> row.runs + 1] \in EstimateRows
    BY <2>1, <2>4, <2>6 DEF EstimateRows
  <2>8. [estimate |-> e, peaks |-> peaks, runs |-> row.runs + 1].runs = row.runs + 1
    OBVIOUS
  <2> QED BY <1>6, <2>5, <2>7, <2>8, Zenon
<1> QED BY <1>5, <1>6

\* A complete run is one more after the floor; growth that is larger raises it.
LEMMA ProfiledIs ==
  ASSUME NEW profile \in Profiles, NEW kb \in Sizes, NEW complete \in BOOLEAN
  PROVE  /\ Profiled(profile, kb, complete) \in Profiles
         /\ Cardinality(Later(profile.samples)) \in Nat
         /\ Cardinality(Later(Profiled(profile, kb, complete).samples)) \in Nat
         /\ complete => /\ Profiled(profile, kb, complete).floor = profile.floor
                        /\ Cardinality(Later(Profiled(profile, kb, complete).samples))
                             <= Cardinality(Later(profile.samples)) + 1
         /\ ~complete /\ Times3Halves(kb) <= profile.floor => Profiled(profile, kb, complete) = profile
         /\ ~complete /\ ~(Times3Halves(kb) <= profile.floor) =>
              /\ Profiled(profile, kb, complete).floor = Times3Halves(kb)
              /\ Cardinality(Later(Profiled(profile, kb, complete).samples)) = 0
<1>1. profile.samples \in Seq(Samples) /\ profile.floor \in 0..Bound
  BY DEF Profiles
<1>2. Cardinality(Later(profile.samples)) \in Nat
  <2>1. Later(profile.samples) \subseteq DOMAIN profile.samples /\ IsFiniteSet(DOMAIN profile.samples)
    BY <1>1, DomainFinite DEF Later
  <2> QED BY <2>1, FS_Subset, FS_CardinalityType
<1>3. CASE complete
  <2> DEFINE s == [kb |-> kb, after |-> TRUE]
             t == Latest(Append(profile.samples, s), 20)
  <2>1. s \in Samples
    BY DEF Samples
  <2> HIDE DEF s
  <2>2. /\ t \in Seq(Samples) /\ Cardinality(Later(t)) \in Nat
        /\ Cardinality(Later(t)) <= Cardinality(Later(profile.samples)) + 1
    BY <1>1, <2>1, LaterAppended
  <2>3. Profiled(profile, kb, complete) = [profile EXCEPT !.samples = t]
    BY <1>3, Zenon DEF Profiled, s
  <2> HIDE DEF t
  <2>4. /\ [profile EXCEPT !.samples = t] \in Profiles /\ [profile EXCEPT !.samples = t].samples = t
        /\ [profile EXCEPT !.samples = t].floor = profile.floor
    BY <2>2 DEF Profiles
  <2> QED BY <1>2, <1>3, <2>2, <2>3, <2>4
<1>4. CASE ~complete /\ Times3Halves(kb) <= profile.floor
  <2>1. Profiled(profile, kb, complete) = profile
    BY <1>4, Zenon DEF Profiled
  <2> QED BY <1>2, <1>4, <2>1
<1>5. CASE ~complete /\ ~(Times3Halves(kb) <= profile.floor)
  <2> DEFINE t == [i \in DOMAIN profile.samples |-> [profile.samples[i] EXCEPT !.after = FALSE]]
             f == Times3Halves(kb)
             q == [samples |-> t, floor |-> f]
  <2>1. Profiled(profile, kb, complete) = q
    BY <1>5, Zenon DEF Profiled
  <2>2. t \in Seq(Samples) /\ \A i \in DOMAIN t : ~t[i].after
    <3>1. DOMAIN profile.samples = 1..Len(profile.samples) /\ Len(profile.samples) \in Nat
      BY <1>1, DomainFinite
    <3>2. \A i \in DOMAIN profile.samples : [profile.samples[i] EXCEPT !.after = FALSE] \in [kb : Sizes, after : {FALSE}]
      <4>1. \A i \in DOMAIN profile.samples : profile.samples[i] \in Samples
        BY <1>1, DomainFinite
      <4> QED BY <4>1 DEF Samples
    <3>3. \A i \in DOMAIN t : t[i] \in [kb : Sizes, after : {FALSE}]
      BY <3>2
    <3>4. [kb : Sizes, after : {FALSE}] \subseteq Samples
      BY DEF Samples
    <3>5. t \in [1..Len(profile.samples) -> Samples]
      BY <3>1, <3>2, <3>4
    <3> HIDE DEF t
    <3>6. t \in Seq(Samples)
      BY <3>1, <3>5, IsASeq
    <3>7. \A s \in [kb : Sizes, after : {FALSE}] : ~s.after
      OBVIOUS
    <3> QED BY <3>3, <3>6, <3>7
  <2>3. f \in 0..Bound
    <3>1. f \in Nat /\ f <= Bound /\ Bound \in Nat
      BY BoundIs, MarginGrows
    <3> HIDE DEF f
    <3> QED BY <3>1
  <2> HIDE DEF t, f
  <2>4. q \in Profiles /\ q.samples = t /\ q.floor = f
    BY <2>2, <2>3 DEF Profiles
  <2> HIDE DEF q
  <2>5. Later(t) = {}
    BY <2>2 DEF Later
  <2>6. Cardinality(Later(q.samples)) = 0
    BY <2>4, <2>5, FS_EmptySet
  <2> QED BY <1>2, <1>5, <2>1, <2>4, <2>6 DEF f
<1> QED BY <1>3, <1>4, <1>5

LEMMA FloorIs ==
  ASSUME NEW profile \in Profiles
  PROVE  FloorOf(profile) \in 0..Bound
<1>1. profile.floor \in 0..Bound /\ Bound \in Nat
  BY BoundIs DEF Profiles
<1> QED BY <1>1 DEF FloorOf

LEMMA PredictedIs ==
  ASSUME NEW profile \in Profiles, NEW prior \in 0..Bound, NEW outgrown \in BOOLEAN
  PROVE  /\ Predicted(profile, prior, outgrown).kb \in 0..Bound
         /\ Predicted(profile, prior, outgrown).kb >= FloorOf(profile)
<1> DEFINE floor == FloorOf(profile)
           seen == {Times3Halves(profile.samples[i].kb) : i \in DOMAIN profile.samples}
           target == Max({Least, floor, Top(seen)})
           raised == LargerOf(prior, floor)
<1>1. floor \in Nat /\ floor <= Bound /\ Bound \in Nat /\ prior \in Nat /\ prior <= Bound
  BY FloorIs, BoundIs
<1>2. Predicted(profile, prior, outgrown) \in {[kb |-> raised, reused |-> FALSE], [kb |-> target, reused |-> TRUE]}
  <2> HIDE DEF raised, target
  <2>1. Predicted(profile, prior, outgrown) =
          IF Len(profile.samples) < 3 THEN [kb |-> raised, reused |-> FALSE]
          ELSE IF target < prior /\ outgrown THEN [kb |-> raised, reused |-> FALSE]
          ELSE [kb |-> target, reused |-> TRUE]
    BY Zenon DEF Predicted, raised, target
  <2> QED BY <2>1
<1>3. seen \subseteq Nat /\ IsFiniteSet(seen) /\ \A x \in seen : x <= Bound
  <2>1. profile.samples \in Seq(Samples)
    BY DEF Profiles
  <2>2. IsFiniteSet(DOMAIN profile.samples) /\ \A i \in DOMAIN profile.samples : profile.samples[i].kb \in Sizes
    <3>1. IsFiniteSet(DOMAIN profile.samples) /\ \A i \in DOMAIN profile.samples : profile.samples[i] \in Samples
      BY <2>1, DomainFinite
    <3>2. \A s \in Samples : s.kb \in Sizes
      BY DEF Samples
    <3> QED BY <3>1, <3>2
  <2>3. \A i \in DOMAIN profile.samples : Times3Halves(profile.samples[i].kb) \in Nat /\ Times3Halves(profile.samples[i].kb) <= Bound
    BY <2>2, BoundIs, MarginGrows
  <2>4. IsFiniteSet(seen)
    <3> DEFINE g == [i \in DOMAIN profile.samples |-> Times3Halves(profile.samples[i].kb)]
    <3>1. g \in Surjection(DOMAIN profile.samples, seen)
      BY DEF Surjection
    <3> QED BY <2>2, <3>1, FS_Surjection
  <2> QED BY <2>3, <2>4
<1> HIDE DEF seen
<1>4. Top(seen) \in Nat /\ Top(seen) <= Bound
  <2>1. Top(seen) \in Nat /\ (Top(seen) = 0 \/ Top(seen) \in seen)
    BY <1>3, TopIs
  <2> QED BY <1>1, <1>3, <2>1
<1>5. target \in Nat /\ target <= Bound /\ target >= floor
  <2>1. Least \in Nat /\ Least <= Bound
    BY BoundIs
  <2>2. target \in {Least, floor, Top(seen)} /\ target \in Nat /\ target >= floor
    BY <1>1, <1>4, <2>1, MaxOfThree
  <2> HIDE DEF target
  <2> QED BY <1>1, <1>4, <2>1, <2>2
<1>6. raised \in Nat /\ raised <= Bound /\ raised >= floor
  BY <1>1 DEF LargerOf
<1> HIDE DEF target, raised, floor
<1> QED BY <1>1, <1>2, <1>5, <1>6 DEF floor

\* A demand with a profile asks for no less than the floor of it.
LEMMA DemandIs ==
  ASSUME EstimatesTypeOK, NEW w \in Workers, NEW profiled \in BOOLEAN, NEW outgrown \in BOOLEAN
  PROVE  /\ Demand(w, profiled, outgrown).key \in Keys /\ Demand(w, profiled, outgrown).key[2] = w
         /\ Demand(w, profiled, outgrown).memory \in 0..Bound
         /\ profiled => Demand(w, profiled, outgrown).memory >= FloorOf(profiles[w])
<1> DEFINE plain == rows[<<revision, w, FALSE>>]
           model == rows[<<revision, w, TRUE>>]
           exact == IF plain.estimate = 0 THEN Prior ELSE plain.estimate
           profile == IF profiled THEN Predicted(profiles[w], exact, outgrown)
                      ELSE [kb |-> exact, reused |-> FALSE]
           tops == {Times3Halves(kb) : kb \in PeaksOf(plain.peaks)}
           floor == LargerOf(Top(tops), IF exact > Prior THEN exact ELSE 0)
           most == Max({profile.kb, floor, model.estimate})
           more == LargerOf(exact, profile.kb)
<1>1. <<revision, w, FALSE>> \in Keys /\ <<revision, w, TRUE>> \in Keys
  BY DEF EstimatesTypeOK, Keys
<1>2. plain \in EstimateRows /\ model \in EstimateRows /\ profiles[w] \in Profiles
  BY <1>1 DEF EstimatesTypeOK, EstimateRows, Profiles, Samples
<1>3. Demand(w, profiled, outgrown) \in {[key |-> <<revision, w, TRUE>>, memory |-> most],
                               [key |-> <<revision, w, FALSE>>, memory |-> more]}
  <2> HIDE DEF most, more
  <2>1. Demand(w, profiled, outgrown) = IF profile.reused THEN [key |-> <<revision, w, TRUE>>, memory |-> most]
                              ELSE [key |-> <<revision, w, FALSE>>, memory |-> more]
    BY Zenon DEF Demand, most, more
  <2> HIDE DEF profile
  <2> QED BY <2>1
<1>4. /\ exact \in 0..Bound /\ exact \in Nat /\ exact <= Bound
      /\ model.estimate \in Nat /\ model.estimate <= Bound /\ Bound \in Nat
  BY <1>2, BoundIs DEF EstimateRows
<1> HIDE DEF exact
<1>5. /\ profile.kb \in 0..Bound /\ FloorOf(profiles[w]) \in 0..Bound
      /\ profiled => profile.kb >= FloorOf(profiles[w])
  <2>1. CASE profiled
    BY <1>2, <1>4, <2>1, PredictedIs, FloorIs
  <2>2. CASE ~profiled
    <3>1. profile.kb = exact
      BY <2>2
    <3> QED BY <1>2, <1>4, <2>2, <3>1, FloorIs
  <2> QED BY <2>1, <2>2
<1> HIDE DEF profile
<1>6. tops \subseteq Nat /\ IsFiniteSet(tops) /\ \A x \in tops : x <= Bound
  <2>1. PeaksOf(plain.peaks) \subseteq Sizes /\ IsFiniteSet(PeaksOf(plain.peaks))
    BY <1>2, PeaksAre DEF EstimateRows
  <2>2. IsFiniteSet(tops)
    <3> DEFINE g == [kb \in PeaksOf(plain.peaks) |-> Times3Halves(kb)]
    <3>1. g \in Surjection(PeaksOf(plain.peaks), tops)
      BY DEF Surjection
    <3> QED BY <2>1, <3>1, FS_Surjection
  <2>3. \A kb \in PeaksOf(plain.peaks) : Times3Halves(kb) \in Nat /\ Times3Halves(kb) <= Bound
    BY <2>1, BoundIs, MarginGrows
  <2> QED BY <2>2, <2>3
<1> HIDE DEF tops
<1>7. floor \in Nat /\ floor <= Bound
  <2>1. Top(tops) \in Nat /\ (Top(tops) = 0 \/ Top(tops) \in tops)
    BY <1>6, TopIs
  <2>2. Top(tops) <= Bound
    BY <1>4, <1>6, <2>1
  <2> QED BY <1>4, <2>1, <2>2 DEF LargerOf
<1> HIDE DEF floor, model
<1>8. most \in 0..Bound /\ most >= profile.kb
  <2>1. profile.kb \in Nat /\ profile.kb <= Bound
    BY <1>4, <1>5
  <2>2. most \in {profile.kb, floor, model.estimate} /\ most \in Nat /\ most >= profile.kb
    BY <1>4, <1>7, <2>1, MaxOfThree
  <2> HIDE DEF most
  <2> QED BY <1>4, <1>7, <2>1, <2>2
<1>9. more \in 0..Bound /\ more >= profile.kb
  BY <1>4, <1>5 DEF LargerOf
<1> HIDE DEF most, more
<1>10. profiled => most >= FloorOf(profiles[w]) /\ more >= FloorOf(profiles[w])
  BY <1>4, <1>5, <1>8, <1>9
<1>11. ASSUME NEW d, NEW reused \in BOOLEAN, NEW kb \in 0..Bound, profiled => kb >= FloorOf(profiles[w]),
              d = [key |-> <<revision, w, reused>>, memory |-> kb]
       PROVE  /\ d.key \in Keys /\ d.key[2] = w /\ d.memory \in 0..Bound
              /\ profiled => d.memory >= FloorOf(profiles[w])
  <2>1. d.key = <<revision, w, reused>> /\ d.memory = kb
    BY <1>11
  <2>2. <<revision, w, reused>> \in Keys /\ <<revision, w, reused>>[2] = w
    BY DEF EstimatesTypeOK, Keys
  <2> QED BY <1>11, <2>1, <2>2, Zenon
<1> DEFINE d == Demand(w, profiled, outgrown)
<1> HIDE DEF d
<1>12. CASE d = [key |-> <<revision, w, TRUE>>, memory |-> most]
  BY <1>8, <1>10, <1>11, <1>12 DEF d
<1>13. CASE d = [key |-> <<revision, w, FALSE>>, memory |-> more]
  BY <1>9, <1>10, <1>11, <1>13 DEF d
<1> QED BY <1>3, <1>12, <1>13, Zenon DEF d

LEMMA SeededIs ==
  ASSUME EstimatesTypeOK, NEW demand, demand.key \in Keys, demand.memory \in 0..Bound
  PROVE  Seeded(demand) \in EveryRow /\ \A k \in Keys : Seeded(demand)[k].runs = rows[k].runs
<1>1. rows \in EveryRow
  BY DEF EstimatesTypeOK, EveryRow, EstimateRows
<1>2. CASE demand.key[3] /\ rows[demand.key].estimate = 0
  <2>1. Seeded(demand) = [rows EXCEPT ![demand.key] = [rows[demand.key] EXCEPT !.estimate = demand.memory]]
    BY <1>2, Zenon DEF Seeded
  <2> DEFINE r == [rows[demand.key] EXCEPT !.estimate = demand.memory]
  <2>2. r \in EstimateRows /\ r.runs = rows[demand.key].runs
    BY <1>1 DEF EveryRow, EstimateRows
  <2> HIDE DEF r
  <2>3. [rows EXCEPT ![demand.key] = r] \in EveryRow /\ \A k \in Keys : [rows EXCEPT ![demand.key] = r][k].runs = rows[k].runs
    BY <1>1, <2>2 DEF EveryRow
  <2> QED BY <2>1, <2>3 DEF r
<1>3. CASE ~(demand.key[3] /\ rows[demand.key].estimate = 0)
  BY <1>1, <1>3, Zenon DEF Seeded
<1> QED BY <1>2, <1>3

(***************************************************************************)
(* The parts of the invariant that a step disturbs.                        *)
(***************************************************************************)
LEMMA EstimateParts ==
  ASSUME EstimatesInv
  PROVE  /\ rows \in EveryRow /\ profiles \in EveryProfile /\ revision \in Revisions
         /\ work \in [Jobs -> WorkType] /\ growth \in [Workers -> GrowthType]
         /\ ran \in Nat /\ ran <= Runs /\ upset \in Nat /\ upset <= Upsets /\ Runs \in Nat /\ Upsets \in Nat
         /\ IsFiniteSet(Jobs) /\ IsFiniteSet(Busyness) /\ Cardinality(Busyness) \in Nat
         /\ \A k \in Keys : rows[k] \in EstimateRows /\ rows[k].runs \in Nat
         /\ \A w \in Workers : profiles[w] \in Profiles /\ growth[w] \in GrowthType /\ growth[w].kb \in Nat
         /\ \A j \in Jobs : work[j] \in WorkType /\ work[j].key \in Keys /\ work[j].key[2] \in Workers
<1>1. /\ rows \in EveryRow /\ profiles \in EveryProfile /\ revision \in Revisions
      /\ work \in [Jobs -> WorkType] /\ growth \in [Workers -> GrowthType]
      /\ ran \in 0..Runs /\ upset \in 0..Upsets
  BY Zenon DEF EstimatesInv, EstimatesTypeOK, EveryRow, EstimateRows, EveryProfile, Profiles, Samples,
               WorkType, GrowthType
<1>2. /\ Runs \in Nat /\ Upsets \in Nat /\ IsFiniteSet(Jobs) /\ Sizes \subseteq Nat
  BY EstimatesAssumption
<1>3. ran \in Nat /\ ran <= Runs /\ upset \in Nat /\ upset <= Upsets
  BY <1>1, <1>2
<1>4. IsFiniteSet(Busyness) /\ Cardinality(Busyness) \in Nat
  <2>1. Busyness \subseteq Jobs
    BY DEF Busyness
  <2> QED BY <1>2, <2>1, FS_Subset, FS_CardinalityType
<1>5. \A k \in Keys : rows[k] \in EstimateRows /\ rows[k].runs \in Nat
  <2>1. \A k \in Keys : rows[k] \in EstimateRows
    BY <1>1 DEF EveryRow
  <2>2. \A r \in EstimateRows : r.runs \in 0..Runs
    BY DEF EstimateRows
  <2> QED BY <1>2, <2>1, <2>2
<1>6. \A w \in Workers : profiles[w] \in Profiles /\ growth[w] \in GrowthType /\ growth[w].kb \in Nat
  <2>1. \A w \in Workers : profiles[w] \in Profiles /\ growth[w] \in GrowthType
    BY <1>1 DEF EveryProfile
  <2>2. \A g \in GrowthType : g.kb \in {0} \cup Sizes
    BY DEF GrowthType
  <2>3. \A kb \in {0} \cup Sizes : kb \in Nat
    BY <1>2
  <2> QED BY <2>1, <2>2, <2>3, Zenon
<1>7. \A j \in Jobs : work[j] \in WorkType /\ work[j].key \in Keys /\ work[j].key[2] \in Workers
  <2>1. \A j \in Jobs : work[j] \in WorkType
    BY <1>1
  <2>2. \A v \in WorkType : v.key \in Keys
    BY DEF WorkType
  <2>3. \A k \in Keys : k[2] \in Workers
    BY DEF Keys
  <2> QED BY <2>1, <2>2, <2>3
<1> QED BY <1>1, <1>2, <1>3, <1>4, <1>5, <1>6, <1>7

\* The other way: what a step establishes.
LEMMA EstimatesTypesAgain ==
  ASSUME rows' \in EveryRow, profiles' \in EveryProfile, revision' \in Revisions,
         work' \in [Jobs -> WorkType], growth' \in [Workers -> GrowthType],
         ran' \in Nat, ran' <= Runs, upset' \in Nat, upset' <= Upsets
  PROVE  EstimatesTypeOK'
<1>1. ran' \in 0..Runs /\ upset' \in 0..Upsets
  BY EstimatesAssumption
<1> QED BY <1>1, Zenon DEF EstimatesTypeOK, EveryRow, EstimateRows, EveryProfile, Profiles, Samples,
                          WorkType, GrowthType

LEMMA NoWorkIs == NoWork \in WorkType /\ NoWork.peak = 0 /\ NoWork.pc = "none" /\ NoWork.key[2] \in Workers
<1>1. <<1, Max(Workers), FALSE>> \in Keys
  BY WorkersMax, EstimatesAssumption DEF Keys
<1>2. 0 \in 0..Bound
  BY BoundIs
<1>3. NoWork \in WorkType /\ NoWork.peak = 0 /\ NoWork.pc = "none" /\ NoWork.key = <<1, Max(Workers), FALSE>>
  BY <1>1, <1>2 DEF NoWork, WorkType
<1> QED BY <1>3, WorkersMax

\* One run is recorded: the floor follows the growth.
LEMMA Learned ==
  ASSUME EstimatesInv, NEW w \in Workers, NEW kb \in Sizes, NEW complete \in BOOLEAN,
         complete => kb <= growth[w].kb
  PROVE  /\ Profiled(profiles[w], kb, complete) \in Profiles
         /\ Shown(w, kb, complete) \in GrowthType
         /\ IsFloor(Profiled(profiles[w], kb, complete), Shown(w, kb, complete))
         /\ Shown(w, kb, complete).kb \in Nat
         /\ Shown(w, kb, complete).kb >= growth[w].kb /\ Shown(w, kb, complete).kb >= kb
<1> DEFINE p == profiles[w]
           g == growth[w]
           q == Profiled(p, kb, complete)
           h == Shown(w, kb, complete)
<1>1. p \in Profiles /\ g \in GrowthType /\ g.kb \in Nat /\ kb \in Nat /\ IsFloor(p, g)
  BY EstimateParts, BoundIs DEF EstimatesInv, FloorKnown
<1>2. g.kb \in {0} \cup Sizes /\ g.later \in 0..3
  BY <1>1 DEF GrowthType
<1>3. p.floor = Times3Halves(g.kb) /\ (g.later < 3 => Cardinality(Later(p.samples)) <= g.later)
  BY <1>1, Zenon DEF IsFloor
<1>4. q \in Profiles /\ Cardinality(Later(p.samples)) \in Nat /\ Cardinality(Later(q.samples)) \in Nat
  BY <1>1, ProfiledIs
<1>5. CASE complete
  <2> DEFINE n == IF g.later < 3 THEN g.later + 1 ELSE g.later
  <2>1. h = [growth[w] EXCEPT !.later = n]
    <3>1. ~(kb > g.kb)
      BY <1>1, <1>5
    <3> QED BY <1>5, <3>1 DEF Shown
  <2>2. n \in 0..3
    BY <1>2
  <2>3. n < 3 => g.later < 3 /\ n = g.later + 1
    BY <1>2
  <2> HIDE DEF n
  <2>4. h \in GrowthType /\ h.kb = g.kb /\ h.later = n
    BY <1>1, <2>1, <2>2 DEF GrowthType
  <2>5. q.floor = p.floor /\ Cardinality(Later(q.samples)) <= Cardinality(Later(p.samples)) + 1
    BY <1>1, <1>5, ProfiledIs
  <2> HIDE DEF p, g, q, h
  <2>6. n < 3 => Cardinality(Later(q.samples)) <= n
    BY <1>2, <1>3, <1>4, <2>3, <2>5
  <2>7. IsFloor(q, h)
    BY <1>3, <2>4, <2>5, <2>6 DEF IsFloor
  <2>8. h.kb \in Nat /\ h.kb >= g.kb /\ h.kb >= kb
    BY <1>1, <1>5, <2>4 DEF g
  <2> QED BY <1>4, <2>4, <2>7, <2>8 DEF p, g, q, h
<1>6. CASE ~complete /\ kb > g.kb
  <2>1. h = [kb |-> kb, later |-> 0]
    BY <1>6 DEF Shown
  <2>2. h \in GrowthType /\ h.kb = kb /\ h.later = 0
    BY <2>1 DEF GrowthType
  <2>3. ~(Times3Halves(kb) <= p.floor)
    <3>1. Times3Halves(g.kb) < Times3Halves(kb) /\ Times3Halves(kb) \in Nat /\ Times3Halves(g.kb) \in Nat
      BY <1>1, <1>6, MarginGrows
    <3> HIDE DEF p, g
    <3> QED BY <1>3, <3>1
  <2>4. q.floor = Times3Halves(kb) /\ Cardinality(Later(q.samples)) = 0
    BY <1>1, <1>6, <2>3, ProfiledIs
  <2> HIDE DEF p, g, q, h
  <2>5. IsFloor(q, h)
    BY <2>2, <2>4 DEF IsFloor
  <2>6. h.kb \in Nat /\ h.kb >= g.kb /\ h.kb >= kb
    BY <1>1, <1>6, <2>2
  <2> QED BY <1>4, <2>2, <2>5, <2>6 DEF p, g, q, h
<1>7. CASE ~complete /\ ~(kb > g.kb)
  <2>1. h = g
    <3>1. h = [growth[w] EXCEPT !.later = growth[w].later]
      BY <1>7 DEF Shown
    <3> QED BY <1>1, <3>1 DEF GrowthType
  <2>2. Times3Halves(kb) <= p.floor
    <3>1. kb = g.kb \/ kb < g.kb
      BY <1>1, <1>7
    <3>2. Times3Halves(kb) \in Nat /\ Times3Halves(g.kb) \in Nat /\ (kb < g.kb => Times3Halves(kb) < Times3Halves(g.kb))
      BY <1>1, MarginGrows
    <3> HIDE DEF p, g
    <3> QED BY <1>3, <3>1, <3>2
  <2>3. q = p
    BY <1>1, <1>7, <2>2, ProfiledIs
  <2> HIDE DEF p, g, q, h
  <2>4. IsFloor(q, h) /\ h.kb \in Nat /\ h.kb >= g.kb /\ h.kb >= kb
    BY <1>1, <1>7, <2>1, <2>3
  <2> QED BY <1>1, <1>4, <2>1, <2>4 DEF p, g, q, h
<1> QED BY <1>5, <1>6, <1>7

(***************************************************************************)
(* The steps.                                                              *)
(***************************************************************************)
\* A step that changes no row's count of runs keeps them within the runs there were.
RunsFit == \A k \in Keys : rows[k].runs + Cardinality(Busyness) <= ran

LEMMA RunsFitAgain ==
  ASSUME EstimatesInv, ran' \in Nat, ran' >= ran,
         rows' \in EveryRow, \A k \in Keys : rows'[k].runs <= rows[k].runs,
         Busyness' \subseteq Busyness
  PROVE  RunsFit'
<1>1. IsFiniteSet(Busyness) /\ Cardinality(Busyness) \in Nat /\ ran \in Nat
  BY EstimateParts
<1>2. Cardinality(Busyness') \in Nat /\ Cardinality(Busyness') <= Cardinality(Busyness)
  BY <1>1, FS_Subset, FS_CardinalityType
<1> DEFINE n == Cardinality(Busyness)
           m == Cardinality(Busyness')
<1> HIDE DEF n, m
<1>3. ASSUME NEW k \in Keys PROVE rows'[k].runs + m <= ran'
  <2>1. rows[k].runs \in Nat /\ rows[k].runs + n <= ran
    BY EstimateParts DEF EstimatesInv, n
  <2>2. rows'[k].runs \in Nat
    <3>1. rows'[k] \in EstimateRows
      BY DEF EveryRow
    <3>2. \A r \in EstimateRows : r.runs \in Nat
      BY EstimatesAssumption DEF EstimateRows
    <3> QED BY <3>1, <3>2
  <2>3. rows'[k].runs <= rows[k].runs
    OBVIOUS
  <2> DEFINE x == rows[k].runs
             y == rows'[k].runs
  <2> HIDE DEF x, y
  <2>4. x \in Nat /\ y \in Nat /\ y <= x /\ x + n <= ran /\ m <= n /\ m \in Nat /\ n \in Nat
    BY <1>1, <1>2, <2>1, <2>2, <2>3 DEF x, y, n, m
  <2>5. y + m <= ran'
    BY <1>1, <2>4
  <2> QED BY <2>5 DEF y
<1> QED BY <1>3 DEF RunsFit, m

\* Only the runs that are under way differ.
LEMMA WorkStep ==
  ASSUME EstimatesInv, NEW j \in Jobs, NEW v \in WorkType, work' = [work EXCEPT ![j] = v],
         growth' = growth, v.profiled => v.peak <= growth[v.key[2]].kb, v.pc = "waiting" => v.peak = 0
  PROVE  /\ work' \in [Jobs -> WorkType] /\ \A i \in Jobs : Shows(i)'
         /\ Busyness' = IF v.pc = "none" THEN Busyness \ {j} ELSE Busyness \cup {j}
<1>1. work \in [Jobs -> WorkType] /\ \A i \in Jobs : Shows(i)
  BY EstimateParts DEF EstimatesInv
<1>2. work' \in [Jobs -> WorkType] /\ work'[j] = v /\ \A i \in Jobs : i # j => work'[i] = work[i]
  BY <1>1
<1>3. \A i \in Jobs : Shows(i)'
  <2> SUFFICES ASSUME NEW i \in Jobs PROVE Shows(i)'
    OBVIOUS
  <2>1. CASE i = j
    BY <1>2, <2>1, Zenon DEF Shows
  <2>2. CASE i # j
    BY <1>1, <1>2, <2>2, Zenon DEF Shows
  <2> QED BY <2>1, <2>2
<1>4. Busyness' = IF v.pc = "none" THEN Busyness \ {j} ELSE Busyness \cup {j}
  BY <1>2 DEF Busyness
<1> QED BY <1>2, <1>3, <1>4

LEMMA RequestsKeeps ==
  ASSUME EstimatesInv, NEW j \in Jobs, Requests(j)
  PROVE  EstimatesInv'
<1>1. PICK profiled \in BOOLEAN, outgrown \in BOOLEAN :
        LET demand == Demand(Max(Workers), profiled, outgrown) IN
        /\ work' = [work EXCEPT ![j] = [pc |-> "waiting", key |-> demand.key, prior |-> demand.memory,
                                        profiled |-> profiled, memory |-> demand.memory, peak |-> 0]]
        /\ rows' = Seeded(demand)
  BY Zenon DEF Requests
<1> DEFINE demand == Demand(Max(Workers), profiled, outgrown)
           v == [pc |-> "waiting", key |-> demand.key, prior |-> demand.memory,
                 profiled |-> profiled, memory |-> demand.memory, peak |-> 0]
<1>2. /\ work[j].pc = "none" /\ ran < Runs /\ ran' = ran + 1
      /\ UNCHANGED <<profiles, revision, growth, upset>>
  BY Zenon DEF Requests
<1>3. work' = [work EXCEPT ![j] = v] /\ rows' = Seeded(demand)
  BY <1>1, Zenon
<1>4. demand.key \in Keys /\ demand.key[2] \in Workers /\ demand.memory \in 0..Bound
  BY WorkersMax, DemandIs DEF EstimatesInv
<1> HIDE DEF demand
<1>5. v \in WorkType /\ v.peak = 0 /\ v.pc = "waiting" /\ v.key = demand.key
  BY <1>4 DEF WorkType
<1> HIDE DEF v
<1>6. growth[v.key[2]].kb \in Nat
  BY <1>4, <1>5, EstimateParts
<1>7. /\ work' \in [Jobs -> WorkType] /\ \A i \in Jobs : Shows(i)'
      /\ Busyness' = Busyness \cup {j}
  <2>1. growth' = growth /\ v.peak <= growth[v.key[2]].kb
    BY <1>2, <1>5, <1>6
  <2> QED BY <1>3, <1>5, <2>1, WorkStep
<1>8. rows' \in EveryRow /\ \A k \in Keys : rows'[k].runs = rows[k].runs
  BY <1>3, <1>4, SeededIs DEF EstimatesInv
<1>9. \A k \in Keys : rows'[k].runs + Cardinality(Busyness') <= ran'
  <2>1. IsFiniteSet(Busyness) /\ Cardinality(Busyness) \in Nat /\ ran \in Nat /\ j \notin Busyness
    BY <1>2, EstimateParts DEF Busyness
  <2> DEFINE n == Cardinality(Busyness)
             m == Cardinality(Busyness')
  <2>2. m = n + 1
    BY <1>7, <2>1, FS_AddElement
  <2> HIDE DEF n, m
  <2> SUFFICES ASSUME NEW k \in Keys PROVE rows'[k].runs + m <= ran'
    BY DEF m
  <2>3. rows[k].runs \in Nat /\ rows[k].runs + n <= ran
    BY EstimateParts DEF EstimatesInv, n
  <2> DEFINE x == rows[k].runs
  <2> HIDE DEF x
  <2>4. x \in Nat /\ x + n <= ran /\ n \in Nat /\ rows'[k].runs = x
    BY <1>8, <2>1, <2>3 DEF n, x
  <2>5. x + m <= ran + 1
    BY <2>1, <2>2, <2>4
  <2> QED BY <1>2, <2>4, <2>5
<1>10. EstimatesTypeOK'
  <2>1. ran' \in Nat /\ ran' <= Runs
    BY <1>2, EstimateParts
  <2> QED BY <1>2, <1>7, <1>8, <2>1, EstimateParts, EstimatesTypesAgain
<1>11. \A w \in Workers : FloorKnown(w)'
  BY <1>2, Zenon DEF EstimatesInv, FloorKnown
<1> QED BY <1>7, <1>9, <1>10, <1>11, Zenon DEF EstimatesInv

\* The steps that leave rows, profiles and growth alone, and change one run.
LEMMA QuietStep ==
  ASSUME EstimatesInv, NEW j \in Jobs, NEW v \in WorkType, work' = [work EXCEPT ![j] = v],
         UNCHANGED <<profiles, revision, ran, growth, upset>>, work[j].pc # "none",
         rows' \in EveryRow, \A k \in Keys : rows'[k].runs <= rows[k].runs,
         v.profiled => v.peak <= growth[v.key[2]].kb, v.pc = "waiting" => v.peak = 0
  PROVE  EstimatesInv'
<1>1. /\ work' \in [Jobs -> WorkType] /\ \A i \in Jobs : Shows(i)'
      /\ Busyness' = IF v.pc = "none" THEN Busyness \ {j} ELSE Busyness \cup {j}
  BY WorkStep
<1>2. Busyness' \subseteq Busyness
  <2>1. j \in Busyness
    BY DEF Busyness
  <2> QED BY <1>1, <2>1
<1>3. EstimatesTypeOK'
  BY <1>1, EstimateParts, EstimatesTypesAgain
<1>4. RunsFit'
  <2>1. ran' \in Nat /\ ran' >= ran
    BY EstimateParts
  <2> QED BY <1>2, <2>1, RunsFitAgain
<1>5. \A w \in Workers : FloorKnown(w)'
  BY Zenon DEF EstimatesInv, FloorKnown
<1> QED BY <1>1, <1>3, <1>4, <1>5, Zenon DEF EstimatesInv, RunsFit

LEMMA RowsStay ==
  ASSUME EstimatesInv, UNCHANGED rows
  PROVE  rows' \in EveryRow /\ \A k \in Keys : rows'[k].runs <= rows[k].runs
<1>1. rows \in EveryRow /\ \A k \in Keys : rows[k].runs \in Nat
  BY EstimateParts
<1>2. \A k \in Keys : rows[k].runs <= rows[k].runs
  BY <1>1
<1> QED BY <1>1, <1>2, Zenon

LEMMA RaisesKeeps ==
  ASSUME EstimatesInv, NEW j \in Jobs, Raises(j)
  PROVE  EstimatesInv'
<1> DEFINE kb == rows[work[j].key].estimate
           v == [work[j] EXCEPT !.memory = kb]
<1>1. /\ work[j].pc = "waiting" /\ work' = [work EXCEPT ![j].memory = kb]
      /\ UNCHANGED <<rows, profiles, revision, ran, growth, upset>>
  BY Zenon DEF Raises
<1>2. kb \in 0..Bound
  <2>1. rows[work[j].key] \in EstimateRows
    BY EstimateParts
  <2> QED BY <2>1 DEF EstimateRows
<1> HIDE DEF kb
<1>3. work[j] \in WorkType /\ Shows(j) /\ work \in [Jobs -> WorkType]
  BY EstimateParts DEF EstimatesInv
<1>4. /\ v \in WorkType /\ v.peak = work[j].peak /\ v.key = work[j].key /\ v.pc = work[j].pc
      /\ v.profiled = work[j].profiled
  BY <1>2, <1>3 DEF WorkType
<1>5. work' = [work EXCEPT ![j] = v]
  BY <1>1, <1>3
<1> HIDE DEF v
<1>6. (v.profiled => v.peak <= growth[v.key[2]].kb) /\ (v.pc = "waiting" => v.peak = 0)
  BY <1>3, <1>4, Zenon DEF Shows
<1>7. rows' \in EveryRow /\ \A k \in Keys : rows'[k].runs <= rows[k].runs
  BY <1>1, RowsStay
<1>8. work[j].pc # "none"
  BY <1>1
<1> QED BY <1>1, <1>4, <1>5, <1>6, <1>7, <1>8, QuietStep

LEMMA LaunchesKeeps ==
  ASSUME EstimatesInv, NEW j \in Jobs, Launches(j)
  PROVE  EstimatesInv'
<1> DEFINE v == [work[j] EXCEPT !.pc = "running"]
<1>1. /\ work[j].pc = "waiting" /\ work' = [work EXCEPT ![j].pc = "running"]
      /\ UNCHANGED <<rows, profiles, revision, ran, growth, upset>>
  BY Zenon DEF Launches
<1>3. work[j] \in WorkType /\ Shows(j) /\ work \in [Jobs -> WorkType]
  BY EstimateParts DEF EstimatesInv
<1>4. /\ v \in WorkType /\ v.peak = work[j].peak /\ v.key = work[j].key /\ v.pc = "running"
      /\ v.profiled = work[j].profiled
  BY <1>3 DEF WorkType
<1>5. work' = [work EXCEPT ![j] = v]
  BY <1>1, <1>3
<1> HIDE DEF v
<1>6. (v.profiled => v.peak <= growth[v.key[2]].kb) /\ (v.pc = "waiting" => v.peak = 0)
  BY <1>1, <1>3, <1>4, Zenon DEF Shows
<1>7. rows' \in EveryRow /\ \A k \in Keys : rows'[k].runs <= rows[k].runs
  BY <1>1, RowsStay
<1>8. work[j].pc # "none"
  BY <1>1
<1> QED BY <1>1, <1>4, <1>5, <1>6, <1>7, <1>8, QuietStep

LEMMA VanishesKeeps ==
  ASSUME EstimatesInv, NEW j \in Jobs, Vanishes(j)
  PROVE  EstimatesInv'
<1>1. /\ work[j].pc # "none" /\ work' = [work EXCEPT ![j] = NoWork]
      /\ UNCHANGED <<rows, profiles, revision, ran, growth, upset>>
  BY Zenon DEF Vanishes
<1>2. NoWork \in WorkType /\ NoWork.peak <= growth[NoWork.key[2]].kb /\ (NoWork.pc = "waiting" => NoWork.peak = 0)
  <2>1. NoWork \in WorkType /\ NoWork.peak = 0 /\ NoWork.key[2] \in Workers
    BY NoWorkIs
  <2>2. growth[NoWork.key[2]].kb \in Nat
    BY <2>1, EstimateParts
  <2> QED BY <2>1, <2>2
<1>3. rows' \in EveryRow /\ \A k \in Keys : rows'[k].runs <= rows[k].runs
  BY <1>1, RowsStay
<1> QED BY <1>1, <1>2, <1>3, QuietStep

LEMMA ReconsidersKeeps ==
  ASSUME EstimatesInv, NEW j \in Jobs, NEW w \in Workers, Reconsiders(j, w)
  PROVE  EstimatesInv'
<1>1. PICK profiled \in BOOLEAN, outgrown \in BOOLEAN :
       LET demand == Demand(w, profiled, outgrown)
           exact == Seeded(demand)[demand.key]
           lower == /\ demand.key # work[j].key /\ exact.runs >= 3
                    /\ 4 * demand.memory >= 5 * Top(PeaksOf(exact.peaks))
       IN /\ rows' = Seeded(demand)
          /\ work' = [work EXCEPT ![j].key = demand.key, ![j].profiled = profiled, ![j].memory =
                        IF lower THEN demand.memory ELSE LargerOf(@, demand.memory)]
  BY Zenon DEF Reconsiders
<1> DEFINE demand == Demand(w, profiled, outgrown)
<1>2. PICK kb \in {demand.memory, LargerOf(work[j].memory, demand.memory)} :
        work' = [work EXCEPT ![j].key = demand.key, ![j].profiled = profiled, ![j].memory = kb]
  <2>1. work \in [Jobs -> WorkType] /\ work[j] \in WorkType
    BY EstimateParts
  <2> HIDE DEF demand
  <2> DEFINE exact == Seeded(demand)[demand.key]
             lower == /\ demand.key # work[j].key /\ exact.runs >= 3
                      /\ 4 * demand.memory >= 5 * Top(PeaksOf(exact.peaks))
  <2>2. work' = [work EXCEPT ![j].key = demand.key, ![j].profiled = profiled, ![j].memory =
                   IF lower THEN demand.memory ELSE LargerOf(@, demand.memory)]
    BY <1>1, Zenon DEF demand
  <2> HIDE DEF lower
  <2>3. work' = [work EXCEPT ![j].key = demand.key, ![j].profiled = profiled, ![j].memory =
                   IF lower THEN demand.memory ELSE LargerOf(work[j].memory, demand.memory)]
    BY <2>1, <2>2 DEF WorkType
  <2> QED BY <2>3
<1>3. /\ work[j].pc = "waiting" /\ rows' = Seeded(demand)
      /\ UNCHANGED <<profiles, revision, ran, growth, upset>>
  BY <1>1, Zenon DEF Reconsiders
<1>4. demand.key \in Keys /\ demand.key[2] \in Workers /\ demand.memory \in 0..Bound
  BY DemandIs DEF EstimatesInv
<1> HIDE DEF demand
<1>5. work[j] \in WorkType /\ Shows(j) /\ work \in [Jobs -> WorkType]
  BY EstimateParts DEF EstimatesInv
<1>6. kb \in 0..Bound
  <2>1. work[j].memory \in 0..Bound /\ Bound \in Nat
    BY <1>5, BoundIs DEF WorkType
  <2> QED BY <1>2, <1>4, <2>1 DEF LargerOf
<1> DEFINE v == [work[j] EXCEPT !.key = demand.key, !.profiled = profiled, !.memory = kb]
<1>7. v \in WorkType /\ v.peak = work[j].peak /\ v.key = demand.key /\ v.pc = work[j].pc
  BY <1>4, <1>5, <1>6 DEF WorkType
<1>8. work' = [work EXCEPT ![j] = v]
  BY <1>2, <1>5
<1> HIDE DEF v
<1>9. v.peak <= growth[v.key[2]].kb /\ (v.pc = "waiting" => v.peak = 0)
  <2>1. v.peak = 0
    BY <1>3, <1>5, <1>7, Zenon DEF Shows
  <2>2. growth[v.key[2]].kb \in Nat
    BY <1>4, <1>7, EstimateParts
  <2> QED BY <2>1, <2>2
<1>10. rows' \in EveryRow /\ \A k \in Keys : rows'[k].runs <= rows[k].runs
  <2>1. rows' \in EveryRow /\ \A k \in Keys : rows'[k].runs = rows[k].runs
    BY <1>3, <1>4, SeededIs DEF EstimatesInv
  <2>2. \A k \in Keys : rows[k].runs <= rows[k].runs
    <3>1. \A k \in Keys : rows[k].runs \in Nat
      BY EstimateParts
    <3> QED BY <3>1
  <2> QED BY <2>1, <2>2, Zenon
<1>11. work[j].pc # "none"
  BY <1>3
<1> QED BY <1>3, <1>7, <1>8, <1>9, <1>10, <1>11, QuietStep

\* The steps of a run that is recorded.
LEMMA LearningStep ==
  ASSUME EstimatesInv, NEW j \in Jobs, NEW kb \in Sizes, NEW complete \in BOOLEAN, NEW v \in WorkType,
         work[j].pc = "running", complete => v.pc = "none",
         complete /\ work[j].profiled => kb <= growth[work[j].key[2]].kb,
         work' = [work EXCEPT ![j] = v],
         rows' = [rows EXCEPT ![work[j].key] = Recorded(rows[work[j].key], work[j].prior, kb, complete)],
         TeachesProfile(work[j], kb, complete),
         UNCHANGED <<revision, ran, upset>>,
         v.peak = 0 \/ (v.peak = kb /\ v.pc = "running" /\ v.key = work[j].key /\ v.profiled = work[j].profiled)
  PROVE  EstimatesInv'
<1> DEFINE k == work[j].key
           w == k[2]
           p == IF work[j].profiled THEN Profiled(profiles[w], kb, complete) ELSE profiles[w]
           h == IF work[j].profiled THEN Shown(w, kb, complete) ELSE growth[w]
           r == Recorded(rows[k], work[j].prior, kb, complete)
<1>1. work[j] \in WorkType /\ k \in Keys /\ w \in Workers /\ work[j].prior \in 0..Bound
  <2>1. work[j] \in WorkType /\ k \in Keys /\ w \in Workers
    BY EstimateParts
  <2> QED BY <2>1 DEF WorkType
<1>2. /\ rows' = [rows EXCEPT ![k] = r] /\ profiles' = [profiles EXCEPT ![w] = p]
      /\ growth' = [growth EXCEPT ![w] = h]
  <2>1. profiles \in EveryProfile /\ growth \in [Workers -> GrowthType]
    BY EstimateParts
  <2>2. CASE work[j].profiled
    <3>1. /\ profiles' = [profiles EXCEPT ![w] = Profiled(profiles[w], kb, complete)]
          /\ growth' = [growth EXCEPT ![w] = Shown(w, kb, complete)]
      BY <1>1, <2>1, <2>2 DEF TeachesProfile, EveryProfile
    <3> QED BY <2>2, <3>1, Zenon
  <2>3. CASE ~work[j].profiled
    <3>1. UNCHANGED <<profiles, growth>>
      BY <2>3 DEF TeachesProfile
    <3>2. p = profiles[w] /\ h = growth[w]
      BY <2>3
    <3> HIDE DEF p, h
    <3> QED BY <1>1, <2>1, <3>1, <3>2 DEF EveryProfile
  <2> QED BY <2>2, <2>3
<1>3. /\ p \in Profiles /\ h \in GrowthType /\ IsFloor(p, h)
      /\ h.kb \in Nat /\ h.kb >= growth[w].kb /\ (work[j].profiled => h.kb >= kb)
  <2>1. complete /\ work[j].profiled => kb <= growth[w].kb
    OBVIOUS
  <2> HIDE DEF w
  <2>2. CASE work[j].profiled
    <3>1. p = Profiled(profiles[w], kb, complete) /\ h = Shown(w, kb, complete)
      BY <2>2
    <3> HIDE DEF p, h
    <3> QED BY <1>1, <2>1, <2>2, <3>1, Learned
  <2>3. CASE ~work[j].profiled
    <3>1. p = profiles[w] /\ h = growth[w]
      BY <2>3
    <3> HIDE DEF p, h
    <3>2. growth[w].kb \in Nat /\ profiles[w] \in Profiles /\ growth[w] \in GrowthType
      BY <1>1, EstimateParts
    <3>3. IsFloor(profiles[w], growth[w])
      BY <1>1 DEF EstimatesInv, FloorKnown
    <3> QED BY <2>3, <3>1, <3>2, <3>3
  <2> QED BY <2>2, <2>3
<1>4. complete => rows[k].runs < Runs
  <2> SUFFICES ASSUME complete PROVE rows[k].runs < Runs
    OBVIOUS
  <2> DEFINE n == Cardinality(Busyness)
  <2>1. j \in Busyness
    BY DEF Busyness
  <2>2. n \in Nat /\ n # 0
    BY <2>1, EstimateParts, FS_EmptySet
  <2>3. rows[k].runs \in Nat /\ rows[k].runs + n <= ran /\ ran \in Nat /\ ran <= Runs /\ Runs \in Nat
    BY <1>1, EstimateParts DEF EstimatesInv, n
  <2> HIDE DEF n, k
  <2> QED BY <2>2, <2>3
<1>5. r \in EstimateRows /\ r.runs = IF complete THEN rows[k].runs + 1 ELSE rows[k].runs
  <2>1. rows[k] \in EstimateRows
    BY <1>1, EstimateParts
  <2> QED BY <1>1, <1>4, <2>1, RecordedIs
<1> HIDE DEF k, w, p, h, r
<1>6. /\ rows' \in EveryRow /\ profiles' \in EveryProfile /\ growth' \in [Workers -> GrowthType]
      /\ rows'[k] = r /\ \A l \in Keys : l # k => rows'[l] = rows[l]
      /\ profiles'[w] = p /\ \A u \in Workers : u # w => profiles'[u] = profiles[u]
      /\ growth'[w] = h /\ \A u \in Workers : u # w => growth'[u] = growth[u]
  <2>1. rows \in EveryRow /\ profiles \in EveryProfile /\ growth \in [Workers -> GrowthType]
    BY EstimateParts
  <2>2. rows' \in EveryRow /\ rows'[k] = r /\ \A l \in Keys : l # k => rows'[l] = rows[l]
    BY <1>1, <1>2, <1>5, <2>1 DEF EveryRow, k
  <2>3. profiles' \in EveryProfile /\ profiles'[w] = p /\ \A u \in Workers : u # w => profiles'[u] = profiles[u]
    BY <1>1, <1>2, <1>3, <2>1 DEF EveryProfile
  <2>4. growth' \in [Workers -> GrowthType] /\ growth'[w] = h /\ \A u \in Workers : u # w => growth'[u] = growth[u]
    BY <1>1, <1>2, <1>3, <2>1
  <2> QED BY <2>2, <2>3, <2>4
<1>7. \A u \in Workers : growth'[u].kb \in Nat /\ growth'[u].kb >= growth[u].kb
  <2> SUFFICES ASSUME NEW u \in Workers PROVE growth'[u].kb \in Nat /\ growth'[u].kb >= growth[u].kb
    OBVIOUS
  <2>1. CASE u = w
    BY <1>3, <1>6, <2>1
  <2>2. CASE u # w
    <3>1. growth[u].kb \in Nat
      BY EstimateParts
    <3> QED BY <1>6, <2>2, <3>1
  <2> QED BY <2>1, <2>2
<1>8. \A u \in Workers : FloorKnown(u)'
  <2> SUFFICES ASSUME NEW u \in Workers PROVE FloorKnown(u)'
    OBVIOUS
  <2>1. FloorKnown(u)
    BY DEF EstimatesInv
  <2>2. CASE u = w
    BY <1>3, <1>6, <2>2, Zenon DEF FloorKnown
  <2>3. CASE u # w
    BY <1>6, <2>1, <2>3, Zenon DEF FloorKnown
  <2> QED BY <2>2, <2>3
<1>9. work \in [Jobs -> WorkType] /\ work' \in [Jobs -> WorkType] /\ work'[j] = v /\ \A i \in Jobs : i # j => work'[i] = work[i]
  BY EstimateParts
<1>10. \A i \in Jobs : Shows(i)'
  <2> SUFFICES ASSUME NEW i \in Jobs PROVE Shows(i)'
    OBVIOUS
  <2>1. CASE i # j
    <3>1. Shows(i) /\ work'[i] = work[i] /\ work[i].key[2] \in Workers
      BY <1>9, <2>1, EstimateParts DEF EstimatesInv
    <3>2. work[i].peak \in Nat
      <4>1. work[i] \in WorkType
        BY <1>9
      <4>2. {0} \cup Sizes \subseteq Nat
        BY EstimatesAssumption
      <4>3. work[i].peak \in {0} \cup Sizes
        BY <4>1 DEF WorkType
      <4> QED BY <4>2, <4>3, Zenon
    <3> DEFINE a == work[i].peak
               g == growth[work[i].key[2]].kb
               b == growth'[work[i].key[2]].kb
    <3>3. (work[i].profiled => a <= g) /\ a \in Nat /\ b \in Nat /\ b >= g /\ g \in Nat
      BY <1>7, <3>1, <3>2, EstimateParts DEF Shows
    <3> HIDE DEF a, g, b
    <3>4. work[i].profiled => a <= b
      BY <3>3
    <3>5. work'[i].profiled => work'[i].peak <= growth'[work'[i].key[2]].kb
      BY <3>1, <3>4, Zenon DEF a, b
    <3>6. work'[i].pc = "waiting" => work'[i].peak = 0
      BY <3>1, Zenon DEF Shows
    <3> QED BY <3>5, <3>6 DEF Shows
  <2>2. CASE i = j /\ v.peak = 0
    <3>1. v.key[2] \in Workers
      <4>1. v.key \in Keys
        BY DEF WorkType
      <4> QED BY <4>1 DEF Keys
    <3>2. growth'[v.key[2]].kb \in Nat
      BY <1>7, <3>1
    <3>3. v.peak <= growth'[v.key[2]].kb
      BY <2>2, <3>2
    <3> QED BY <1>9, <2>2, <3>3, Zenon DEF Shows
  <2>3. CASE i = j /\ v.peak = kb /\ v.pc = "running" /\ v.key = work[j].key /\ v.profiled = work[j].profiled
    <3>1. (work[j].profiled => kb <= h.kb) /\ v.key[2] = w
      <4>1. kb \in Nat
        BY BoundIs
      <4> QED BY <1>3, <2>3, <4>1 DEF w, k
    <3>2. v.profiled => v.peak <= growth'[v.key[2]].kb
      BY <1>6, <2>3, <3>1, Zenon
    <3>3. v.pc # "waiting"
      BY <2>3
    <3> QED BY <1>9, <2>3, <3>2, <3>3, Zenon DEF Shows
  <2> QED BY <2>1, <2>2, <2>3
<1>11. EstimatesTypeOK'
  BY <1>6, <1>9, EstimateParts, EstimatesTypesAgain
<1>12. RunsFit'
  <2>1. IsFiniteSet(Busyness) /\ Cardinality(Busyness) \in Nat /\ ran \in Nat /\ j \in Busyness
    BY EstimateParts DEF Busyness
  <2>2. CASE ~complete
    <3>1. \A l \in Keys : rows'[l].runs <= rows[l].runs
      <4> SUFFICES ASSUME NEW l \in Keys PROVE rows'[l].runs <= rows[l].runs
        OBVIOUS
      <4>1. rows'[l].runs = rows[l].runs
        BY <1>5, <1>6, <2>2
      <4>2. rows[l].runs \in Nat
        BY EstimateParts
      <4> QED BY <4>1, <4>2
    <3>2. Busyness' \subseteq Busyness
      BY <1>9, <2>1 DEF Busyness
    <3>3. ran' \in Nat /\ ran' >= ran
      BY <2>1
    <3> QED BY <1>6, <3>1, <3>2, <3>3, RunsFitAgain
  <2>3. CASE complete
    <3> DEFINE n == Cardinality(Busyness)
               m == Cardinality(Busyness')
    <3>1. Busyness' = Busyness \ {j}
      BY <1>9, <2>3 DEF Busyness
    <3>2. m = n - 1 /\ n \in Nat
      BY <2>1, <3>1, FS_RemoveElement
    <3>3. ASSUME NEW l \in Keys PROVE rows'[l].runs + m <= ran'
      <4> DEFINE x == rows[l].runs
                 y == rows'[l].runs
      <4>1. x \in Nat /\ x + n <= ran
        BY EstimateParts DEF EstimatesInv
      <4>2. y = x \/ y = x + 1
        BY <1>5, <1>6, <2>3
      <4>3. ran' = ran
        OBVIOUS
      <4> HIDE DEF x, y, n, m
      <4>4. y + m <= ran
        BY <2>1, <3>2, <4>1, <4>2
      <4> QED BY <4>3, <4>4 DEF y
    <3> QED BY <3>3 DEF RunsFit
  <2> QED BY <2>2, <2>3
<1> QED BY <1>8, <1>10, <1>11, <1>12, Zenon DEF EstimatesInv, RunsFit

LEMMA GrowsKeeps ==
  ASSUME EstimatesInv, NEW j \in Jobs, NEW kb \in Sizes, Grows(j, kb)
  PROVE  EstimatesInv'
<1> DEFINE v == [work[j] EXCEPT !.peak = kb]
           k == work[j].key
<1>1. /\ work[j].pc = "running" /\ work' = [work EXCEPT ![j].peak = kb]
      /\ rows' = [rows EXCEPT ![k] = Recorded(@, work[j].prior, kb, FALSE)]
      /\ TeachesProfile(work[j], kb, FALSE)
      /\ UNCHANGED <<revision, ran, upset>>
  BY Zenon DEF Grows
<1>2. /\ work[j] \in WorkType /\ work \in [Jobs -> WorkType] /\ rows \in EveryRow /\ profiles \in EveryProfile
      /\ k \in Keys /\ k[2] \in Workers
  BY EstimateParts
<1>3. /\ v \in WorkType /\ v.peak = kb /\ v.pc = "running" /\ v.key = work[j].key
      /\ v.profiled = work[j].profiled
  BY <1>1, <1>2 DEF WorkType
<1>4. work' = [work EXCEPT ![j] = v]
  BY <1>1, <1>2
<1>5. rows' = [rows EXCEPT ![k] = Recorded(rows[k], work[j].prior, kb, FALSE)]
  BY <1>1, <1>2 DEF EveryRow
<1> HIDE DEF v
<1>7. PICK complete \in BOOLEAN : complete = FALSE
  OBVIOUS
<1>8. ~complete
  BY <1>7
<1>9. /\ rows' = [rows EXCEPT ![k] = Recorded(rows[k], work[j].prior, kb, complete)]
      /\ TeachesProfile(work[j], kb, complete)
  BY <1>1, <1>5, <1>7, Zenon
<1>10. (complete => v.pc = "none") /\ (complete /\ work[j].profiled => kb <= growth[work[j].key[2]].kb)
  BY <1>8
<1>11. v.peak = 0 \/ (v.peak = kb /\ v.pc = "running" /\ v.key = work[j].key /\ v.profiled = work[j].profiled)
  BY <1>3
<1>12. work[j].pc = "running" /\ UNCHANGED <<revision, ran, upset>>
  BY <1>1
<1>13. v \in WorkType
  BY <1>3
<1> QED BY <1>4, <1>9, <1>10, <1>11, <1>12, <1>13, LearningStep

LEMMA CompletesKeeps ==
  ASSUME EstimatesInv, NEW j \in Jobs, NEW complete \in BOOLEAN, Completes(j, complete)
  PROVE  EstimatesInv'
<1> DEFINE k == work[j].key
           kb == work[j].peak
<1>1. /\ work[j].pc = "running" /\ kb > 0 /\ work' = [work EXCEPT ![j] = NoWork]
      /\ rows' = [rows EXCEPT ![k] = Recorded(@, work[j].prior, kb, complete)]
      /\ TeachesProfile(work[j], kb, complete)
      /\ UNCHANGED <<revision, ran, upset>>
  BY Zenon DEF Completes
<1>2. /\ work[j] \in WorkType /\ work \in [Jobs -> WorkType] /\ rows \in EveryRow /\ profiles \in EveryProfile
      /\ k \in Keys /\ k[2] \in Workers
  BY EstimateParts
<1>3. kb \in Sizes /\ (work[j].profiled => kb <= growth[k[2]].kb)
  <2>1. kb \in {0} \cup Sizes
    BY <1>2 DEF WorkType
  <2>2. Shows(j)
    BY DEF EstimatesInv
  <2> QED BY <1>1, <2>1, <2>2 DEF Shows
<1>4. rows' = [rows EXCEPT ![k] = Recorded(rows[k], work[j].prior, kb, complete)]
  BY <1>1, <1>2 DEF EveryRow
<1>6. NoWork \in WorkType /\ NoWork.peak = 0 /\ NoWork.pc = "none"
  BY NoWorkIs
<1> QED BY <1>1, <1>3, <1>4, <1>6, LearningStep

\* The steps no run takes.
LEMMA UpsetsKeep ==
  ASSUME EstimatesInv, UNCHANGED <<work, growth, ran>>, revision' \in Revisions,
         upset' \in Nat, upset' <= Upsets, rows' \in EveryRow,
         \A k \in Keys : rows'[k].runs <= rows[k].runs,
         profiles' \in EveryProfile, \A w \in Workers : FloorKnown(w)'
  PROVE  EstimatesInv'
<1>1. EstimatesTypeOK'
  BY EstimateParts, EstimatesTypesAgain
<1>2. RunsFit'
  <2>1. Busyness' \subseteq Busyness
    BY DEF Busyness
  <2>2. ran' \in Nat /\ ran' >= ran
    BY EstimateParts
  <2> QED BY <2>1, <2>2, RunsFitAgain
<1>3. \A j \in Jobs : Shows(j)'
  BY Zenon DEF EstimatesInv, Shows
<1> QED BY <1>1, <1>2, <1>3, Zenon DEF EstimatesInv, RunsFit

LEMMA UpsetIs ==
  ASSUME EstimatesInv, Upset
  PROVE  upset' \in Nat /\ upset' <= Upsets
BY EstimateParts DEF Upset

LEMMA EditsKeeps ==
  ASSUME EstimatesInv, Edits
  PROVE  EstimatesInv'
<1>1. /\ revision' \in Revisions /\ Upset /\ UNCHANGED <<rows, profiles, work, ran, growth>>
  BY DEF Edits
<1>2. rows' \in EveryRow /\ \A k \in Keys : rows'[k].runs <= rows[k].runs
  BY <1>1, RowsStay
<1>3. profiles' \in EveryProfile /\ \A w \in Workers : FloorKnown(w)'
  BY <1>1, EstimateParts, Zenon DEF EstimatesInv, FloorKnown
<1> QED BY <1>1, <1>2, <1>3, UpsetIs, UpsetsKeep

LEMMA ForgetsKeeps ==
  ASSUME EstimatesInv, NEW k \in Keys, Forgets(k)
  PROVE  EstimatesInv'
<1>1. rows' = [rows EXCEPT ![k] = NoEstimate] /\ Upset /\ UNCHANGED <<profiles, revision, work, ran, growth>>
  BY DEF Forgets
<1>2. NoEstimate \in EstimateRows /\ NoEstimate.runs = 0
  <2>1. 0 \in 0..Bound /\ 0 \in 0..Runs /\ <<>> \in Seq(Sizes)
    BY BoundIs, EstimatesAssumption
  <2> QED BY <2>1 DEF NoEstimate, EstimateRows
<1>3. rows' \in EveryRow /\ \A l \in Keys : rows'[l].runs <= rows[l].runs
  <2>1. rows \in EveryRow /\ \A l \in Keys : rows[l].runs \in Nat
    BY EstimateParts
  <2>2. rows' \in EveryRow /\ rows'[k] = NoEstimate /\ \A l \in Keys : l # k => rows'[l] = rows[l]
    BY <1>1, <1>2, <2>1 DEF EveryRow
  <2>3. ASSUME NEW l \in Keys PROVE rows'[l].runs <= rows[l].runs
    <3>1. CASE l = k
      BY <1>2, <2>1, <2>2, <3>1
    <3>2. CASE l # k
      BY <2>1, <2>2, <3>2
    <3> QED BY <3>1, <3>2
  <2> QED BY <2>2, <2>3
<1>4. profiles' \in EveryProfile /\ \A w \in Workers : FloorKnown(w)'
  BY <1>1, EstimateParts, Zenon DEF EstimatesInv, FloorKnown
<1>5. revision' \in Revisions
  BY <1>1, EstimateParts
<1> QED BY <1>1, <1>3, <1>4, <1>5, UpsetIs, UpsetsKeep

LEMMA ExpiresKeeps ==
  ASSUME EstimatesInv, NEW w \in Workers, Expires(w)
  PROVE  EstimatesInv'
<1> DEFINE p == [profiles[w] EXCEPT !.samples = Tail(profiles[w].samples)]
<1>1. /\ profiles[w].samples # <<>> /\ profiles' = [profiles EXCEPT ![w].samples = Tail(@)]
      /\ UNCHANGED <<rows, revision, work, ran, growth, upset>>
  BY Zenon DEF Expires
<1>2. profiles \in EveryProfile /\ profiles[w] \in Profiles /\ IsFloor(profiles[w], growth[w])
  BY EstimateParts DEF EstimatesInv, FloorKnown
<1>3. profiles' = [profiles EXCEPT ![w] = p]
  BY <1>1, <1>2 DEF EveryProfile
<1>4. profiles[w].samples \in Seq(Samples)
  BY <1>2 DEF Profiles
<1>5. /\ Tail(profiles[w].samples) \in Seq(Samples)
      /\ Cardinality(Later(Tail(profiles[w].samples))) \in Nat /\ Cardinality(Later(profiles[w].samples)) \in Nat
      /\ Cardinality(Later(Tail(profiles[w].samples))) <= Cardinality(Later(profiles[w].samples))
  BY <1>1, <1>4, LaterTail
<1>6. p \in Profiles /\ p.samples = Tail(profiles[w].samples) /\ p.floor = profiles[w].floor
  BY <1>2, <1>5 DEF Profiles
<1> HIDE DEF p
<1>7. IsFloor(p, growth[w])
  <2> DEFINE n == Cardinality(Later(p.samples))
             m == Cardinality(Later(profiles[w].samples))
  <2>1. n \in Nat /\ m \in Nat /\ n <= m
    BY <1>5, <1>6
  <2>2. growth[w].later \in Nat
    BY EstimateParts DEF GrowthType
  <2>3. growth[w].later < 3 => m <= growth[w].later
    BY <1>2, Zenon DEF IsFloor
  <2> HIDE DEF n, m
  <2>4. growth[w].later < 3 => n <= growth[w].later
    BY <2>1, <2>2, <2>3
  <2> QED BY <1>2, <1>6, <2>4 DEF IsFloor, n
<1>8. profiles' \in EveryProfile /\ profiles'[w] = p /\ \A u \in Workers : u # w => profiles'[u] = profiles[u]
  BY <1>2, <1>3, <1>6 DEF EveryProfile
<1>9. \A u \in Workers : FloorKnown(u)'
  <2> SUFFICES ASSUME NEW u \in Workers PROVE FloorKnown(u)'
    OBVIOUS
  <2>1. FloorKnown(u)
    BY DEF EstimatesInv
  <2>2. CASE u = w
    BY <1>1, <1>7, <1>8, <2>2, Zenon DEF FloorKnown
  <2>3. CASE u # w
    BY <1>1, <1>8, <2>1, <2>3, Zenon DEF FloorKnown
  <2> QED BY <2>2, <2>3
<1>10. rows' \in EveryRow /\ \A l \in Keys : rows'[l].runs <= rows[l].runs
  BY <1>1, RowsStay
<1>11. revision' \in Revisions /\ upset' \in Nat /\ upset' <= Upsets
  BY <1>1, EstimateParts
<1> QED BY <1>1, <1>8, <1>9, <1>10, <1>11, UpsetsKeep

LEMMA EstimatesStart == EstimatesInit => EstimatesInv
<1> SUFFICES ASSUME EstimatesInit PROVE EstimatesInv
  OBVIOUS
<1>1. /\ rows = [k \in Keys |-> NoEstimate] /\ profiles = [w \in Workers |-> NoProfile]
      /\ revision = 1 /\ ran = 0 /\ upset = 0
      /\ work = [j \in Jobs |-> NoWork] /\ growth = [w \in Workers |-> [kb |-> 0, later |-> 3]]
  BY DEF EstimatesInit
<1>2. 0 \in 0..Bound /\ 0 \in 0..Runs /\ 0 \in 0..Upsets /\ Runs \in Nat /\ Upsets \in Nat /\ 1 \in Revisions
  BY BoundIs, EstimatesAssumption
<1>3. NoEstimate \in EstimateRows /\ NoEstimate.runs = 0
  <2>1. <<>> \in Seq(Sizes)
    OBVIOUS
  <2> QED BY <1>2, <2>1 DEF NoEstimate, EstimateRows
<1>4. NoProfile \in Profiles /\ NoProfile.samples = <<>> /\ NoProfile.floor = 0
  <2>1. <<>> \in Seq(Samples)
    OBVIOUS
  <2> QED BY <1>2, <2>1 DEF NoProfile, Profiles
<1> DEFINE g == [kb |-> 0, later |-> 3]
<1>5. g \in GrowthType /\ g.kb = 0 /\ g.later = 3
  BY DEF GrowthType
<1>6. NoWork \in WorkType /\ NoWork.peak = 0 /\ NoWork.pc = "none" /\ NoWork.key[2] \in Workers
  BY NoWorkIs
<1>7. /\ rows \in EveryRow /\ profiles \in EveryProfile /\ work \in [Jobs -> WorkType]
      /\ growth \in [Workers -> GrowthType] /\ ran \in 0..Runs /\ upset \in 0..Upsets /\ revision \in Revisions
  BY <1>1, <1>2, <1>3, <1>4, <1>5, <1>6 DEF EveryRow, EveryProfile
<1>8. EstimatesTypeOK
  BY <1>7, Zenon DEF EstimatesTypeOK, EveryRow, EstimateRows, EveryProfile, Profiles, Samples,
                     WorkType, GrowthType
<1> HIDE DEF g
<1>9. \A w \in Workers : growth[w] = g /\ profiles[w] = NoProfile
  BY <1>1 DEF g
<1>10. \A w \in Workers : FloorKnown(w)
  <2>1. NoProfile.floor = Times3Halves(g.kb) /\ ~(g.later < 3)
    BY <1>4, <1>5, MarginGrows
  <2> QED BY <1>9, <2>1, Zenon DEF FloorKnown, IsFloor
<1>11. \A j \in Jobs : Shows(j)
  <2>1. \A j \in Jobs : work[j] = NoWork
    BY <1>1
  <2>2. NoWork.peak <= growth[NoWork.key[2]].kb
    BY <1>5, <1>6, <1>9
  <2> QED BY <1>6, <2>1, <2>2, Zenon DEF Shows
<1>12. \A k \in Keys : rows[k].runs + Cardinality(Busyness) <= ran
  <2>1. Busyness = {}
    BY <1>1, <1>6 DEF Busyness
  <2>2. Cardinality(Busyness) = 0
    BY <2>1, FS_EmptySet
  <2>3. \A k \in Keys : rows[k].runs = 0
    BY <1>1, <1>3
  <2> QED BY <1>1, <2>2, <2>3
<1> QED BY <1>8, <1>10, <1>11, <1>12, Zenon DEF EstimatesInv

LEMMA EstimatesStutter ==
  ASSUME EstimatesInv, UNCHANGED estimatevars
  PROVE  EstimatesInv'
BY Zenon DEF EstimatesInv, EstimatesTypeOK, FloorKnown, Shows, Busyness, estimatevars

LEMMA EstimatesStep == EstimatesInv /\ [EstimatesNext]_estimatevars => EstimatesInv'
<1> SUFFICES ASSUME EstimatesInv, [EstimatesNext]_estimatevars PROVE EstimatesInv'
  OBVIOUS
<1>1. CASE Edits
  BY <1>1, EditsKeeps
<1>2. ASSUME NEW w \in Workers, Expires(w) PROVE EstimatesInv'
  BY <1>2, ExpiresKeeps
<1>3. ASSUME NEW k \in Keys, Forgets(k) PROVE EstimatesInv'
  BY <1>3, ForgetsKeeps
<1>4. ASSUME NEW j \in Jobs, Requests(j) PROVE EstimatesInv'
  BY <1>4, RequestsKeeps
<1>5. ASSUME NEW j \in Jobs, Raises(j) PROVE EstimatesInv'
  BY <1>5, RaisesKeeps
<1>6. ASSUME NEW j \in Jobs, Launches(j) PROVE EstimatesInv'
  BY <1>6, LaunchesKeeps
<1>7. ASSUME NEW j \in Jobs, Vanishes(j) PROVE EstimatesInv'
  BY <1>7, VanishesKeeps
<1>8. ASSUME NEW j \in Jobs, NEW w \in Workers, Reconsiders(j, w) PROVE EstimatesInv'
  BY <1>8, ReconsidersKeeps
<1>9. ASSUME NEW j \in Jobs, NEW kb \in Sizes, Grows(j, kb) PROVE EstimatesInv'
  BY <1>9, GrowsKeeps
<1>10. ASSUME NEW j \in Jobs, NEW complete \in BOOLEAN, Completes(j, complete) PROVE EstimatesInv'
  BY <1>10, CompletesKeeps
<1>11. CASE UNCHANGED estimatevars
  BY <1>11, EstimatesStutter
<1> QED BY <1>1, <1>2, <1>3, <1>4, <1>5, <1>6, <1>7, <1>8, <1>9, <1>10, <1>11, Zenon DEF EstimatesNext

\* What is learned and what is asked for stays within the bounds the peaks set, however
\* runs, edits, evictions and expiries interleave: no estimate drifts upwards by itself.
THEOREM EstimatesTypeCorrect == EstimatesSpec => []EstimatesTypeOK
<1>1. EstimatesInv => EstimatesTypeOK
  BY DEF EstimatesInv
<1> QED BY <1>1, EstimatesStart, EstimatesStep, PTL DEF EstimatesSpec

\* A run that asks is given what its profile says, and the profile remembers.
LEMMA NewRequestCovers ==
  ASSUME EstimatesInv, [EstimatesNext]_estimatevars, NEW j \in Jobs, NewRequest(j),
         work'[j].profiled, growth[work'[j].key[2]].later < 3
  PROVE  Covers(j)
<1>1. work[j].pc = "none" /\ work'[j].pc = "waiting"
  BY DEF NewRequest
<1>2. work \in [Jobs -> WorkType]
  BY EstimateParts
<1>3. ~UNCHANGED work
  BY <1>1
<1>4. ~Edits /\ (\A w \in Workers : ~Expires(w)) /\ (\A k \in Keys : ~Forgets(k)) /\ ~UNCHANGED estimatevars
  BY <1>3 DEF Edits, Expires, Forgets, estimatevars
<1>5. ASSUME NEW i \in Jobs, NEW v, work' = [work EXCEPT ![i] = v], i # j \/ v.pc # "waiting" PROVE FALSE
  BY <1>1, <1>2, <1>5
<1>6. ASSUME NEW i \in Jobs, work[i].pc # "none", \E v : work' = [work EXCEPT ![i] = v] PROVE FALSE
  BY <1>1, <1>2, <1>6
<1>7. ASSUME NEW i \in Jobs, Raises(i) PROVE FALSE
  <2>1. work[i].pc # "none" /\ work' = [work EXCEPT ![i] = [work[i] EXCEPT !.memory = rows[work[i].key].estimate]]
    BY <1>2, <1>7 DEF Raises
  <2> QED BY <1>6, <2>1
<1>8. ASSUME NEW i \in Jobs, Launches(i) PROVE FALSE
  <2>1. work[i].pc # "none" /\ work' = [work EXCEPT ![i] = [work[i] EXCEPT !.pc = "running"]]
    BY <1>2, <1>8 DEF Launches
  <2> QED BY <1>6, <2>1
<1>9. ASSUME NEW i \in Jobs, Vanishes(i) PROVE FALSE
  BY <1>6, <1>9 DEF Vanishes
<1>10. ASSUME NEW i \in Jobs, NEW w \in Workers, Reconsiders(i, w) PROVE FALSE
  <2>1. work[i].pc # "none"
    BY <1>10 DEF Reconsiders
  <2>2. \A l \in Jobs : l # i => work'[l] = work[l]
    BY <1>2, <1>10 DEF Reconsiders
  <2> QED BY <1>1, <2>1, <2>2
<1>11. ASSUME NEW i \in Jobs, NEW kb \in Sizes, Grows(i, kb) PROVE FALSE
  <2>1. work[i].pc # "none" /\ work' = [work EXCEPT ![i] = [work[i] EXCEPT !.peak = kb]]
    BY <1>2, <1>11 DEF Grows
  <2> QED BY <1>6, <2>1
<1>12. ASSUME NEW i \in Jobs, NEW complete \in BOOLEAN, Completes(i, complete) PROVE FALSE
  <2>1. work[i].pc # "none" /\ work' = [work EXCEPT ![i] = NoWork]
    BY <1>12 DEF Completes
  <2> QED BY <1>6, <2>1
<1>13. PICK i \in Jobs : Requests(i)
  BY <1>4, <1>7, <1>8, <1>9, <1>10, <1>11, <1>12, Zenon DEF EstimatesNext
<1> DEFINE w == Max(Workers)
<1>14. PICK profiled \in BOOLEAN, outgrown \in BOOLEAN :
         LET demand == Demand(Max(Workers), profiled, outgrown) IN
         work' = [work EXCEPT ![i] = [pc |-> "waiting", key |-> demand.key, prior |-> demand.memory,
                                      profiled |-> profiled, memory |-> demand.memory, peak |-> 0]]
  BY <1>13, Zenon DEF Requests
<1> DEFINE demand == Demand(w, profiled, outgrown)
           v == [pc |-> "waiting", key |-> demand.key, prior |-> demand.memory,
                 profiled |-> profiled, memory |-> demand.memory, peak |-> 0]
<1>15. work' = [work EXCEPT ![i] = v] /\ growth' = growth
  BY <1>13, <1>14 DEF Requests
<1>16. w \in Workers
  BY WorkersMax
<1> HIDE DEF w
<1>17. /\ demand.key[2] = w /\ demand.memory \in 0..Bound
       /\ profiled => demand.memory >= FloorOf(profiles[w])
  BY <1>16, DemandIs DEF EstimatesInv
<1> HIDE DEF demand
<1>18. v.key = demand.key /\ v.memory = demand.memory /\ v.profiled = profiled
  OBVIOUS
<1> HIDE DEF v
<1>19. work'[j] = v
  BY <1>1, <1>2, <1>15
<1>20. FloorOf(profiles[w]) = Times3Halves(growth[w].kb)
  <2>1. growth[w].later < 3
    BY <1>17, <1>18, <1>19, Zenon
  <2>2. IsFloor(profiles[w], growth[w]) /\ profiles[w] \in Profiles /\ growth[w] \in GrowthType
    BY <1>16, EstimateParts DEF EstimatesInv, FloorKnown
  <2> DEFINE n == Cardinality(Later(profiles[w].samples))
  <2>3. n \in Nat
    BY <2>2, ProfiledIs, EstimatesAssumption
  <2>4. growth[w].later \in Nat
    BY <2>2 DEF GrowthType
  <2>5. n <= growth[w].later /\ profiles[w].floor = Times3Halves(growth[w].kb)
    BY <2>1, <2>2, Zenon DEF IsFloor
  <2> HIDE DEF n
  <2>6. ~(n >= 3)
    BY <2>1, <2>3, <2>4, <2>5
  <2> QED BY <2>5, <2>6 DEF FloorOf, n
<1>21. demand.memory >= Times3Halves(growth[w].kb)
  BY <1>17, <1>18, <1>19, <1>20
<1> QED BY <1>17, <1>18, <1>19, <1>21, Zenon DEF Covers

\* A new request that is made with a profile covers the largest peak that any run with a
\* profile has shown in its context, with half as much again, until three complete runs have
\* followed it: not a run that is killed, nor an edit, nor an evicted row or an expired
\* sample, nor runs and requests without a profile in between make predict() forget.
THEOREM GrowthIsCovered == EstimatesSpec => RequestCoversGrowth
<1>1. EstimatesInv /\ [EstimatesNext]_estimatevars =>
        [\A j \in Jobs : NewRequest(j) /\ work'[j].profiled /\ growth[work'[j].key[2]].later < 3
           => Covers(j)]_estimatevars
  BY NewRequestCovers
<1> QED BY <1>1, EstimatesStart, EstimatesStep, PTL DEF EstimatesSpec, RequestCoversGrowth

(***************************************************************************)
(* The five together.                                                      *)
(***************************************************************************)
\* Beside the others each module behaves as it does alone.
LEMMA MeasuredApart ==
  MeasurementSpec => ObservationSpec /\ NativeSpec /\ AllowanceSpec /\ EstimatesSpec /\ BudgetSpec
<1>1. MeasurementInit => ObservationInit /\ NativeInit /\ AllowanceInit /\ EstimatesInit /\ BudgetInit
  BY Zenon DEF MeasurementInit
<1>2. [MeasurementNext]_measurevars =>
        /\ [ObservationNext]_obsvars /\ [NativeNext]_nativevars /\ [AllowanceNext]_allowvars
        /\ [EstimatesNext]_estimatevars /\ [BudgetNext]_budgetvars
  <2>1. ASSUME UNCHANGED measurevars PROVE UNCHANGED <<obsvars, nativevars, allowvars, estimatevars, budgetvars>>
    BY <2>1 DEF measurevars
  <2>2. ASSUME MeasurementNext
        PROVE  /\ ObservationNext \/ UNCHANGED obsvars
               /\ NativeNext \/ UNCHANGED nativevars
               /\ AllowanceNext \/ UNCHANGED allowvars
               /\ EstimatesNext \/ UNCHANGED estimatevars
               /\ BudgetNext \/ UNCHANGED budgetvars
    BY <2>2 DEF MeasurementNext, Still
  <2> QED BY <2>1, <2>2
<1> QED BY <1>1, <1>2, PTL DEF MeasurementSpec, ObservationSpec, NativeSpec, AllowanceSpec, EstimatesSpec, BudgetSpec

\* Whichever of the modules moves, its variables keep their types, for any values of
\* the constants of all of them.
THEOREM MeasurementTypeCorrect == MeasurementSpec => []MeasurementTypeOK
<1>1. ObservationTypeOK /\ NativeTypeOK /\ AllowanceTypeOK /\ EstimatesTypeOK /\ BudgetTypeOK => MeasurementTypeOK
  BY DEF MeasurementTypeOK
<1> QED BY <1>1, MeasuredApart, ObservationTypeCorrect, NativeTypeCorrect, AllowanceTypeCorrect,
           EstimatesTypeCorrect, BudgetTypeCorrect, PTL
=============================================================================
