------------------------------ MODULE Estimates ------------------------------
(***************************************************************************)
(* What is learned from the runs of one compiler command, and what the     *)
(* next run of it asks for: the exact rows of workload_estimates.py, one   *)
(* for every revision of the sources and number of workers, and the        *)
(* profiles of compiler_profiles.py, which survive edits.  Whenever the     *)
(* directory cannot be scanned with certainty, the run has no profile, and *)
(* neither learns into one nor is predicted from it.  A run that is killed *)
(* leaves only the growth it had shown by then; two runs may learn into    *)
(* the same row.  Sizes are in units of a sixteenth of GIB.                *)
(***************************************************************************)
EXTENDS Integers, Sequences, FiniteSets, FiniteSetsExt

CONSTANTS Jobs, Revisions, Workers,
          Sizes,      \* peaks
          Prior,      \* the estimate for a command that nothing is known of
          Runs,       \* bounds the runs,
          Upsets      \* and edits and evictions

ASSUME EstimatesAssumption ==
  /\ IsFiniteSet(Jobs) /\ Revisions \subseteq Nat /\ 1 \in Revisions
  /\ Workers \subseteq Nat /\ IsFiniteSet(Workers) /\ Workers # {}
  /\ Sizes \subseteq Nat /\ IsFiniteSet(Sizes) /\ Sizes # {}
  /\ Prior \in Nat /\ Runs \in Nat /\ Upsets \in Nat

VARIABLES rows,       \* data["estimates"], the rows with a key of this command
          profiles,   \* data["compiler_profiles"], for its contexts
          revision,   \* of the sources
          work,       \* the runs
          ran,        \* how many there were,
          upset,      \* and how many upsets
          growth      \* history, by context: the largest peak that a run with a profile
                      \* has shown, and the complete runs since then

estimatevars == <<rows, profiles, revision, work, ran, upset, growth>>

Least == 8                                   \* GIB // 2
LargerOf(m, n) == IF m > n THEN m ELSE n
Times5Quarters(kb) == (kb * 5 + 3) \div 4    \* math.ceil(kb * 1.25)
Times3Halves(kb) == (kb * 3 + 1) \div 2      \* math.ceil(kb * 1.5)
Ninth(kb) == (kb * 9 + 9) \div 10            \* math.ceil(kb * 0.9)
Top(S) == IF S = {} THEN 0 ELSE Max(S)
Latest(list, k) == SubSeq(list, IF Len(list) > k THEN Len(list) - k + 1 ELSE 1, Len(list))

\* A key: the revision, the workers, and whether a profile was reused for it.
Keys == Revisions \X Workers \X BOOLEAN
NoEstimate == [estimate |-> 0, peaks |-> <<>>, runs |-> 0]
NoProfile == [samples |-> <<>>, floor |-> 0]

Bound == Max({Least, Prior, 2 * Max(Sizes)})
EstimatesTypeOK ==
  /\ rows \in [Keys -> [estimate : 0..Bound, peaks : Seq(Sizes), runs : 0..Runs]]
  /\ profiles \in [Workers -> [samples : Seq([kb : Sizes, after : BOOLEAN]), floor : 0..Bound]]
  /\ revision \in Revisions
  /\ work \in [Jobs -> [pc : {"none", "waiting", "running"}, key : Keys, prior : 0..Bound,
                        profiled : BOOLEAN, memory : 0..Bound, peak : {0} \cup Sizes]]
  /\ ran \in 0..Runs /\ upset \in 0..Upsets
  /\ growth \in [Workers -> [kb : {0} \cup Sizes, later : 0..3]]

NoWork == [pc |-> "none", key |-> <<1, Max(Workers), FALSE>>, prior |-> 0, profiled |-> FALSE,
           memory |-> 0, peak |-> 0]

EstimatesInit ==
  /\ rows = [k \in Keys |-> NoEstimate]
  /\ profiles = [w \in Workers |-> NoProfile]
  /\ revision = 1 /\ ran = 0 /\ upset = 0
  /\ work = [j \in Jobs |-> NoWork]
  /\ growth = [w \in Workers |-> [kb |-> 0, later |-> 3]]

(***************************************************************************)
(* workload_estimates.py                                                   *)
(***************************************************************************)
\* estimate: from the twentieth run on a percentile.
PeaksOf(list) == {list[i] : i \in DOMAIN list}
Typical(list, runs) ==
  IF runs < 20 THEN Max(PeaksOf(list))
  ELSE Min({p \in PeaksOf(list) : 100 * Cardinality({i \in DOMAIN list : list[i] <= p}) >= 95 * Len(list)})

\* record.  A new large peak is never an outlier; an estimate sinks by a tenth a run.
Recorded(row, prior, kb, complete) ==
  LET known == IF row.estimate = 0 THEN prior ELSE row.estimate
      peaks == Latest(Append(row.peaks, kb), 50)
  IN IF ~complete THEN [row EXCEPT !.estimate = LargerOf(known, Times5Quarters(kb))]
     ELSE [estimate |-> LargerOf(Max({Least, Times5Quarters(Typical(peaks, row.runs + 1)), Ninth(known)}),
                                 Times5Quarters(kb)),
           peaks |-> peaks, runs |-> row.runs + 1]

(***************************************************************************)
(* compiler_profiles.py                                                    *)
(***************************************************************************)
\* The complete runs since the floor was raised (at > partial_at).
Later(samples) == {i \in DOMAIN samples : samples[i].after}

\* Mutant: two complete runs lift the floor.
FloorOfTwo(profile) == IF Cardinality(Later(profile.samples)) >= 2 THEN 0 ELSE profile.floor

\* Growth stays a floor until three complete runs after it.
FloorOf(profile) == IF Cardinality(Later(profile.samples)) >= 3 THEN 0 ELSE profile.floor

\* predict.  The sources may have outgrown the samples: larger than a fifth more,
\* or not, by which the prediction grows.
Predicted(profile, prior, outgrown) ==
  LET floor == FloorOf(profile)
      seen == {Times3Halves(profile.samples[i].kb) : i \in DOMAIN profile.samples}
      target == Max({Least, floor, Top(seen)})
  IN IF Len(profile.samples) < 3 THEN [kb |-> LargerOf(prior, floor), reused |-> FALSE]
     ELSE IF target < prior /\ outgrown THEN [kb |-> LargerOf(prior, floor), reused |-> FALSE]
     ELSE [kb |-> target, reused |-> TRUE]

\* record_profile.  A floor that is raised has only later runs after it.
Profiled(profile, kb, complete) ==
  IF complete THEN [profile EXCEPT !.samples = Latest(Append(@, [kb |-> kb, after |-> TRUE]), 20)]
  ELSE IF Times3Halves(kb) <= profile.floor THEN profile
  ELSE [samples |-> [i \in DOMAIN profile.samples |-> [profile.samples[i] EXCEPT !.after = FALSE]],
        floor |-> Times3Halves(kb)]

(***************************************************************************)
(* scheduler.py                                                            *)
(***************************************************************************)
\* demand: the key to learn into, and the request.  profiled: compiler_profile has
\* returned one; it returns None if its time is up, there are too many files, or one of
\* them changes, and then the request is what the exact row says.
Demand(w, profiled, outgrown) ==
  LET plain == rows[<<revision, w, FALSE>>]
      model == rows[<<revision, w, TRUE>>]
      exact == IF plain.estimate = 0 THEN Prior ELSE plain.estimate
      profile == IF profiled THEN Predicted(profiles[w], exact, outgrown)
                 ELSE [kb |-> exact, reused |-> FALSE]
      floor == LargerOf(Top({Times3Halves(kb) : kb \in PeaksOf(plain.peaks)}),
                        IF exact > Prior THEN exact ELSE 0)
  IN IF profile.reused
     THEN [key |-> <<revision, w, TRUE>>, memory |-> Max({profile.kb, floor, model.estimate})]
     ELSE [key |-> <<revision, w, FALSE>>, memory |-> LargerOf(exact, profile.kb)]

\* A reused profile has a row of its own from the start.
Seeded(demand) ==
  IF demand.key[3] /\ rows[demand.key].estimate = 0
  THEN [rows EXCEPT ![demand.key].estimate = demand.memory] ELSE rows

Requests(j) ==
  /\ work[j].pc = "none" /\ ran < Runs
  /\ \E profiled, outgrown \in BOOLEAN :
       LET demand == Demand(Max(Workers), profiled, outgrown) IN
       /\ work' = [work EXCEPT ![j] = [pc |-> "waiting", key |-> demand.key, prior |-> demand.memory,
                                       profiled |-> profiled, memory |-> demand.memory, peak |-> 0]]
       /\ rows' = Seeded(demand)
  /\ ran' = ran + 1
  /\ UNCHANGED <<profiles, revision, growth, upset>>

\* observe raises what waits to what its row says by now.
Raises(j) ==
  /\ work[j].pc = "waiting" /\ rows[work[j].key].estimate > work[j].memory
  /\ work' = [work EXCEPT ![j].memory = rows[work[j].key].estimate]
  /\ UNCHANGED <<rows, profiles, revision, ran, growth, upset>>

\* Fewer workers: a new demand.  Only complete runs of that very key, three of
\* them, lower the request (pending_request).
Reconsiders(j, w) ==
  /\ work[j].pc = "waiting" /\ w < work[j].key[2]
  /\ \E profiled, outgrown \in BOOLEAN :
       LET demand == Demand(w, profiled, outgrown)
           exact == Seeded(demand)[demand.key]
           lower == /\ demand.key # work[j].key /\ exact.runs >= 3
                    /\ 4 * demand.memory >= 5 * Top(PeaksOf(exact.peaks))
       IN /\ rows' = Seeded(demand)
          /\ work' = [work EXCEPT ![j].key = demand.key, ![j].profiled = profiled, ![j].memory =
                        IF lower THEN demand.memory ELSE LargerOf(@, demand.memory)]
  /\ UNCHANGED <<profiles, revision, ran, growth, upset>>

Launches(j) ==
  /\ work[j].pc = "waiting"
  /\ work' = [work EXCEPT ![j].pc = "running"]
  /\ UNCHANGED <<rows, profiles, revision, ran, growth, upset>>

Shown(w, kb, complete) ==
  IF kb > growth[w].kb THEN [kb |-> kb, later |-> 0]
  ELSE [growth[w] EXCEPT !.later = IF complete /\ @ < 3 THEN @ + 1 ELSE @]

\* A run without a profile teaches only its row.
TeachesProfile(job, kb, complete) ==
  LET w == job.key[2] IN
  IF job.profiled
  THEN /\ profiles' = [profiles EXCEPT ![w] = Profiled(@, kb, complete)]
       /\ growth' = [growth EXCEPT ![w] = Shown(w, kb, complete)]
  ELSE UNCHANGED <<profiles, growth>>

\* observe_owned: a peak above all earlier ones of the run is recorded at once.
Grows(j, kb) ==
  LET job == work[j]
  IN /\ job.pc = "running" /\ kb > job.peak
     /\ work' = [work EXCEPT ![j].peak = kb]
     /\ rows' = [rows EXCEPT ![job.key] = Recorded(@, job.prior, kb, FALSE)]
     /\ TeachesProfile(job, kb, FALSE)
     /\ UNCHANGED <<revision, ran, upset>>

\* It has ended, measured completely, and successfully; or not.
Completes(j, complete) ==
  LET job == work[j]
  IN /\ job.pc = "running" /\ job.peak > 0
     /\ work' = [work EXCEPT ![j] = NoWork]
     /\ rows' = [rows EXCEPT ![job.key] = Recorded(@, job.prior, job.peak, complete)]
     /\ TeachesProfile(job, job.peak, complete)
     /\ UNCHANGED <<revision, ran, upset>>

\* It is cancelled, or its supervisor killed: nothing more is recorded.
Vanishes(j) ==
  /\ work[j].pc # "none"
  /\ work' = [work EXCEPT ![j] = NoWork]
  /\ UNCHANGED <<rows, profiles, revision, ran, growth, upset>>

Upset == upset < Upsets /\ upset' = upset + 1

Edits ==
  /\ revision + 1 \in Revisions /\ revision' = revision + 1
  /\ Upset
  /\ UNCHANGED <<rows, profiles, work, ran, growth>>

\* Other commands have filled the 256 rows: the least recently used goes.
Forgets(k) ==
  /\ rows[k] # NoEstimate
  /\ rows' = [rows EXCEPT ![k] = NoEstimate]
  /\ Upset
  /\ UNCHANGED <<profiles, revision, work, ran, growth>>

\* The oldest complete run is more than seven days old.
Expires(w) ==
  /\ profiles[w].samples # <<>>
  /\ profiles' = [profiles EXCEPT ![w].samples = Tail(@)]
  /\ UNCHANGED <<rows, revision, work, ran, growth, upset>>

EstimatesNext ==
  \/ Edits \/ \E w \in Workers : Expires(w)
  \/ \E k \in Keys : Forgets(k)
  \/ \E j \in Jobs : \/ Requests(j) \/ Raises(j) \/ Launches(j) \/ Vanishes(j)
                     \/ \E w \in Workers : Reconsiders(j, w)
                     \/ \E kb \in Sizes : Grows(j, kb)
                     \/ \E complete \in BOOLEAN : Completes(j, complete)

EstimatesSpec == EstimatesInit /\ [][EstimatesNext]_estimatevars

(***************************************************************************)
(* Properties.                                                             *)
(***************************************************************************)
NewRequest(j) == work[j].pc = "none" /\ work'[j].pc = "waiting"
Covers(j) == work'[j].memory >= Times3Halves(growth[work'[j].key[2]].kb)

\* A new request for which compiler_profile has returned a profile covers the largest
\* peak that any earlier run of the context with a profile has shown, killed runs, edits
\* of the sources and forgotten rows notwithstanding, until three complete runs have
\* followed (compiler_profiles.py:149-150).  A request without a profile need not.
RequestCoversGrowth ==
  [][\A j \in Jobs : NewRequest(j) /\ work'[j].profiled /\ growth[work'[j].key[2]].later < 3
       => Covers(j)]_estimatevars
=============================================================================
