------------------------------ MODULE Allowance ------------------------------
(***************************************************************************)
(* How much memory is set aside for a running job (scheduler.py,           *)
(* reservation, observe, observe_owned): the estimate it started with,     *)
(* then what is observed.  Its own supervisor and the waiters apply        *)
(* samples to the same entry, late, twice, partial or failed.  Times are   *)
(* in units of 5 seconds, so that the 60 seconds of the window and the 30  *)
(* of the start are Window and Startup; a sample is fresh in the unit it   *)
(* was taken in.  Usages are in units of a quarter of GIB.                 *)
(***************************************************************************)
EXTENDS Integers, FiniteSets, FiniteSetsExt

CONSTANTS Usages,     \* what a job may use
          Request,    \* memory_kb
          Window, Startup, Horizon

ASSUME AllowanceAssumption ==
  /\ Usages \subseteq Nat /\ IsFiniteSet(Usages) /\ 0 \in Usages /\ Request \in Nat
  /\ Window \in Nat /\ Startup \in Nat /\ Horizon \in Nat

VARIABLES kind,       \* an explicit request, or an estimate and the policy
          clock,
          share,      \* the entry: its allowance and the evidence for it
          host,       \* the sample that is published
          grown       \* what was measured at each time, and applied in time

allowvars == <<kind, clock, share, host, grown>>

LeastShare == 2                                 \* GIB // 2
Unknown == -1                                   \* no admission_peak_kb
Larger(m, n) == IF m > n THEN m ELSE n
Quarter(kb) == (kb * 5) \div 4               \* int(kb * 1.25)

\* A job is given at most what it asked for, or five quarters of the most that a job
\* uses, in whole fives; a peak is at most four parts of these five.
Largest == Max(Usages)
Part == Max({(Request + 4) \div 5, (Largest + 3) \div 4, 1})
Ceiling == 5 * Part
Highest == 4 * Part

Reading == [at : 0..Horizon, kb : Usages, complete : BOOLEAN, fault : BOOLEAN, busy : BOOLEAN]
Busy == [at |-> 0, kb |-> 0, complete |-> FALSE, fault |-> FALSE, busy |-> TRUE]

AllowanceTypeOK ==
  /\ kind \in {"explicit", "strict", "adaptive"}
  /\ clock \in 0..Horizon /\ host \in Reading
  /\ share \in [reserve : 0..Ceiling, peak : Usages, floor : Unknown..Highest,
                window : SUBSET [at : 0..Horizon, kb : 0..Highest],
                since : 0..Horizon, last : 0..Horizon, orphaned : BOOLEAN, recovery : BOOLEAN]
  /\ grown \in [0..Horizon -> Usages]

AllowanceInit ==
  /\ kind \in {"explicit", "strict", "adaptive"}
  /\ clock = 0 /\ host = Busy
  /\ share = [reserve |-> Request, peak |-> 0, floor |-> Unknown, window |-> {}, since |-> 0,
              last |-> 0, orphaned |-> FALSE, recovery |-> FALSE]
  /\ grown = [t \in 0..Horizon |-> 0]

(***************************************************************************)
(* reservation                                                             *)
(***************************************************************************)
Uncertain(job) == job.orphaned /\ ~job.recovery

\* Mutant: the margin is added to the allowance itself, sample after sample.
CarriedUp(job, kb) ==
  IF kind = "adaptive" /\ job.floor # Unknown
  THEN Max({job.floor, kb, Quarter(job.reserve)})
  ELSE Unknown

\* An allowance that was once reduced is carried forward, with partial growth.
Carried(job, kb) ==
  IF kind = "adaptive" /\ job.floor # Unknown
  THEN Max({job.floor, kb, (job.reserve * 4 + 4) \div 5})
  ELSE Unknown

\* reservation_window as a set, as no two rows are of the same time.
Newest(window) == CHOOSE row \in window : \A other \in window : other.at <= row.at

\* The first sample, or the first after a gap.
Restarted(window, at) == window = {} \/ at > Newest(window).at + 1 \/ at + 1 < Newest(window).at

\* Mutant: a sample that is late starts the window again.
WindowRestarts(window, at, kb, peak) ==
  LET longer == IF window = {} THEN {[at |-> at, kb |-> peak]}
                ELSE IF at > Newest(window).at THEN window \cup {[at |-> at, kb |-> kb]}
                ELSE {[at |-> at, kb |-> kb]}
  IN {row \in longer : row.at >= at - Window}

\* The window goes on unless there was a gap; what it had before is its peak.
Windowed(window, at, kb, peak) ==
  LET newest == Newest(window)
      longer == IF Restarted(window, at) THEN {[at |-> at, kb |-> peak]}
                ELSE IF at > newest.at THEN window \cup {[at |-> at, kb |-> kb]}
                ELSE (window \ {newest}) \cup {[newest EXCEPT !.kb = Larger(@, kb)]}
  IN {row \in longer : row.at >= at - Window}

\* The same outside the policy "adaptive": the peak of the lifetime.
ReservedStrict(kept, base, s) ==
  LET peak == Larger(kept.peak, s.kb)
      padded == IF clock >= Startup THEN Larger(LeastShare, Quarter(peak)) ELSE Larger(base, Quarter(peak))
  IN [kept EXCEPT !.peak = peak, !.window = {}, !.reserve = Larger(s.kb, padded)]

Reserved(job, s) ==
  LET base == IF kind # "adaptive" \/ Uncertain(job) THEN Larger(Request, job.reserve) ELSE job.reserve
      carried == Carried([job EXCEPT !.reserve = base], s.kb)
      kept == [job EXCEPT !.floor = carried, !.reserve = Larger(base, s.kb)]
      peak == IF carried # Unknown THEN carried ELSE Larger(s.kb, job.peak)
      since == IF Restarted(job.window, s.at) THEN s.at ELSE job.since
      window == Windowed(job.window, s.at, s.kb, peak)
      full == s.at - since > Window
      high == IF full THEN Max({row.kb : row \in window}) ELSE peak
      seen == [job EXCEPT !.peak = Larger(@, s.kb), !.floor = IF full THEN high ELSE carried,
                          !.window = window, !.since = since]
  IN IF kind = "explicit" \/ Uncertain(job) \/ ~s.complete \/ s.fault
     THEN [kept EXCEPT !.window = IF s.busy THEN @ ELSE {}]
     ELSE IF kind = "strict" THEN ReservedStrict(kept, base, s)
     ELSE IF clock > s.at        \* no longer fresh
     THEN [kept EXCEPT !.peak = Larger(@, s.kb), !.reserve = Larger(@, Quarter(s.kb))]
     ELSE [seen EXCEPT !.reserve = Larger(s.kb, IF clock >= Startup THEN Larger(LeastShare, Quarter(high))
                                                ELSE Larger(base, Quarter(high)))]

(***************************************************************************)
(* The observers.                                                          *)
(***************************************************************************)
\* What a sample may say: of all processes, of some, or nothing that counts.
Taken(at) == {s \in [at : {at}, kb : Usages, complete : BOOLEAN, fault : BOOLEAN, busy : {FALSE}] :
                s.complete => ~s.fault}

Applied(s) ==
  grown' = IF s.fault \/ clock > s.at THEN grown ELSE [grown EXCEPT ![s.at] = Larger(@, s.kb)]

\* observe_owned: the supervisor has read its processes, a while before it got
\* the lock.  Growth counts even if the sample is not complete.
ObserveOwned ==
  /\ ~share.orphaned
  /\ \E late \in {0, 1} : late <= clock /\ \E s \in Taken(clock - late) :
       /\ share' = Reserved([share EXCEPT !.peak = Larger(@, s.kb)], [s EXCEPT !.fault = ~s.complete])
       /\ Applied(s)
  /\ UNCHANGED <<kind, clock, host>>

\* The shared sampler publishes.
PublishSample ==
  /\ clock > host.at
  /\ host' \in Taken(clock)
  /\ UNCHANGED <<kind, clock, share, grown>>

\* observe: every host sample once.
Observed(job, s) ==
  LET next == Reserved([job EXCEPT !.last = s.at], s)
  IN IF s.busy \/ s.at <= job.last THEN job
     ELSE IF s.fault THEN next
     ELSE [next EXCEPT !.peak = Larger(@, s.kb)]

\* A waiter with the lock applies the newest sample if it is fresh (latest_sample),
\* otherwise what it holds, an older one or none: observe, then admissible, which
\* reserves as often as it is asked.
HostRound ==
  /\ \E s \in {host, Busy} \cup (IF clock > 0 THEN Taken(clock - 1) ELSE {}) :
       /\ share' = Reserved(Observed(share, s), s) /\ share' # share
       /\ Applied(s)
  /\ UNCHANGED <<kind, clock, host>>

(***************************************************************************)
(* The supervisor, and time.                                               *)
(***************************************************************************)
\* The supervisor is gone; the watchdog recovers the job, or no longer does.
Orphaned == /\ share' = IF share.orphaned THEN [share EXCEPT !.recovery = ~@]
                        ELSE [share EXCEPT !.orphaned = TRUE]
            /\ UNCHANGED <<kind, clock, host, grown>>

\* What was measured more than a window ago need not be covered any more.
AllowanceTick == /\ clock < Horizon /\ clock' = clock + 1
                 /\ grown' = [t \in 0..Horizon |-> IF clock' - t > Window THEN 0 ELSE grown[t]]
                 /\ UNCHANGED <<kind, share, host>>

AllowanceNext == ObserveOwned \/ PublishSample \/ HostRound \/ Orphaned \/ AllowanceTick

AllowanceSpec == AllowanceInit /\ [][AllowanceNext]_allowvars

(***************************************************************************)
(* Properties.                                                             *)
(***************************************************************************)
\* scheduler.py:669-672, 677-680: an allowance that may shrink still covers
\* every peak of the last minute that was measured and applied in time, through
\* gaps, failures, samples that overtake each other and a lost supervisor; and an
\* explicit request is never reduced.
AllowanceCoversPeaks ==
  /\ \A t \in 0..Horizon : grown[t] <= share.reserve
  /\ kind = "explicit" => share.reserve >= Request
=============================================================================
