------------------------------ MODULE Admission ------------------------------
(***************************************************************************)
(* The timing gate of adaptive admission (libexec/admission.py): a         *)
(* controller in the registry into which every supervisor folds host       *)
(* measurements (advance), and the part of decide that looks at its times. *)
(*                                                                         *)
(* Measurements are taken without the registry lock and folded under it,   *)
(* so they arrive late and out of order; a measurement may lack its boot   *)
(* id (vm_sample gives up after two seconds); a start is decided, and then *)
(* saved, while the lock is held and the clock goes on; the registry and   *)
(* the published measurement survive a reboot, the clock does not.         *)
(* Budgets are left out: any decision may be a refusal.                    *)
(*                                                                         *)
(* Times are ticks of time.monotonic(), which starts at 1; an absent time  *)
(* is Never, as in `get(..., 0)`.                                          *)
(***************************************************************************)
EXTENDS Integers

CONSTANTS Supervisors,
          Settle,       \* 2 s: age of a sample, stabilizing, start spacing
          Recovery,     \* 6 s: the recovery window after paging or a fault
          Sustained,    \* 10 s: paging that lasts this long is sustained
          Readings,     \* what the host may show, a subset of Reading
          Unlabelled,   \* BOOLEAN: measurements may lack their boot id
          Pausing,      \* BOOLEAN: memcap may be paused, which waives the gate
          MaxTime,      \* bound on the clock of one boot
          MaxBoots      \* bound on boots

\* Pressure 1 or 2, pressure 4, or a fault; and whether pressure is 2 with at
\* least 128 MiB/s swapped out.
Reading == {r \in [state : {"ok", "critical", "fault"}, paging : BOOLEAN] :
              r.paging => r.state # "critical"}

ASSUME AdmissionAssumption ==
  /\ Readings \subseteq Reading
  /\ {Settle, Recovery, Sustained, MaxTime, MaxBoots} \subseteq Nat \ {0}
  /\ {Unlabelled, Pausing} \subseteq BOOLEAN

VARIABLES now,          \* time.monotonic()
          boot,         \* the number of this boot
          controller,   \* data["controller"] in jobs.json
          published,    \* sample.json
          held,         \* the sample each supervisor decides with
          running,      \* supervisors whose command has been started
          launch,       \* the start being performed under the lock
          started,      \* history: time of this boot's last start
          paging        \* history: see Heed

vars == <<now, boot, controller, published, held, running, launch, started, paging>>

Never == 0
NoBoot == 0
Time == 0..MaxTime
Nobody == [by |-> "nobody"]        \* the lock is not held for a launch
Nothing == [state |-> "nothing"]   \* not measured yet
Busy == [state |-> "busy"]         \* another supervisor is measuring

\* origin is the boot that measured it.
Sample == [state : {"ok", "critical", "fault"}, paging : BOOLEAN,
           stamp : 1..MaxTime, origin : 1..MaxBoots, labelled : BOOLEAN]
Label(s) == IF s.labelled THEN s.origin ELSE NoBoot

Controller == [boot_id : 0..MaxBoots, last_sample : Time,
               healthy_since : Time, cooldown_until : 0..(MaxTime + Recovery),
               paging_since : Time, last_start : Time]
NewController(b, t) ==
  [boot_id |-> b, last_sample |-> Never, healthy_since |-> t,
   cooldown_until |-> Never, paging_since |-> Never, last_start |-> Never]

Launch == [by : Supervisors, sample : Sample \cup {Nothing, Busy},
           at : 1..MaxTime, bypass : BOOLEAN]

TypeOK ==
  /\ now \in 1..MaxTime /\ boot \in 1..MaxBoots
  /\ controller \in Controller
  /\ published \in Sample \cup {Nothing}
  /\ held \in [Supervisors -> Sample \cup {Nothing, Busy}]
  /\ running \in SUBSET Supervisors
  /\ launch \in Launch \cup {Nobody}
  /\ started \in Time
  /\ paging \in [newest : Time, since : Time, until : 0..(MaxTime + Recovery)]

NoPaging == [newest |-> Never, since |-> Never, until |-> Never]

Init ==
  /\ now = 1 /\ boot = 1
  /\ controller = NewController(NoBoot, Never) /\ published = Nothing
  /\ held = [p \in Supervisors |-> Nothing]
  /\ running = {} /\ launch = Nobody
  /\ started = Never /\ paging = NoPaging

(***************************************************************************)
(* advance(controller, sample, now)                                        *)
(***************************************************************************)
\* An older observation than the newest one folded.
Stale(c, s) == /\ Label(s) = c.boot_id
               /\ c.last_sample # Never /\ s.stamp <= c.last_sample

\* Mutant: a new boot id only replaces the label and what it spaces.
RelabelledInPlace(c, s, t) ==
  IF Label(s) = c.boot_id THEN c
  ELSE [c EXCEPT !.boot_id = Label(s), !.last_start = Never]

\* Another boot id than before resets the controller.
Relabelled(c, s, t) ==
  IF Label(s) = c.boot_id THEN c ELSE NewController(Label(s), t)

Since(time, t) == IF time = Never THEN t ELSE time

\* Mutant: when the host will have settled, instead of since when it is well.
FoldedAhead(c, s, t) ==
  [c EXCEPT !.last_sample = s.stamp,
            !.healthy_since = IF s.state = "ok" THEN Since(@, t) ELSE t + Settle]

Folded(c, s, t) ==
  LET since == IF s.paging THEN Since(c.paging_since, t) ELSE Never
      sustained == s.paging /\ t - since >= Sustained
  IN [c EXCEPT
        !.last_sample = s.stamp,
        !.healthy_since = IF s.state = "ok" THEN Since(@, t) ELSE t,
        !.cooldown_until = IF s.state # "ok" \/ sustained THEN t + Recovery ELSE @,
        !.paging_since = since]

\* Mutant: the older observation is folded like any other.
AdvanceUnordered(c, s, t) ==
  IF s \in {Nothing, Busy} THEN c ELSE Folded(Relabelled(c, s, t), s, t)

\* Scheduler.observe: nothing is folded without a measurement.
Advance(c, s, t) ==
  IF s \in {Nothing, Busy} \/ Stale(c, s) THEN c
  ELSE Folded(Relabelled(c, s, t), s, t)

(***************************************************************************)
(* decide, from `now = controller["now"]` to the spacing of starts.        *)
(***************************************************************************)
Permits(c, s, t) ==
  /\ s \notin {Nothing, Busy} /\ s.state = "ok"
  /\ s.stamp <= t /\ t - s.stamp <= Settle
  /\ t >= c.cooldown_until
  /\ t - c.healthy_since >= Settle
  /\ t - c.last_start >= Settle

(***************************************************************************)
(* Measurements, taken without the registry lock.                          *)
(***************************************************************************)
Measuring(p) == held[p] = Nothing /\ launch.by # p
Hold(p, s) == held' = [held EXCEPT ![p] = s]

\* shared_sample as the elected sampler.  The swap-out rate compares two
\* published measurements of one boot id (rate).
Measure(p) ==
  /\ Measuring(p)
  /\ \E r \in Readings, labelled \in {TRUE, ~Unlabelled} :
       LET s == [state |-> r.state, paging |-> r.paging, stamp |-> now,
                 origin |-> boot, labelled |-> labelled]
       IN /\ r.paging => /\ labelled /\ published # Nothing
                         /\ published.labelled /\ published.origin = boot
          /\ Hold(p, s) /\ published' = s
  /\ UNCHANGED <<now, boot, controller, running, launch, started, paging>>

\* The measurement raises: Scheduler.measure makes up a fault.
MeasureFails(p) ==
  /\ Measuring(p) /\ Unlabelled
  /\ Hold(p, [state |-> "fault", paging |-> FALSE, stamp |-> now,
              origin |-> boot, labelled |-> FALSE])
  /\ UNCHANGED <<now, boot, controller, published, running, launch, started, paging>>

\* shared_sample's fresh(): by the clock alone.
Fresh(s) == s # Nothing /\ s.stamp <= now /\ now - s.stamp < Settle

Reuse(p) ==
  /\ Measuring(p) /\ Fresh(published)
  /\ Hold(p, published)
  /\ UNCHANGED <<now, boot, controller, published, running, launch, started, paging>>

SamplerBusy(p) ==
  /\ Measuring(p)
  /\ Hold(p, Busy)
  /\ UNCHANGED <<now, boot, controller, published, running, launch, started, paging>>

\* newer_cached_sample: a waiter adopts what was published while it waited
\* for the lock, unless it holds a fault.
Latest(p) ==
  IF /\ held[p] # Nothing /\ Fresh(published)
     /\ held[p] = Busy \/ (held[p].state # "fault" /\ published.stamp > held[p].stamp)
  THEN published ELSE held[p]

(***************************************************************************)
(* Decisions, under the registry lock.                                     *)
(***************************************************************************)
\* History: what the observations folded so far say of paging, in the order
\* they were made and whatever their labels: since when it lasts, and until
\* when the window of the last sustained one reaches.
Heed(s, t) ==
  IF s \in {Nothing, Busy} \/ s.stamp <= paging.newest THEN paging
  ELSE LET since == IF s.paging THEN Since(paging.since, t) ELSE Never
       IN [newest |-> s.stamp, since |-> since,
           until |-> IF s.paging /\ t - since >= Sustained THEN t + Recovery
                     ELSE paging.until]

Save(s, t) == controller' = Advance(controller, s, t) /\ paging' = Heed(s, t)

\* A running job's supervisor folds what it holds.
Observe(p) ==
  /\ p \in running /\ launch = Nobody /\ held[p] # Nothing
  /\ Save(held[p], now) /\ Hold(p, Nothing)
  /\ UNCHANGED <<now, boot, published, running, launch, started>>

Waits(p) == p \notin running /\ launch = Nobody /\ held[p] # Nothing

Deny(p) ==
  /\ Waits(p)
  /\ Save(Latest(p), now) /\ Hold(p, Nothing)
  /\ UNCHANGED <<now, boot, published, running, launch, started>>

\* Cancelled, expired or failed: the registry is not saved.
GiveUp(p) ==
  /\ Waits(p)
  /\ Hold(p, Nothing)
  /\ UNCHANGED <<now, boot, controller, published, running, launch, started, paging>>

Begin(p, s, bypass) ==
  /\ launch' = [by |-> p, sample |-> s, at |-> now, bypass |-> bypass]
  /\ Hold(p, Nothing)
  /\ UNCHANGED <<now, boot, controller, published, running, started, paging>>

Admit(p) ==
  /\ Waits(p)
  /\ Permits(Advance(controller, Latest(p), now), Latest(p), now)
  /\ Begin(p, Latest(p), FALSE)

\* memcap is paused; a request that saw the pause earlier measured nothing.
Bypass(p) ==
  /\ Pausing /\ p \notin running /\ launch = Nobody
  /\ Begin(p, Latest(p), TRUE)

\* launch: last_start, save, and the gate byte.
Start ==
  /\ launch # Nobody
  /\ controller' = [Advance(controller, launch.sample, launch.at)
                      EXCEPT !.last_start = now]
  /\ paging' = Heed(launch.sample, launch.at)
  /\ running' = running \cup {launch.by}
  /\ started' = now /\ launch' = Nobody
  /\ UNCHANGED <<now, boot, published, held>>

\* The launch is withheld, or its supervisor dies.
StartFails ==
  /\ launch # Nobody /\ launch' = Nobody
  /\ UNCHANGED <<now, boot, controller, published, held, running, started, paging>>

(***************************************************************************)
(* The environment.                                                        *)
(***************************************************************************)
\* The command ends; its place is taken by another request.
Ends(p) ==
  /\ p \in running
  /\ running' = running \ {p} /\ Hold(p, Nothing)
  /\ UNCHANGED <<now, boot, controller, published, launch, started, paging>>

Tick ==
  /\ now < MaxTime /\ now' = now + 1
  /\ UNCHANGED <<boot, controller, published, held, running, launch, started, paging>>

\* Only files survive, and the clock starts again.
Reboot ==
  /\ boot < MaxBoots /\ boot' = boot + 1 /\ now' = 1
  /\ held' = [p \in Supervisors |-> Nothing]
  /\ running' = {} /\ launch' = Nobody
  /\ started' = Never /\ paging' = NoPaging
  /\ UNCHANGED <<controller, published>>

Next ==
  \/ Tick \/ Reboot \/ Start \/ StartFails
  \/ \E p \in Supervisors :
       \/ Measure(p) \/ MeasureFails(p) \/ Reuse(p) \/ SamplerBusy(p)
       \/ Observe(p) \/ Deny(p) \/ GiveUp(p) \/ Admit(p) \/ Bypass(p) \/ Ends(p)

Spec == Init /\ [][Next]_vars

(***************************************************************************)
(* Properties.                                                             *)
(***************************************************************************)
\* A start that passed the gate (no pause waived it).
Gated == launch # Nobody /\ ~launch.bypass /\ launch.by \in running' \ running

\* Starts are spaced by at least two seconds across all sessions: a gated one
\* comes that long after any start before it, although a change of boot id
\* forgets last_start and a start is saved later than it is decided.
StartSpacing == [][Gated /\ started # Never => now - started >= Settle]_vars

\* Sustained paging adds a recovery window: no gated start before its end,
\* whoever saw the paging and in whatever order observations arrive.
RecoveryWindow == [][Gated => now >= paging'.until]_vars
=============================================================================
