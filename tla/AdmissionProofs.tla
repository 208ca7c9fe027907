--------------------------- MODULE AdmissionProofs ---------------------------
(***************************************************************************)
(* Admission: type correctness, the spacing of starts, and, while no       *)
(* measurement lacks its boot id, the recovery window.                     *)
(***************************************************************************)
EXTENDS Admission, TLAPS

LEMMA Constants ==
  /\ Settle \in Nat \ {0} /\ Recovery \in Nat \ {0} /\ Sustained \in Nat \ {0}
  /\ MaxTime \in Nat \ {0} /\ MaxBoots \in Nat \ {0}
  /\ Readings \subseteq Reading
  /\ Unlabelled \in BOOLEAN /\ Pausing \in BOOLEAN
BY AdmissionAssumption

Maybe == Sample \cup {Nothing, Busy}

(* Absent measurements are told from samples by their state.               *)
LEMMA SampleIsSomething ==
  /\ Nothing # Busy
  /\ \A s \in Sample : s \notin {Nothing, Busy}
<1>1. Nothing.state = "nothing" /\ Busy.state = "busy"
  BY DEF Nothing, Busy
<1>2. \A s \in Sample : s.state \in {"ok", "critical", "fault"}
  BY DEF Sample
<1> QED BY <1>1, <1>2

(* A change of label yields a controller.                                  *)
LEMMA RelabelledType ==
  ASSUME NEW c \in Controller, NEW s \in Sample, NEW t \in 1..MaxTime
  PROVE  Relabelled(c, s, t) \in Controller
<1>1. Label(s) \in 0..MaxBoots
  BY Constants DEF Label, Sample, NoBoot
<1> QED
  BY <1>1, Constants DEF Relabelled, Controller, NewController, Time, Never

(* What folding a measurement leaves in each field.                        *)
LEMMA FoldedFields ==
  ASSUME NEW d \in Controller, NEW s \in Sample, NEW t \in 1..MaxTime
  PROVE  LET f == Folded(d, s, t) IN
         /\ f \in Controller
         /\ f.boot_id = d.boot_id /\ f.last_start = d.last_start
         /\ f.last_sample = s.stamp
         /\ f.healthy_since \in {d.healthy_since, t}
         /\ f.paging_since = IF s.paging THEN Since(d.paging_since, t) ELSE Never
         /\ f.cooldown_until =
              IF \/ s.state # "ok"
                 \/ s.paging /\ t - Since(d.paging_since, t) >= Sustained
              THEN t + Recovery ELSE d.cooldown_until
<1>1. s.stamp \in Time /\ Since(d.paging_since, t) \in Time
      /\ Since(d.healthy_since, t) \in Time /\ t \in Time /\ Never \in Time
      /\ t + Recovery \in 0..(MaxTime + Recovery)
      /\ d.cooldown_until \in 0..(MaxTime + Recovery)
  BY Constants DEF Sample, Since, Controller, Time, Never
<1>2. Since(d.healthy_since, t) \in {d.healthy_since, t}
  BY DEF Since
<1> QED BY <1>1, <1>2 DEF Folded, Controller

(* Folding a measurement yields a controller.                              *)
LEMMA AdvanceType ==
  ASSUME NEW c \in Controller, NEW s \in Maybe, NEW t \in 1..MaxTime
  PROVE  Advance(c, s, t) \in Controller
BY RelabelledType, FoldedFields DEF Advance, Maybe

Paging == [newest : Time, since : Time, until : 0..(MaxTime + Recovery)]

(* So does the history of paging.                                          *)
LEMMA HeedType ==
  ASSUME paging \in Paging, NEW s \in Maybe, NEW t \in 1..MaxTime
  PROVE  Heed(s, t) \in Paging
<1> USE Constants
<1>1. CASE s \in {Nothing, Busy} \/ s.stamp <= paging.newest
  BY <1>1 DEF Heed
<1>2. CASE ~(s \in {Nothing, Busy} \/ s.stamp <= paging.newest)
  <2>1. s.stamp \in Time /\ Since(paging.since, t) \in Time /\ Never \in Time
        /\ t + Recovery \in 0..(MaxTime + Recovery)
    BY <1>2 DEF Maybe, Sample, Since, Paging, Time, Never
  <2> QED BY <1>2, <2>1 DEF Heed, Paging
<1> QED BY <1>1, <1>2

LEMMA TypedInitially == Init => TypeOK
BY AdmissionAssumption
   DEF Init, TypeOK, Controller, NewController, NoPaging, Time, Never, NoBoot

(* What a waiter decides with.                                             *)
LEMMA LatestType ==
  ASSUME TypeOK, NEW p \in Supervisors
  PROVE  Latest(p) \in Maybe
BY DEF TypeOK, Latest, Maybe

(* What a measurement puts into a supervisor's hands.                      *)
LEMMA MeasuredIsSample ==
  ASSUME now \in 1..MaxTime, boot \in 1..MaxBoots,
         NEW r \in Reading, NEW labelled \in BOOLEAN
  PROVE  [state |-> r.state, paging |-> r.paging, stamp |-> now,
          origin |-> boot, labelled |-> labelled] \in Sample
BY DEF Reading, Sample

LEMMA TypedInductive == TypeOK /\ [Next]_vars => TypeOK'
<1> SUFFICES ASSUME TypeOK, [Next]_vars PROVE TypeOK'
  OBVIOUS
<1> USE Constants
<1> DEFINE Samples == Sample \cup {Nothing, Busy}
<1>1. CASE Tick
  BY <1>1 DEF Tick, TypeOK
<1>2. CASE Reboot
  BY <1>2 DEF Reboot, NoPaging, Time, Never, TypeOK
<1>3. CASE Start
  <2> DEFINE c == Advance(controller, launch.sample, launch.at)
  <2>1. launch \in Launch /\ now \in Time
    BY <1>3 DEF Start, TypeOK, Time
  <2>2. launch.sample \in Maybe /\ launch.by \in Supervisors /\ launch.at \in 1..MaxTime
    BY <2>1 DEF Launch, Maybe
  <2>3. c \in Controller
    BY <2>2, AdvanceType DEF TypeOK
  <2>4. Heed(launch.sample, launch.at) \in Paging
    BY <2>2, HeedType DEF TypeOK, Paging
  <2> HIDE DEF c
  <2>5. [c EXCEPT !.last_start = now] \in Controller
    BY <2>1, <2>3 DEF Controller
  <2> QED BY <1>3, <2>1, <2>2, <2>4, <2>5 DEF Start, TypeOK, Paging, c
<1>4. CASE StartFails
  BY <1>4 DEF StartFails, TypeOK
<1>5. ASSUME NEW p \in Supervisors, NEW s \in Samples, Hold(p, s)
      PROVE  held' \in [Supervisors -> Samples]
  BY <1>5 DEF Hold, TypeOK
<1>6. ASSUME NEW p \in Supervisors, NEW s \in Samples, Save(s, now)
      PROVE  controller' \in Controller /\ paging' \in Paging
  BY <1>6, AdvanceType, HeedType DEF Save, TypeOK, Maybe, Paging
<1>7. ASSUME NEW p \in Supervisors, Measure(p) PROVE TypeOK'
  <2>1. PICK r \in Readings, labelled \in {TRUE, ~Unlabelled} :
          LET s == [state |-> r.state, paging |-> r.paging, stamp |-> now,
                    origin |-> boot, labelled |-> labelled]
          IN Hold(p, s) /\ published' = s
    BY <1>7 DEF Measure
  <2> DEFINE s == [state |-> r.state, paging |-> r.paging, stamp |-> now,
                   origin |-> boot, labelled |-> labelled]
  <2>2. s \in Sample
    BY MeasuredIsSample DEF TypeOK
  <2>3. Hold(p, s) /\ published' = s
    BY <2>1
  <2> HIDE DEF s
  <2>4. held' \in [Supervisors -> Samples]
    BY <1>5, <2>2, <2>3
  <2> QED BY <1>7, <2>2, <2>3, <2>4 DEF Measure, TypeOK
<1>8. ASSUME NEW p \in Supervisors, MeasureFails(p) PROVE TypeOK'
  <2> DEFINE s == [state |-> "fault", paging |-> FALSE, stamp |-> now,
                   origin |-> boot, labelled |-> FALSE]
  <2>1. s \in Sample
    BY DEF TypeOK, Sample
  <2>2. Hold(p, s)
    BY <1>8 DEF MeasureFails
  <2> HIDE DEF s
  <2>3. held' \in [Supervisors -> Samples]
    BY <1>5, <2>1, <2>2
  <2> QED BY <1>8, <2>3 DEF MeasureFails, TypeOK
<1>9. ASSUME NEW p \in Supervisors, Reuse(p) PROVE TypeOK'
  <2>1. held' \in [Supervisors -> Samples]
    BY <1>5, <1>9 DEF Reuse, TypeOK
  <2> QED BY <1>9, <2>1 DEF Reuse, TypeOK
<1>10. ASSUME NEW p \in Supervisors, SamplerBusy(p) PROVE TypeOK'
  <2>1. held' \in [Supervisors -> Samples]
    BY <1>5, <1>10 DEF SamplerBusy
  <2> QED BY <1>10, <2>1 DEF SamplerBusy, TypeOK
<1>11. ASSUME NEW p \in Supervisors, Observe(p) PROVE TypeOK'
  <2>1. held' \in [Supervisors -> Samples]
    BY <1>5, <1>11 DEF Observe
  <2>2. controller' \in Controller /\ paging' \in Paging
    BY <1>6, <1>11 DEF Observe, TypeOK
  <2> QED BY <1>11, <2>1, <2>2 DEF Observe, TypeOK, Paging
<1>12. ASSUME NEW p \in Supervisors, Deny(p) PROVE TypeOK'
  <2>1. held' \in [Supervisors -> Samples]
    BY <1>5, <1>12 DEF Deny
  <2>2. controller' \in Controller /\ paging' \in Paging
    BY <1>6, <1>12, LatestType DEF Deny, Maybe
  <2> QED BY <1>12, <2>1, <2>2 DEF Deny, TypeOK, Paging
<1>13. ASSUME NEW p \in Supervisors, GiveUp(p) PROVE TypeOK'
  <2>1. held' \in [Supervisors -> Samples]
    BY <1>5, <1>13 DEF GiveUp
  <2> QED BY <1>13, <2>1 DEF GiveUp, TypeOK
<1>14. ASSUME NEW p \in Supervisors, NEW bypass \in BOOLEAN, Begin(p, Latest(p), bypass)
       PROVE  TypeOK'
  <2>1. held' \in [Supervisors -> Samples]
    BY <1>5, <1>14 DEF Begin
  <2>2. launch' \in Launch
    BY <1>14, LatestType DEF Begin, Launch, Maybe, TypeOK
  <2> QED BY <1>14, <2>1, <2>2 DEF Begin, TypeOK
<1>15. ASSUME NEW p \in Supervisors, Ends(p) PROVE TypeOK'
  <2>1. held' \in [Supervisors -> Samples]
    BY <1>5, <1>15 DEF Ends
  <2> QED BY <1>15, <2>1 DEF Ends, TypeOK
<1>16. CASE UNCHANGED vars
  BY <1>16 DEF vars, TypeOK
<1> QED
  BY <1>1, <1>2, <1>3, <1>4, <1>7, <1>8, <1>9, <1>10, <1>11, <1>12, <1>13, <1>14,
     <1>15, <1>16 DEF Next, Admit, Bypass

(* The state of the admission gate always has its types.                   *)
THEOREM Typed == Spec => []TypeOK
BY TypedInitially, TypedInductive, PTL DEF Spec

(***************************************************************************)
(* The spacing of starts.                                                  *)
(***************************************************************************)
\* The controller still keeps starts away from the last one: by its time, or
\* because it was reset since and must first settle.
Remembers(c) == c.last_start = started \/ c.healthy_since >= started

Spaced ==
  /\ started # Never => started <= now /\ Remembers(controller)
  /\ launch # Nobody /\ ~launch.bypass /\ started # Never
       => launch.at <= now /\ launch.at - started >= Settle

(* Folding a measurement does not make the controller forget.              *)
LEMMA AdvanceRemembers ==
  ASSUME NEW c \in Controller, NEW s \in Maybe, NEW t \in 1..MaxTime,
         started \in Time, started <= t, Remembers(c)
  PROVE  Remembers(Advance(c, s, t))
<1>1. CASE s \in {Nothing, Busy} \/ Stale(c, s)
  BY <1>1 DEF Advance
<1>2. CASE ~(s \in {Nothing, Busy} \/ Stale(c, s))
  <2> DEFINE d == Relabelled(c, s, t)
  <2>1. s \in Sample
    BY <1>2 DEF Maybe
  <2>2. d \in Controller
    BY <2>1, RelabelledType
  <2>3. Remembers(d)
    BY DEF Relabelled, Remembers, NewController
  <2> HIDE DEF d
  <2>4. Remembers(Folded(d, s, t))
    BY <2>1, <2>2, <2>3, FoldedFields DEF Remembers
  <2> QED BY <1>2, <2>4 DEF Advance, d
<1> QED BY <1>1, <1>2

LEMMA SpacedInductive == TypeOK /\ Spaced /\ [Next]_vars => Spaced'
<1> SUFFICES ASSUME TypeOK, Spaced, [Next]_vars PROVE Spaced'
  OBVIOUS
<1> USE Constants
<1>1. now \in 1..MaxTime /\ started \in Time /\ controller \in Controller
      /\ launch \in Launch \cup {Nobody}
  BY DEF TypeOK
<1>2. CASE Tick
  BY <1>1, <1>2 DEF Tick, Spaced, Remembers, Time, Launch, Controller
<1>3. CASE Reboot
  BY <1>3 DEF Reboot, Spaced
<1>4. CASE Start
  <2> DEFINE c == Advance(controller, launch.sample, launch.at)
  <2>1. launch \in Launch
    BY <1>1, <1>4 DEF Start
  <2>2. c \in Controller
    BY <1>1, <2>1, AdvanceType DEF Launch, Maybe
  <2> HIDE DEF c
  <2>3. controller' = [c EXCEPT !.last_start = now] /\ started' = now /\ now' = now
        /\ launch' = Nobody
    BY <1>4 DEF Start, c
  <2>4. controller'.last_start = started'
    BY <2>2, <2>3 DEF Controller
  <2> QED BY <1>1, <2>3, <2>4 DEF Spaced, Remembers
<1>5. CASE StartFails
  BY <1>5 DEF StartFails, Spaced, Remembers
<1>6. ASSUME NEW s \in Maybe, Save(s, now), UNCHANGED <<now, launch, started>>
      PROVE  Spaced'
  <2>1. started # Never => Remembers(controller')
    BY <1>1, <1>6, AdvanceRemembers DEF Save, Spaced, Remembers
  <2> QED BY <1>6, <2>1 DEF Spaced, Remembers
<1>7. ASSUME NEW p \in Supervisors, Observe(p) \/ Deny(p) PROVE Spaced'
  <2>1. PICK s \in Maybe : Save(s, now)
    BY <1>7, LatestType DEF Observe, Deny, TypeOK, Maybe
  <2> QED BY <1>6, <1>7, <2>1 DEF Observe, Deny
<1>8. ASSUME NEW p \in Supervisors, Admit(p) PROVE Spaced'
  <2> DEFINE c == Advance(controller, Latest(p), now)
  <2>1. Latest(p) \in Maybe
    BY LatestType
  <2>2. c \in Controller /\ (started # Never => Remembers(c))
    BY <1>1, <2>1, AdvanceType, AdvanceRemembers DEF Spaced
  <2>3. now - c.healthy_since >= Settle /\ now - c.last_start >= Settle
    BY <1>8 DEF Admit, Permits
  <2> HIDE DEF c
  <2>4. started # Never => now - started >= Settle
    BY <1>1, <2>2, <2>3 DEF Remembers, Controller, Time
  <2>5. launch'.at = now /\ UNCHANGED <<now, started, controller>>
    BY <1>8 DEF Admit, Begin
  <2> QED BY <1>1, <2>4, <2>5 DEF Spaced, Remembers
<1>9. ASSUME NEW p \in Supervisors, Bypass(p) PROVE Spaced'
  <2>1. launch'.bypass = TRUE /\ UNCHANGED <<now, started, controller>>
    BY <1>9 DEF Bypass, Begin
  <2> QED BY <2>1 DEF Spaced, Remembers
<1>10. CASE UNCHANGED <<now, controller, launch, started>>
  BY <1>10 DEF Spaced, Remembers
<1> QED
  BY <1>2, <1>3, <1>4, <1>5, <1>7, <1>8, <1>9, <1>10
     DEF Next, vars, Measure, MeasureFails, Reuse, SamplerBusy, GiveUp, Ends

(* A start that passed the gate comes at least Settle after any start      *)
(* before it in the same boot.                                             *)
THEOREM StartsAreSpaced == Spec => StartSpacing
<1>1. Init => Spaced
  BY DEF Init, Spaced, Never, Nobody
<1>2. TypeOK /\ Spaced /\ [Next]_vars
        => [Gated /\ started # Never => now - started >= Settle]_vars
  <2> SUFFICES ASSUME TypeOK, Spaced, Gated, started # Never
               PROVE  now - started >= Settle
    OBVIOUS
  <2>1. now \in Nat /\ started \in Nat /\ launch \in Launch /\ launch.at \in Nat
    BY Constants DEF TypeOK, Gated, Time, Launch
  <2> QED BY <2>1, Constants DEF Spaced, Gated
<1>3. Spec => []TypeOK /\ []Spaced /\ [][Next]_vars
  BY <1>1, TypedInitially, TypedInductive, SpacedInductive, PTL DEF Spec
<1>4. []TypeOK /\ []Spaced /\ [][Next]_vars
        => [][Gated /\ started # Never => now - started >= Settle]_vars
  BY <1>2, PTL
<1> QED BY <1>3, <1>4 DEF StartSpacing

(***************************************************************************)
(* The recovery window, while every measurement has the one boot id.       *)
(***************************************************************************)
OneLabel == ~Unlabelled /\ MaxBoots = 1

LabelledAll ==
  \A s \in {published} \cup {held[p] : p \in Supervisors} :
    s \in Sample => s.labelled

\* The controller knows of paging what the observations, in order, say.
Mirrors(c, h) ==
  /\ c.boot_id = NoBoot => h = NoPaging
  /\ c.boot_id # NoBoot => /\ c.last_sample = h.newest /\ h.newest # Never
                           /\ c.paging_since = h.since
                           /\ c.cooldown_until >= h.until

Windowed ==
  /\ LabelledAll
  /\ Mirrors(controller, paging) /\ paging.until <= now + Recovery
  /\ launch # Nobody =>
       /\ launch.sample \in Sample => launch.sample.labelled
       /\ launch.at <= now /\ paging.until <= launch.at + Recovery
       /\ ~launch.bypass => launch.at >= Heed(launch.sample, launch.at).until

(* With one label, an observation is folded into the controller exactly    *)
(* when it is newer than those that were.                                  *)
LEMMA AdvanceMirrors ==
  ASSUME OneLabel, NEW c \in Controller, paging \in Paging,
         Mirrors(c, paging),
         NEW s \in Maybe, s \in Sample => s.labelled,
         NEW t \in 1..MaxTime, paging.until <= t + Recovery
  PROVE  /\ Mirrors(Advance(c, s, t), Heed(s, t))
         /\ Heed(s, t).until <= t + Recovery
         /\ s \in Sample => Advance(c, s, t).boot_id # NoBoot
<1> USE Constants
<1>1. CASE s \in {Nothing, Busy}
  BY <1>1, SampleIsSomething DEF Advance, Heed
<1>2. CASE s \in Sample
  <2>1. Label(s) = 1 /\ s.stamp \in Nat \ {0} /\ s \notin {Nothing, Busy}
        /\ s.paging \in BOOLEAN
    BY <1>2, SampleIsSomething DEF OneLabel, Label, Sample
  <2>2. c.boot_id \in {NoBoot, 1} /\ c.last_sample \in Nat /\ c.cooldown_until \in Nat
        /\ c.paging_since \in Nat
    BY DEF OneLabel, Controller, NoBoot, Time
  <2>3. CASE Stale(c, s)
    <3>1. Advance(c, s, t) = c /\ c.boot_id = 1 /\ s.stamp <= c.last_sample
      BY <2>1, <2>3 DEF Advance, Stale
    <3>2. Heed(s, t) = paging
      BY <3>1 DEF Heed, Mirrors, NoBoot
    <3> QED BY <3>1, <3>2 DEF NoBoot
  <2>4. CASE ~Stale(c, s)
    <3> DEFINE d == Relabelled(c, s, t)
               f == Folded(d, s, t)
               since == IF s.paging THEN Since(paging.since, t) ELSE Never
    <3>1. Advance(c, s, t) = f
      BY <2>1, <2>4 DEF Advance
    <3>2. d \in Controller /\ d.boot_id = 1 /\ d.paging_since = paging.since
          /\ d.cooldown_until >= paging.until
      BY <1>2, <2>1, <2>2, RelabelledType
         DEF Relabelled, NewController, Mirrors, NoPaging, NoBoot, Never
    <3>3. s.stamp > paging.newest /\ paging.newest \in Nat
      BY <2>1, <2>2, <2>4 DEF Stale, Mirrors, NoPaging, NoBoot, Never, Paging, Time
    <3>4. Heed(s, t) = [newest |-> s.stamp, since |-> since,
                        until |-> IF s.paging /\ t - since >= Sustained
                                  THEN t + Recovery ELSE paging.until]
      BY <2>1, <3>3 DEF Heed
    <3>5. /\ f.boot_id = 1 /\ f.last_sample = s.stamp /\ f.paging_since = since
          /\ f.cooldown_until = IF s.state # "ok" \/ (s.paging /\ t - since >= Sustained)
                                THEN t + Recovery ELSE d.cooldown_until
      <4> HIDE DEF d
      <4> QED BY <1>2, <3>2, FoldedFields
    <3> HIDE DEF d, f, since
    <3>6. paging.until \in Nat /\ d.cooldown_until \in Nat /\ t \in Nat
      BY <3>2 DEF Paging, Controller
    <3> QED BY <2>1, <3>1, <3>2, <3>4, <3>5, <3>6 DEF Mirrors, NoBoot, Never
  <2> QED BY <2>3, <2>4
<1> QED BY <1>1, <1>2 DEF Maybe

LEMMA WindowedInductive ==
  ASSUME OneLabel PROVE TypeOK /\ Windowed /\ [Next]_vars => Windowed'
<1> SUFFICES ASSUME TypeOK, Windowed, [Next]_vars PROVE Windowed'
  OBVIOUS
<1> USE Constants
<1>1. /\ now \in 1..MaxTime /\ controller \in Controller /\ paging \in Paging
      /\ launch \in Launch \cup {Nobody} /\ paging.until \in Nat
      /\ held \in [Supervisors -> Maybe]
  BY DEF TypeOK, Paging, Maybe
<1>2. CASE Tick
  <2>1. UNCHANGED <<controller, published, held, launch, paging>> /\ now' = now + 1
    BY <1>2 DEF Tick
  <2>2. launch # Nobody => launch.at \in Nat
    BY <1>1 DEF Launch
  <2> QED BY <1>1, <2>1, <2>2 DEF Windowed, LabelledAll, Heed
<1>3. CASE Reboot
  BY <1>3 DEF Reboot, OneLabel, TypeOK
<1>4. CASE Start
  <2> DEFINE c == Advance(controller, launch.sample, launch.at)
  <2>1. launch \in Launch /\ launch.sample \in Maybe /\ launch.at \in 1..MaxTime
        /\ launch.at <= now
    BY <1>1, <1>4 DEF Start, Launch, Maybe, Windowed
  <2>2. c \in Controller /\ Mirrors(c, Heed(launch.sample, launch.at))
        /\ Heed(launch.sample, launch.at).until <= launch.at + Recovery
    BY <1>1, <1>4, <2>1, AdvanceType, AdvanceMirrors DEF Start, Windowed
  <2> HIDE DEF c
  <2>3. controller' = [c EXCEPT !.last_start = now] /\ launch' = Nobody
        /\ paging' = Heed(launch.sample, launch.at)
        /\ UNCHANGED <<now, published, held>>
    BY <1>4 DEF Start, c
  <2>4. Mirrors(controller', paging')
    BY <2>2, <2>3 DEF Mirrors, Controller
  <2>5. paging'.until \in Nat
    BY <1>1, <2>1, <2>3, HeedType DEF Paging
  <2>6. paging'.until <= now' + Recovery
    BY <1>1, <2>1, <2>2, <2>3, <2>5
  <2>7. LabelledAll'
    BY <2>3 DEF Windowed, LabelledAll
  <2> QED BY <2>3, <2>4, <2>6, <2>7 DEF Windowed
<1>5. CASE StartFails
  BY <1>5 DEF StartFails, Windowed, LabelledAll
<1>6. ASSUME NEW p \in Supervisors PROVE Latest(p) \in Sample => Latest(p).labelled
  BY <1>1 DEF Latest, Windowed, LabelledAll
<1>7. ASSUME NEW p \in Supervisors, Hold(p, Nothing), UNCHANGED published
      PROVE  LabelledAll'
  BY <1>1, <1>7, SampleIsSomething DEF Hold, Windowed, LabelledAll
<1>8. ASSUME NEW p \in Supervisors, Observe(p) \/ Deny(p) PROVE Windowed'
  <2>1. PICK s \in Maybe : Save(s, now) /\ (s \in Sample => s.labelled)
    BY <1>1, <1>6, <1>8, LatestType DEF Observe, Deny, Windowed, LabelledAll
  <2>2. Mirrors(controller', paging') /\ paging'.until <= now + Recovery
    BY <1>1, <2>1, AdvanceMirrors DEF Save, Windowed
  <2>3. LabelledAll' /\ UNCHANGED <<now, launch>> /\ launch = Nobody
    BY <1>7, <1>8 DEF Observe, Deny, Waits
  <2> QED BY <2>2, <2>3 DEF Windowed
<1>9. ASSUME NEW p \in Supervisors, Admit(p) PROVE Windowed'
  <2> DEFINE c == Advance(controller, Latest(p), now)
  <2>1. Latest(p) \in Maybe
    BY LatestType
  <2>2. Permits(c, Latest(p), now) /\ Begin(p, Latest(p), FALSE)
    BY <1>9 DEF Admit
  <2>3. Latest(p) \in Sample
    BY <2>1, <2>2 DEF Permits, Maybe
  <2>4. c.cooldown_until >= Heed(Latest(p), now).until /\ now >= c.cooldown_until
    BY <1>1, <1>6, <2>1, <2>2, <2>3, AdvanceMirrors DEF Windowed, Mirrors, Permits
  <2>5. c \in Controller /\ Heed(Latest(p), now) \in Paging
    BY <1>1, <2>1, AdvanceType, HeedType
  <2> HIDE DEF c
  <2>6. now >= Heed(Latest(p), now).until
    BY <1>1, <2>4, <2>5 DEF Controller, Paging
  <2>7. launch'.sample = Latest(p) /\ launch'.at = now
        /\ UNCHANGED <<now, controller, published, paging>> /\ LabelledAll'
    BY <1>7, <2>2 DEF Begin
  <2>8. Heed(launch.sample, launch.at)' = Heed(Latest(p), now)
    BY <2>7 DEF Heed
  <2>9. paging.until <= now + Recovery /\ now \in Nat
        /\ (launch'.sample \in Sample => launch'.sample.labelled)
        /\ Mirrors(controller', paging')
    BY <1>1, <1>6, <2>7 DEF Windowed, Mirrors
  <2>10. launch'.at >= Heed(launch.sample, launch.at)'.until
    BY <2>6, <2>7, <2>8
  <2>11. launch'.at <= now' /\ paging'.until <= launch'.at + Recovery
         /\ paging'.until <= now' + Recovery
    BY <2>7, <2>9
  <2> QED BY <2>7, <2>9, <2>10, <2>11 DEF Windowed
<1>10. ASSUME NEW p \in Supervisors, Bypass(p) PROVE Windowed'
  <2>1. launch'.sample = Latest(p) /\ launch'.at = now /\ launch'.bypass = TRUE
        /\ UNCHANGED <<now, controller, published, paging>> /\ LabelledAll'
    BY <1>7, <1>10 DEF Bypass, Begin
  <2>2. paging.until <= now + Recovery /\ now \in Nat /\ Mirrors(controller', paging')
    BY <1>1, <2>1 DEF Windowed, Mirrors
  <2>3. launch'.at <= now' /\ paging'.until <= launch'.at + Recovery
        /\ paging'.until <= now' + Recovery
    BY <2>1, <2>2
  <2> QED BY <1>6, <2>1, <2>2, <2>3 DEF Windowed
<1>11. ASSUME UNCHANGED <<now, controller, launch, paging>>, LabelledAll'
       PROVE  Windowed'
  BY <1>11 DEF Windowed, Mirrors, Heed
<1>12. ASSUME NEW p \in Supervisors, NEW s \in Maybe, Hold(p, s),
              s \in Sample => s.labelled, published' \in {published, s}
       PROVE  LabelledAll'
  BY <1>1, <1>12 DEF Hold, Windowed, LabelledAll
<1>13. ASSUME NEW p \in Supervisors, Measure(p) PROVE Windowed'
  <2>1. PICK r \in Readings, labelled \in {TRUE, ~Unlabelled} :
          LET s == [state |-> r.state, paging |-> r.paging, stamp |-> now,
                    origin |-> boot, labelled |-> labelled]
          IN Hold(p, s) /\ published' = s
    BY <1>13 DEF Measure
  <2> DEFINE s == [state |-> r.state, paging |-> r.paging, stamp |-> now,
                   origin |-> boot, labelled |-> labelled]
  <2>2. s \in Maybe
    BY MeasuredIsSample DEF TypeOK, Maybe
  <2>3. s.labelled
    BY DEF OneLabel
  <2>4. Hold(p, s) /\ published' = s
    BY <2>1
  <2> HIDE DEF s
  <2>5. LabelledAll'
    BY <1>12, <2>2, <2>3, <2>4
  <2> QED BY <1>11, <1>13, <2>5 DEF Measure
<1>14. ASSUME NEW p \in Supervisors, MeasureFails(p) PROVE Windowed'
  BY <1>14 DEF MeasureFails, OneLabel
<1>15. ASSUME NEW p \in Supervisors, Reuse(p) PROVE Windowed'
  <2>1. published \in Maybe /\ (published \in Sample => published.labelled)
    BY DEF TypeOK, Maybe, Windowed, LabelledAll
  <2>2. LabelledAll'
    BY <1>12, <1>15, <2>1 DEF Reuse
  <2> QED BY <1>11, <1>15, <2>2 DEF Reuse
<1>16. ASSUME NEW p \in Supervisors, SamplerBusy(p) PROVE Windowed'
  <2>1. LabelledAll'
    BY <1>12, <1>16, SampleIsSomething DEF SamplerBusy, Maybe
  <2> QED BY <1>11, <1>16, <2>1 DEF SamplerBusy
<1>17. ASSUME NEW p \in Supervisors, GiveUp(p) \/ Ends(p) PROVE Windowed'
  <2>1. LabelledAll'
    BY <1>7, <1>17 DEF GiveUp, Ends
  <2> QED BY <1>11, <1>17, <2>1 DEF GiveUp, Ends
<1>18. CASE UNCHANGED vars
  BY <1>11, <1>18 DEF vars, Windowed, LabelledAll
<1> QED
  BY <1>2, <1>3, <1>4, <1>5, <1>8, <1>9, <1>10, <1>13, <1>14, <1>15, <1>16, <1>17,
     <1>18 DEF Next

(* While every measurement carries the one boot id, no start that passed   *)
(* the gate comes before the end of a recovery window that the folded      *)
(* observations, its own included, call for.                               *)
THEOREM RecoveryIsWaitedFor == ASSUME OneLabel PROVE Spec => RecoveryWindow
<1>1. Init => Windowed
  <2>1. Init => LabelledAll
    BY SampleIsSomething DEF Init, LabelledAll
  <2> QED BY <2>1, Constants DEF Init, Windowed, Mirrors, NewController, NoPaging, Never
<1>2. TypeOK /\ Windowed /\ [Next]_vars => [Gated => now >= paging'.until]_vars
  <2> SUFFICES ASSUME TypeOK, Windowed, [Next]_vars, Gated, ~UNCHANGED vars
               PROVE  now >= paging'.until
    OBVIOUS
  <2>1. Start
    <3>1. ~(running' \subseteq running)
      BY DEF Gated
    <3>2. ASSUME NEW p \in Supervisors, Observe(p) \/ Deny(p) \/ GiveUp(p) \/ Admit(p)
                                         \/ Bypass(p) \/ Ends(p)
          PROVE  running' \subseteq running
      BY <3>2 DEF Observe, Deny, GiveUp, Admit, Bypass, Begin, Ends
    <3>3. ASSUME NEW p \in Supervisors, Measure(p) \/ MeasureFails(p) \/ Reuse(p)
                                         \/ SamplerBusy(p)
          PROVE  running' \subseteq running
      BY <3>3 DEF Measure, MeasureFails, Reuse, SamplerBusy
    <3>4. Tick \/ Reboot \/ StartFails => running' \subseteq running
      BY DEF Tick, Reboot, StartFails
    <3> QED BY <3>1, <3>2, <3>3, <3>4 DEF Next
  <2>2. launch \in Launch /\ launch.at \in 1..MaxTime /\ launch.sample \in Maybe
        /\ now \in Nat
    BY DEF Gated, TypeOK, Launch, Maybe
  <2>3. paging' = Heed(launch.sample, launch.at)
    BY <2>1 DEF Start
  <2>4. paging'.until \in Nat
    BY <2>2, <2>3, HeedType, Constants DEF TypeOK, Paging
  <2> QED BY <2>2, <2>3, <2>4, Constants DEF Windowed, Gated
<1>3. Spec => []TypeOK /\ []Windowed /\ [][Next]_vars
  BY <1>1, TypedInitially, TypedInductive, WindowedInductive, PTL DEF Spec
<1>4. []TypeOK /\ []Windowed /\ [][Next]_vars => [][Gated => now >= paging'.until]_vars
  BY <1>2, PTL
<1> QED BY <1>3, <1>4 DEF RecoveryWindow
=============================================================================
