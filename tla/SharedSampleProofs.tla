------------------------- MODULE SharedSampleProofs -------------------------
(***************************************************************************)
(* SharedSample: type correctness, one sampler at a time, and publication  *)
(* in order, for any number of supervisors and any times.                  *)
(***************************************************************************)
EXTENDS SharedSample, TLAPS

LEMMA Times == /\ Early \in Nat \ {0} /\ Valid \in Nat \ {0} /\ Handoff \in Nat \ {0}
               /\ Free \notin Supervisors
BY SharedSampleAssumption

\* Holding the lock is being in its critical section, and whoever has measured
\* there has measured after everything that is published.
Locked ==
  /\ \A p \in Supervisors : pc[p] \in Holding <=> lock = p
  /\ \A p \in Supervisors : pc[p] = "publish" /\ cache # NoCache => mine[p] <= cache.age

LEMMA OlderBounds ==
  ASSUME NEW bound \in Nat, NEW age \in 0..bound
  PROVE  Older(age, bound) \in 0..bound
BY DEF Older

LEMMA OlderKeepsOrder ==
  ASSUME NEW bound \in Nat, NEW i \in 0..bound, NEW j \in 0..bound, i <= j
  PROVE  Older(i, bound) <= Older(j, bound)
BY DEF Older

LEMMA Inductive == TypeOK /\ Locked /\ [Next]_vars => TypeOK' /\ Locked'
<1> SUFFICES ASSUME TypeOK, Locked, [Next]_vars PROVE TypeOK' /\ Locked'
  OBVIOUS
<1> USE Times
<1>1. CASE Tick
  <2>1. cache' \in Cache \cup {NoCache} /\ (cache' # NoCache => cache # NoCache)
    <3>1. CASE cache = NoCache
      BY <1>1, <3>1 DEF Tick
    <3>2. CASE cache # NoCache
      <4>1. cache \in Cache /\ cache.age \in 0..Valid
        BY <3>2 DEF TypeOK, Cache
      <4>2. Older(cache.age, Valid) \in 0..Valid
        BY <4>1, OlderBounds
      <4> QED BY <1>1, <3>2, <4>1, <4>2 DEF Tick, Cache
    <3> QED BY <3>1, <3>2
  <2>2. ASSUME NEW p \in Supervisors
        PROVE  mine'[p] \in 0..Valid /\ waited'[p] \in 0..Handoff
    <3>1. Older(mine[p], Valid) \in 0..Valid /\ Older(waited[p], Handoff) \in 0..Handoff
      BY OlderBounds DEF TypeOK
    <3> QED BY <1>1, <3>1 DEF Tick, TypeOK
  <2>3. TypeOK'
    BY <1>1, <2>1, <2>2 DEF Tick, TypeOK
  <2>4. ASSUME NEW p \in Supervisors, pc'[p] = "publish", cache' # NoCache
        PROVE  mine'[p] <= cache'.age
    <3>1. pc[p] = "publish" /\ cache # NoCache
      BY <1>1, <2>1, <2>4 DEF Tick
    <3>2. cache.age \in 0..Valid /\ mine[p] \in 0..Valid /\ mine[p] <= cache.age
      BY <3>1 DEF TypeOK, Cache, Locked
    <3>3. cache'.age = Older(cache.age, Valid) /\ mine'[p] = Older(mine[p], Valid)
      BY <1>1, <3>1 DEF Tick
    <3> QED BY <3>2, <3>3, OlderKeepsOrder
  <2> QED BY <1>1, <2>3, <2>4 DEF Tick, Locked
<1>2. ASSUME NEW p \in Supervisors, Look(p) PROVE TypeOK' /\ Locked'
  BY <1>2 DEF Look, Goto, TypeOK, Locked, PC, Answers, Holding
<1>3. ASSUME NEW p \in Supervisors, Elect(p) PROVE TypeOK' /\ Locked'
  BY <1>3 DEF Elect, Goto, TypeOK, Locked, PC, Answers, Holding
<1>4. ASSUME NEW p \in Supervisors, Recheck(p) PROVE TypeOK' /\ Locked'
  BY <1>4 DEF Recheck, Goto, TypeOK, Locked, PC, Answers, Holding
<1>5. ASSUME NEW p \in Supervisors, Probed(p) PROVE TypeOK' /\ Locked'
  <2>1. TypeOK'
    BY <1>5 DEF Probed, Goto, TypeOK, PC, Holding
  <2>2. cache # NoCache => 0 <= cache.age
    BY DEF TypeOK, Cache
  <2> QED BY <1>5, <2>1, <2>2 DEF Probed, Goto, TypeOK, Locked, Holding
<1>6. ASSUME NEW p \in Supervisors, Publish(p) PROVE TypeOK' /\ Locked'
  BY <1>6 DEF Publish, Goto, TypeOK, Locked, PC, Answers, Holding, Cache
<1>7. ASSUME NEW p \in Supervisors, ProbeFails(p) PROVE TypeOK' /\ Locked'
  BY <1>7 DEF ProbeFails, Goto, TypeOK, Locked, PC, Answers, Holding
<1>8. ASSUME NEW p \in Supervisors, Reread(p) PROVE TypeOK' /\ Locked'
  BY <1>8 DEF Reread, Goto, TypeOK, Locked, PC, Answers, Holding
<1>9. ASSUME NEW p \in Supervisors, Crash(p) PROVE TypeOK' /\ Locked'
  BY <1>9 DEF Crash, Goto, TypeOK, Locked, PC, Answers, Holding
<1>10. CASE UNCHANGED vars
  BY <1>10 DEF vars, TypeOK, Locked
<1> QED
  BY <1>1, <1>2, <1>3, <1>4, <1>5, <1>6, <1>7, <1>8, <1>9, <1>10 DEF Next

LEMMA Invariant == Spec => [](TypeOK /\ Locked)
<1>1. Init => TypeOK /\ Locked
  BY Times DEF Init, TypeOK, Locked, PC, Holding
<1> QED BY <1>1, Inductive, PTL DEF Spec

(* The published sample, the lock and what every supervisor does with them *)
(* keep their shape, whoever dies and however old the samples grow.        *)
THEOREM TypeCorrect == Spec => []TypeOK
BY Invariant, PTL

(* At most one supervisor measures the host, whoever dies.                 *)
THEOREM SamplersExclude == Spec => []OneSampler
<1>1. TypeOK /\ Locked => OneSampler
  BY DEF TypeOK, Locked, OneSampler
<1> QED BY <1>1, Invariant, PTL

(* The published sample is never replaced by an older one.                 *)
THEOREM PublicationOrdered == Spec => PublishedInOrder
<1> DEFINE Ordered == \A p \in Supervisors :
                        pc[p] = "publish" /\ pc'[p] = "measured" /\ cache # NoCache =>
                          cache'.age <= cache.age
<1>1. TypeOK /\ Locked /\ [Next]_vars => [Ordered]_vars
  <2> SUFFICES ASSUME TypeOK, Locked, Next,
                      NEW p \in Supervisors, pc[p] = "publish", pc'[p] = "measured",
                      cache # NoCache
               PROVE  cache'.age <= cache.age
    OBVIOUS
  <2>1. Publish(p)
    BY DEF Next, TypeOK, Tick, Look, Elect, Recheck, Probed, Publish, ProbeFails, Reread,
           Crash, Goto, Answers
  <2> QED BY <2>1 DEF Publish, Locked
<1>2. Spec => [](TypeOK /\ Locked) /\ [][Next]_vars
  BY Invariant, PTL DEF Spec
<1>3. [](TypeOK /\ Locked) /\ [][Next]_vars => [][Ordered]_vars
  BY <1>1, PTL
<1> QED BY <1>2, <1>3 DEF PublishedInOrder
=============================================================================
