---------------------------- MODULE SharedSample ----------------------------
(***************************************************************************)
(* How supervisors share one measurement of the host (shared_sample in     *)
(* libexec/scheduler_metrics.py): a published sample is reused while it is *)
(* young; otherwise whoever gets sample.lock without waiting measures, and *)
(* the others wait a bounded time for what it publishes.                   *)
(*                                                                         *)
(* Time is represented by the ages that the code compares: of the          *)
(* published sample, of the one in the sampler's hands, and of a wait.     *)
(* They all grow with Tick and stop growing where no comparison can tell.  *)
(***************************************************************************)
EXTENDS Integers

CONSTANTS Supervisors,
          KeyOf,       \* measurement_signature: configuration and build
          Early,       \* 1 s: a younger sample is reused without measuring
          Valid,       \* 2 s: a sample this old is of no use to anybody
          Handoff,     \* 1 s: how long the others wait for the sampler
          Free,        \* sample.lock when nobody holds it
          Crashable,   \* supervisors that may be killed
          Failing      \* supervisors whose probe may raise

ASSUME SharedSampleAssumption ==
  /\ {Early, Valid, Handoff} \subseteq Nat \ {0} /\ Early <= Valid
  /\ Free \notin Supervisors
  /\ Crashable \subseteq Supervisors /\ Failing \subseteq Supervisors

VARIABLES cache,    \* sample.json: its key and age, or NoCache
          lock,     \* who holds sample.lock
          pc,       \* where each supervisor is in shared_sample
          mine,     \* age of the sample a supervisor has measured
          waited    \* how long a supervisor has waited for the sampler

vars == <<cache, lock, pc, mine, waited>>

NoCache == [key |-> "none"]
Cache == [key : {KeyOf[p] : p \in Supervisors}, age : 0..Valid]
Holding == {"recheck", "probe", "publish"}
Answers == {"cached", "handoff", "measured", "busy", "fault"}
PC == {"idle", "elect", "wait", "crashed"} \cup Holding \cup Answers

TypeOK ==
  /\ cache \in Cache \cup {NoCache}
  /\ lock \in Supervisors \cup {Free}
  /\ pc \in [Supervisors -> PC]
  /\ mine \in [Supervisors -> 0..Valid]
  /\ waited \in [Supervisors -> 0..Handoff]

Init ==
  /\ cache = NoCache /\ lock = Free
  /\ pc = [p \in Supervisors |-> "idle"]
  /\ mine = [p \in Supervisors |-> 0] /\ waited = [p \in Supervisors |-> 0]

\* fresh(read(), maximum)
Fresh(p, maximum) == /\ cache # NoCache /\ cache.key = KeyOf[p]
                     /\ cache.age < maximum

Goto(p, label) == pc' = [pc EXCEPT ![p] = label]

\* The first look, without the lock.
Look(p) ==
  /\ pc[p] = "idle" \/ pc[p] \in Answers
  /\ Goto(p, IF Fresh(p, Early) THEN "cached" ELSE "elect")
  /\ UNCHANGED <<cache, lock, mine, waited>>

\* flock(LOCK_EX | LOCK_NB)
Elect(p) ==
  /\ pc[p] = "elect"
  /\ \/ lock = Free /\ lock' = p /\ Goto(p, "recheck")
     \/ lock # Free /\ UNCHANGED lock /\ Goto(p, "wait")
  /\ waited' = [waited EXCEPT ![p] = 0]
  /\ UNCHANGED <<cache, mine>>

\* The last winner may have published since the first look.
Recheck(p) ==
  /\ pc[p] = "recheck"
  /\ \/ Fresh(p, Early) /\ Goto(p, "cached") /\ lock' = Free
     \/ ~Fresh(p, Early) /\ Goto(p, "probe") /\ UNCHANGED lock
  /\ UNCHANGED <<cache, mine, waited>>

\* Mutant: the lock protects the measurement but not its publication.
ProbedUnlocking(p) ==
  /\ pc[p] = "probe"
  /\ mine' = [mine EXCEPT ![p] = 0] /\ Goto(p, "publish")
  /\ lock' = Free
  /\ UNCHANGED <<cache, waited>>

\* sampler() and vm_sample() return, and the sample gets its time.
Probed(p) ==
  /\ pc[p] = "probe"
  /\ mine' = [mine EXCEPT ![p] = 0] /\ Goto(p, "publish")
  /\ UNCHANGED <<cache, lock, waited>>

\* Mutant: the sample is published without its time.
PublishUnstamped(p) ==
  /\ pc[p] = "publish"
  /\ cache' = [key |-> KeyOf[p]]
  /\ lock' = Free /\ Goto(p, "measured")
  /\ UNCHANGED <<mine, waited>>

\* os.replace, and the finally block.
Publish(p) ==
  /\ pc[p] = "publish"
  /\ cache' = [key |-> KeyOf[p], age |-> mine[p]]
  /\ lock' = Free /\ Goto(p, "measured")
  /\ UNCHANGED <<mine, waited>>

\* An exception, of the probe or of the publication.
ProbeFails(p) ==
  /\ p \in Failing /\ pc[p] \in {"probe", "publish"}
  /\ lock' = Free /\ Goto(p, "fault")
  /\ UNCHANGED <<cache, mine, waited>>

\* Mutant: the others wait until there is a sample.
RereadForever(p) ==
  /\ pc[p] = "wait"
  /\ Fresh(p, Valid) /\ Goto(p, "handoff")
  /\ UNCHANGED <<cache, lock, mine, waited>>

\* Every 50 ms, 21 times at most, which takes one second.
Reread(p) ==
  /\ pc[p] = "wait"
  /\ \/ Fresh(p, Valid) /\ Goto(p, "handoff")
     \/ ~Fresh(p, Valid) /\ waited[p] = Handoff /\ Goto(p, "busy")
  /\ UNCHANGED <<cache, lock, mine, waited>>

\* The kernel drops the lock of a process that dies.
Crash(p) ==
  /\ p \in Crashable /\ pc[p] # "crashed"
  /\ Goto(p, "crashed") /\ lock' = IF lock = p THEN Free ELSE lock
  /\ UNCHANGED <<cache, mine, waited>>

\* The age one tick later, no further than the code can tell.
Older(age, bound) == IF age < bound THEN age + 1 ELSE bound

Tick ==
  /\ cache' = IF cache = NoCache THEN cache
              ELSE [key |-> cache.key, age |-> Older(cache.age, Valid)]
  /\ mine' = [p \in Supervisors |->
                IF pc[p] = "publish" THEN Older(mine[p], Valid) ELSE mine[p]]
  /\ waited' = [p \in Supervisors |->
                  IF pc[p] = "wait" THEN Older(waited[p], Handoff) ELSE waited[p]]
  /\ UNCHANGED <<lock, pc>>

Next ==
  \/ Tick
  \/ \E p \in Supervisors :
       \/ Look(p) \/ Elect(p) \/ Recheck(p) \/ Probed(p) \/ Publish(p)
       \/ ProbeFails(p) \/ Reread(p) \/ Crash(p)

Spec == Init /\ [][Next]_vars

\* Time passes, and processes that only compute keep running.  Nothing is
\* assumed of the probe, which runs other programs.
Fairness ==
  /\ WF_vars(Tick)
  /\ \A p \in Supervisors : WF_vars(Elect(p)) /\ WF_vars(Recheck(p)) /\ WF_vars(Reread(p))
FairSpec == Spec /\ Fairness

(***************************************************************************)
(* Properties.                                                             *)
(***************************************************************************)
\* "Elect one sampler": never two probes of the host at a time, whoever dies.
OneSampler == \A p, q \in Supervisors :
                pc[p] \in Holding /\ pc[q] \in Holding => p = q

\* What is published is never older than what it replaces.
PublishedInOrder ==
  [][\A p \in Supervisors :
       pc[p] = "publish" /\ pc'[p] = "measured" /\ cache # NoCache =>
         cache'.age <= cache.age]_vars

\* Nobody waits for a slow, failing or dead sampler for ever: whoever finds no
\* young sample gets an answer or becomes the sampler.
WaitsEnd == \A p \in Supervisors :
              pc[p] \in {"elect", "wait"} ~> pc[p] \in Answers \cup {"probe", "crashed"}
=============================================================================
