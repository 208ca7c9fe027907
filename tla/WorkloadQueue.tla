---------------------------- MODULE WorkloadQueue ----------------------------
(***************************************************************************)
(* What the queue promises its callers, with no registry, lock or          *)
(* supervisor in sight: a request starts at most once and only after it    *)
(* has waited; finite commands admitted by capacity never work on more     *)
(* than MaxJobs slots at a time; a resource has one server; and a request  *)
(* that was refused never starts.  Only while memcap is paused are         *)
(* requests waived the slot limit.  Scheduler implements this              *)
(* specification (Scheduler!Refinement).                                   *)
(***************************************************************************)
EXTENDS FiniteSets, Integers

CONSTANTS Runs, Finite, ResourceOf, MaxJobs

VARIABLES phase,    \* [Runs -> Phases]
          waived,   \* requests allowed to start because memcap was paused
          paused    \* memcap is paused

Phases == {"new", "queued", "started", "over", "refused"}
qvars == <<phase, waived, paused>>

Started == {r \in Runs : phase[r] = "started"}

QueueInit == /\ phase = [r \in Runs |-> "new"] /\ waived = {} /\ paused = FALSE

Move(r, from, to) == phase[r] = from /\ phase' = [phase EXCEPT ![r] = to]

Submit(r) == Move(r, "new", "queued") /\ UNCHANGED <<waived, paused>>

Waive(r) == /\ phase[r] = "queued" /\ paused
            /\ waived' = waived \cup {r}
            /\ UNCHANGED <<phase, paused>>

SlotFor(r) == r \in Finite \ waived =>
                Cardinality((Started \cap Finite) \ waived) < MaxJobs
ResourceFor(r) == r \notin Finite =>
                    \A q \in Started : ResourceOf[q] # ResourceOf[r]

Start(r) == /\ Move(r, "queued", "started")
            /\ SlotFor(r) /\ ResourceFor(r)
            /\ UNCHANGED <<waived, paused>>

End(r) == Move(r, "started", "over") /\ UNCHANGED <<waived, paused>>

Refuse(r) == /\ Move(r, "new", "refused") \/ Move(r, "queued", "refused")
             /\ UNCHANGED <<waived, paused>>

Pause == paused' = ~paused /\ UNCHANGED <<phase, waived>>

QueueNext == \/ Pause
             \/ \E r \in Runs : Submit(r) \/ Waive(r) \/ Start(r) \/ End(r) \/ Refuse(r)

QueueSpec == QueueInit /\ [][QueueNext]_qvars
=============================================================================
