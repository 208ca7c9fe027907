------------------------------- MODULE Budget -------------------------------
(***************************************************************************)
(* The memory that the queue gives away (admission.py, decide): every      *)
(* request is weighed against a sample that was taken before the lock, not *)
(* at one moment, and perhaps long ago.  top is read first, then ps, and   *)
(* the free memory of the host last (scheduler.sh, mc_queue_sample);       *)
(* meanwhile other requests start, grow, shrink and end.  Sizes are in     *)
(* units of GIB // 2.                                                      *)
(*                                                                         *)
(* Requests are explicit, and commands keep to them; what happens to an    *)
(* estimate is in Allowance.  Each command is one process, whose number    *)
(* nobody uses again.                                                      *)
(***************************************************************************)
EXTENDS Integers, FiniteSetsExt, Functions

CONSTANTS Tasks,      \* what is requested
          MemoryOf,   \* memory_kb
          Probes,     \* samples that are around at once
          Trees,      \* which jobs may belong to agents' trees at once
          Policies,   \* mode, cap and headroom
          Memory,     \* of the host
          Elsewhere,  \* what agents are measured to use outside of the queue
          SharedPages,   \* by how much ps RSS may exceed a footprint
          InactivePages  \* in use, although mc_free_pct takes them for free

ASSUME BudgetAssumption ==
  /\ IsFiniteSet(Tasks) /\ MemoryOf \in [Tasks -> Nat \ {0}]
  /\ Trees \subseteq SUBSET Tasks
  /\ Policies \subseteq [mode : {"strict", "adaptive"}, cap : Nat, headroom : Nat]
  /\ {Memory, Elsewhere, SharedPages, InactivePages} \subseteq Nat

VARIABLES policy,
          load,     \* the entry of a job, and its process
          sampled,  \* samples: made, or being made
          overstated   \* history: the excess of the last sample that admitted a job

budgetvars == <<policy, load, sampled, overstated>>

\* alive: its process; an entry outlives it for a while.
Loads == [status : {"waiting", "running", "gone"}, alive : BOOLEAN, uses : Nat]
Queued == [status |-> "waiting", alive |-> FALSE, uses |-> 0]
ProbeType == [pc : {"none", "top", "table", "full"}, footprints : [Tasks -> Nat],
              counted : SUBSET Tasks, tracked : Nat, available : Int,
              excess : Int]   \* history: by how much it overstates what is left
NoProbe == [pc |-> "none", footprints |-> [j \in Tasks |-> 0], counted |-> {}, tracked |-> 0,
            available |-> 0, excess |-> 0]

BudgetTypeOK ==
  /\ policy \in Policies
  /\ load \in [Tasks -> Loads]
  /\ \A j \in Tasks : load[j].uses <= (IF load[j].alive THEN MemoryOf[j] ELSE 0)
  /\ sampled \in [Probes -> ProbeType]
  /\ overstated \in Int

BudgetInit ==
  /\ policy \in Policies
  /\ load = [j \in Tasks |-> Queued]
  /\ sampled = [s \in Probes |-> NoProbe]
  /\ overstated = 0

Living == {j \in Tasks : load[j].alive}
Spare == Memory - Elsewhere - SumFunctionOnSet([j \in Tasks |-> load[j].uses], Tasks)

(***************************************************************************)
(* mc_queue_sample                                                         *)
(***************************************************************************)
\* top: the footprint of every process for which it has a row.
ReadsTop(s) ==
  /\ sampled[s].pc \in {"none", "full"}
  /\ \E listed \in SUBSET Living :
       sampled' = [sampled EXCEPT ![s] =
         [NoProbe EXCEPT !.pc = "top",
            !.footprints = [j \in Tasks |-> IF j \in listed THEN load[j].uses ELSE 0]]]
  /\ UNCHANGED <<policy, load, overstated>>

\* RSS counts shared pages in every process, and compressed memory in none.
ResidentSize(j) == 0..(load[j].uses + SharedPages)

\* ps: which processes there are, and those that belong to an agent.  One that top
\* has not listed (or saw without memory) is measured here, by its RSS.
ReadsTable(s) ==
  LET seen == sampled[s].footprints
      Fallen == {j \in Living : seen[j] = 0}
  IN /\ sampled[s].pc = "top"
     /\ \E rss \in [Fallen -> UNION {ResidentSize(j) : j \in Fallen}] :
          /\ \A j \in Fallen : rss[j] \in ResidentSize(j)
          /\ \E tree \in Trees :
               LET counted == Living \cap tree
                   footprints == [j \in Tasks |-> IF j \in Fallen THEN rss[j]
                                                   ELSE IF j \in Living THEN seen[j] ELSE 0]
               IN sampled' = [sampled EXCEPT ![s] =
                    [@ EXCEPT !.pc = "table", !.footprints = footprints, !.counted = counted,
                       !.tracked = Elsewhere + SumFunctionOnSet(footprints, counted)]]
     /\ UNCHANGED <<policy, load, overstated>>

\* By how much a job is measured to use more than it does now.
Excess(footprints) == [j \in Tasks |-> Max({0, footprints[j] - load[j].uses})]

\* mc_free_pct: free, inactive, speculative and purgeable pages.
ReadsFree(s) ==
  /\ sampled[s].pc = "table"
  /\ \E inactive \in 0..InactivePages :
       sampled' = [sampled EXCEPT ![s] =
         [@ EXCEPT !.pc = "full", !.available = Spare + inactive,
            !.excess = inactive + SumFunctionOnSet(Excess(sampled[s].footprints), Living)]]
  /\ UNCHANGED <<policy, load, overstated>>

(***************************************************************************)
(* decide                                                                  *)
(***************************************************************************)
Active == {j \in Tasks : load[j].status = "running"}
HalfGib == 1

Measured(j, sample) == IF load[j].alive THEN sample.footprints[j] ELSE 0
Reserve(j, sample) == Max({MemoryOf[j], Measured(j, sample)})
Already(j, sample) == IF j \in sample.counted THEN Measured(j, sample) ELSE 0

\* Mutant: a job that the sample has not seen needs nothing.
OutstandingSeen(sample) ==
  SumFunctionOnSet([j \in Tasks |-> IF Measured(j, sample) = 0 THEN 0
                                    ELSE Reserve(j, sample) - Measured(j, sample)], Active)

\* What the running jobs may still take.
Outstanding(sample) ==
  SumFunctionOnSet([j \in Tasks |-> Reserve(j, sample) - Measured(j, sample)], Active)

Accounted(sample) ==
  sample.tracked + SumFunctionOnSet([j \in Tasks |-> Reserve(j, sample) - Already(j, sample)], Active)

Margin == IF policy.mode = "strict" THEN policy.headroom ELSE Min({policy.headroom, HalfGib})

Fits(j, sample) ==
  /\ policy.mode = "strict" => Accounted(sample) + MemoryOf[j] <= policy.cap
  /\ sample.available - Outstanding(sample) - MemoryOf[j] >= Margin

\* Under the lock, with the sample in hand or the newest that is published; all other
\* reasons to wait are left open.
AdmitsLoad(j, s) ==
  /\ load[j].status = "waiting" /\ sampled[s].pc = "full"
  /\ Fits(j, sampled[s])
  /\ load' = [load EXCEPT ![j] = [status |-> "running", alive |-> TRUE, uses |-> 0]]
  /\ overstated' = sampled[s].excess
  /\ UNCHANGED <<policy, sampled>>

(***************************************************************************)
(* The commands.                                                           *)
(***************************************************************************)
CommandGrows(j) == /\ load[j].alive /\ load[j].uses < MemoryOf[j]
                   /\ load' = [load EXCEPT ![j].uses = @ + 1]
                   /\ UNCHANGED <<policy, sampled, overstated>>

CommandShrinks(j) == /\ load[j].alive /\ load[j].uses > 0
                     /\ load' = [load EXCEPT ![j].uses = @ - 1]
                     /\ UNCHANGED <<policy, sampled, overstated>>

CommandEnds(j) == /\ load[j].alive
                  /\ load' = [load EXCEPT ![j].alive = FALSE, ![j].uses = 0]
                  /\ UNCHANGED <<policy, sampled, overstated>>

\* refresh: its entry goes some time later.
EntryGoes(j) == /\ load[j].status = "running" /\ ~load[j].alive
                /\ load' = [load EXCEPT ![j].status = "gone"]
                /\ UNCHANGED <<policy, sampled, overstated>>

BudgetNext ==
  \/ \E s \in Probes : ReadsTop(s) \/ ReadsTable(s) \/ ReadsFree(s)
  \/ \E j \in Tasks : \/ CommandGrows(j) \/ CommandShrinks(j) \/ CommandEnds(j) \/ EntryGoes(j)
                         \/ \E s \in Probes : AdmitsLoad(j, s)

BudgetSpec == BudgetInit /\ [][BudgetNext]_budgetvars

(***************************************************************************)
(* Properties.                                                             *)
(***************************************************************************)
Promised == SumFunctionOnSet(MemoryOf, Active)

\* README.md:416-421: what has been promised to the running jobs, together with what
\* agents use otherwise, stays within the budget in strict mode, however wrong and old
\* the samples were.  It leaves the headroom of the host in either mode, even if every
\* job takes all of it, except for what the sample that admitted the last job took for
\* free or for used already and was not when it was completed; whatever had started,
\* grown, shrunk or ended since.
NothingOvercommitted ==
  Active # {} =>
    /\ policy.mode = "strict" => Elsewhere + Promised <= policy.cap
    /\ Memory - Elsewhere - Promised >= Margin - overstated
=============================================================================
