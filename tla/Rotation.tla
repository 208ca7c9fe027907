------------------------------ MODULE Rotation ------------------------------
(***************************************************************************)
(* Whose turn it is: the selection rule every waiting supervisor evaluates *)
(* on its own under the queue lock (Scheduler.next_waiter and              *)
(* Scheduler.record_turn of libexec/scheduler.py).  All new work is in the *)
(* heavy lane (demand_version 1), so the lane split of next_waiter is the  *)
(* identity and is left out.                                               *)
(*                                                                         *)
(* The integers session_turns[s] are only ever compared, and record_turn   *)
(* always assigns a new maximum.  They are represented by the order they   *)
(* induce: <<s, t>> \in later iff session_turns[s] < session_turns[t].     *)
(***************************************************************************)
EXTENDS FiniteSets, Integers

CONSTANTS Runs,        \* the requests that may ever reach the queue
          Sessions,    \* parent agent sessions: the rotation's buckets
          SessionOf,   \* [Runs -> Sessions], Scheduler.session_bucket
          Resources,   \* names of persistent resources
          NoResource,  \* the resource "" of a finite job
          ResourceOf   \* [Runs -> Resources \cup {NoResource}]

ASSUME RotationAssumption ==
  /\ IsFiniteSet(Runs)
  /\ SessionOf \in [Runs -> Sessions]
  /\ NoResource \notin Resources
  /\ ResourceOf \in [Runs -> Resources \cup {NoResource}]

Finite == {r \in Runs : ResourceOf[r] = NoResource}

(* The entries of a registry by status. *)
Waiting(reg) == {r \in Runs : reg[r].status = "waiting"}
Running(reg) == {r \in Runs : reg[r].status = "running"}
FiniteRunning(reg) == Running(reg) \cap Finite

(* Finite jobs a session has running: the first key of the rotation. *)
Active(reg, s) == Cardinality({r \in FiniteRunning(reg) : SessionOf[r] = s})

(* session_turns[s] := max + 1: s now comes after every other session.     *)
RecordTurn(later, s) ==
  {p \in later : s \notin {p[1], p[2]}} \cup {<<t, s>> : t \in Sessions \ {s}}

(* Mutant: the earlier enqueue wins over the older turn, and is preceded   *)
(* by it.                                                                  *)
PrecedesEitherWay(reg, later, i, j) ==
  LET s == SessionOf[i]
      t == SessionOf[j]
  IN \/ Active(reg, s) < Active(reg, t)
     \/ Active(reg, s) = Active(reg, t) /\ (<<s, t>> \in later \/ i \in reg[j].ahead)

(* i is offered capacity before j: fewer finite jobs of its session        *)
(* running, then the older turn, then the earlier enqueue.                 *)
Precedes(reg, later, i, j) ==
  LET s == SessionOf[i]
      t == SessionOf[j]
  IN \/ Active(reg, s) < Active(reg, t)
     \/ /\ Active(reg, s) = Active(reg, t)
        /\ \/ <<s, t>> \in later
           \/ <<t, s>> \notin later /\ i \in reg[j].ahead

(* An aged request that does not fit holds back every new admission while  *)
(* a finite job that could drain is running.                               *)
HeldBack(reg, fits, aged) ==
  /\ (Waiting(reg) \cap aged) \ fits # {}
  /\ FiniteRunning(reg) # {}

(* next_waiter(...) = r *)
IsNext(reg, later, fits, aged, r) ==
  /\ r \in fits
  /\ ~HeldBack(reg, fits, aged)
  /\ \A j \in fits \ {r} : ~Precedes(reg, later, j, r)
=============================================================================
