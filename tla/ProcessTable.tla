---------------------------- MODULE ProcessTable ----------------------------
(***************************************************************************)
(* The process table as the planners of memcap read it with ps: a row for  *)
(* every number, of which start = 0 says that no process has the number,   *)
(* and the two walks over it, down to the descendants of a process and up  *)
(* to the agent that owns it.                                              *)
(***************************************************************************)
EXTENDS Naturals, FiniteSets

CONSTANTS Pids,      \* process numbers
          Init1,     \* the process that adopts orphans, in no table
          Uses       \* how often a number may be used

ASSUME PidsAssumption == IsFiniteSet(Pids) /\ Init1 \notin Pids /\ Uses \in Nat \ {0}

\* What the planners tell apart in a command line.
Commands == {"agent", "runner", "waiter", "shell", "server", "boot", "poll", "sleep", "work"}

Row == [start : 0..Uses, ppid : Pids \cup {Init1}, group : Pids \cup {Init1},
        command : Commands, old : BOOLEAN]
NoRow == [start |-> 0, ppid |-> Init1, group |-> Init1, command |-> "work", old |-> FALSE]

InUse(table) == {p \in Pids : table[p].start > 0}

\* The process of a number is the one that was recorded with it.
Same(table, p, start) == start > 0 /\ table[p].start = start

Group(table, g) == {p \in InUse(table) : table[p].group = g}

\* Everything under a process, and the process itself.
Descendants(p, table) ==
  LET within[depth \in Nat] ==
        IF depth = 0 THEN {p}
        ELSE LET found == within[depth - 1]
             IN found \cup {q \in InUse(table) : table[q].ppid \in found}
  IN within[Cardinality(Pids) - 1]

\* The agents above a process.
AgentsAbove(p, table) ==
  {a \in InUse(table) : table[a].command = "agent" /\ p \in Descendants(a, table)}
=============================================================================
