---------------------------- MODULE NativeObserver ----------------------------
(***************************************************************************)
(* native_observer.py: how the memory of a command that runs outside the   *)
(* queue is observed.  The command registers itself; every two seconds the *)
(* observer reads a process table, measures what the table puts under the  *)
(* command, reads another table, and looks at everything again before it   *)
(* counts.  Processes fork, exit and take used numbers between any two of  *)
(* these steps, and the table does not say which birth a number stands for.*)
(***************************************************************************)
EXTENDS ProcessTable, Functions

CONSTANTS Registered, \* the process that has registered itself
          Forks       \* bounds the forks

ASSUME NativeAssumption == Registered \in Pids /\ Forks \in Nat

VARIABLES system,   \* the processes
          births,   \* how often a number was used
          entry,    \* the file under active/, and the observer's state for it
          look,     \* a tick of the observer
          own       \* the births that descend from the command

nativevars == <<system, births, entry, look, own>>

Births0 == [p \in Pids |-> 0]
Measurements == [Pids -> 0..Uses]

NoLook == [pc |-> "wait", table |-> [p \in Pids |-> NoRow], todo |-> {}, measured |-> Births0,
           stable |-> FALSE]

NativeTypeOK ==
  /\ system \in [Pids -> Row] /\ births \in Measurements
  /\ entry \in [active : BOOLEAN, members : Measurements, counted : SUBSET (Pids \X (1..Uses))]
  /\ look \in [pc : {"wait", "measure", "again", "root", "confirm"}, table : [Pids -> Row],
               todo : SUBSET Pids, measured : Measurements, stable : BOOLEAN]
  /\ own \subseteq Pids \X (1..Uses)

NativeInit ==
  /\ system = [p \in Pids |-> IF p = Registered THEN [NoRow EXCEPT !.start = 1] ELSE NoRow]
  /\ births = [p \in Pids |-> IF p = Registered THEN 1 ELSE 0]
  /\ entry = [active |-> TRUE, members |-> Births0, counted |-> {}]
  /\ look = NoLook
  /\ own = {<<Registered, 1>>}

(***************************************************************************)
(* The processes of the machine.                                           *)
(***************************************************************************)
\* One of the processes forks, or one that is in no table.
Forked(q, p) ==
  /\ q \in InUse(system) \cup {Init1} /\ p \notin InUse(system)
  /\ births[p] < Uses /\ FoldFunction(+, 0, births) <= Forks
  /\ births' = [births EXCEPT ![p] = @ + 1]
  /\ system' = [system EXCEPT ![p] = [NoRow EXCEPT !.start = births[p] + 1, !.ppid = q]]
  /\ own' = IF q # Init1 /\ <<q, system[q].start>> \in own THEN own \cup {<<p, births[p] + 1>>} ELSE own
  /\ UNCHANGED <<entry, look>>

Exited(p) ==
  /\ p \in InUse(system)
  /\ system' = [q \in Pids |-> IF q = p THEN NoRow
                               ELSE [system[q] EXCEPT !.ppid = IF @ = p THEN Init1 ELSE @]]
  /\ UNCHANGED <<births, entry, look, own>>

(***************************************************************************)
(* tick                                                                    *)
(***************************************************************************)
Known == {p \in Pids : entry.members[p] > 0}

\* The table has no births: here only numbers and parents of it may be used.
Listed == InUse(look.table)
UnderTask(table) == IF Registered \in InUse(table) THEN Descendants(Registered, table) ELSE {}

FirstTable ==
  /\ look.pc = "wait" /\ entry.active
  /\ look' = [NoLook EXCEPT !.pc = "measure", !.table = system, !.todo =
                UnderTask(system) \cup UNION {Descendants(p, system) : p \in Known \cap InUse(system)}]
  /\ UNCHANGED <<system, births, entry, own>>

\* One process after the other; one that is gone has no measurement.
Measure ==
  /\ look.pc = "measure"
  /\ \/ \E p \in look.todo :
          look' = [look EXCEPT !.todo = @ \ {p}, !.measured[p] = system[p].start]
     \/ look.todo = {} /\ look' = [look EXCEPT !.pc = "again"]
  /\ UNCHANGED <<system, births, entry, own>>

\* A tenth of a second has passed, or ps has failed.
GivesUpTick ==
  /\ look.pc \in {"measure", "again"}
  /\ look' = NoLook
  /\ UNCHANGED <<system, births, entry, own>>

RootLives == Registered \in Listed /\ look.measured[Registered] = 1
Candidates == IF RootLives THEN UnderTask(look.table) ELSE {}

SameRow(p, t, u) == (t[p].start > 0 <=> u[p].start > 0) /\ t[p].ppid = u[p].ppid

\* Mutant: the second table is not compared with the first.
SecondTableUnused ==
  /\ look.pc = "again"
  /\ look' = [look EXCEPT !.pc = "root", !.stable = TRUE]
  /\ UNCHANGED <<system, births, entry, own>>

\* Has any candidate another parent by now, or gone?
SecondTable ==
  /\ look.pc = "again"
  /\ look' = [look EXCEPT !.pc = "root",
                !.stable = \A p \in Candidates : SameRow(p, look.table, system)]
  /\ UNCHANGED <<system, births, entry, own>>

\* Members: measured, and if known before, of the same birth.
Counted ==
  {p \in (Candidates \cup Known) \cap Listed :
     /\ look.measured[p] > 0
     /\ entry.members[p] \in {0, look.measured[p]}
     /\ p = Registered => look.measured[p] = 1}
Unmeasured == {p \in (Candidates \cup Known \cup {Registered}) \cap Listed : look.measured[p] = 0}

\* The root is looked at once more; on any doubt the tick does nothing.
RootAgain ==
  /\ look.pc = "root"
  /\ look' = IF (RootLives /\ ~Same(system, Registered, 1)) \/ ~look.stable THEN NoLook
             ELSE [look EXCEPT !.pc = "confirm", !.todo = Counted]
  /\ UNCHANGED <<system, births, entry, own>>

\* Then every member.
ConfirmMember ==
  /\ look.pc = "confirm"
  /\ \E p \in look.todo :
       look' = IF Same(system, p, look.measured[p]) THEN [look EXCEPT !.todo = @ \ {p}] ELSE NoLook
  /\ UNCHANGED <<system, births, entry, own>>

\* The tick counts.  Without members, and none in doubt, the command has ended;
\* after a day nobody waits for that.
Count ==
  /\ look.pc = "confirm" /\ look.todo = {}
  /\ \E expired \in BOOLEAN :
       entry' = [active |-> ~expired /\ (Counted # {} \/ Unmeasured # {}),
                 members |-> [p \in Pids |-> IF p \in Counted THEN look.measured[p]
                                             ELSE IF p \in Unmeasured THEN entry.members[p] ELSE 0],
                 counted |-> entry.counted \cup {<<p, look.measured[p]>> : p \in Counted}]
  /\ look' = NoLook
  /\ UNCHANGED <<system, births, own>>

NativeNext ==
  \/ FirstTable \/ Measure \/ GivesUpTick \/ SecondTable \/ RootAgain \/ ConfirmMember \/ Count
  \/ \E p \in Pids : Exited(p) \/ \E q \in Pids \cup {Init1} : Forked(q, p)

NativeSpec == NativeInit /\ [][NativeNext]_nativevars

(***************************************************************************)
(* Properties.                                                             *)
(***************************************************************************)
\* native_observer.py:248-249: "a reused PID must not attach a new tree".  Only
\* processes that the command has started, at any remove, are ever counted for it.
OwnTreeMeasured == entry.counted \subseteq own
=============================================================================
