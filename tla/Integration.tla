----------------------------- MODULE Integration -----------------------------
(***************************************************************************)
(* integrate.py: memcap's entries in the configuration files of a profile. *)
(* An installer reads every file and plans its new content; then, under    *)
(* the locks of the directories, it checks that nothing has changed, saves *)
(* the old contents, and replaces the files one by one, each after a last  *)
(* look; a failure puts back what it wrote.  Meanwhile the user edits, and *)
(* another installer, of another version, does the same.                   *)
(***************************************************************************)
EXTENDS Integers, FiniteSets, FiniteSetsExt

CONSTANTS Installers,  \* the versions at work
          Files,       \* numbered in the order of prepare
          Dirs,        \* numbered in the order of the locks
          DirOf,
          Texts,       \* what users write
          Malformed,   \* of these, what cannot be parsed
          Edits, Faults, Attempts, \* bounds the edits, the failures, and the runs of an installer
          Unowned

ASSUME IntegrationAssumption ==
  /\ Files \subseteq Nat /\ IsFiniteSet(Files) /\ Files # {}
  /\ Dirs \subseteq Nat /\ IsFiniteSet(Dirs) /\ DirOf \in [Files -> Dirs]
  /\ Malformed \subseteq Texts /\ Unowned \notin Installers \cup Texts
  /\ Edits \in Nat /\ Faults \in Nat /\ Attempts \in Nat

VARIABLES files,    \* by file: the user's text and the version of memcap's part
          locks,    \* .memcap-integration.lock of every directory
          run,      \* the installers
          backups,  \* what was saved
          late,     \* files the user has edited since an installer looked at them last
          author,   \* by file: the installer whose replacement it holds
          spent     \* edits, faults and runs; and whether the files may disagree

integrationvars == <<files, locks, run, backups, late, author, spent>>

Absent == [there |-> FALSE, text |-> Unowned, part |-> Unowned]
Content == {Absent} \cup [there : {TRUE}, text : Texts \cup {Unowned}, part : Installers \cup {Unowned}]

\* todo: what the phase has still to go through, directories in "lock", else files.
IdleRun == [pc |-> "idle", todo |-> {}, before |-> [f \in Files |-> Absent],
            written |-> {}, conflicts |-> {}]

IntegrationTypeOK ==
  /\ files \in [Files -> Content]
  /\ locks \in [Dirs -> Installers \cup {Unowned}]
  /\ run \in [Installers -> [pc : {"idle", "prepare", "lock", "check", "backup", "confirm", "replace",
                                    "undo", "restore", "done", "refused", "failed"},
                             todo : SUBSET (Files \cup Dirs),
                             before : [Files -> Content], written : SUBSET Files,
                             conflicts : SUBSET Files]]
  /\ backups \subseteq Files \X Content
  /\ late \subseteq Files
  /\ author \in [Files -> Installers \cup {Unowned}]
  /\ spent \in [edits : 0..Edits, faults : 0..Faults, runs : [Installers -> 0..Attempts],
                torn : BOOLEAN]

IntegrationInit ==
  /\ \/ files \in [Files -> {Absent} \cup {[there |-> TRUE, text |-> t, part |-> Unowned] : t \in Texts}]
     \/ \E i \in Installers :       \* one has been there before
          files \in [Files -> {[there |-> TRUE, text |-> t, part |-> i] :
                                   t \in {Unowned} \cup (Texts \ Malformed)}]
  /\ locks = [d \in Dirs |-> Unowned]
  /\ run = [i \in Installers |-> IdleRun]
  /\ backups = {} /\ late = {} /\ author = [f \in Files |-> Unowned]
  /\ spent = [edits |-> 0, faults |-> 0, runs |-> [i \in Installers |-> 0], torn |-> FALSE]

(***************************************************************************)
(* The plan.                                                               *)
(***************************************************************************)
\* Edit.after: the text kept, with this version's part.
Planned(i, content) == [content EXCEPT !.there = TRUE, !.part = i]

\* The edits that change their file; without any, commit does nothing.
Changed(i) == {f \in Files : run[i].before[f] # Planned(i, run[i].before[f])}
DirsOf(i) == {DirOf[f] : f \in Changed(i)}

At(i, pc) == run[i].pc = pc
\* What was written is taken back in the reverse order.
Head1(i) == IF run[i].pc \in {"undo", "restore"} THEN Max(run[i].todo) ELSE Min(run[i].todo)
\* Done with one: the rest, and when nothing is left, the next phase.
Rest(i) == run[i].todo \ {Head1(i)}
Advance(i, next, todo) ==
  IF Rest(i) = {} THEN [run[i] EXCEPT !.pc = next, !.todo = todo]
  ELSE [run[i] EXCEPT !.todo = Rest(i)]

Unlocked(i) == [d \in Dirs |-> IF locks[d] = i THEN Unowned ELSE locks[d]]
\* Every end closes the locks.
Stops(i, pc, conflicts) ==
  /\ locks' = Unlocked(i)
  /\ run' = [run EXCEPT ![i] = [IdleRun EXCEPT !.pc = pc, !.conflicts = conflicts]]

Install(i) ==
  /\ run[i].pc \in {"idle", "done", "refused", "failed"} /\ spent.runs[i] < Attempts
  /\ run' = [run EXCEPT ![i] = [IdleRun EXCEPT !.pc = "prepare", !.todo = Files]]
  /\ spent' = [spent EXCEPT !.runs[i] = @ + 1]
  /\ author' = [f \in Files |-> IF author[f] = i THEN Unowned ELSE author[f]]
  /\ UNCHANGED <<files, locks, backups, late>>

\* Edit.read, and merge_hooks or managed_markdown, which refuse what they cannot parse.
Prepare(i) ==
  LET f == Head1(i)
      read == [run[i].before EXCEPT ![f] = files[f]]
  IN /\ At(i, "prepare")
     /\ IF files[f].text \in Malformed THEN Stops(i, "refused", {})
        ELSE /\ run' = [run EXCEPT ![i] = [Advance(i, "lock", {}) EXCEPT !.before = read]]
             /\ UNCHANGED locks
     /\ UNCHANGED <<files, backups, late, author, spent>>

\* The plan is complete: the directories to lock are known.
Begin(i) ==
  /\ At(i, "lock") /\ run[i].todo = {}
  /\ IF Changed(i) = {} THEN Stops(i, "done", {})
     ELSE run' = [run EXCEPT ![i].todo = DirsOf(i)] /\ UNCHANGED locks
  /\ UNCHANGED <<files, backups, late, author, spent>>

Lock(i) ==
  LET d == Head1(i)
  IN /\ At(i, "lock") /\ run[i].todo # {}
     /\ IF locks[d] # Unowned THEN Stops(i, "refused", {})
        ELSE /\ locks' = [locks EXCEPT ![d] = i]
             /\ run' = [run EXCEPT ![i] = Advance(i, "check", Changed(i))]
     /\ UNCHANGED <<files, backups, late, author, spent>>

(***************************************************************************)
(* commit                                                                  *)
(***************************************************************************)
\* Mutant: a file that is still there counts as unchanged.
UnchangedThere(i, f) == files[f].there = run[i].before[f].there

Unchanged(i, f) == files[f] = run[i].before[f]
\* Also the files that needed no change when they were read; nothing checks this.
AllUnchanged(i) == \A f \in Files \ (late \cup run[i].written) : Unchanged(i, f)

OneFault == spent.faults < Faults /\ spent' = [spent EXCEPT !.faults = @ + 1]

Check(i) ==
  /\ At(i, "check")
  /\ IF ~Unchanged(i, Head1(i)) THEN Stops(i, "refused", {})
     ELSE run' = [run EXCEPT ![i] = Advance(i, "backup", Changed(i))] /\ UNCHANGED locks
  /\ UNCHANGED <<files, backups, late, author, spent>>

Backup(i) ==
  LET f == Head1(i)
  IN /\ At(i, "backup")
     /\ \/ /\ backups' = IF run[i].before[f].there THEN backups \cup {<<f, run[i].before[f]>>} ELSE backups
           /\ run' = [run EXCEPT ![i] = Advance(i, "confirm", Changed(i))]
           /\ UNCHANGED <<locks, spent>>
        \/ OneFault /\ Stops(i, "refused", {}) /\ UNCHANGED backups
     /\ UNCHANGED <<files, late, author>>

\* Mutant: it does not take back what it has written.
GivesUpAtOnce(i) == Stops(i, "failed", {})

GivesUp(i) ==
  IF run[i].written = {} THEN Stops(i, "failed", {})
  ELSE /\ run' = [run EXCEPT ![i].pc = "undo", ![i].todo = run[i].written]
       /\ UNCHANGED locks

\* The last look at the file.
Confirm(i) ==
  LET f == Head1(i)
  IN /\ At(i, "confirm")
     /\ IF Unchanged(i, f)
        THEN run' = [run EXCEPT ![i].pc = "replace"] /\ late' = late \ {f} /\ UNCHANGED locks
        ELSE GivesUp(i) /\ UNCHANGED late
     /\ UNCHANGED <<files, backups, author, spent>>

Replace(i) ==
  LET f == Head1(i)
  IN /\ At(i, "replace")
     /\ \/ /\ files' = [files EXCEPT ![f] = Planned(i, run[i].before[f])]
           /\ author' = [author EXCEPT ![f] = i]
           /\ spent' = [spent EXCEPT !.torn = @ \/ ~AllUnchanged(i)]
           /\ IF Rest(i) = {} THEN Stops(i, "done", {})
              ELSE /\ run' = [run EXCEPT ![i].pc = "confirm", ![i].todo = Rest(i),
                                         ![i].written = @ \cup {f}]
                   /\ UNCHANGED locks
        \/ OneFault /\ GivesUp(i) /\ UNCHANGED <<files, author>>
     /\ UNCHANGED <<backups, late>>

\* The next of the rest; at the end the conflicts are reported.
NextUndo(i, conflicts) ==
  IF Rest(i) = {} THEN Stops(i, "failed", conflicts)
  ELSE /\ run' = [run EXCEPT ![i].pc = "undo", ![i].todo = Rest(i), ![i].conflicts = conflicts]
       /\ UNCHANGED locks

\* Is it still what was written?  Otherwise the user has it, and is told.
Undo(i) ==
  LET f == Head1(i)
  IN /\ At(i, "undo")
     /\ \/ /\ files[f] = Planned(i, run[i].before[f])
           /\ run' = [run EXCEPT ![i].pc = "restore"] /\ late' = late \ {f}
           /\ UNCHANGED <<locks, spent>>
        \/ /\ files[f] # Planned(i, run[i].before[f])
           /\ NextUndo(i, run[i].conflicts \cup {f}) /\ UNCHANGED late
           /\ spent' = [spent EXCEPT !.torn = TRUE]
     /\ UNCHANGED <<files, backups, author>>

Restore(i) ==
  LET f == Head1(i)
  IN /\ At(i, "restore")
     /\ \/ /\ files' = [files EXCEPT ![f] = run[i].before[f]]
           /\ author' = [author EXCEPT ![f] = Unowned]
           /\ NextUndo(i, run[i].conflicts) /\ UNCHANGED spent
        \/ /\ spent.faults < Faults
           /\ spent' = [spent EXCEPT !.faults = @ + 1, !.torn = TRUE]
           /\ NextUndo(i, run[i].conflicts \cup {f}) /\ UNCHANGED <<files, author>>
     /\ UNCHANGED <<backups, late>>

(***************************************************************************)
(* The world.                                                              *)
(***************************************************************************)
\* The installer is killed; its locks go with it.
Killed(i) ==
  /\ run[i].pc \notin {"idle", "done", "refused", "failed"} /\ spent.faults < Faults
  /\ spent' = [spent EXCEPT !.faults = @ + 1, !.torn = TRUE]
  /\ Stops(i, "idle", {})
  /\ UNCHANGED <<files, backups, late, author>>

\* The user writes, keeps memcap's part or not, or removes the file.
UserEdits(f) ==
  /\ spent.edits < Edits /\ spent' = [spent EXCEPT !.edits = @ + 1, !.torn = TRUE]
  /\ \/ \E t \in Texts : \E part \in {files[f].part, Unowned} :
          files' = [files EXCEPT ![f] = [there |-> TRUE, text |-> t, part |-> part]]
     \/ files' = [files EXCEPT ![f] = Absent]
  /\ files' # files
  /\ late' = late \cup {f} /\ author' = [author EXCEPT ![f] = Unowned]
  /\ UNCHANGED <<locks, run, backups>>

IntegrationNext ==
  \/ \E f \in Files : UserEdits(f)
  \/ \E i \in Installers :
       \/ Install(i) \/ Prepare(i) \/ Begin(i) \/ Lock(i) \/ Check(i) \/ Backup(i)
       \/ Confirm(i) \/ Replace(i) \/ Undo(i) \/ Restore(i) \/ Killed(i)

IntegrationSpec == IntegrationInit /\ [][IntegrationNext]_integrationvars

(***************************************************************************)
(* Properties.                                                             *)
(***************************************************************************)
\* README.md:372-373: "partial write failures restore unchanged originals when
\* possible and report any file needing manual recovery".  An update that failed
\* has left no file of its own, unless it reported it.
AllOrNothing ==
  \A i \in Installers : At(i, "failed") => \A f \in Files : author[f] = i => f \in run[i].conflicts

\* Two installers of different versions never leave a mixture: while no lock is
\* held, all files have memcap's part from the same one, or none has.  The user,
\* a kill, a restoration that fails, and a file that is not checked again because
\* it was right when it was read, may each leave one.
OneInstallation ==
  (\A d \in Dirs : locks[d] = Unowned) /\ ~spent.torn =>
    \A f, g \in Files : files[f].part = files[g].part

InstallationWhole == AllOrNothing /\ OneInstallation

\* README.md:374-375: concurrent edits are reported instead of overwritten.  What
\* an installer replaces keeps its text and, if it is the user's, was saved
\* before, unless it differs by memcap's part alone; except for an edit after the
\* last look at the file.
EditsKept ==
  [][\A f \in Files :
       files'[f] # files[f] /\ spent'.edits = spent.edits /\ f \notin late =>
         /\ files'[f].text = files[f].text
         /\ author[f] = Unowned /\ files[f].there =>
              \/ <<f, files[f]>> \in backups
              \/ \E i \in Installers : files[f] = Planned(i, files'[f])]_integrationvars
==============================================================================
