------------------------- MODULE IntegrationProofs -------------------------
(***************************************************************************)
(* Proofs about the installation (integrate.py).                           *)
(*                                                                         *)
(* Integration: IntegrationInv says which locks an installer holds and how *)
(* far it has come, that the old contents are saved before anything is     *)
(* replaced, and that over files that agreed one at a time writes.         *)
(*                                                                         *)
(* HookMerge: the merge of an event is a function by recursion on its      *)
(* groups, and that of a group one on its handlers.  StepInv and PassInv   *)
(* say what holds after n of them; AgainInv and AgainPass say it of a      *)
(* second merge, which meets every generated handler where the first has   *)
(* put it.                                                                 *)
(***************************************************************************)
EXTENDS Integration, HookMerge, ProcessTableProofs, SequenceTheorems

(***************************************************************************)
(* Integration.                                                            *)
(***************************************************************************)

AtRest == {"idle", "done", "refused", "failed"}
\* The phases of commit in which the locks are held.
Holding(i) == run[i].pc \in {"check", "backup", "confirm", "replace", "undo", "restore"}

\* What each phase has still to go through.
TodoShape(i) ==
  /\ run[i].pc \in AtRest => run[i].todo = {} /\ run[i].written = {}
  /\ run[i].pc \in {"prepare", "lock", "check", "backup"} => run[i].written = {} /\ run[i].conflicts = {}
  /\ run[i].pc = "prepare" => run[i].todo \subseteq Files /\ run[i].todo # {}
  /\ run[i].pc = "lock" => run[i].todo \subseteq DirsOf(i)
  /\ Holding(i) => run[i].todo # {} /\ run[i].todo \cup run[i].written \subseteq Changed(i)
  /\ run[i].pc \in {"confirm", "replace"} =>
       run[i].todo \cup run[i].written = Changed(i) /\ run[i].todo \cap run[i].written = {}

LocksHeld(i) ==
  /\ run[i].pc = "lock" /\ run[i].todo # {} => \A d \in DirsOf(i) \ run[i].todo : locks[d] = i
  /\ Holding(i) => \A d \in DirsOf(i) : locks[d] = i

\* The old contents are saved, and the file in hand is as it was when it was looked at.
Saved(i, S) == \A f \in S : run[i].before[f].there => <<f, run[i].before[f]>> \in backups
Prepared(i) ==
  /\ run[i].pc = "backup" => Saved(i, Changed(i) \ run[i].todo)
  /\ run[i].pc \in {"confirm", "replace", "undo", "restore"} => Saved(i, Changed(i))
  /\ run[i].pc = "replace" /\ Head1(i) \notin late => files[Head1(i)] = run[i].before[Head1(i)]
  /\ run[i].pc = "restore" /\ Head1(i) \notin late =>
       files[Head1(i)] = Planned(i, run[i].before[Head1(i)])

\* Where its own replacements may still be.
AuthorKnown(i) ==
  \A f \in Files : author[f] = i =>
    /\ run[i].pc \notin {"prepare", "lock", "check", "backup"}
    /\ run[i].pc \in {"confirm", "replace"} => f \in run[i].written
    /\ run[i].pc \in {"undo", "restore"} => f \in run[i].todo \cup run[i].conflicts
    /\ run[i].pc = "failed" => f \in run[i].conflicts

RunTrue(i) == TodoShape(i) /\ LocksHeld(i) /\ Prepared(i) /\ AuthorKnown(i)

\* What it has replaced and not put back.
Mine(i) == IF run[i].pc \in {"confirm", "replace"} THEN run[i].written
           ELSE IF run[i].pc \in {"undo", "restore"} THEN run[i].todo ELSE {}

SameParts(contents) == \A f, g \in Files : contents[f].part = contents[g].part
Replaced(i, S) == \A f \in Files : files[f] = IF f \in S THEN Planned(i, run[i].before[f]) ELSE run[i].before[f]

\* One at a time writes, over files that agreed; with nobody writing they agree.
Agreeing ==
  ~spent.torn =>
    /\ late = {}
    /\ (\A i \in Installers : Mine(i) = {}) => SameParts(files)
    /\ \A i \in Installers : Mine(i) # {} =>
         /\ SameParts(run[i].before) /\ Replaced(i, Mine(i))
         /\ \A j \in Installers \ {i} : Mine(j) = {}

IntegrationInv == IntegrationTypeOK /\ Agreeing /\ \A i \in Installers : RunTrue(i)

RunType == [pc : AtRest \cup {"prepare", "lock", "check", "backup", "confirm", "replace", "undo", "restore"},
            todo : SUBSET (Files \cup Dirs), before : [Files -> Content],
            written : SUBSET Files, conflicts : SUBSET Files]
SpentType == [edits : 0..Edits, faults : 0..Faults, runs : [Installers -> 0..Attempts], torn : BOOLEAN]

LEMMA IntegrationTypes ==
  IntegrationTypeOK <=>
    /\ files \in [Files -> Content] /\ locks \in [Dirs -> Installers \cup {Unowned}]
    /\ run \in [Installers -> RunType] /\ backups \subseteq Files \X Content /\ late \subseteq Files
    /\ author \in [Files -> Installers \cup {Unowned}] /\ spent \in SpentType
<1>1. RunType = [pc : {"idle", "prepare", "lock", "check", "backup", "confirm", "replace",
                       "undo", "restore", "done", "refused", "failed"},
                 todo : SUBSET (Files \cup Dirs), before : [Files -> Content],
                 written : SUBSET Files, conflicts : SUBSET Files]
  BY DEF RunType, AtRest
<1> QED BY <1>1, Zenon DEF IntegrationTypeOK, SpentType

LEMMA IntegrationTypesNext ==
  /\ files' \in [Files -> Content] /\ locks' \in [Dirs -> Installers \cup {Unowned}]
  /\ run' \in [Installers -> RunType] /\ backups' \subseteq Files \X Content /\ late' \subseteq Files
  /\ author' \in [Files -> Installers \cup {Unowned}] /\ spent' \in SpentType
  => IntegrationTypeOK'
<1>1. RunType = [pc : {"idle", "prepare", "lock", "check", "backup", "confirm", "replace",
                       "undo", "restore", "done", "refused", "failed"},
                 todo : SUBSET (Files \cup Dirs), before : [Files -> Content],
                 written : SUBSET Files, conflicts : SUBSET Files]
  BY DEF RunType, AtRest
<1> QED BY <1>1, Zenon DEF IntegrationTypeOK, SpentType

\* What every step may rely on.
LEMMA IntegrationFacts ==
  ASSUME IntegrationInv, NEW i \in Installers
  PROVE  /\ run[i] \in RunType /\ run \in [Installers -> RunType]
         /\ Changed(i) \subseteq Files /\ DirsOf(i) \subseteq Dirs
         /\ run[i].todo # {} => Head1(i) \in run[i].todo
         /\ i # Unowned /\ Unowned \notin Installers /\ Files # {}
         /\ DirOf \in [Files -> Dirs]
<1> USE IntegrationAssumption
<1>1. run[i] \in RunType /\ run \in [Installers -> RunType]
  BY IntegrationTypes DEF IntegrationInv
<1>2. Changed(i) \subseteq Files /\ DirsOf(i) \subseteq Dirs
  BY DEF Changed, DirsOf
<1>3. ASSUME run[i].todo # {} PROVE Head1(i) \in run[i].todo
  <2>1. run[i].todo \subseteq Files \cup Dirs /\ Files \cup Dirs \subseteq Nat
    BY <1>1 DEF RunType
  <2>2. IsFiniteSet(run[i].todo)
    <3>1. IsFiniteSet(Files \cup Dirs)
      BY FS_Union
    <3> QED BY <2>1, <3>1, FS_Subset
  <2>3. Min(run[i].todo) \in run[i].todo /\ Max(run[i].todo) \in run[i].todo
    BY <1>3, <2>1, <2>2, LeastIn, GreatestIn
  <2> QED BY <2>3, Zenon DEF Head1
<1> QED BY <1>1, <1>2, <1>3

\* What the locks of another protect: a step of one installer leaves what is true of
\* another as it is.
LEMMA OthersStay ==
  ASSUME IntegrationInv, NEW j \in Installers, run'[j] = run[j],
         \A d \in Dirs : locks[d] = j => locks'[d] = j,
         backups \subseteq backups',
         \A f \in Files : author'[f] = j => author[f] = j,
         \A f \in Files : locks[DirOf[f]] = j =>
           (files'[f] = files[f] /\ (f \in late => f \in late')) \/ f \in late'
  PROVE  RunTrue(j)'
<1>1. /\ run[j] \in RunType /\ Changed(j) \subseteq Files /\ DirsOf(j) \subseteq Dirs
      /\ run[j].todo # {} => Head1(j) \in run[j].todo
  BY IntegrationFacts
<1>2. Changed(j)' = Changed(j)
  BY DEF Changed, Planned
<1>3. DirsOf(j)' = DirsOf(j)
  BY <1>2, Zenon DEF DirsOf
<1>4. Head1(j)' = Head1(j)
  BY DEF Head1
<1>5. TodoShape(j)' /\ LocksHeld(j)' /\ AuthorKnown(j)'
  <2>1. TodoShape(j) /\ LocksHeld(j) /\ AuthorKnown(j)
    BY DEF IntegrationInv, RunTrue
  <2>2. TodoShape(j)'
    BY <1>2, <1>3, <2>1 DEF TodoShape, Holding
  <2>3. LocksHeld(j)'
    BY <1>1, <1>3, <2>1 DEF LocksHeld, Holding
  <2>4. AuthorKnown(j)'
    BY <2>1 DEF AuthorKnown
  <2> QED BY <2>2, <2>3, <2>4
<1>6. Prepared(j)'
  <2>0. Prepared(j)
    BY DEF IntegrationInv, RunTrue
  <2> DEFINE h == Head1(j)
  <2>1. ASSUME run[j].pc \in {"replace", "restore"}
        PROVE  h \in Files /\ locks[DirOf[h]] = j
    <3>1. Holding(j) /\ run[j].todo \subseteq Changed(j) /\ run[j].todo # {}
      BY <2>1 DEF IntegrationInv, RunTrue, TodoShape, Holding
    <3>2. h \in Changed(j)
      BY <1>1, <3>1
    <3>3. DirOf[h] \in DirsOf(j)
      BY <3>2 DEF DirsOf
    <3> QED BY <1>1, <3>1, <3>2, <3>3 DEF IntegrationInv, RunTrue, LocksHeld
  <2>2. \A S : Saved(j, S) => Saved(j, S)'
    BY DEF Saved
  <2>3. ASSUME run[j].pc \in {"replace", "restore"}, h \notin late'
        PROVE  files'[h] = files[h] /\ h \notin late
    BY <2>1, <2>3
  <2>4. Planned(j, run[j].before[h])' = Planned(j, run[j].before[h])
    BY <1>4 DEF Planned
  <2> HIDE DEF h
  <2>5. /\ run'[j].pc = "backup" => Saved(j, Changed(j) \ run[j].todo)'
        /\ run'[j].pc \in {"confirm", "replace", "undo", "restore"} => Saved(j, Changed(j))'
    <3>1. /\ run'[j].pc = "backup" => Saved(j, Changed(j) \ run[j].todo)
          /\ run'[j].pc \in {"confirm", "replace", "undo", "restore"} => Saved(j, Changed(j))
      BY <2>0 DEF Prepared
    <3>2. /\ Saved(j, Changed(j) \ run[j].todo) => Saved(j, Changed(j) \ run[j].todo)'
          /\ Saved(j, Changed(j)) => Saved(j, Changed(j))'
      BY <1>2 DEF Saved
    <3> QED BY <3>1, <3>2, Zenon
  <2>6. /\ run'[j].pc = "replace" /\ h \notin late' => files'[h] = run[j].before[h]
        /\ run'[j].pc = "restore" /\ h \notin late' => files'[h] = Planned(j, run[j].before[h])
    BY <2>0, <2>3 DEF Prepared, h
  <2> QED BY <1>2, <1>4, <2>4, <2>5, <2>6 DEF Prepared, Saved, h
<1> QED BY <1>5, <1>6 DEF RunTrue

\* The edits that change something are those of what was read.
LEMMA SameChanges ==
  ASSUME NEW i, run'[i].before = run[i].before
  PROVE  Changed(i)' = Changed(i) /\ DirsOf(i)' = DirsOf(i)
<1>1. Changed(i)' = Changed(i)
  BY DEF Changed, Planned
<1> QED BY <1>1, Zenon DEF DirsOf

\* Whoever stops holds no lock and has nothing left to put back.
LEMMA StopsTrue ==
  ASSUME IntegrationInv, NEW i \in Installers, NEW pc \in AtRest, NEW conflicts \in SUBSET Files,
         Stops(i, pc, conflicts), \A f \in Files : author'[f] = i /\ pc = "failed" => f \in conflicts
  PROVE  /\ run' \in [Installers -> RunType] /\ locks' \in [Dirs -> Installers \cup {Unowned}]
         /\ RunTrue(i)' /\ Mine(i)' = {}
         /\ \A j \in Installers \ {i} : run'[j] = run[j] /\ \A d \in Dirs : locks[d] = j => locks'[d] = j
<1> DEFINE r == [pc |-> pc, todo |-> {}, before |-> [f \in Files |-> Absent], written |-> {}, conflicts |-> conflicts]
<1>1. run' = [run EXCEPT ![i] = r] /\ locks' = Unlocked(i)
  <2>1. [IdleRun EXCEPT !.pc = pc, !.conflicts = conflicts] = r
    <3> DEFINE b == [f \in Files |-> Absent]
    <3> DEFINE idle == [pc |-> "idle", todo |-> {}, before |-> b, written |-> {}, conflicts |-> {}]
    <3>1. IdleRun = idle
      BY Zenon DEF IdleRun
    <3> HIDE DEF b
    <3>2. [idle EXCEPT !.pc = pc, !.conflicts = conflicts] = [pc |-> pc, todo |-> {}, before |-> b, written |-> {}, conflicts |-> conflicts]
      <4> DEFINE changed == [idle EXCEPT !.pc = pc, !.conflicts = conflicts]
      <4>1. changed \in [pc : {pc}, todo : {{}}, before : {b}, written : {{}}, conflicts : {conflicts}]
        OBVIOUS
      <4> HIDE DEF changed
      <4>2. changed = [pc |-> pc, todo |-> {}, before |-> b, written |-> {}, conflicts |-> conflicts]
        BY <4>1
      <4> QED BY <4>2, Zenon DEF changed
    <3> HIDE DEF idle
    <3> QED BY <3>1, <3>2, Zenon DEF b
  <2> HIDE DEF r
  <2> QED BY <2>1, Zenon DEF Stops
<1>2. run \in [Installers -> RunType] /\ locks \in [Dirs -> Installers \cup {Unowned}]
  BY IntegrationTypes DEF IntegrationInv
<1>3. r \in RunType
  BY DEF RunType, Content
<1>4. run'[i] = r /\ run' \in [Installers -> RunType] /\ \A j \in Installers \ {i} : run'[j] = run[j]
  <2> HIDE DEF r
  <2> QED BY <1>1, <1>2, <1>3
<1>5. /\ locks' \in [Dirs -> Installers \cup {Unowned}]
      /\ \A j \in Installers \ {i} : \A d \in Dirs : locks[d] = j => locks'[d] = j
  BY <1>1, <1>2 DEF Unlocked
<1>6. run'[i].pc = pc /\ run'[i].todo = {} /\ run'[i].written = {} /\ run'[i].conflicts = conflicts
  BY <1>4
<1>7. TodoShape(i)' /\ LocksHeld(i)' /\ Prepared(i)' /\ AuthorKnown(i)'
  BY <1>6 DEF TodoShape, LocksHeld, Prepared, AuthorKnown, Holding, AtRest
<1>8. Mine(i)' = {}
  BY <1>6 DEF Mine, AtRest
<1> QED BY <1>4, <1>5, <1>7, <1>8, Zenon DEF RunTrue

\* A step that replaces no file leaves the files agreeing as they did.
LEMMA AgreesStill ==
  ASSUME IntegrationInv, files' = files, late' \subseteq late, spent'.torn = spent.torn,
         \A i \in Installers : Mine(i)' = Mine(i) /\ (Mine(i) # {} => run'[i].before = run[i].before)
  PROVE  Agreeing'
<1> SUFFICES ASSUME ~spent'.torn PROVE Agreeing'
  BY Zenon DEF Agreeing
<1>1. /\ late = {}
      /\ (\A i \in Installers : Mine(i) = {}) => SameParts(files)
      /\ \A i \in Installers : Mine(i) # {} =>
           /\ SameParts(run[i].before) /\ Replaced(i, Mine(i))
           /\ \A j \in Installers \ {i} : Mine(j) = {}
  BY DEF IntegrationInv, Agreeing
<1>2. late' = {}
  BY <1>1
<1>3. (\A i \in Installers : Mine(i)' = {}) => SameParts(files)'
  BY <1>1, Zenon DEF SameParts
<1>4. ASSUME NEW i \in Installers, Mine(i)' # {}
      PROVE  /\ SameParts(run[i].before)' /\ Replaced(i, Mine(i))'
             /\ \A j \in Installers \ {i} : Mine(j)' = {}
  <2>1. Mine(i) # {} /\ run'[i].before = run[i].before /\ Mine(i)' = Mine(i)
    BY <1>4
  <2>2. SameParts(run[i].before)'
    BY <1>1, <2>1 DEF SameParts
  <2>3. Replaced(i, Mine(i))'
    <3>1. Replaced(i, Mine(i))
      BY <1>1, <2>1, Zenon
    <3> DEFINE before == run[i].before
               S == Mine(i)
    <3>2. \A f \in Files : files[f] = IF f \in S THEN Planned(i, before[f]) ELSE before[f]
      BY <3>1, Zenon DEF Replaced
    <3>3. files' = files /\ run'[i].before = before /\ Mine(i)' = S
      BY <2>1
    <3> HIDE DEF before, S
    <3>4. \A f \in Files : files'[f] = IF f \in Mine(i)' THEN Planned(i, run'[i].before[f]) ELSE run'[i].before[f]
      BY <3>2, <3>3, Zenon
    <3> QED BY <3>4, Zenon DEF Replaced
  <2> QED BY <1>1, <2>1, <2>2, <2>3
<1> QED BY <1>2, <1>3, <1>4, Zenon DEF Agreeing

\* An installer that has written is in the middle of commit and holds a lock.
LEMMA WriterHolds ==
  ASSUME IntegrationInv, NEW i \in Installers, Mine(i) # {}
  PROVE  Holding(i) /\ Changed(i) # {} /\ \A d \in DirsOf(i) : locks[d] = i
BY DEF IntegrationInv, RunTrue, Mine, TodoShape, LocksHeld, Holding

LEMMA InstallTrue ==
  ASSUME IntegrationInv, NEW i \in Installers, Install(i)
  PROVE  IntegrationInv'
<1> USE IntegrationAssumption
<1> DEFINE r == [pc |-> "prepare", todo |-> Files, before |-> [f \in Files |-> Absent],
                 written |-> {}, conflicts |-> {}]
<1>1. /\ files \in [Files -> Content] /\ locks \in [Dirs -> Installers \cup {Unowned}]
      /\ run \in [Installers -> RunType] /\ author \in [Files -> Installers \cup {Unowned}] /\ spent \in SpentType
      /\ backups \subseteq Files \X Content /\ late \subseteq Files
  BY IntegrationTypes DEF IntegrationInv
<1>2. run' = [run EXCEPT ![i] = r]
  <2>1. [IdleRun EXCEPT !.pc = "prepare", !.todo = Files] = r
    <3> DEFINE b == [f \in Files |-> Absent]
    <3> DEFINE idle == [pc |-> "idle", todo |-> {}, before |-> b, written |-> {}, conflicts |-> {}]
    <3>1. IdleRun = idle
      BY Zenon DEF IdleRun
    <3> HIDE DEF b
    <3>2. [idle EXCEPT !.pc = "prepare", !.todo = Files] = [pc |-> "prepare", todo |-> Files, before |-> b, written |-> {}, conflicts |-> {}]
      <4> DEFINE changed == [idle EXCEPT !.pc = "prepare", !.todo = Files]
      <4>1. changed \in [pc : {"prepare"}, todo : {Files}, before : {b}, written : {{}}, conflicts : {{}}]
        OBVIOUS
      <4> HIDE DEF changed
      <4>2. changed = [pc |-> "prepare", todo |-> Files, before |-> b, written |-> {}, conflicts |-> {}]
        BY <4>1
      <4> QED BY <4>2, Zenon DEF changed
    <3> HIDE DEF idle
    <3> QED BY <3>1, <3>2, Zenon DEF b
  <2> HIDE DEF r
  <2> QED BY <2>1, Zenon DEF Install
<1>3. r \in RunType
  BY DEF RunType, Content
<1>4. run'[i] = r /\ run' \in [Installers -> RunType] /\ \A j \in Installers \ {i} : run'[j] = run[j]
  <2> HIDE DEF r
  <2> QED BY <1>1, <1>2, <1>3
<1>5. author' \in [Files -> Installers \cup {Unowned}]
  BY <1>1 DEF Install
<1>6. spent' \in SpentType /\ spent'.torn = spent.torn
  BY <1>1 DEF Install, SpentType
<1>7. /\ \A f \in Files : author'[f] # i
      /\ \A j \in Installers : \A f \in Files : author'[f] = j => author[f] = j
  BY IntegrationFacts, <1>1 DEF Install
<1>8. IntegrationTypeOK'
  BY <1>1, <1>4, <1>5, <1>6, IntegrationTypesNext DEF IntegrationInv, Install
<1>9. RunTrue(i)'
  <2>1. run'[i].pc = "prepare" /\ run'[i].todo = Files /\ run'[i].written = {} /\ run'[i].conflicts = {}
    BY <1>4
  <2>2. TodoShape(i)' /\ LocksHeld(i)' /\ Prepared(i)'
    BY <2>1 DEF TodoShape, LocksHeld, Prepared, Holding, AtRest
  <2>3. AuthorKnown(i)'
    BY <1>7 DEF AuthorKnown
  <2> QED BY <2>2, <2>3 DEF RunTrue
<1>10. ASSUME NEW j \in Installers \ {i} PROVE RunTrue(j)'
  BY <1>4, <1>7, OthersStay DEF Install
<1>11. \A j \in Installers : Mine(j)' = Mine(j) /\ (Mine(j) # {} => run'[j].before = run[j].before)
  <2>1. Mine(i)' = {} /\ Mine(i) = {}
    BY <1>4 DEF Mine, Install
  <2>2. ASSUME NEW j \in Installers \ {i} PROVE Mine(j)' = Mine(j) /\ run'[j].before = run[j].before
    BY <1>4 DEF Mine
  <2> QED BY <2>1, <2>2
<1>12. Agreeing'
  BY <1>6, <1>11, AgreesStill DEF Install
<1> QED BY <1>8, <1>9, <1>10, <1>12, Zenon DEF IntegrationInv

\* What is left of a step of an installer that replaces no file: its own part.
LEMMA RestTrue ==
  ASSUME IntegrationInv, NEW i \in Installers,
         run' \in [Installers -> RunType], locks' \in [Dirs -> Installers \cup {Unowned}],
         RunTrue(i)',
         \A j \in Installers \ {i} : run'[j] = run[j] /\ \A d \in Dirs : locks[d] = j => locks'[d] = j,
         backups \subseteq backups', backups' \subseteq Files \X Content, files' = files, author' = author,
         late' \subseteq late, \A f \in late \ late' : locks[DirOf[f]] = i,
         spent' \in SpentType, spent.torn => spent'.torn,
         spent'.torn = spent.torn =>
           Mine(i)' = Mine(i) /\ (Mine(i) # {} => run'[i].before = run[i].before)
  PROVE  IntegrationInv'
<1>1. IntegrationTypeOK'
  BY IntegrationTypes, IntegrationTypesNext DEF IntegrationInv
<1>2. ASSUME NEW j \in Installers \ {i} PROVE RunTrue(j)'
  <2>1. \A f \in Files : locks[DirOf[f]] = j => (files'[f] = files[f] /\ (f \in late => f \in late')) \/ f \in late'
    BY IntegrationFacts
  <2> QED BY <2>1, OthersStay
<1>3. Agreeing'
  <2>1. CASE spent'.torn = spent.torn
    <3>1. \A j \in Installers \ {i} : Mine(j)' = Mine(j) /\ run'[j].before = run[j].before
      BY DEF Mine
    <3> QED BY <2>1, <3>1, AgreesStill
  <2>2. CASE spent'.torn # spent.torn
    <3>1. spent'.torn \in BOOLEAN /\ spent.torn \in BOOLEAN
      BY IntegrationTypes DEF IntegrationInv, SpentType
    <3>2. spent'.torn
      BY <2>2, <3>1
    <3> QED BY <3>2, Zenon DEF Agreeing
  <2> QED BY <2>1, <2>2
<1> QED BY <1>1, <1>2, <1>3, Zenon DEF IntegrationInv

\* The fields of a run after one step of a phase.
LEMMA AdvanceIs ==
  ASSUME NEW i, run[i] \in RunType, NEW todo \in SUBSET (Files \cup Dirs),
         NEW next \in {"lock", "check", "backup", "confirm"}
  PROVE  /\ Advance(i, next, todo) \in RunType
         /\ Advance(i, next, todo).before = run[i].before
         /\ Advance(i, next, todo).written = run[i].written
         /\ Advance(i, next, todo).conflicts = run[i].conflicts
         /\ \/ Rest(i) = {} /\ Advance(i, next, todo).pc = next /\ Advance(i, next, todo).todo = todo
            \/ Rest(i) # {} /\ Advance(i, next, todo).pc = run[i].pc /\ Advance(i, next, todo).todo = Rest(i)
<1>1. CASE Rest(i) = {}
  <2>1. Advance(i, next, todo) = [run[i] EXCEPT !.pc = next, !.todo = todo]
    BY <1>1, Zenon DEF Advance
  <2> QED BY <1>1, <2>1 DEF RunType
<1>2. CASE Rest(i) # {}
  <2>1. Advance(i, next, todo) = [run[i] EXCEPT !.todo = Rest(i)]
    BY <1>2, Zenon DEF Advance
  <2>2. Rest(i) \in SUBSET (Files \cup Dirs)
    BY DEF Rest, RunType
  <2> QED BY <1>2, <2>1, <2>2 DEF RunType
<1> QED BY <1>1, <1>2

\* An installer goes on: the others stay where they are.
LEMMA GoesOn ==
  ASSUME IntegrationInv, NEW i \in Installers, NEW r \in RunType, run' = [run EXCEPT ![i] = r]
  PROVE  /\ run' \in [Installers -> RunType] /\ run'[i] = r
         /\ \A j \in Installers \ {i} : run'[j] = run[j]
BY IntegrationFacts

\* The state every step starts from.
LEMMA IntegrationNow ==
  ASSUME IntegrationInv
  PROVE  /\ files \in [Files -> Content] /\ locks \in [Dirs -> Installers \cup {Unowned}]
         /\ backups \subseteq Files \X Content /\ late \subseteq Files
         /\ author \in [Files -> Installers \cup {Unowned}] /\ spent \in SpentType
BY IntegrationTypes DEF IntegrationInv

LEMMA PrepareTrue ==
  ASSUME IntegrationInv, NEW i \in Installers, Prepare(i)
  PROVE  IntegrationInv'
<1> DEFINE f == Head1(i)
           read == [run[i].before EXCEPT ![f] = files[f]]
           r == [Advance(i, "lock", {}) EXCEPT !.before = read]
<1>1. /\ run[i] \in RunType
      /\ run[i].todo # {} => Head1(i) \in run[i].todo
      /\ TodoShape(i) /\ AuthorKnown(i) /\ run[i].pc = "prepare"
  BY IntegrationFacts DEF IntegrationInv, RunTrue, Prepare, At
<1>2. f \in Files /\ Mine(i) = {} /\ author' = author /\ \A g \in Files : author[g] # i
  <2>1. run[i].todo \subseteq Files /\ run[i].todo # {}
    BY <1>1 DEF TodoShape
  <2>2. \A g \in Files : author[g] # i
    BY <1>1 DEF AuthorKnown
  <2> QED BY <1>1, <2>1, <2>2 DEF Mine, Prepare
<1>3. CASE Stops(i, "refused", {})
  <2>1. /\ run' \in [Installers -> RunType] /\ locks' \in [Dirs -> Installers \cup {Unowned}]
        /\ RunTrue(i)' /\ Mine(i)' = {}
        /\ \A j \in Installers \ {i} : run'[j] = run[j] /\ \A d \in Dirs : locks[d] = j => locks'[d] = j
    BY <1>2, <1>3, StopsTrue DEF AtRest
  <2> QED BY <1>2, <2>1, RestTrue, IntegrationNow DEF Prepare
<1>4. CASE run' = [run EXCEPT ![i] = r] /\ locks' = locks
  <2> DEFINE a == Advance(i, "lock", {})
  <2>1. /\ a \in RunType /\ a.written = run[i].written /\ a.conflicts = run[i].conflicts
        /\ \/ Rest(i) = {} /\ a.pc = "lock" /\ a.todo = {}
           \/ Rest(i) # {} /\ a.pc = "prepare" /\ a.todo = Rest(i)
    <3>1. {} \in SUBSET (Files \cup Dirs) /\ "lock" \in {"lock", "check", "backup", "confirm"}
      OBVIOUS
    <3> QED BY <1>1, <3>1, AdvanceIs, Zenon
  <2>2. read \in [Files -> Content]
    <3>1. run[i].before \in [Files -> Content] /\ files[f] \in Content
      BY <1>1, <1>2, IntegrationNow DEF RunType
    <3> QED BY <3>1
  <2> HIDE DEF a, read
  <2>3. r \in RunType /\ r.pc = a.pc /\ r.todo = a.todo /\ r.written = {} /\ r.conflicts = {}
    BY <1>1, <2>1, <2>2 DEF a, RunType, TodoShape
  <2> HIDE DEF r
  <2>4. /\ run' \in [Installers -> RunType] /\ run'[i] = r
        /\ \A j \in Installers \ {i} : run'[j] = run[j]
    BY <1>4, <2>3, GoesOn
  <2>5. TodoShape(i)' /\ LocksHeld(i)' /\ Prepared(i)' /\ AuthorKnown(i)'
    <3>1. Rest(i) \subseteq Files
      BY <1>1 DEF Rest, TodoShape
    <3> QED BY <1>2, <2>1, <2>3, <2>4, <3>1 DEF TodoShape, LocksHeld, Prepared, AuthorKnown, Holding, AtRest
  <2>6. Mine(i)' = {}
    BY <2>1, <2>3, <2>4 DEF Mine
  <2>7. RunTrue(i)'
    BY <2>5, Zenon DEF RunTrue
  <2> QED BY <1>2, <1>4, <2>4, <2>6, <2>7, RestTrue, IntegrationNow DEF Prepare
<1> QED BY <1>3, <1>4 DEF Prepare

\* A step that only stops.
LEMMA StoppingTrue ==
  ASSUME IntegrationInv, NEW i \in Installers, NEW pc \in AtRest, NEW conflicts \in SUBSET Files,
         Stops(i, pc, conflicts), \A f \in Files : author[f] = i /\ pc = "failed" => f \in conflicts,
         files' = files, backups' = backups, late' = late, author' = author,
         spent' \in SpentType, spent.torn => spent'.torn, spent'.torn = spent.torn => Mine(i) = {}
  PROVE  IntegrationInv'
<1>1. /\ run' \in [Installers -> RunType] /\ locks' \in [Dirs -> Installers \cup {Unowned}]
      /\ RunTrue(i)' /\ Mine(i)' = {}
      /\ \A j \in Installers \ {i} : run'[j] = run[j] /\ \A d \in Dirs : locks[d] = j => locks'[d] = j
  BY StopsTrue
<1> QED BY <1>1, RestTrue, IntegrationNow

\* A step to the next of a phase, or to the next phase: what was planned stays.
LEMMA GoingTrue ==
  ASSUME IntegrationInv, NEW i \in Installers, NEW r \in RunType, run' = [run EXCEPT ![i] = r],
         r.before = run[i].before,
         locks' \in [Dirs -> Installers \cup {Unowned}],
         \A j \in Installers \ {i} : \A d \in Dirs : locks[d] = j => locks'[d] = j,
         TodoShape(i)', LocksHeld(i)', Prepared(i)', AuthorKnown(i)',
         files' = files, author' = author, backups \subseteq backups', backups' \subseteq Files \X Content,
         late' \subseteq late, \A f \in late \ late' : locks[DirOf[f]] = i,
         spent' \in SpentType, spent.torn => spent'.torn, spent'.torn = spent.torn => Mine(i)' = Mine(i)
  PROVE  IntegrationInv'
<1>1. /\ run' \in [Installers -> RunType] /\ run'[i] = r
      /\ \A j \in Installers \ {i} : run'[j] = run[j]
  BY GoesOn
<1>2. RunTrue(i)'
  BY Zenon DEF RunTrue
<1> QED BY <1>1, <1>2, RestTrue

LEMMA BeginTrue ==
  ASSUME IntegrationInv, NEW i \in Installers, Begin(i)
  PROVE  IntegrationInv'
<1> DEFINE r == [run[i] EXCEPT !.todo = DirsOf(i)]
<1>1. /\ run[i] \in RunType
      /\ DirsOf(i) \subseteq Dirs /\ TodoShape(i) /\ AuthorKnown(i) /\ run[i].pc = "lock"
  BY IntegrationFacts DEF IntegrationInv, RunTrue, Begin, At
<1>2. Mine(i) = {} /\ \A g \in Files : author[g] # i
  BY <1>1 DEF AuthorKnown, Mine
<1>3. files' = files /\ backups' = backups /\ late' = late /\ author' = author /\ spent' = spent
  BY DEF Begin
<1>4. CASE Stops(i, "done", {})
  BY <1>2, <1>3, <1>4, StoppingTrue, IntegrationNow DEF AtRest
<1>5. CASE run' = [run EXCEPT ![i] = r] /\ locks' = locks
  <2>1. /\ r \in RunType /\ r.pc = "lock" /\ r.todo = DirsOf(i) /\ r.written = {} /\ r.conflicts = {}
        /\ r.before = run[i].before
    BY <1>1 DEF RunType, TodoShape
  <2> HIDE DEF r
  <2>2. run'[i] = r
    BY <1>5, <2>1, GoesOn
  <2>3. Changed(i)' = Changed(i) /\ DirsOf(i)' = DirsOf(i)
    BY <2>1, <2>2, SameChanges
  <2>4. TodoShape(i)' /\ LocksHeld(i)' /\ Prepared(i)' /\ AuthorKnown(i)'
    BY <1>2, <1>3, <2>1, <2>2, <2>3 DEF TodoShape, LocksHeld, Prepared, AuthorKnown, Holding, AtRest
  <2>5. Mine(i)' = {}
    BY <2>1, <2>2 DEF Mine
  <2> QED BY <1>2, <1>3, <1>5, <2>1, <2>4, <2>5, GoingTrue, IntegrationNow
<1> QED BY <1>4, <1>5 DEF Begin

LEMMA LockTrue ==
  ASSUME IntegrationInv, NEW i \in Installers, Lock(i)
  PROVE  IntegrationInv'
<1> DEFINE d == Head1(i)
           r == Advance(i, "check", Changed(i))
<1>1. /\ run[i] \in RunType /\ Changed(i) \subseteq Files
      /\ run[i].todo # {} => Head1(i) \in run[i].todo
      /\ DirsOf(i) \subseteq Dirs /\ TodoShape(i) /\ AuthorKnown(i) /\ LocksHeld(i)
      /\ run[i].pc = "lock" /\ run[i].todo # {}
  BY IntegrationFacts DEF IntegrationInv, RunTrue, Lock, At
<1>2. Mine(i) = {} /\ \A g \in Files : author[g] # i
  BY <1>1 DEF AuthorKnown, Mine
<1>3. files' = files /\ backups' = backups /\ late' = late /\ author' = author /\ spent' = spent
  BY DEF Lock
<1>4. CASE Stops(i, "refused", {})
  BY <1>2, <1>3, <1>4, StoppingTrue, IntegrationNow DEF AtRest
<1>5. CASE run' = [run EXCEPT ![i] = r] /\ locks' = [locks EXCEPT ![d] = i] /\ locks[d] = Unowned
  <2>1. /\ run[i].todo \subseteq DirsOf(i) /\ d \in run[i].todo /\ d \in Dirs
        /\ run[i].written = {} /\ run[i].conflicts = {}
        /\ \A e \in DirsOf(i) \ run[i].todo : locks[e] = i
    BY <1>1 DEF TodoShape, LocksHeld
  <2>2. Changed(i) # {}
    BY <2>1 DEF DirsOf
  <2>3. /\ r \in RunType /\ r.written = {} /\ r.conflicts = {} /\ r.before = run[i].before
        /\ \/ Rest(i) = {} /\ r.pc = "check" /\ r.todo = Changed(i)
           \/ Rest(i) # {} /\ r.pc = "lock" /\ r.todo = Rest(i)
    <3>1. Changed(i) \in SUBSET (Files \cup Dirs) /\ "check" \in {"lock", "check", "backup", "confirm"}
      BY <1>1
    <3> QED BY <1>1, <2>1, <3>1, AdvanceIs, Zenon
  <2>4. Rest(i) = run[i].todo \ {d}
    BY DEF Rest
  <2> HIDE DEF r, d
  <2>5. run'[i] = r
    BY <1>5, <2>3, GoesOn
  <2>6. Changed(i)' = Changed(i) /\ DirsOf(i)' = DirsOf(i)
    BY <2>3, <2>5, SameChanges
  <2>7. TodoShape(i)' /\ Prepared(i)' /\ AuthorKnown(i)'
    <3>1. TodoShape(i)'
      BY <2>1, <2>2, <2>3, <2>4, <2>5, <2>6 DEF TodoShape, Holding, AtRest
    <3>2. Prepared(i)' /\ AuthorKnown(i)'
      BY <1>2, <1>3, <2>3, <2>5 DEF Prepared, AuthorKnown
    <3> QED BY <3>1, <3>2
  <2>8. locks' \in [Dirs -> Installers \cup {Unowned}] /\ \A e \in Dirs : locks'[e] = IF e = d THEN i ELSE locks[e]
    BY <1>5, <2>1, IntegrationNow
  <2>9. LocksHeld(i)'
    BY <1>1, <2>1, <2>3, <2>4, <2>5, <2>6, <2>8 DEF LocksHeld, Holding
  <2>10. \A j \in Installers \ {i} : \A e \in Dirs : locks[e] = j => locks'[e] = j
    BY <1>5, <2>8, IntegrationFacts
  <2>11. Mine(i)' = {}
    BY <2>3, <2>5 DEF Mine
  <2> QED BY <1>2, <1>3, <1>5, <2>3, <2>7, <2>8, <2>9, <2>10, <2>11, GoingTrue, IntegrationNow DEF r
<1>6. locks[d] # Unowned \/ (run' = [run EXCEPT ![i] = r] /\ locks' = [locks EXCEPT ![d] = i] /\ locks[d] = Unowned)
  BY DEF Lock
<1>7. ASSUME locks[d] # Unowned PROVE Stops(i, "refused", {})
  BY <1>7 DEF Lock
<1> QED BY <1>4, <1>5, <1>6, <1>7

LEMMA CheckTrue ==
  ASSUME IntegrationInv, NEW i \in Installers, Check(i)
  PROVE  IntegrationInv'
<1> DEFINE r == Advance(i, "backup", Changed(i))
<1>1. /\ run[i] \in RunType /\ Changed(i) \subseteq Files
      /\ run[i].todo # {} => Head1(i) \in run[i].todo
      /\ TodoShape(i) /\ AuthorKnown(i) /\ LocksHeld(i) /\ run[i].pc = "check"
  BY IntegrationFacts DEF IntegrationInv, RunTrue, Check, At
<1>2. Mine(i) = {} /\ \A g \in Files : author[g] # i
  BY <1>1 DEF AuthorKnown, Mine
<1>3. files' = files /\ backups' = backups /\ late' = late /\ author' = author /\ spent' = spent
  BY DEF Check
<1>4. CASE Stops(i, "refused", {})
  BY <1>2, <1>3, <1>4, StoppingTrue, IntegrationNow DEF AtRest
<1>5. CASE run' = [run EXCEPT ![i] = r] /\ locks' = locks
  <2>1. /\ run[i].todo \subseteq Changed(i) /\ run[i].todo # {}
        /\ run[i].written = {} /\ run[i].conflicts = {}
        /\ \A d \in DirsOf(i) : locks[d] = i
    BY <1>1 DEF TodoShape, LocksHeld, Holding
  <2>2. /\ r \in RunType /\ r.written = {} /\ r.conflicts = {} /\ r.before = run[i].before
        /\ \/ Rest(i) = {} /\ r.pc = "backup" /\ r.todo = Changed(i)
           \/ Rest(i) # {} /\ r.pc = "check" /\ r.todo = Rest(i)
    <3>1. Changed(i) \in SUBSET (Files \cup Dirs) /\ "backup" \in {"lock", "check", "backup", "confirm"}
      BY <1>1
    <3> QED BY <1>1, <2>1, <3>1, AdvanceIs, Zenon
  <2>3. Rest(i) \subseteq run[i].todo
    BY DEF Rest
  <2> HIDE DEF r
  <2>4. run'[i] = r
    BY <1>5, <2>2, GoesOn
  <2>5. Changed(i)' = Changed(i) /\ DirsOf(i)' = DirsOf(i)
    BY <2>2, <2>4, SameChanges
  <2>6. TodoShape(i)'
    BY <2>1, <2>2, <2>3, <2>4, <2>5 DEF TodoShape, Holding, AtRest
  <2>7. Prepared(i)' /\ AuthorKnown(i)' /\ LocksHeld(i)'
    <3>1. AuthorKnown(i)' /\ LocksHeld(i)'
      BY <1>2, <1>5, <1>3, <2>1, <2>2, <2>4, <2>5 DEF AuthorKnown, LocksHeld, Holding
    <3>2. run'[i].pc \in {"check", "backup"} /\ (run'[i].pc = "backup" => run'[i].todo = Changed(i))
      BY <2>2, <2>4
    <3>3. Prepared(i)'
      BY <2>5, <3>2 DEF Prepared, Saved
    <3> QED BY <3>1, <3>3
  <2>8. Mine(i)' = {}
    BY <2>2, <2>4 DEF Mine
  <2> QED BY <1>2, <1>3, <1>5, <2>2, <2>6, <2>7, <2>8, GoingTrue, IntegrationNow
<1> QED BY <1>4, <1>5 DEF Check

LEMMA BackupTrue ==
  ASSUME IntegrationInv, NEW i \in Installers, Backup(i)
  PROVE  IntegrationInv'
<1> DEFINE f == Head1(i)
           r == Advance(i, "confirm", Changed(i))
<1>1. /\ run[i] \in RunType /\ Changed(i) \subseteq Files
      /\ run[i].todo # {} => Head1(i) \in run[i].todo
      /\ TodoShape(i) /\ AuthorKnown(i) /\ LocksHeld(i) /\ Prepared(i) /\ run[i].pc = "backup"
  BY IntegrationFacts DEF IntegrationInv, RunTrue, Backup, At
<1>2. Mine(i) = {} /\ \A g \in Files : author[g] # i
  BY <1>1 DEF AuthorKnown, Mine
<1>3. files' = files /\ late' = late /\ author' = author
  BY DEF Backup
<1>4. CASE OneFault /\ Stops(i, "refused", {}) /\ backups' = backups
  <2>1. spent' \in SpentType /\ spent'.torn = spent.torn
    BY <1>4, IntegrationNow, IntegrationAssumption DEF OneFault, SpentType
  <2> QED BY <1>2, <1>3, <1>4, <2>1, StoppingTrue, IntegrationNow DEF AtRest
<1>5. CASE /\ backups' = IF run[i].before[f].there THEN backups \cup {<<f, run[i].before[f]>>} ELSE backups
           /\ run' = [run EXCEPT ![i] = r] /\ locks' = locks /\ spent' = spent
  <2>1. /\ run[i].todo \subseteq Changed(i) /\ run[i].todo # {}
        /\ run[i].written = {} /\ run[i].conflicts = {}
        /\ \A d \in DirsOf(i) : locks[d] = i
        /\ Saved(i, Changed(i) \ run[i].todo)
    BY <1>1 DEF TodoShape, LocksHeld, Holding, Prepared
  <2>2. /\ r \in RunType /\ r.written = {} /\ r.conflicts = {} /\ r.before = run[i].before
        /\ \/ Rest(i) = {} /\ r.pc = "confirm" /\ r.todo = Changed(i)
           \/ Rest(i) # {} /\ r.pc = "backup" /\ r.todo = Rest(i)
    <3>1. Changed(i) \in SUBSET (Files \cup Dirs) /\ "confirm" \in {"lock", "check", "backup", "confirm"}
      BY <1>1
    <3> QED BY <1>1, <2>1, <3>1, AdvanceIs, Zenon
  <2>3. Rest(i) = run[i].todo \ {f} /\ f \in Files
    BY <1>1, <2>1 DEF Rest
  <2> HIDE DEF r, f
  <2>4. run'[i] = r
    BY <1>5, <2>2, GoesOn
  <2>5. Changed(i)' = Changed(i) /\ DirsOf(i)' = DirsOf(i)
    BY <2>2, <2>4, SameChanges
  <2>6. TodoShape(i)'
    BY <2>1, <2>2, <2>3, <2>4, <2>5 DEF TodoShape, Holding, AtRest
  <2>7. AuthorKnown(i)' /\ LocksHeld(i)'
    <3>1. AuthorKnown(i)'
      BY <1>2, <1>3 DEF AuthorKnown
    <3>2. LocksHeld(i)'
      BY <1>5, <2>1, <2>2, <2>4, <2>5 DEF LocksHeld, Holding
    <3> QED BY <3>1, <3>2
  <2>8. /\ backups \subseteq backups' /\ backups' \subseteq Files \X Content
        /\ run[i].before[f].there => <<f, run[i].before[f]>> \in backups'
    <3>1. run[i].before[f] \in Content
      BY <1>1, <2>3 DEF RunType
    <3> QED BY <1>5, <2>3, <3>1, IntegrationNow
  <2>9. \A g \in Changed(i) : g \notin Rest(i) /\ run[i].before[g].there => <<g, run[i].before[g]>> \in backups'
    BY <2>1, <2>3, <2>8 DEF Saved
  <2>10. Prepared(i)'
    <3>1. run'[i].before = run[i].before
      BY <2>2, <2>4
    <3>2. \/ run'[i].pc = "confirm" /\ Rest(i) = {}
          \/ run'[i].pc = "backup" /\ run'[i].todo = Rest(i)
      BY <2>2, <2>4
    <3>3. \A g \in Changed(i)' : g \notin Rest(i) /\ run'[i].before[g].there => <<g, run'[i].before[g]>> \in backups'
      BY <2>5, <2>9, <3>1
    <3>4. CASE run'[i].pc = "confirm" /\ Rest(i) = {}
      BY <3>3, <3>4 DEF Prepared, Saved
    <3>5. CASE run'[i].pc = "backup" /\ run'[i].todo = Rest(i)
      BY <3>3, <3>5 DEF Prepared, Saved
    <3> QED BY <3>2, <3>4, <3>5
  <2>11. Mine(i)' = {}
    BY <2>1, <2>2, <2>4 DEF Mine
  <2> QED BY <1>2, <1>3, <1>5, <2>2, <2>6, <2>7, <2>8, <2>10, <2>11, GoingTrue, IntegrationNow
<1> QED
  <2>1. CASE OneFault /\ Stops(i, "refused", {}) /\ UNCHANGED backups
    BY <1>4, <2>1
  <2>2. CASE ~(OneFault /\ Stops(i, "refused", {}) /\ UNCHANGED backups)
    BY <1>5, <2>2 DEF Backup
  <2> QED BY <2>1, <2>2

LEMMA GivesUpTrue ==
  ASSUME IntegrationInv, NEW i \in Installers, GivesUp(i), run[i].pc \in {"confirm", "replace"},
         files' = files, backups' = backups, late' = late, author' = author,
         spent' \in SpentType, spent'.torn = spent.torn
  PROVE  IntegrationInv'
<1> DEFINE r == [run[i] EXCEPT !.pc = "undo", !.todo = run[i].written]
<1>1. /\ run[i] \in RunType /\ Changed(i) \subseteq Files
      /\ TodoShape(i) /\ AuthorKnown(i) /\ LocksHeld(i) /\ Prepared(i)
  BY IntegrationFacts DEF IntegrationInv, RunTrue
<1>2. Mine(i) = run[i].written /\ \A g \in Files : author[g] = i => g \in run[i].written
  BY <1>1 DEF AuthorKnown, Mine
<1>3. CASE Stops(i, "failed", {}) /\ run[i].written = {}
  BY <1>2, <1>3, StoppingTrue, IntegrationNow DEF AtRest
<1>4. CASE run' = [run EXCEPT ![i] = r] /\ locks' = locks /\ run[i].written # {}
  <2>1. /\ run[i].written \subseteq Changed(i)
        /\ \A d \in DirsOf(i) : locks[d] = i
        /\ Saved(i, Changed(i))
    BY <1>1 DEF TodoShape, LocksHeld, Holding, Prepared
  <2>2. /\ r \in RunType /\ r.written = run[i].written /\ r.before = run[i].before
        /\ r.pc = "undo" /\ r.todo = run[i].written
    BY <1>1 DEF RunType
  <2> HIDE DEF r
  <2>3. run'[i] = r
    BY <1>4, <2>2, GoesOn
  <2>4. Changed(i)' = Changed(i) /\ DirsOf(i)' = DirsOf(i)
    BY <2>2, <2>3, SameChanges
  <2>5. TodoShape(i)'
    BY <1>4, <2>1, <2>2, <2>3, <2>4 DEF TodoShape, Holding, AtRest
  <2>6. AuthorKnown(i)' /\ LocksHeld(i)'
    BY <1>2, <1>4, <2>1, <2>2, <2>3, <2>4 DEF AuthorKnown, LocksHeld, Holding
  <2>7. Prepared(i)'
    BY <2>1, <2>2, <2>3, <2>4 DEF Prepared, Saved
  <2>8. Mine(i)' = Mine(i)
    BY <1>2, <2>2, <2>3 DEF Mine
  <2> QED BY <1>4, <2>2, <2>5, <2>6, <2>7, <2>8, GoingTrue, IntegrationNow
<1>5. ASSUME run[i].written # {} PROVE run' = [run EXCEPT ![i] = r] /\ locks' = locks
  <2>1. run' = [run EXCEPT ![i].pc = "undo", ![i].todo = run[i].written] /\ locks' = locks
    BY <1>5, Zenon DEF GivesUp
  <2>2. run \in [Installers -> RunType]
    BY IntegrationFacts
  <2> QED BY <2>1, <2>2
<1>6. ASSUME run[i].written = {} PROVE Stops(i, "failed", {})
  BY <1>6 DEF GivesUp
<1> QED BY <1>3, <1>4, <1>5, <1>6

\* The file in hand is one of those to change, whose directory is locked.
LEMMA InHand ==
  ASSUME IntegrationInv, NEW i \in Installers, Holding(i)
  PROVE  /\ run[i] \in RunType /\ Changed(i) \subseteq Files
         /\ Head1(i) \in run[i].todo /\ run[i].todo \cup run[i].written \subseteq Changed(i)
         /\ Head1(i) \in Files /\ locks[DirOf[Head1(i)]] = i
         /\ \A d \in DirsOf(i) : locks[d] = i
<1>1. /\ run[i] \in RunType /\ Changed(i) \subseteq Files
      /\ run[i].todo # {} => Head1(i) \in run[i].todo
      /\ TodoShape(i) /\ LocksHeld(i)
  BY IntegrationFacts DEF IntegrationInv, RunTrue
<1>2. run[i].todo # {} /\ run[i].todo \cup run[i].written \subseteq Changed(i) /\ \A d \in DirsOf(i) : locks[d] = i
  BY <1>1 DEF TodoShape, LocksHeld
<1>3. Head1(i) \in Changed(i)
  BY <1>1, <1>2
<1>4. DirOf[Head1(i)] \in DirsOf(i)
  BY <1>3 DEF DirsOf
<1> QED BY <1>1, <1>2, <1>3, <1>4

LEMMA ConfirmTrue ==
  ASSUME IntegrationInv, NEW i \in Installers, Confirm(i)
  PROVE  IntegrationInv'
<1> DEFINE f == Head1(i)
           r == [run[i] EXCEPT !.pc = "replace"]
<1>1. run[i].pc = "confirm" /\ files' = files /\ backups' = backups /\ author' = author /\ spent' = spent
  BY DEF Confirm, At
<1>2. /\ run[i] \in RunType /\ Changed(i) \subseteq Files
      /\ f \in run[i].todo /\ f \in Files /\ locks[DirOf[f]] = i
      /\ \A d \in DirsOf(i) : locks[d] = i
      /\ TodoShape(i) /\ AuthorKnown(i) /\ Prepared(i)
  BY <1>1, InHand DEF IntegrationInv, RunTrue, Holding
<1>3. CASE GivesUp(i) /\ late' = late
  BY <1>1, <1>3, GivesUpTrue, IntegrationNow
<1>4. CASE run' = [run EXCEPT ![i] = r] /\ late' = late \ {f} /\ locks' = locks /\ Unchanged(i, f)
  <2>1. /\ run[i].todo \cup run[i].written = Changed(i) /\ run[i].todo \cap run[i].written = {}
        /\ Saved(i, Changed(i)) /\ files[f] = run[i].before[f]
    BY <1>1, <1>2, <1>4 DEF TodoShape, Prepared, Unchanged
  <2>2. /\ r \in RunType /\ r.written = run[i].written /\ r.before = run[i].before
        /\ r.pc = "replace" /\ r.todo = run[i].todo
    BY <1>2 DEF RunType
  <2> HIDE DEF r
  <2>3. run'[i] = r
    BY <1>4, <2>2, GoesOn
  <2>4. Changed(i)' = Changed(i) /\ DirsOf(i)' = DirsOf(i)
    BY <2>2, <2>3, SameChanges
  <2>5. Head1(i)' = f
    BY <1>1, <2>2, <2>3 DEF Head1
  <2> HIDE DEF f
  <2>6. TodoShape(i)'
    BY <1>2, <2>1, <2>2, <2>3, <2>4 DEF TodoShape, Holding, AtRest
  <2>7. AuthorKnown(i)' /\ LocksHeld(i)'
    BY <1>1, <1>2, <1>4, <2>1, <2>2, <2>3, <2>4 DEF AuthorKnown, LocksHeld, Holding
  <2>8. Prepared(i)'
    BY <1>1, <2>1, <2>2, <2>3, <2>4, <2>5 DEF Prepared, Saved
  <2>9. Mine(i)' = Mine(i)
    BY <1>1, <2>2, <2>3 DEF Mine
  <2>10. late' \subseteq late /\ \A g \in late \ late' : locks[DirOf[g]] = i
    BY <1>2, <1>4
  <2> QED BY <1>1, <1>4, <2>2, <2>6, <2>7, <2>8, <2>9, <2>10, GoingTrue, IntegrationNow
<1>5. ASSUME Unchanged(i, f) PROVE run' = [run EXCEPT ![i] = r] /\ late' = late \ {f} /\ locks' = locks
  BY <1>5 DEF Confirm
<1>6. ASSUME ~Unchanged(i, f) PROVE GivesUp(i) /\ late' = late
  BY <1>6, Zenon DEF Confirm
<1> QED BY <1>3, <1>4, <1>5, <1>6

\* The next to be taken back, or the end.
LEMMA NextUndoTrue ==
  ASSUME IntegrationInv, NEW i \in Installers, NEW conflicts \in SUBSET Files, NextUndo(i, conflicts),
         run[i].pc \in {"undo", "restore"}, run[i].conflicts \subseteq conflicts, backups' = backups,
         \A g \in Files : author'[g] = i => author[g] = i /\ (g = Head1(i) => g \in conflicts)
  PROVE  /\ run' \in [Installers -> RunType] /\ locks' \in [Dirs -> Installers \cup {Unowned}]
         /\ RunTrue(i)' /\ Mine(i)' = Rest(i)
         /\ Rest(i) # {} => run'[i].before = run[i].before
         /\ \A j \in Installers \ {i} : run'[j] = run[j] /\ \A d \in Dirs : locks[d] = j => locks'[d] = j
<1> DEFINE r == [run[i] EXCEPT !.pc = "undo", !.todo = Rest(i), !.conflicts = conflicts]
<1>1. /\ run[i] \in RunType /\ Changed(i) \subseteq Files
      /\ Head1(i) \in run[i].todo /\ run[i].todo \subseteq Changed(i) /\ run[i].written \subseteq Changed(i)
      /\ \A d \in DirsOf(i) : locks[d] = i
      /\ AuthorKnown(i) /\ Prepared(i)
  BY InHand DEF IntegrationInv, RunTrue, Holding
<1>2. \A g \in Files : author'[g] = i => g \in Rest(i) \cup conflicts
  BY <1>1 DEF AuthorKnown, Rest
<1>3. CASE Rest(i) = {}
  <2>1. Stops(i, "failed", conflicts)
    BY <1>3 DEF NextUndo
  <2> QED BY <1>2, <1>3, <2>1, StopsTrue DEF AtRest
<1>4. CASE Rest(i) # {}
  <2>1. run' = [run EXCEPT ![i] = r] /\ locks' = locks
    <3>1. run' = [run EXCEPT ![i].pc = "undo", ![i].todo = Rest(i), ![i].conflicts = conflicts] /\ locks' = locks
      BY <1>4, Zenon DEF NextUndo
    <3>2. run \in [Installers -> RunType]
      BY IntegrationFacts
    <3> QED BY <3>1, <3>2
  <2>2. Rest(i) \subseteq run[i].todo
    BY DEF Rest
  <2>3. /\ r \in RunType /\ r.written = run[i].written /\ r.before = run[i].before
        /\ r.pc = "undo" /\ r.todo = Rest(i) /\ r.conflicts = conflicts
    BY <1>1, <2>2 DEF RunType
  <2> HIDE DEF r
  <2>4. /\ run' \in [Installers -> RunType] /\ run'[i] = r
        /\ \A j \in Installers \ {i} : run'[j] = run[j]
    BY <2>1, <2>3, GoesOn
  <2>5. Changed(i)' = Changed(i) /\ DirsOf(i)' = DirsOf(i)
    BY <2>3, <2>4, SameChanges
  <2>6. TodoShape(i)'
    BY <1>1, <1>4, <2>2, <2>3, <2>4, <2>5 DEF TodoShape, Holding, AtRest
  <2>7. AuthorKnown(i)' /\ LocksHeld(i)'
    BY <1>1, <1>2, <2>1, <2>3, <2>4, <2>5 DEF AuthorKnown, LocksHeld, Holding
  <2>8. Prepared(i)'
    <3>1. Saved(i, Changed(i))
      BY <1>1 DEF Prepared
    <3> QED BY <2>3, <2>4, <2>5, <3>1 DEF Prepared, Saved
  <2>9. Mine(i)' = Rest(i)
    BY <2>3, <2>4 DEF Mine
  <2>10. RunTrue(i)'
    BY <2>6, <2>7, <2>8, Zenon DEF RunTrue
  <2> QED BY <2>1, <2>3, <2>4, <2>9, <2>10, IntegrationNow
<1> QED BY <1>3, <1>4

LEMMA UndoTrue ==
  ASSUME IntegrationInv, NEW i \in Installers, Undo(i)
  PROVE  IntegrationInv'
<1> DEFINE f == Head1(i)
           r == [run[i] EXCEPT !.pc = "restore"]
<1>1. run[i].pc = "undo" /\ files' = files /\ backups' = backups /\ author' = author
  BY DEF Undo, At
<1>2. /\ run[i] \in RunType /\ Changed(i) \subseteq Files
      /\ f \in run[i].todo /\ f \in Files /\ locks[DirOf[f]] = i
      /\ run[i].todo \subseteq Changed(i) /\ run[i].written \subseteq Changed(i)
      /\ \A d \in DirsOf(i) : locks[d] = i
      /\ AuthorKnown(i) /\ Prepared(i)
  BY <1>1, InHand DEF IntegrationInv, RunTrue, Holding
<1>3. CASE /\ files[f] = Planned(i, run[i].before[f])
           /\ run' = [run EXCEPT ![i] = r] /\ late' = late \ {f} /\ locks' = locks /\ spent' = spent
  <2>1. /\ r \in RunType /\ r.written = run[i].written /\ r.before = run[i].before
        /\ r.pc = "restore" /\ r.todo = run[i].todo /\ r.conflicts = run[i].conflicts
    BY <1>2 DEF RunType
  <2> HIDE DEF r
  <2>2. run'[i] = r
    BY <1>3, <2>1, GoesOn
  <2>3. Changed(i)' = Changed(i) /\ DirsOf(i)' = DirsOf(i)
    BY <2>1, <2>2, SameChanges
  <2>4. Head1(i)' = f
    BY <1>1, <2>1, <2>2 DEF Head1
  <2>5. Planned(i, run[i].before[f])' = Planned(i, run[i].before[f])
    BY <2>1, <2>2, <2>4 DEF Planned
  <2> HIDE DEF f
  <2>6. TodoShape(i)'
    BY <1>2, <2>1, <2>2, <2>3 DEF TodoShape, Holding, AtRest
  <2>7. AuthorKnown(i)' /\ LocksHeld(i)'
    BY <1>1, <1>2, <1>3, <2>1, <2>2, <2>3 DEF AuthorKnown, LocksHeld, Holding
  <2>8. Prepared(i)'
    <3>1. Saved(i, Changed(i))
      BY <1>1, <1>2 DEF Prepared
    <3>2. Planned(i, run'[i].before[f]) = Planned(i, run[i].before[f])
      BY <2>1, <2>2
    <3> QED BY <1>1, <1>3, <2>1, <2>2, <2>3, <2>4, <3>1, <3>2 DEF Prepared, Saved
  <2>9. Mine(i)' = Mine(i)
    BY <1>1, <2>1, <2>2 DEF Mine
  <2>10. late' \subseteq late /\ \A g \in late \ late' : locks[DirOf[g]] = i
    BY <1>2, <1>3
  <2> QED BY <1>1, <1>3, <2>1, <2>6, <2>7, <2>8, <2>9, <2>10, GoingTrue, IntegrationNow
<1>4. CASE NextUndo(i, run[i].conflicts \cup {f}) /\ late' = late /\ spent' = [spent EXCEPT !.torn = TRUE]
  <2>1. run[i].conflicts \cup {f} \in SUBSET Files
    BY <1>2 DEF RunType
  <2>2. /\ run' \in [Installers -> RunType] /\ locks' \in [Dirs -> Installers \cup {Unowned}]
        /\ RunTrue(i)' /\ Mine(i)' = Rest(i)
        /\ Rest(i) # {} => run'[i].before = run[i].before
        /\ \A j \in Installers \ {i} : run'[j] = run[j] /\ \A d \in Dirs : locks[d] = j => locks'[d] = j
    BY <1>1, <1>4, <2>1, NextUndoTrue
  <2>3. spent' \in SpentType /\ spent'.torn
    BY <1>4, IntegrationNow DEF SpentType
  <2>4. IntegrationTypeOK'
    BY <1>1, <1>4, <2>2, <2>3, IntegrationNow, IntegrationTypesNext
  <2>5. ASSUME NEW j \in Installers \ {i} PROVE RunTrue(j)'
    BY <1>1, <1>4, <2>2, OthersStay
  <2> QED BY <2>2, <2>3, <2>4, <2>5 DEF IntegrationInv, Agreeing
<1>5. \/ /\ files[f] = Planned(i, run[i].before[f])
         /\ run' = [run EXCEPT ![i] = r] /\ late' = late \ {f} /\ locks' = locks /\ spent' = spent
      \/ NextUndo(i, run[i].conflicts \cup {f}) /\ late' = late /\ spent' = [spent EXCEPT !.torn = TRUE]
  BY DEF Undo
<1> QED BY <1>3, <1>4, <1>5

LEMMA KilledTrue ==
  ASSUME IntegrationInv, NEW i \in Installers, Killed(i)
  PROVE  IntegrationInv'
<1>1. spent' \in SpentType /\ spent'.torn
  <2>1. spent.faults < Faults /\ spent' = [spent EXCEPT !.faults = @ + 1, !.torn = TRUE]
    BY Zenon DEF Killed
  <2>2. spent \in SpentType /\ Faults \in Nat
    BY IntegrationNow, IntegrationAssumption
  <2> DEFINE n == spent.faults + 1
             s == [spent EXCEPT !.faults = n]
  <2>3. n \in 0..Faults /\ spent' = [s EXCEPT !.torn = TRUE]
    BY <2>1, <2>2 DEF SpentType
  <2> HIDE DEF n
  <2>4. s \in SpentType
    BY <2>2, <2>3 DEF SpentType
  <2> HIDE DEF s
  <2> QED BY <2>3, <2>4 DEF SpentType
<1>2. /\ files' = files /\ backups' = backups /\ late' = late /\ author' = author
      /\ Stops(i, "idle", {})
  BY DEF Killed
<1>3. /\ run' \in [Installers -> RunType] /\ locks' \in [Dirs -> Installers \cup {Unowned}]
      /\ RunTrue(i)' /\ Mine(i)' = {}
      /\ \A j \in Installers \ {i} : run'[j] = run[j] /\ \A d \in Dirs : locks[d] = j => locks'[d] = j
  BY <1>2, StopsTrue DEF AtRest
<1>4. IntegrationTypeOK'
  BY <1>1, <1>2, <1>3, IntegrationNow, IntegrationTypesNext
<1>5. ASSUME NEW j \in Installers \ {i} PROVE RunTrue(j)'
  BY <1>2, <1>3, OthersStay
<1> QED BY <1>1, <1>3, <1>4, <1>5 DEF IntegrationInv, Agreeing

LEMMA UserEditsTrue ==
  ASSUME IntegrationInv, NEW f \in Files, UserEdits(f)
  PROVE  IntegrationInv'
<1>1. spent' \in SpentType /\ spent'.torn
  <2>1. spent.edits < Edits /\ spent' = [spent EXCEPT !.edits = @ + 1, !.torn = TRUE]
    BY Zenon DEF UserEdits
  <2>2. spent \in SpentType /\ Edits \in Nat
    BY IntegrationNow, IntegrationAssumption
  <2> DEFINE n == spent.edits + 1
             s == [spent EXCEPT !.edits = n]
  <2>3. n \in 0..Edits /\ spent' = [s EXCEPT !.torn = TRUE]
    BY <2>1, <2>2 DEF SpentType
  <2> HIDE DEF n
  <2>4. s \in SpentType
    BY <2>2, <2>3 DEF SpentType
  <2> HIDE DEF s
  <2> QED BY <2>3, <2>4 DEF SpentType
<1>2. /\ locks' = locks /\ run' = run /\ backups' = backups
      /\ late' = late \cup {f} /\ author' = [author EXCEPT ![f] = Unowned]
  BY DEF UserEdits
<1>3. \E c \in Content : files' = [files EXCEPT ![f] = c]
  <2>1. files[f].part \in Installers \cup {Unowned}
    <3>1. files[f] \in Content
      BY IntegrationNow
    <3>2. \A c \in Content : c.part \in Installers \cup {Unowned}
      <4>1. ASSUME NEW c \in [there : {TRUE}, text : Texts \cup {Unowned}, part : Installers \cup {Unowned}]
            PROVE  c.part \in Installers \cup {Unowned}
        OBVIOUS
      <4>2. Absent.part \in Installers \cup {Unowned}
        BY DEF Absent
      <4> QED BY <4>1, <4>2, Zenon DEF Content
    <3> QED BY <3>1, <3>2
  <2>2. ASSUME NEW t \in Texts, NEW part \in {files[f].part, Unowned}
        PROVE  [there |-> TRUE, text |-> t, part |-> part] \in Content
    BY <2>1 DEF Content
  <2>3. Absent \in Content
    BY DEF Content
  <2>4. \/ \E t \in Texts : \E part \in {files[f].part, Unowned} :
             files' = [files EXCEPT ![f] = [there |-> TRUE, text |-> t, part |-> part]]
        \/ files' = [files EXCEPT ![f] = Absent]
    BY Zenon DEF UserEdits
  <2> QED BY <2>2, <2>3, <2>4
<1>4. PICK c \in Content : files' = [files EXCEPT ![f] = c]
  BY <1>3
<1>5. files' \in [Files -> Content] /\ \A g \in Files \ {f} : files'[g] = files[g]
  BY <1>4, IntegrationNow
<1>6. /\ author' \in [Files -> Installers \cup {Unowned}]
      /\ \A j \in Installers : \A g \in Files : author'[g] = j => author[g] = j
  BY <1>2, IntegrationNow, IntegrationAssumption
<1>7. run \in [Installers -> RunType]
  BY IntegrationTypes DEF IntegrationInv
<1>8. IntegrationTypeOK'
  BY <1>1, <1>2, <1>5, <1>6, <1>7, IntegrationNow, IntegrationTypesNext
<1>9. ASSUME NEW j \in Installers PROVE RunTrue(j)'
  BY <1>2, <1>5, <1>6, OthersStay
<1> QED BY <1>1, <1>8, <1>9 DEF IntegrationInv, Agreeing

\* While an installer holds the locks of the file in hand and the files agree, no
\* other has written: all its files would have its own part, and it none to change.
LEMMA OnlyWriter ==
  ASSUME IntegrationInv, NEW i \in Installers, Holding(i), ~spent.torn, NEW j \in Installers \ {i}
  PROVE  Mine(j) = {}
<1> SUFFICES ASSUME Mine(j) # {} PROVE FALSE
  OBVIOUS
<1> DEFINE f == Head1(i)
<1>1. f \in Files /\ locks[DirOf[f]] = i
  BY InHand
<1>2. Holding(j) /\ Changed(j) # {} /\ \A d \in DirsOf(j) : locks[d] = j
  BY WriterHolds
<1>3. f \notin Changed(j)
  BY <1>1, <1>2 DEF DirsOf
<1>4. run[j].before \in [Files -> Content]
  BY IntegrationFacts DEF RunType
<1>5. run[j].before[f].part = j
  <2>1. run[j].before[f] = Planned(j, run[j].before[f])
    BY <1>1, <1>3 DEF Changed
  <2>2. \A c \in Content : Planned(j, c).part = j
    BY DEF Planned, Content, Absent
  <2> QED BY <1>1, <1>4, <2>1, <2>2
<1>6. \A g \in Files : run[j].before[g].part = j
  BY <1>1, <1>5 DEF IntegrationInv, Agreeing, SameParts
<1>7. \A c \in Content : c.part = j => c = Planned(j, c)
  <2>1. j # Unowned
    BY IntegrationFacts
  <2>2. Absent.part = Unowned
    BY DEF Absent
  <2>3. ASSUME NEW c \in [there : {TRUE}, text : Texts \cup {Unowned}, part : Installers \cup {Unowned}], c.part = j
        PROVE  c = Planned(j, c)
    BY <2>3 DEF Planned
  <2> QED BY <2>1, <2>2, <2>3, Zenon DEF Content
<1>8. Changed(j) = {}
  BY <1>4, <1>6, <1>7 DEF Changed
<1> QED BY <1>2, <1>8

\* What a plan makes of a content.
LEMMA PlannedIs ==
  ASSUME NEW i \in Installers, NEW c \in Content
  PROVE  /\ Planned(i, c) \in Content /\ Planned(i, c).part = i
         /\ Planned(i, c).text = c.text
<1>1. CASE c = Absent
  <2>1. Planned(i, c) \in [there : {TRUE}, text : {Unowned}, part : {i}]
    BY <1>1 DEF Planned, Absent
  <2>2. c.text = Unowned
    BY <1>1 DEF Absent
  <2>3. ASSUME NEW p \in [there : {TRUE}, text : {Unowned}, part : {i}]
        PROVE  /\ p \in [there : {TRUE}, text : Texts \cup {Unowned}, part : Installers \cup {Unowned}]
               /\ p.part = i /\ p.text = Unowned
    OBVIOUS
  <2> QED BY <2>1, <2>2, <2>3, Zenon DEF Content
<1>2. CASE c \in [there : {TRUE}, text : Texts \cup {Unowned}, part : Installers \cup {Unowned}]
  BY <1>2 DEF Planned, Content
<1> QED BY <1>1, <1>2 DEF Content

LEMMA ReplaceTrue ==
  ASSUME IntegrationInv, NEW i \in Installers, Replace(i)
  PROVE  IntegrationInv'
<1> DEFINE f == Head1(i)
           p == Planned(i, run[i].before[f])
           r == [run[i] EXCEPT !.pc = "confirm", !.todo = Rest(i), !.written = @ \cup {f}]
<1>1. run[i].pc = "replace" /\ backups' = backups /\ late' = late
  BY DEF Replace, At
<1>2. /\ run[i] \in RunType /\ Changed(i) \subseteq Files
      /\ f \in run[i].todo /\ f \in Files /\ locks[DirOf[f]] = i
      /\ \A d \in DirsOf(i) : locks[d] = i
      /\ run[i].todo \cup run[i].written = Changed(i) /\ run[i].todo \cap run[i].written = {}
      /\ AuthorKnown(i) /\ Prepared(i) /\ Holding(i)
  BY <1>1, InHand DEF IntegrationInv, RunTrue, Holding, TodoShape
<1>3. CASE OneFault /\ GivesUp(i) /\ UNCHANGED <<files, author>>
  <2>1. spent' \in SpentType /\ spent'.torn = spent.torn
    BY <1>3, IntegrationNow, IntegrationAssumption DEF OneFault, SpentType
  <2> QED BY <1>1, <1>3, <2>1, GivesUpTrue
<1>4. CASE /\ files' = [files EXCEPT ![f] = p]
           /\ author' = [author EXCEPT ![f] = i]
           /\ spent' = [spent EXCEPT !.torn = @ \/ ~AllUnchanged(i)]
           /\ IF Rest(i) = {} THEN Stops(i, "done", {})
              ELSE run' = [run EXCEPT ![i] = r] /\ locks' = locks
  <2>1. /\ p \in Content /\ p.part = i
        /\ \A c \in Content : Planned(i, c).part = i
    BY <1>2, PlannedIs DEF RunType
  <2>2. Rest(i) = run[i].todo \ {f}
    BY DEF Rest
  <2> HIDE DEF f, p
  <2>3. /\ files' \in [Files -> Content]
        /\ \A g \in Files : files'[g] = IF g = f THEN p ELSE files[g]
        /\ author' \in [Files -> Installers \cup {Unowned}]
        /\ \A g \in Files : author'[g] = IF g = f THEN i ELSE author[g]
    BY <1>2, <1>4, <2>1, IntegrationNow
  <2>4. /\ spent' \in SpentType
        /\ spent.torn => spent'.torn
        /\ ~spent'.torn => ~spent.torn /\ AllUnchanged(i)
    BY <1>4, IntegrationNow DEF SpentType
  <2>5. /\ run' \in [Installers -> RunType] /\ locks' \in [Dirs -> Installers \cup {Unowned}]
        /\ RunTrue(i)'
        /\ Rest(i) = {} => Mine(i)' = {}
        /\ Rest(i) # {} => Mine(i)' = run[i].written \cup {f} /\ run'[i].before = run[i].before
        /\ \A j \in Installers \ {i} : run'[j] = run[j] /\ \A d \in Dirs : locks[d] = j => locks'[d] = j
    <3>1. CASE Rest(i) = {}
      <4>1. Stops(i, "done", {})
        BY <1>4, <3>1
      <4> QED BY <3>1, <4>1, StopsTrue DEF AtRest
    <3>2. CASE Rest(i) # {}
      <4>1. run' = [run EXCEPT ![i] = r] /\ locks' = locks
        BY <1>4, <3>2
      <4>2. /\ r \in RunType /\ r.written = run[i].written \cup {f} /\ r.before = run[i].before
            /\ r.pc = "confirm" /\ r.todo = Rest(i)
        BY <1>2, <2>2 DEF RunType
      <4> HIDE DEF r
      <4>3. /\ run' \in [Installers -> RunType] /\ run'[i] = r
            /\ \A j \in Installers \ {i} : run'[j] = run[j]
        BY <4>1, <4>2, GoesOn
      <4>4. Changed(i)' = Changed(i) /\ DirsOf(i)' = DirsOf(i)
        BY <4>2, <4>3, SameChanges
      <4>5. TodoShape(i)'
        BY <1>2, <2>2, <3>2, <4>2, <4>3, <4>4 DEF TodoShape, Holding, AtRest
      <4>6. AuthorKnown(i)'
        BY <1>1, <1>2, <2>3, <4>2, <4>3 DEF AuthorKnown
      <4>7. LocksHeld(i)'
        BY <1>2, <4>1, <4>2, <4>3, <4>4 DEF LocksHeld, Holding
      <4>8. Prepared(i)'
        <5>1. Saved(i, Changed(i))
          BY <1>1, <1>2 DEF Prepared
        <5> QED BY <1>1, <4>2, <4>3, <4>4, <5>1 DEF Prepared, Saved
      <4>9. Mine(i)' = run[i].written \cup {f}
        BY <4>2, <4>3 DEF Mine
      <4>10. RunTrue(i)'
        BY <4>5, <4>6, <4>7, <4>8, Zenon DEF RunTrue
      <4> QED BY <3>2, <4>1, <4>2, <4>3, <4>9, <4>10, IntegrationNow
    <3> QED BY <3>1, <3>2
  <2>6. IntegrationTypeOK'
    BY <1>1, <2>3, <2>4, <2>5, IntegrationNow, IntegrationTypesNext
  <2>7. ASSUME NEW j \in Installers \ {i} PROVE RunTrue(j)'
    <3>1. /\ \A g \in Files : author'[g] = j => author[g] = j
          /\ \A g \in Files : locks[DirOf[g]] = j => files'[g] = files[g]
      BY <1>2, <2>3 DEF f
    <3> QED BY <1>1, <2>5, <3>1, OthersStay
  <2>8. ASSUME ~spent'.torn
        PROVE  /\ late' = {} /\ \A j \in Installers \ {i} : Mine(j)' = {}
               /\ SameParts(run[i].before)
               /\ \A g \in Files : files'[g] = IF g \in run[i].written \cup {f} THEN Planned(i, run[i].before[g])
                                               ELSE run[i].before[g]
    <3>1. ~spent.torn /\ AllUnchanged(i) /\ late = {}
      BY <2>4, <2>8 DEF IntegrationInv, Agreeing
    <3>2. \A j \in Installers \ {i} : Mine(j) = {}
      BY <1>2, <3>1, OnlyWriter
    <3>3. \A j \in Installers \ {i} : Mine(j)' = {}
      BY <2>5, <3>2 DEF Mine
    <3>4. Mine(i) = run[i].written
      BY <1>1 DEF Mine
    <3>5. SameParts(run[i].before) /\ Replaced(i, run[i].written)
      <4>1. CASE run[i].written # {}
        BY <3>1, <3>4, <4>1 DEF IntegrationInv, Agreeing
      <4>2. CASE run[i].written = {}
        <5>1. \A g \in Files : files[g] = run[i].before[g]
          BY <3>1, <4>2 DEF AllUnchanged, Unchanged
        <5>2. SameParts(files)
          BY <3>1, <3>2, <3>4, <4>2 DEF IntegrationInv, Agreeing
        <5> QED BY <4>2, <5>1, <5>2 DEF SameParts, Replaced
      <4> QED BY <4>1, <4>2
    <3>6. \A g \in Files : files'[g] = IF g \in run[i].written \cup {f} THEN Planned(i, run[i].before[g])
                                       ELSE run[i].before[g]
      BY <2>3, <3>5 DEF Replaced, p
    <3> QED BY <1>1, <3>1, <3>3, <3>5, <3>6
  <2>9. Agreeing'
    <3> SUFFICES ASSUME ~spent'.torn PROVE Agreeing'
      BY Zenon DEF Agreeing
    <3>1. CASE Rest(i) = {}
      <4>1. run[i].written \cup {f} = Changed(i)
        BY <1>2, <2>2, <3>1
      <4>2. \A g \in Files : files'[g] = Planned(i, run[i].before[g])
        BY <2>8, <4>1 DEF Changed
      <4>3. SameParts(files)'
        BY <1>2, <2>1, <4>2 DEF SameParts, RunType
      <4>4. \A j \in Installers : Mine(j)' = {}
        BY <2>5, <2>8, <3>1
      <4> QED BY <2>8, <4>3, <4>4 DEF Agreeing
    <3>2. CASE Rest(i) # {}
      <4>1. Mine(i)' = run[i].written \cup {f} /\ run'[i].before = run[i].before
        BY <2>5, <3>2
      <4>2. SameParts(run[i].before)' /\ Mine(i)' # {}
        BY <2>8, <4>1 DEF SameParts
      <4>3. Replaced(i, Mine(i))'
        BY <2>8, <4>1 DEF Replaced, Planned
      <4> QED BY <2>8, <4>2, <4>3 DEF Agreeing
    <3> QED BY <3>1, <3>2
  <2> QED BY <2>5, <2>6, <2>7, <2>9, Zenon DEF IntegrationInv
<1>5. ASSUME ~(OneFault /\ GivesUp(i) /\ UNCHANGED <<files, author>>)
      PROVE  /\ files' = [files EXCEPT ![f] = p]
             /\ author' = [author EXCEPT ![f] = i]
             /\ spent' = [spent EXCEPT !.torn = @ \/ ~AllUnchanged(i)]
             /\ IF Rest(i) = {} THEN Stops(i, "done", {})
                ELSE run' = [run EXCEPT ![i] = r] /\ locks' = locks
  <2>1. /\ files' = [files EXCEPT ![f] = p]
        /\ author' = [author EXCEPT ![f] = i]
        /\ spent' = [spent EXCEPT !.torn = @ \/ ~AllUnchanged(i)]
        /\ IF Rest(i) = {} THEN Stops(i, "done", {})
           ELSE /\ run' = [run EXCEPT ![i].pc = "confirm", ![i].todo = Rest(i), ![i].written = @ \cup {f}]
                /\ locks' = locks
    BY <1>5 DEF Replace
  <2>2. run \in [Installers -> RunType]
    BY IntegrationFacts
  <2>3. CASE Rest(i) = {}
    BY <2>1, <2>3
  <2>4. CASE Rest(i) # {}
    <3>1. run' = [run EXCEPT ![i].pc = "confirm", ![i].todo = Rest(i), ![i].written = @ \cup {f}]
      BY <2>1, <2>4
    <3>2. run' = [run EXCEPT ![i] = r]
      BY <2>2, <3>1
    <3> QED BY <2>1, <2>4, <3>2
  <2> QED BY <2>3, <2>4
<1> QED BY <1>3, <1>4, <1>5

LEMMA RestoreTrue ==
  ASSUME IntegrationInv, NEW i \in Installers, Restore(i)
  PROVE  IntegrationInv'
<1> DEFINE f == Head1(i)
           b == run[i].before[f]
<1>1. run[i].pc = "restore" /\ backups' = backups /\ late' = late
  BY DEF Restore, At
<1>2. /\ run[i] \in RunType /\ Changed(i) \subseteq Files
      /\ f \in run[i].todo /\ f \in Files /\ locks[DirOf[f]] = i
      /\ run[i].todo \subseteq Files /\ Holding(i)
  BY <1>1, InHand DEF Holding
<1>3. CASE /\ spent.faults < Faults
           /\ spent' = [spent EXCEPT !.faults = @ + 1, !.torn = TRUE]
           /\ NextUndo(i, run[i].conflicts \cup {f}) /\ files' = files /\ author' = author
  <2>1. run[i].conflicts \cup {f} \in SUBSET Files
    BY <1>2 DEF RunType
  <2>2. /\ run' \in [Installers -> RunType] /\ locks' \in [Dirs -> Installers \cup {Unowned}]
        /\ RunTrue(i)'
        /\ \A j \in Installers \ {i} : run'[j] = run[j] /\ \A d \in Dirs : locks[d] = j => locks'[d] = j
    BY <1>1, <1>3, <2>1, NextUndoTrue
  <2>3. spent' \in SpentType /\ spent'.torn
    <3>1. spent \in SpentType /\ Faults \in Nat
      BY IntegrationNow, IntegrationAssumption
    <3> DEFINE n == spent.faults + 1
               s == [spent EXCEPT !.faults = n]
    <3>2. n \in 0..Faults /\ spent' = [s EXCEPT !.torn = TRUE]
      BY <1>3, <3>1 DEF SpentType
    <3> HIDE DEF n
    <3>3. s \in SpentType
      BY <3>1, <3>2 DEF SpentType
    <3> HIDE DEF s
    <3> QED BY <3>2, <3>3 DEF SpentType
  <2>4. IntegrationTypeOK'
    BY <1>1, <1>3, <2>2, <2>3, IntegrationNow, IntegrationTypesNext
  <2>5. ASSUME NEW j \in Installers \ {i} PROVE RunTrue(j)'
    BY <1>1, <1>3, <2>2, OthersStay
  <2> QED BY <2>2, <2>3, <2>4, <2>5 DEF IntegrationInv, Agreeing
<1>4. CASE /\ files' = [files EXCEPT ![f] = b] /\ author' = [author EXCEPT ![f] = Unowned]
           /\ NextUndo(i, run[i].conflicts) /\ spent' = spent
  <2>1. b \in Content /\ i # Unowned
    BY <1>2, IntegrationFacts DEF RunType
  <2>2. Rest(i) = run[i].todo \ {f}
    BY DEF Rest
  <2> HIDE DEF b
  <2>3. /\ files' \in [Files -> Content]
        /\ \A g \in Files : files'[g] = IF g = f THEN b ELSE files[g]
        /\ author' \in [Files -> Installers \cup {Unowned}]
        /\ \A g \in Files : author'[g] = IF g = f THEN Unowned ELSE author[g]
    BY <1>2, <1>4, <2>1, IntegrationNow
  <2>4. \A j \in Installers : \A g \in Files : author'[g] = j => author[g] = j /\ g # f
    BY <2>3, IntegrationAssumption
  <2>5. /\ run' \in [Installers -> RunType] /\ locks' \in [Dirs -> Installers \cup {Unowned}]
        /\ RunTrue(i)' /\ Mine(i)' = Rest(i)
        /\ Rest(i) # {} => run'[i].before = run[i].before
        /\ \A j \in Installers \ {i} : run'[j] = run[j] /\ \A d \in Dirs : locks[d] = j => locks'[d] = j
    <3>1. run[i].conflicts \in SUBSET Files
      BY <1>2 DEF RunType
    <3> QED BY <1>1, <1>4, <2>4, <3>1, NextUndoTrue
  <2>6. IntegrationTypeOK'
    BY <1>1, <1>4, <2>3, <2>5, IntegrationNow, IntegrationTypesNext
  <2>7. ASSUME NEW j \in Installers \ {i} PROVE RunTrue(j)'
    <3>1. \A g \in Files : locks[DirOf[g]] = j => files'[g] = files[g]
      BY <1>2, <2>3
    <3> HIDE DEF f
    <3> QED BY <1>1, <2>4, <2>5, <3>1, OthersStay
  <2>8. ASSUME ~spent'.torn
        PROVE  /\ late' = {} /\ \A j \in Installers \ {i} : Mine(j)' = {}
               /\ SameParts(run[i].before)
               /\ \A g \in Files : files'[g] = IF g \in Rest(i) THEN Planned(i, run[i].before[g])
                                               ELSE run[i].before[g]
    <3>1. ~spent.torn /\ late = {}
      BY <1>4, <2>8 DEF IntegrationInv, Agreeing
    <3>2. Mine(i) = run[i].todo
      BY <1>1 DEF Mine
    <3>3. SameParts(run[i].before) /\ Replaced(i, run[i].todo) /\ \A j \in Installers \ {i} : Mine(j) = {}
      BY <1>2, <3>1, <3>2 DEF IntegrationInv, Agreeing
    <3>4. \A j \in Installers \ {i} : Mine(j)' = {}
      BY <2>5, <3>3 DEF Mine
    <3>5. \A g \in Files : files'[g] = IF g \in Rest(i) THEN Planned(i, run[i].before[g])
                                       ELSE run[i].before[g]
      BY <2>2, <2>3, <3>3 DEF Replaced, b
    <3> QED BY <1>1, <3>1, <3>3, <3>4, <3>5
  <2>9. Agreeing'
    <3> SUFFICES ASSUME ~spent'.torn PROVE Agreeing'
      BY Zenon DEF Agreeing
    <3>1. CASE Rest(i) = {}
      <4>1. SameParts(files)'
        BY <2>8, <3>1 DEF SameParts
      <4>2. \A j \in Installers : Mine(j)' = {}
        BY <2>5, <2>8, <3>1
      <4> QED BY <2>8, <4>1, <4>2 DEF Agreeing
    <3>2. CASE Rest(i) # {}
      <4>1. Mine(i)' = Rest(i) /\ run'[i].before = run[i].before
        BY <2>5, <3>2
      <4>2. SameParts(run[i].before)'
        BY <2>8, <4>1 DEF SameParts
      <4>3. Replaced(i, Mine(i))'
        BY <2>8, <4>1 DEF Replaced, Planned
      <4> QED BY <2>8, <3>2, <4>1, <4>2, <4>3 DEF Agreeing
    <3> QED BY <3>1, <3>2
  <2> QED BY <2>5, <2>6, <2>7, <2>9, Zenon DEF IntegrationInv
<1>5. \/ /\ files' = [files EXCEPT ![f] = b] /\ author' = [author EXCEPT ![f] = Unowned]
         /\ NextUndo(i, run[i].conflicts) /\ spent' = spent
      \/ /\ spent.faults < Faults
         /\ spent' = [spent EXCEPT !.faults = @ + 1, !.torn = TRUE]
         /\ NextUndo(i, run[i].conflicts \cup {f}) /\ files' = files /\ author' = author
  BY DEF Restore
<1> QED BY <1>3, <1>4, <1>5

LEMMA IntegrationInvInit == IntegrationInit => IntegrationInv
<1> SUFFICES ASSUME IntegrationInit PROVE IntegrationInv
  OBVIOUS
<1> USE IntegrationAssumption
<1>1. /\ locks = [d \in Dirs |-> Unowned] /\ run = [i \in Installers |-> IdleRun]
      /\ backups = {} /\ late = {} /\ author = [f \in Files |-> Unowned]
      /\ spent = [edits |-> 0, faults |-> 0, runs |-> [i \in Installers |-> 0], torn |-> FALSE]
  BY DEF IntegrationInit
<1>2. IdleRun \in RunType /\ IdleRun.pc = "idle" /\ IdleRun.todo = {} /\ IdleRun.written = {} /\ IdleRun.conflicts = {}
  BY DEF IdleRun, RunType, AtRest, Content
<1>3. files \in [Files -> Content] /\ SameParts(files)
  <2>1. CASE files \in [Files -> {Absent} \cup {[there |-> TRUE, text |-> t, part |-> Unowned] : t \in Texts}]
    <3>1. \A t \in Texts : [there |-> TRUE, text |-> t, part |-> Unowned] \in Content
      BY DEF Content
    <3>2. \A f \in Files : files[f].part = Unowned
      BY <2>1 DEF Absent
    <3>3. Absent \in Content
      BY DEF Content
    <3>4. files \in [Files -> Content]
      BY <2>1, <3>1, <3>3
    <3>5. SameParts(files)
      BY <3>2 DEF SameParts
    <3> QED BY <3>4, <3>5
  <2>2. ASSUME NEW i \in Installers,
               files \in [Files -> {[there |-> TRUE, text |-> t, part |-> i] : t \in {Unowned} \cup (Texts \ Malformed)}]
        PROVE  files \in [Files -> Content] /\ SameParts(files)
    <3>1. \A t \in Texts \cup {Unowned} : [there |-> TRUE, text |-> t, part |-> i] \in Content
      BY DEF Content
    <3>2. \A f \in Files : files[f].part = i
      BY <2>2
    <3> QED BY <2>2, <3>1, <3>2 DEF SameParts
  <2> QED BY <2>1, <2>2, Zenon DEF IntegrationInit
<1>4. spent \in SpentType
  BY <1>1 DEF SpentType
<1>5. IntegrationTypeOK
  BY <1>1, <1>2, <1>3, <1>4, IntegrationTypes
<1>6. Agreeing
  BY <1>1, <1>2, <1>3 DEF Agreeing, Mine
<1>7. ASSUME NEW i \in Installers PROVE RunTrue(i)
  BY <1>1, <1>2 DEF RunTrue, TodoShape, LocksHeld, Prepared, AuthorKnown, Holding, AtRest
<1> QED BY <1>5, <1>6, <1>7 DEF IntegrationInv

LEMMA IntegrationInvNext == IntegrationInv /\ [IntegrationNext]_integrationvars => IntegrationInv'
<1> SUFFICES ASSUME IntegrationInv, [IntegrationNext]_integrationvars PROVE IntegrationInv'
  OBVIOUS
<1>1. CASE UNCHANGED integrationvars
  <2>1. /\ files' = files /\ locks' = locks /\ run' = run /\ backups' = backups /\ late' = late
        /\ author' = author /\ spent' = spent
    BY <1>1 DEF integrationvars
  <2>2. IntegrationTypeOK'
    BY <2>1, IntegrationTypes, IntegrationTypesNext DEF IntegrationInv
  <2>3. ASSUME NEW j \in Installers PROVE RunTrue(j)'
    BY <2>1, OthersStay
  <2>4. Agreeing'
    <3>1. \A j \in Installers : Mine(j)' = Mine(j)
      BY <2>1 DEF Mine
    <3> QED BY <2>1, <3>1, AgreesStill
  <2> QED BY <2>2, <2>3, <2>4, Zenon DEF IntegrationInv
<1>2. CASE \E f \in Files : UserEdits(f)
  BY <1>2, UserEditsTrue
<1>3. ASSUME NEW i \in Installers,
             \/ Install(i) \/ Prepare(i) \/ Begin(i) \/ Lock(i) \/ Check(i) \/ Backup(i)
             \/ Confirm(i) \/ Replace(i) \/ Undo(i) \/ Restore(i) \/ Killed(i)
      PROVE  IntegrationInv'
  BY <1>3, InstallTrue, PrepareTrue, BeginTrue, LockTrue, CheckTrue, BackupTrue, ConfirmTrue,
     ReplaceTrue, UndoTrue, RestoreTrue, KilledTrue, Zenon
<1> QED BY <1>1, <1>2, <1>3, Zenon DEF IntegrationNext

\* The files, the locks, the runs of the installers and what was saved always have
\* their types (integrate.py: Edit, update_profile_integrations).
THEOREM IntegrationTypeCorrect == IntegrationSpec => []IntegrationTypeOK
<1>1. IntegrationInv => IntegrationTypeOK
  BY DEF IntegrationInv
<1> QED BY IntegrationInvInit, IntegrationInvNext, <1>1, PTL DEF IntegrationSpec

\* An update that failed has left no file of its own that it did not report, and two
\* installers of different versions never leave a mixture: what the locks, the last
\* looks and the undoing are for (integrate.py: commit).
THEOREM InstallationIsWhole == IntegrationSpec => []InstallationWhole
<1>1. ASSUME IntegrationInv PROVE InstallationWhole
  <2>1. AllOrNothing
    BY <1>1 DEF AllOrNothing, IntegrationInv, RunTrue, AuthorKnown, At
  <2>2. ASSUME \A d \in Dirs : locks[d] = Unowned, ~spent.torn PROVE SameParts(files)
    <3>1. ASSUME NEW i \in Installers PROVE Mine(i) = {}
      <4> SUFFICES ASSUME Mine(i) # {} PROVE FALSE
        OBVIOUS
      <4>1. Holding(i) /\ \A d \in DirsOf(i) : locks[d] = i
        BY <1>1, WriterHolds
      <4>2. Head1(i) \in Files /\ locks[DirOf[Head1(i)]] = i
        BY <1>1, <4>1, InHand
      <4> QED BY <1>1, <2>2, <4>2, IntegrationFacts
    <3> QED BY <1>1, <2>2, <3>1 DEF IntegrationInv, Agreeing
  <2> QED BY <2>1, <2>2 DEF InstallationWhole, OneInstallation, SameParts
<1> QED BY IntegrationInvInit, IntegrationInvNext, <1>1, PTL DEF IntegrationSpec

\* What an installer replaces keeps the user's text and, if the user wrote it, was
\* saved before or differs by memcap's part alone; except for an edit after the last
\* look at the file (integrate.py: commit, _replace, backup).
THEOREM EditsAreKept == IntegrationSpec => EditsKept
<1> DEFINE Kept(f) ==
      files'[f] # files[f] /\ spent'.edits = spent.edits /\ f \notin late =>
        /\ files'[f].text = files[f].text
        /\ author[f] = Unowned /\ files[f].there =>
             \/ <<f, files[f]>> \in backups
             \/ \E i \in Installers : files[f] = Planned(i, files'[f])
<1>1. ASSUME IntegrationInv, [IntegrationNext]_integrationvars, NEW f \in Files PROVE Kept(f)
  <2> SUFFICES ASSUME files'[f] # files[f], spent'.edits = spent.edits, f \notin late
               PROVE  /\ files'[f].text = files[f].text
                      /\ \/ files[f].there => <<f, files[f]>> \in backups
                         \/ \E i \in Installers : files[f] = Planned(i, files'[f])
    BY Zenon
  <2>1. files \in [Files -> Content] /\ spent \in SpentType
    BY <1>1, IntegrationNow
  <2>2. CASE \E g \in Files : UserEdits(g)
    <3>1. spent' = [spent EXCEPT !.edits = @ + 1, !.torn = TRUE]
      BY <2>2, Zenon DEF UserEdits
    <3>2. spent.edits \in Int /\ spent'.edits = spent.edits + 1
      BY <2>1, <3>1 DEF SpentType
    <3> QED BY <3>2
  <2>3. CASE files' = files
    BY <2>3
  <2>4. ASSUME NEW i \in Installers, Replace(i), files' # files
        PROVE  files'[f].text = files[f].text /\ (files[f].there => <<f, files[f]>> \in backups)
    <3> DEFINE h == Head1(i)
    <3>1. run[i].pc = "replace" /\ files' = [files EXCEPT ![h] = Planned(i, run[i].before[h])]
      BY <2>4 DEF Replace, At
    <3>2. Prepared(i) /\ Holding(i) /\ h \in Changed(i) /\ run[i] \in RunType
      BY <1>1, <3>1, InHand DEF IntegrationInv, RunTrue, Holding
    <3>3. h = f
      BY <2>1, <3>1
    <3>4. files[f] = run[i].before[f] /\ Saved(i, Changed(i))
      BY <3>1, <3>2, <3>3 DEF Prepared
    <3>5. files'[f] = Planned(i, files[f]) /\ files[f] \in Content
      BY <2>1, <3>1, <3>3, <3>4
    <3> QED BY <3>2, <3>3, <3>4, <3>5, PlannedIs DEF Saved
  <2>5. ASSUME NEW i \in Installers, Restore(i), files' # files
        PROVE  files'[f].text = files[f].text /\ files[f] = Planned(i, files'[f])
    <3> DEFINE h == Head1(i)
    <3>1. run[i].pc = "restore" /\ files' = [files EXCEPT ![h] = run[i].before[h]]
      BY <2>5 DEF Restore, At
    <3>2. Prepared(i) /\ run[i] \in RunType
      BY <1>1, IntegrationFacts DEF IntegrationInv, RunTrue
    <3>3. h = f
      BY <2>1, <3>1
    <3>4. files[f] = Planned(i, run[i].before[f])
      BY <3>1, <3>2, <3>3 DEF Prepared
    <3>5. files'[f] = run[i].before[f] /\ run[i].before[f] \in Content
      BY <2>1, <3>1, <3>2, <3>3 DEF RunType
    <3> QED BY <3>4, <3>5, PlannedIs
  <2>6. \/ files' = files
        \/ \E g \in Files : UserEdits(g)
        \/ \E i \in Installers : Replace(i) \/ Restore(i)
    BY <1>1, Zenon DEF IntegrationNext, integrationvars, Install, Prepare, Begin, Lock, Check, Backup,
                       Confirm, Undo, Killed
  <2> QED BY <2>2, <2>3, <2>4, <2>5, <2>6
<1> DEFINE All == \A f \in Files : Kept(f)
<1>2. IntegrationInv /\ [IntegrationNext]_integrationvars => [All]_integrationvars
  BY <1>1
<1>3. EditsKept <=> [][All]_integrationvars
  BY Zenon DEF EditsKept
<1> QED BY IntegrationInvInit, IntegrationInvNext, <1>2, <1>3, PTL DEF IntegrationSpec

(***************************************************************************)
(* HookMerge.                                                              *)
(***************************************************************************)
Handler == [name : Roles \cup Others, version : 0..Upgrades + 1]
GroupType == [matcher : {"none", "Bash"}, extra : BOOLEAN, hooks : Seq(Handler)]
StepType == [remaining : Seq(Handler), pending : Seq(GroupType), shell : GroupType, refused : BOOLEAN]
PassType == [retained : Seq(GroupType), pending : Seq(GroupType), refused : BOOLEAN]

\* The merge of a group goes from handler to handler, and there is such a function.
LEMMA StepsUnfold ==
  ASSUME NEW group, NEW begin, Len(group.hooks) \in Nat
  PROVE  /\ Steps(group, begin)[0] = begin
         /\ \A i \in 1..Len(group.hooks) :
              Steps(group, begin)[i] = Handled(group, Steps(group, begin)[i - 1], i)
<1> DEFINE Rec(f, n) == f = [i \in 0..n |-> IF i = 0 THEN begin ELSE Handled(group, f[i - 1], i)]
           S == {n \in Nat : \E f : Rec(f, n)}
<1>1. 0 \in S
  <2>1. Rec([i \in 0..0 |-> begin], 0)
    OBVIOUS
  <2> QED BY <2>1
<1>2. ASSUME NEW n \in Nat, n \in S PROVE n + 1 \in S
  <2>1. PICK f : Rec(f, n)
    BY <1>2
  <2> DEFINE g == [i \in 0..n + 1 |-> IF i \in 0..n THEN f[i] ELSE Handled(group, f[n], n + 1)]
  <2>2. ASSUME NEW i \in 0..n + 1 PROVE g[i] = IF i = 0 THEN begin ELSE Handled(group, g[i - 1], i)
    <3>1. CASE i = n + 1
      <4>1. i \notin 0..n /\ i - 1 = n /\ n \in 0..n /\ n \in 0..n + 1 /\ i # 0
        BY <3>1
      <4> QED BY <3>1, <4>1
    <3>2. CASE i \in 0..n
      <4>1. f[i] = IF i = 0 THEN begin ELSE Handled(group, f[i - 1], i)
        BY <2>1, <3>2
      <4>2. i # 0 => i - 1 \in 0..n /\ i - 1 \in 0..n + 1
        BY <3>2
      <4> QED BY <3>2, <4>1, <4>2
    <3> QED BY <3>1, <3>2
  <2>3. g = [i \in 0..n + 1 |-> g[i]]
    OBVIOUS
  <2>4. Rec(g, n + 1)
    <3> HIDE DEF g
    <3> QED BY <2>2, <2>3
  <2> HIDE DEF g, Rec
  <2> QED BY <2>4
<1>3. Len(group.hooks) \in S
  <2> HIDE DEF S
  <2> QED BY <1>1, <1>2, NatInductionOverSet
<1> DEFINE steps == Steps(group, begin)
<1>4. Rec(steps, Len(group.hooks))
  <2>1. \E f : Rec(f, Len(group.hooks))
    BY <1>3
  <2>2. steps = CHOOSE f : Rec(f, Len(group.hooks))
    BY DEF Steps
  <2> HIDE DEF Rec, steps
  <2> QED BY <2>1, <2>2
<1> HIDE DEF steps
<1>5. steps[0] = begin
  BY <1>4
<1>6. ASSUME NEW i \in 1..Len(group.hooks) PROVE steps[i] = Handled(group, steps[i - 1], i)
  <2>1. i \in 0..Len(group.hooks) /\ i # 0
    OBVIOUS
  <2> QED BY <1>4, <2>1
<1> QED BY <1>5, <1>6 DEF steps

\* The merge of an event goes from group to group, and there is such a function.
LEMMA PassesUnfold ==
  ASSUME NEW gs, Len(gs) \in Nat
  PROVE  /\ Passes(gs)[0] = [retained |-> <<>>, pending |-> Pending, refused |-> FALSE]
         /\ \A i \in 1..Len(gs) : Passes(gs)[i] = MergedGroup(Passes(gs)[i - 1], gs[i])
<1> DEFINE begin == [retained |-> <<>>, pending |-> Pending, refused |-> FALSE]
           Rec(f, n) == f = [i \in 0..n |-> IF i = 0 THEN begin ELSE MergedGroup(f[i - 1], gs[i])]
           S == {n \in Nat : \E f : Rec(f, n)}
<1>0. Passes(gs) = CHOOSE f : Rec(f, Len(gs))
  BY DEF Passes
<1> HIDE DEF begin
<1>1. 0 \in S
  <2>1. Rec([i \in 0..0 |-> begin], 0)
    OBVIOUS
  <2> QED BY <2>1
<1>2. ASSUME NEW n \in Nat, n \in S PROVE n + 1 \in S
  <2>1. PICK f : Rec(f, n)
    BY <1>2
  <2> DEFINE g == [i \in 0..n + 1 |-> IF i \in 0..n THEN f[i] ELSE MergedGroup(f[n], gs[n + 1])]
  <2>2. ASSUME NEW i \in 0..n + 1 PROVE g[i] = IF i = 0 THEN begin ELSE MergedGroup(g[i - 1], gs[i])
    <3>1. CASE i = n + 1
      <4>1. i \notin 0..n /\ i - 1 = n /\ n \in 0..n /\ n \in 0..n + 1 /\ i # 0
        BY <3>1
      <4> QED BY <3>1, <4>1
    <3>2. CASE i \in 0..n
      <4>1. f[i] = IF i = 0 THEN begin ELSE MergedGroup(f[i - 1], gs[i])
        BY <2>1, <3>2
      <4>2. i # 0 => i - 1 \in 0..n /\ i - 1 \in 0..n + 1
        BY <3>2
      <4> QED BY <3>2, <4>1, <4>2
    <3> QED BY <3>1, <3>2
  <2>3. g = [i \in 0..n + 1 |-> g[i]]
    OBVIOUS
  <2>4. Rec(g, n + 1)
    <3> HIDE DEF g
    <3> QED BY <2>2, <2>3
  <2> HIDE DEF g, Rec
  <2> QED BY <2>4
<1>3. Len(gs) \in S
  <2> HIDE DEF S
  <2> QED BY <1>1, <1>2, NatInductionOverSet
<1> DEFINE passes == Passes(gs)
<1>4. Rec(passes, Len(gs))
  <2>1. \E f : Rec(f, Len(gs))
    BY <1>3
  <2>2. passes = CHOOSE f : Rec(f, Len(gs))
    BY <1>0
  <2> HIDE DEF Rec, passes
  <2> QED BY <2>1, <2>2
<1> HIDE DEF passes
<1>5. passes[0] = begin
  BY <1>4
<1>6. ASSUME NEW i \in 1..Len(gs) PROVE passes[i] = MergedGroup(passes[i - 1], gs[i])
  <2>1. i \in 0..Len(gs) /\ i # 0
    OBVIOUS
  <2> QED BY <1>4, <2>1
<1> QED BY <1>5, <1>6 DEF passes, begin

\* What is removed from a sequence is one of its places.
LEMMA WithoutOne ==
  ASSUME NEW S, NEW seq \in Seq(S), NEW m \in 1..Len(seq)
  PROVE  /\ RemoveAt(seq, m) \in Seq(S)
         /\ Len(RemoveAt(seq, m)) = Len(seq) - 1
         /\ \A i \in 1..Len(seq) - 1 : RemoveAt(seq, m)[i] = IF i < m THEN seq[i] ELSE seq[i + 1]
<1> DEFINE s == SubSeq(seq, 1, m - 1)
           t == SubSeq(seq, m + 1, Len(seq))
<1>0. RemoveAt(seq, m) = s \o t /\ Len(seq) \in Nat /\ m \in 1..Len(seq) /\ m - 1 \in Int /\ m + 1 \in Int
  BY LenProperties DEF RemoveAt
<1>1. \A i \in 1..Len(seq) : seq[i] \in S
  BY ElementOfSeq
<1>2. s \in Seq(S) /\ Len(s) = m - 1 /\ \A i \in 1..m - 1 : s[i] = seq[i]
  <2>1. \A i \in 1..m - 1 : seq[i] \in S
    BY <1>0, <1>1
  <2>2. /\ s \in Seq(S)
        /\ Len(s) = IF 1 <= m - 1 THEN m - 1 - 1 + 1 ELSE 0
        /\ \A i \in 1..m - 1 - 1 + 1 : s[i] = seq[1 + i - 1]
    BY <1>0, <2>1, SubSeqProperties
  <2> HIDE DEF s
  <2> QED BY <1>0, <2>2
<1>3. t \in Seq(S) /\ Len(t) = Len(seq) - m /\ \A i \in 1..Len(seq) - m : t[i] = seq[m + i]
  <2>1. \A i \in m + 1..Len(seq) : seq[i] \in S
    BY <1>0, <1>1
  <2>2. /\ t \in Seq(S)
        /\ Len(t) = IF m + 1 <= Len(seq) THEN Len(seq) - (m + 1) + 1 ELSE 0
        /\ \A i \in 1..Len(seq) - (m + 1) + 1 : t[i] = seq[m + 1 + i - 1]
    BY <1>0, <2>1, SubSeqProperties
  <2> HIDE DEF t
  <2> QED BY <1>0, <2>2
<1> HIDE DEF s, t
<1>4. /\ s \o t \in Seq(S) /\ Len(s \o t) = Len(s) + Len(t)
      /\ \A i \in 1..Len(s) + Len(t) : (s \o t)[i] = IF i <= Len(s) THEN s[i] ELSE t[i - Len(s)]
  BY <1>2, <1>3, ConcatProperties
<1>5. ASSUME NEW i \in 1..Len(seq) - 1 PROVE (s \o t)[i] = IF i < m THEN seq[i] ELSE seq[i + 1]
  <2>1. CASE i < m
    BY <1>0, <1>2, <1>3, <1>4, <2>1
  <2>2. CASE ~(i < m)
    <3>1. i \in 1..Len(s) + Len(t) /\ ~(i <= Len(s)) /\ i - Len(s) \in 1..Len(seq) - m
          /\ m + (i - Len(s)) = i + 1
      BY <1>0, <1>2, <1>3, <2>2
    <3> QED BY <1>3, <1>4, <2>2, <3>1
  <2> QED BY <2>1, <2>2
<1> QED BY <1>0, <1>2, <1>3, <1>4, <1>5

\* The one handler of a generated group, and the groups of a sequence.
Hook(e) == e.hooks[1]
Entries(P) == {P[i] : i \in 1..Len(P)}

\* Generated groups that are still to be placed.
IsPending(P) ==
  /\ P \in Seq(GroupType)
  /\ \A i \in 1..Len(P) : P[i] \in Entries(Pending)
  /\ \A i, j \in 1..Len(P) : P[i] = P[j] => i = j

\* A generated group has one handler, whose role is that of no other one.
LEMMA PendingTyped ==
  ASSUME version \in 1..Upgrades + 1
  PROVE  /\ Pending \in Seq(GroupType) /\ Len(Pending) = Len(Generated) /\ Len(Generated) \in Nat
         /\ \A i \in 1..Len(Generated) :
              /\ Pending[i] = [matcher |-> Generated[i].matcher, extra |-> FALSE,
                               hooks |-> <<Own(Generated[i].role, version)>>]
              /\ Generated[i].role \in Roles /\ Generated[i].matcher \in {"none", "Bash"}
<1> DEFINE n == Len(Generated)
           fresh(i) == [matcher |-> Generated[i].matcher, extra |-> FALSE,
                        hooks |-> <<Own(Generated[i].role, version)>>]
<1>1. n \in Nat /\ DOMAIN Generated = 1..n
  BY MergeAssumption, LenProperties
<1>2. \A i \in 1..n : Generated[i] \in [role : Roles, matcher : {"none", "Bash"}]
  BY MergeAssumption, ElementOfSeq
<1>3. Pending = [i \in 1..n |-> fresh(i)]
  BY <1>1 DEF Pending, Fresh1
<1>4. ASSUME NEW i \in 1..n PROVE fresh(i) \in GroupType
  <2>1. Generated[i].role \in Roles /\ Generated[i].matcher \in {"none", "Bash"}
    BY <1>2
  <2>2. Own(Generated[i].role, version) \in Handler
    <3>1. version \in 0..Upgrades + 1
      BY MergeAssumption
    <3> QED BY <2>1, <3>1 DEF Own, Handler
  <2>3. <<Own(Generated[i].role, version)>> \in Seq(Handler)
    BY <2>2
  <2> QED BY <2>1, <2>3 DEF GroupType
<1>5. Pending \in [1..n -> GroupType]
  <2> HIDE DEF fresh
  <2> QED BY <1>3, <1>4
<1>6. Pending \in Seq(GroupType) /\ Len(Pending) = n
  BY <1>1, <1>5
<1> QED BY <1>1, <1>2, <1>3, <1>6

LEMMA EntryIs ==
  ASSUME version \in 1..Upgrades + 1, NEW e \in Entries(Pending)
  PROVE  /\ e \in GroupType /\ e.extra = FALSE /\ e.hooks = <<Hook(e)>> /\ Len(e.hooks) = 1
         /\ Hook(e) \in Handler /\ Ours(Hook(e))
         /\ \A f \in Entries(Pending) : Hook(e).name = Hook(f).name => e = f
<1>1. PICK i \in 1..Len(Generated) : e = Pending[i]
  BY PendingTyped DEF Entries
<1>2. /\ e = [matcher |-> Generated[i].matcher, extra |-> FALSE, hooks |-> <<Own(Generated[i].role, version)>>]
      /\ Generated[i].role \in Roles
  BY <1>1, PendingTyped
<1>3. e \in GroupType
  BY <1>1, PendingTyped, ElementOfSeq
<1>4. /\ e.extra = FALSE /\ e.hooks = <<Own(Generated[i].role, version)>>
      /\ Hook(e) = Own(Generated[i].role, version) /\ Len(e.hooks) = 1
  BY <1>2 DEF Hook
<1>5. Hook(e) \in Handler /\ Ours(Hook(e))
  <2>1. version \in 0..Upgrades + 1
    BY MergeAssumption
  <2> QED BY <1>2, <1>4, <2>1 DEF Own, Handler, Ours
<1>6. ASSUME NEW f \in Entries(Pending), Hook(e).name = Hook(f).name PROVE e = f
  <2>1. PICK j \in 1..Len(Generated) : f = Pending[j]
    BY PendingTyped DEF Entries
  <2>2. Hook(f) = Own(Generated[j].role, version)
    <3>1. f = [matcher |-> Generated[j].matcher, extra |-> FALSE, hooks |-> <<Own(Generated[j].role, version)>>]
      BY <2>1, PendingTyped
    <3> QED BY <3>1 DEF Hook
  <2>3. Generated[i].role = Generated[j].role
    BY <1>4, <1>6, <2>2 DEF Own
  <2>4. i \in DOMAIN Generated /\ j \in DOMAIN Generated
    BY MergeAssumption, LenProperties
  <2>5. i = j
    BY <2>3, <2>4, MergeAssumption
  <2> QED BY <1>1, <2>1, <2>5
<1> QED BY <1>3, <1>4, <1>5, <1>6

LEMMA PendingWhole ==
  ASSUME version \in 1..Upgrades + 1
  PROVE  IsPending(Pending)
<1>1. ASSUME NEW i \in 1..Len(Pending), NEW j \in 1..Len(Pending), Pending[i] = Pending[j] PROVE i = j
  <2>1. i \in 1..Len(Generated) /\ j \in 1..Len(Generated)
    BY PendingTyped
  <2> DEFINE entry(k) == [matcher |-> Generated[k].matcher, extra |-> FALSE,
                          hooks |-> <<Own(Generated[k].role, version)>>]
  <2>2. entry(i) = entry(j)
    BY <1>1, <2>1, PendingTyped
  <2>3. entry(i).hooks = entry(j).hooks
    <3> HIDE DEF entry
    <3> QED BY <2>2
  <2>4. Own(Generated[i].role, version) = Own(Generated[j].role, version)
    BY <2>3
  <2>5. Generated[i].role = Generated[j].role
    BY <2>4 DEF Own
  <2>6. i \in DOMAIN Generated /\ j \in DOMAIN Generated
    BY <2>1, MergeAssumption, LenProperties
  <2> QED BY <2>5, <2>6, MergeAssumption
<1>2. \A i \in 1..Len(Pending) : Pending[i] \in Entries(Pending)
  BY DEF Entries
<1> QED BY <1>1, <1>2, PendingTyped DEF IsPending

LEMMA RemovedIs ==
  ASSUME NEW P, IsPending(P), NEW m \in 1..Len(P)
  PROVE  IsPending(RemoveAt(P, m)) /\ Entries(RemoveAt(P, m)) = Entries(P) \ {P[m]}
<1> DEFINE Q == RemoveAt(P, m)
<1>1. P \in Seq(GroupType) /\ Len(P) \in Nat
  BY LenProperties DEF IsPending
<1>2. /\ Q \in Seq(GroupType) /\ Len(Q) = Len(P) - 1
      /\ \A i \in 1..Len(P) - 1 : Q[i] = IF i < m THEN P[i] ELSE P[i + 1]
  BY <1>1, WithoutOne
<1> HIDE DEF Q
<1>3. \A i, j \in 1..Len(P) : P[i] = P[j] => i = j
  BY DEF IsPending
<1>4. ASSUME NEW i \in 1..Len(Q)
      PROVE  \E k \in 1..Len(P) : Q[i] = P[k] /\ k = (IF i < m THEN i ELSE i + 1) /\ k # m
  <2>1. i \in 1..Len(P) - 1
    BY <1>2
  <2>2. CASE i < m
    BY <1>1, <1>2, <2>1, <2>2
  <2>3. CASE ~(i < m)
    BY <1>1, <1>2, <2>1, <2>3
  <2> QED BY <2>2, <2>3
<1>5. \A i, j \in 1..Len(Q) : Q[i] = Q[j] => i = j
  <2> SUFFICES ASSUME NEW i \in 1..Len(Q), NEW j \in 1..Len(Q), Q[i] = Q[j] PROVE i = j
    OBVIOUS
  <2>1. PICK k \in 1..Len(P) : Q[i] = P[k] /\ k = (IF i < m THEN i ELSE i + 1)
    BY <1>4
  <2>2. PICK l \in 1..Len(P) : Q[j] = P[l] /\ l = (IF j < m THEN j ELSE j + 1)
    BY <1>4
  <2>3. k = l
    BY <1>3, <2>1, <2>2
  <2> QED BY <1>1, <1>2, <2>1, <2>2, <2>3
<1>6. \A i \in 1..Len(Q) : Q[i] \in Entries(Pending)
  BY <1>4 DEF IsPending
<1>7. ASSUME NEW k \in 1..Len(P), k # m PROVE P[k] \in Entries(Q)
  <2>1. CASE k < m
    <3>1. k \in 1..Len(P) - 1
      BY <1>1, <2>1
    <3> QED BY <1>2, <2>1, <3>1 DEF Entries
  <2>2. CASE k > m
    <3>1. k - 1 \in 1..Len(P) - 1 /\ ~(k - 1 < m) /\ k - 1 + 1 = k
      BY <1>1, <2>2
    <3> QED BY <1>2, <3>1 DEF Entries
  <2> QED BY <1>1, <1>7, <2>1, <2>2
<1>8. ASSUME NEW e \in Entries(Q) PROVE e \in Entries(P) \ {P[m]}
  <2>1. PICK i \in 1..Len(Q) : e = Q[i]
    BY DEF Entries
  <2>2. PICK k \in 1..Len(P) : Q[i] = P[k] /\ k # m
    BY <1>4
  <2> QED BY <1>3, <2>1, <2>2 DEF Entries
<1>9. ASSUME NEW e \in Entries(P) \ {P[m]} PROVE e \in Entries(Q)
  BY <1>7 DEF Entries
<1> QED BY <1>2, <1>5, <1>6, <1>8, <1>9 DEF IsPending, Q

\* What may replace a handler of ours.
Fits(e, group, handler, remaining) ==
  /\ Hook(e).name = handler.name
  /\ Mixed(group) \/ remaining = <<>>
  /\ Mixed(group) => e.matcher = group.matcher /\ ~group.extra

LEMMA MatchIs ==
  ASSUME NEW P, IsPending(P), NEW group, NEW handler, NEW remaining
  PROVE  \/ /\ Match(P, group, handler, remaining) = 0
            /\ \A e \in Entries(P) : ~Fits(e, group, handler, remaining)
         \/ /\ Match(P, group, handler, remaining) \in 1..Len(P)
            /\ Fits(P[Match(P, group, handler, remaining)], group, handler, remaining)
<1> DEFINE found == {i \in DOMAIN P : Fits(P[i], group, handler, remaining)}
<1>1. Match(P, group, handler, remaining) =
        IF found = {} THEN 0 ELSE CHOOSE i \in found : \A j \in found : i <= j
  BY DEF Match, Fits, Hook
<1>2. DOMAIN P = 1..Len(P) /\ Len(P) \in Nat
  BY LenProperties DEF IsPending
<1>3. CASE found = {}
  BY <1>1, <1>2, <1>3 DEF Entries
<1>4. CASE found # {}
  <2>1. found \subseteq 1..Len(P) /\ found \subseteq Nat
    BY <1>2
  <2>2. \E i \in found : \A j \in found : i <= j
    <3> HIDE DEF found
    <3> QED BY <1>4, <2>1, LeastIn
  <2>3. (CHOOSE i \in found : \A j \in found : i <= j) \in found
    <3> HIDE DEF found
    <3> QED BY <2>2
  <2> DEFINE m == CHOOSE i \in found : \A j \in found : i <= j
  <2>4. Match(P, group, handler, remaining) = m /\ m \in found
    BY <1>1, <1>4, <2>3
  <2> HIDE DEF m
  <2> QED BY <2>1, <2>4
<1> QED BY <1>3, <1>4

\* The matcher of a group that others share does not change.
Suits(e, g) == Mixed(g) => e.matcher = g.matcher /\ ~g.extra

(***************************************************************************)
(* After n handlers of a group g, of the generated groups P: what is left  *)
(* of others stands where it stood, what is ours is of the groups that are *)
(* no longer pending, and each of those is there once.                     *)
(***************************************************************************)
StepTyped(P, step, n, before) ==
  /\ step \in StepType /\ IsPending(step.pending)
  /\ Entries(step.pending) \subseteq Entries(P)
  /\ Len(step.remaining) <= n
  /\ before => step.refused

StepKeeps(g, step, n) ==
  /\ (\E k \in n + 1..Len(g.hooks) : ~Ours(g.hooks[k])) => Len(step.remaining) = n
  /\ \A i \in 1..n : ~Ours(g.hooks[i]) => i <= Len(step.remaining) /\ step.remaining[i] = g.hooks[i]
  /\ \A i \in 1..Len(step.remaining) : ~Ours(step.remaining[i]) => step.remaining[i] = g.hooks[i]

Placement(g, step, handler, e) ==
  handler = Hook(e) /\ Suits(e, g) /\ (~Mixed(g) => step.shell = e)

StepPlaces(g, P, step) ==
  /\ \A i \in 1..Len(step.remaining) : Ours(step.remaining[i]) =>
       \E e \in Entries(P) \ Entries(step.pending) : Placement(g, step, step.remaining[i], e)
  /\ \A e \in Entries(P) \ Entries(step.pending) :
       \E i \in 1..Len(step.remaining) : step.remaining[i] = Hook(e)
  /\ \A i, j \in 1..Len(step.remaining) :
       Ours(step.remaining[i]) /\ step.remaining[i] = step.remaining[j] => i = j
  /\ Mixed(g) => step.shell = g
  /\ ~Mixed(g) => Len(step.remaining) <= 1 /\ (step.remaining = <<>> => step.shell = g)

StepInv(g, P, before, step, n) ==
  /\ StepTyped(P, step, n, before)
  /\ ~step.refused => StepKeeps(g, step, n) /\ StepPlaces(g, P, step)

\* The three ways in which a handler is treated.
LEMMA HandledOther ==
  ASSUME NEW step \in StepType, NEW group, NEW i, ~Ours(group.hooks[i])
  PROVE  Handled(group, step, i) =
           [remaining |-> Append(step.remaining, group.hooks[i]), pending |-> step.pending,
            shell |-> step.shell, refused |-> step.refused]
<1> DEFINE h == group.hooks[i]
<1>1. step = [remaining |-> step.remaining, pending |-> step.pending,
              shell |-> step.shell, refused |-> step.refused]
  BY DEF StepType
<1>2. Handled(group, step, i) = [step EXCEPT !.remaining = Append(step.remaining, h)]
  BY Zenon DEF Handled
<1> DEFINE remaining == Append(step.remaining, h)
<1> HIDE DEF h, remaining
<1>3. [step EXCEPT !.remaining = remaining] =
        [remaining |-> remaining, pending |-> step.pending,
         shell |-> step.shell, refused |-> step.refused]
  BY <1>1
<1> QED BY <1>2, <1>3, Zenon DEF h, remaining

LEMMA HandledMatched ==
  ASSUME NEW step \in StepType, NEW group, NEW i, Ours(group.hooks[i]),
         Match(step.pending, group, group.hooks[i], step.remaining) > 0
  PROVE  LET m == Match(step.pending, group, group.hooks[i], step.remaining) IN
         Handled(group, step, i) =
           [remaining |-> step.remaining \o step.pending[m].hooks,
            pending |-> RemoveAt(step.pending, m),
            shell |-> IF Mixed(group) THEN step.shell ELSE step.pending[m],
            refused |-> step.refused]
<1> DEFINE m == Match(step.pending, group, group.hooks[i], step.remaining)
<1> DEFINE shell == IF Mixed(group) THEN step.shell ELSE step.pending[m]
           remaining == step.remaining \o step.pending[m].hooks
           pending == RemoveAt(step.pending, m)
<1>1. step = [remaining |-> step.remaining, pending |-> step.pending,
              shell |-> step.shell, refused |-> step.refused]
  BY DEF StepType
<1>2. Handled(group, step, i) = [step EXCEPT !.remaining = remaining, !.pending = pending, !.shell = shell]
  BY Zenon DEF Handled
<1> HIDE DEF shell, remaining, pending
<1> DEFINE s1 == [step EXCEPT !.remaining = remaining]
           s2 == [s1 EXCEPT !.pending = pending]
           s3 == [s2 EXCEPT !.shell = shell]
<1>3. s1 = [remaining |-> remaining, pending |-> step.pending,
            shell |-> step.shell, refused |-> step.refused]
  BY <1>1
<1>4. s2 = [remaining |-> remaining, pending |-> pending,
            shell |-> step.shell, refused |-> step.refused]
  <2> HIDE DEF s1
  <2> QED BY <1>3
<1>5. s3 = [remaining |-> remaining, pending |-> pending, shell |-> shell, refused |-> step.refused]
  <2> HIDE DEF s2
  <2> QED BY <1>4
<1>6. Handled(group, step, i) = s3
  BY <1>2, Zenon
<1> HIDE DEF s3
<1> QED BY <1>5, <1>6, Zenon DEF shell, remaining, pending

LEMMA HandledDropped ==
  ASSUME NEW step \in StepType, NEW group, NEW i, Ours(group.hooks[i]),
         ~(Match(step.pending, group, group.hooks[i], step.remaining) > 0)
  PROVE  Handled(group, step, i) =
           [remaining |-> step.remaining, pending |-> step.pending, shell |-> step.shell,
            refused |-> step.refused \/ \E k \in i + 1..Len(group.hooks) : ~Ours(group.hooks[k])]
<1> DEFINE later == \E k \in i + 1..Len(group.hooks) : ~Ours(group.hooks[k])
<1>1. step = [remaining |-> step.remaining, pending |-> step.pending,
              shell |-> step.shell, refused |-> step.refused]
  BY DEF StepType
<1>2. Handled(group, step, i) = [step EXCEPT !.refused = step.refused \/ later]
  BY Zenon DEF Handled
<1> HIDE DEF later
<1>3. [step EXCEPT !.refused = step.refused \/ later] =
        [remaining |-> step.remaining, pending |-> step.pending,
         shell |-> step.shell, refused |-> step.refused \/ later]
  BY <1>1
<1> QED BY <1>2, <1>3, Zenon DEF later

\* A handler of others is left where it is.
LEMMA StepOther ==
  ASSUME NEW g \in GroupType, NEW P, NEW before, NEW n \in Nat, n + 1 <= Len(g.hooks),
         NEW step, StepInv(g, P, before, step, n), ~Ours(g.hooks[n + 1])
  PROVE  StepInv(g, P, before, Handled(g, step, n + 1), n + 1)
<1> DEFINE h == g.hooks[n + 1]
           rem == step.remaining
           next == [remaining |-> Append(rem, h), pending |-> step.pending,
                    shell |-> step.shell, refused |-> step.refused]
<1>1. step \in StepType /\ IsPending(step.pending) /\ rem \in Seq(Handler) /\ Len(rem) \in Nat
  BY LenProperties DEF StepInv, StepTyped, StepType
<1>2. Handled(g, step, n + 1) = next
  BY <1>1, HandledOther, Zenon
<1>3. h \in Handler /\ Len(g.hooks) \in Nat
  BY ElementOfSeq, LenProperties DEF GroupType
<1> HIDE DEF h
<1>4. /\ Append(rem, h) \in Seq(Handler) /\ Len(Append(rem, h)) = Len(rem) + 1
      /\ \A i \in 1..Len(rem) : Append(rem, h)[i] = rem[i]
      /\ Append(rem, h)[Len(rem) + 1] = h
  BY <1>1, <1>3, AppendProperties
<1>5. /\ next.remaining = Append(rem, h) /\ next.pending = step.pending
      /\ next.shell = step.shell /\ next.refused = step.refused
  OBVIOUS
<1>6. next \in StepType
  BY <1>1, <1>4 DEF StepType
<1> HIDE DEF next
<1>7. StepTyped(P, next, n + 1, before)
  <2>1. Len(rem) + 1 <= n + 1
    BY <1>1 DEF StepInv, StepTyped
  <2> QED BY <1>4, <1>5, <1>6, <2>1 DEF StepInv, StepTyped
<1>8. ASSUME ~step.refused PROVE StepKeeps(g, next, n + 1) /\ StepPlaces(g, P, next)
  <2>0. StepKeeps(g, step, n) /\ StepPlaces(g, P, step)
    BY <1>8 DEF StepInv
  <2>1. Len(rem) = n
    BY <1>3, <2>0 DEF StepKeeps
  <2>2. Mixed(g)
    <3>1. n + 1 \in DOMAIN g.hooks
      BY <1>3, LenProperties DEF GroupType
    <3> QED BY <3>1 DEF Mixed
  <2>3. ~Ours(h)
    BY DEF h
  <2>4. StepKeeps(g, next, n + 1)
    <3>1. ASSUME NEW i \in 1..n + 1, ~Ours(g.hooks[i])
          PROVE  i <= Len(next.remaining) /\ next.remaining[i] = g.hooks[i]
      <4>1. CASE i = n + 1
        BY <1>4, <1>5, <2>1, <4>1 DEF h
      <4>2. CASE i # n + 1
        <5>1. i \in 1..n
          BY <4>2
        <5>2. i <= Len(rem) /\ rem[i] = g.hooks[i]
          BY <2>0, <3>1, <5>1 DEF StepKeeps
        <5> QED BY <1>4, <1>5, <2>1, <5>1, <5>2
      <4> QED BY <4>1, <4>2
    <3>2. ASSUME NEW i \in 1..Len(next.remaining), ~Ours(next.remaining[i])
          PROVE  next.remaining[i] = g.hooks[i]
      <4>1. CASE i = n + 1
        BY <1>4, <1>5, <2>1, <4>1 DEF h
      <4>2. CASE i # n + 1
        <5>1. i \in 1..Len(rem)
          BY <1>4, <1>5, <2>1, <4>2
        <5>2. next.remaining[i] = rem[i]
          BY <1>4, <1>5, <5>1
        <5> QED BY <2>0, <3>2, <5>1, <5>2 DEF StepKeeps
      <4> QED BY <4>1, <4>2
    <3>3. Len(next.remaining) = n + 1
      BY <1>4, <1>5, <2>1
    <3> QED BY <3>1, <3>2, <3>3 DEF StepKeeps
  <2>5. StepPlaces(g, P, next)
    <3>1. ASSUME NEW i \in 1..Len(next.remaining), Ours(next.remaining[i])
          PROVE  i \in 1..Len(rem) /\ next.remaining[i] = rem[i]
      <4>1. i # Len(rem) + 1
        BY <1>4, <1>5, <2>3, <3>1
      <4>2. i \in 1..Len(rem)
        BY <1>1, <1>4, <1>5, <4>1
      <4> QED BY <1>4, <1>5, <4>2
    <3>2. ASSUME NEW i \in 1..Len(next.remaining), Ours(next.remaining[i])
          PROVE  \E e \in Entries(P) \ Entries(next.pending) : Placement(g, next, next.remaining[i], e)
      <4>1. i \in 1..Len(rem) /\ next.remaining[i] = rem[i]
        BY <3>1, <3>2
      <4>2. PICK e \in Entries(P) \ Entries(step.pending) : Placement(g, step, rem[i], e)
        BY <2>0, <3>2, <4>1 DEF StepPlaces
      <4>3. Placement(g, next, rem[i], e)
        BY <1>5, <4>2 DEF Placement
      <4> QED BY <1>5, <4>1, <4>3
    <3>3. ASSUME NEW e \in Entries(P) \ Entries(next.pending)
          PROVE  \E i \in 1..Len(next.remaining) : next.remaining[i] = Hook(e)
      <4>1. PICK i \in 1..Len(rem) : rem[i] = Hook(e)
        BY <1>5, <2>0 DEF StepPlaces
      <4>2. i \in 1..Len(next.remaining) /\ next.remaining[i] = rem[i]
        BY <1>1, <1>4, <1>5
      <4> QED BY <4>1, <4>2
    <3>4. ASSUME NEW i \in 1..Len(next.remaining), NEW j \in 1..Len(next.remaining),
                 Ours(next.remaining[i]), next.remaining[i] = next.remaining[j]
          PROVE  i = j
      <4>1. /\ i \in 1..Len(rem) /\ next.remaining[i] = rem[i]
            /\ j \in 1..Len(rem) /\ next.remaining[j] = rem[j]
        BY <3>1, <3>4
      <4> QED BY <2>0, <3>4, <4>1 DEF StepPlaces
    <3>5. Mixed(g) => next.shell = g
      BY <1>5, <2>0 DEF StepPlaces
    <3> QED BY <2>2, <3>2, <3>3, <3>4, <3>5 DEF StepPlaces
  <2> QED BY <2>4, <2>5
<1> QED BY <1>2, <1>5, <1>7, <1>8 DEF StepInv

LEMMA EntriesPending ==
  ASSUME NEW P, IsPending(P)
  PROVE  Entries(P) \subseteq Entries(Pending)
<1> SUFFICES ASSUME NEW e \in Entries(P) PROVE e \in Entries(Pending)
  OBVIOUS
<1>1. PICK i \in 1..Len(P) : e = P[i]
  BY DEF Entries
<1> QED BY <1>1 DEF IsPending

\* A handler of ours makes place for the one that is generated now.
LEMMA StepMatched ==
  ASSUME version \in 1..Upgrades + 1,
         NEW g \in GroupType, NEW P, NEW before, NEW n \in Nat, n + 1 <= Len(g.hooks),
         IsPending(P), NEW step, StepInv(g, P, before, step, n), Ours(g.hooks[n + 1]),
         Match(step.pending, g, g.hooks[n + 1], step.remaining) > 0
  PROVE  StepInv(g, P, before, Handled(g, step, n + 1), n + 1)
<1> DEFINE h == g.hooks[n + 1]
           rem == step.remaining
           m == Match(step.pending, g, h, rem)
           e == step.pending[m]
           next == [remaining |-> rem \o e.hooks, pending |-> RemoveAt(step.pending, m),
                    shell |-> IF Mixed(g) THEN step.shell ELSE e, refused |-> step.refused]
<1>1. step \in StepType /\ IsPending(step.pending) /\ rem \in Seq(Handler) /\ Len(rem) \in Nat
  BY LenProperties DEF StepInv, StepTyped, StepType
<1>2. Handled(g, step, n + 1) = next
  BY <1>1, HandledMatched, Zenon
<1>3. m \in 1..Len(step.pending) /\ Fits(e, g, h, rem)
  <2>1. m > 0
    OBVIOUS
  <2>2. \/ m = 0
        \/ m \in 1..Len(step.pending) /\ Fits(e, g, h, rem)
    BY <1>1, MatchIs
  <2> HIDE DEF m
  <2> QED BY <2>1, <2>2
<1> HIDE DEF m, h
<1>4. e \in Entries(step.pending) /\ e \in Entries(Pending) /\ e \in Entries(P)
  BY <1>1, <1>3 DEF Entries, IsPending, StepInv, StepTyped
<1>5. /\ e \in GroupType /\ e.hooks = <<Hook(e)>> /\ Len(e.hooks) = 1
      /\ Hook(e) \in Handler /\ Ours(Hook(e))
      /\ \A f \in Entries(Pending) : Hook(e).name = Hook(f).name => e = f
  BY <1>4, EntryIs
<1>6. /\ IsPending(RemoveAt(step.pending, m))
      /\ Entries(RemoveAt(step.pending, m)) = Entries(step.pending) \ {e}
  BY <1>1, <1>3, RemovedIs
<1> HIDE DEF e
<1>7. /\ rem \o e.hooks \in Seq(Handler) /\ Len(rem \o e.hooks) = Len(rem) + 1
      /\ \A i \in 1..Len(rem) : (rem \o e.hooks)[i] = rem[i]
      /\ (rem \o e.hooks)[Len(rem) + 1] = Hook(e)
  <2>1. e.hooks \in Seq(Handler) /\ e.hooks[1] = Hook(e)
    BY <1>5 DEF GroupType, Hook
  <2>2. /\ rem \o e.hooks \in Seq(Handler) /\ Len(rem \o e.hooks) = Len(rem) + 1
        /\ \A i \in 1..Len(rem) + 1 :
             (rem \o e.hooks)[i] = IF i <= Len(rem) THEN rem[i] ELSE e.hooks[i - Len(rem)]
    BY <1>1, <1>5, <2>1, ConcatProperties
  <2> DEFINE both == rem \o e.hooks
  <2> HIDE DEF both
  <2>3. /\ both \in Seq(Handler) /\ Len(both) = Len(rem) + 1
        /\ \A i \in 1..Len(rem) + 1 : both[i] = IF i <= Len(rem) THEN rem[i] ELSE e.hooks[i - Len(rem)]
    BY <2>2 DEF both
  <2>4. ASSUME NEW i \in 1..Len(rem) PROVE both[i] = rem[i]
    <3>1. i \in 1..Len(rem) + 1 /\ i <= Len(rem)
      BY <1>1
    <3> QED BY <2>3, <3>1
  <2>5. both[Len(rem) + 1] = e.hooks[1]
    <3>1. Len(rem) + 1 \in 1..Len(rem) + 1 /\ ~(Len(rem) + 1 <= Len(rem)) /\ Len(rem) + 1 - Len(rem) = 1
      BY <1>1
    <3> QED BY <2>3, <3>1
  <2> QED BY <2>1, <2>3, <2>4, <2>5 DEF both
<1>8. /\ next.remaining = rem \o e.hooks /\ next.pending = RemoveAt(step.pending, m)
      /\ next.shell = (IF Mixed(g) THEN step.shell ELSE e) /\ next.refused = step.refused
  OBVIOUS
<1>9. next \in StepType
  <2>1. step.shell \in GroupType /\ step.refused \in BOOLEAN
    BY <1>1 DEF StepType
  <2>2. (IF Mixed(g) THEN step.shell ELSE e) \in GroupType
    BY <1>5, <2>1
  <2>3. RemoveAt(step.pending, m) \in Seq(GroupType)
    BY <1>6 DEF IsPending
  <2> QED BY <1>7, <2>1, <2>2, <2>3 DEF StepType
<1> HIDE DEF next
<1>10. StepTyped(P, next, n + 1, before)
  <2>1. Len(rem) + 1 <= n + 1
    BY <1>1 DEF StepInv, StepTyped
  <2> QED BY <1>6, <1>7, <1>8, <1>9, <2>1 DEF StepInv, StepTyped
<1>11. /\ Len(next.remaining) = Len(rem) + 1
       /\ \A i \in 1..Len(rem) : next.remaining[i] = rem[i]
       /\ next.remaining[Len(rem) + 1] = Hook(e)
  BY <1>7, <1>8
<1>12. ASSUME ~step.refused PROVE StepKeeps(g, next, n + 1) /\ StepPlaces(g, P, next)
  <2>0. StepKeeps(g, step, n) /\ StepPlaces(g, P, step)
    BY <1>12 DEF StepInv
  <2>1. Len(rem) <= n /\ Len(g.hooks) \in Nat
    BY LenProperties DEF StepInv, StepTyped, GroupType
  <2>2. Ours(h)
    BY DEF h
  <2>3. ~Mixed(g) => rem = <<>> /\ Len(rem) = 0
    BY <1>3 DEF Fits
  <2>4. Entries(P) \ Entries(next.pending) = (Entries(P) \ Entries(step.pending)) \cup {e}
    BY <1>4, <1>6, <1>8
  <2>5. Placement(g, next, Hook(e), e)
    BY <1>3, <1>8 DEF Placement, Suits, Fits
  <2>6. StepKeeps(g, next, n + 1)
    <3>1. ASSUME NEW k \in n + 1 + 1..Len(g.hooks), ~Ours(g.hooks[k])
          PROVE  Len(next.remaining) = n + 1
      <4>1. k \in n + 1..Len(g.hooks)
        BY <2>1
      <4>2. Len(rem) = n
        BY <2>0, <3>1, <4>1 DEF StepKeeps
      <4> QED BY <1>11, <4>2
    <3>2. ASSUME NEW i \in 1..n + 1, ~Ours(g.hooks[i])
          PROVE  i <= Len(next.remaining) /\ next.remaining[i] = g.hooks[i]
      <4>1. i # n + 1
        BY <2>2, <3>2 DEF h
      <4>2. i \in 1..n
        BY <4>1
      <4>3. i <= Len(rem) /\ rem[i] = g.hooks[i]
        BY <2>0, <3>2, <4>2 DEF StepKeeps
      <4>4. i \in 1..Len(rem)
        BY <1>1, <4>2, <4>3
      <4> QED BY <1>1, <1>11, <4>3, <4>4
    <3>3. ASSUME NEW i \in 1..Len(next.remaining), ~Ours(next.remaining[i])
          PROVE  next.remaining[i] = g.hooks[i]
      <4>1. i # Len(rem) + 1
        BY <1>5, <1>11, <3>3
      <4>2. i \in 1..Len(rem)
        BY <1>1, <1>11, <4>1
      <4>3. next.remaining[i] = rem[i]
        BY <1>11, <4>2
      <4> QED BY <2>0, <3>3, <4>2, <4>3 DEF StepKeeps
    <3> QED BY <3>1, <3>2, <3>3 DEF StepKeeps
  <2>7. StepPlaces(g, P, next)
    <3>1. ASSUME NEW i \in 1..Len(next.remaining)
          PROVE  \/ i \in 1..Len(rem) /\ next.remaining[i] = rem[i]
                 \/ i = Len(rem) + 1 /\ next.remaining[i] = Hook(e)
      <4>1. CASE i = Len(rem) + 1
        BY <1>11, <4>1
      <4>2. CASE i # Len(rem) + 1
        <5>1. i \in 1..Len(rem)
          BY <1>1, <1>11, <4>2
        <5> QED BY <1>11, <5>1
      <4> QED BY <4>1, <4>2
    <3>2. ASSUME NEW i \in 1..Len(rem), Ours(rem[i]) PROVE Mixed(g) /\ rem[i] # Hook(e)
      <4>1. Mixed(g)
        BY <1>1, <2>3
      <4>2. PICK f \in Entries(P) \ Entries(step.pending) : rem[i] = Hook(f)
        BY <2>0, <3>2 DEF StepPlaces, Placement
      <4>3. f \in Entries(Pending) /\ f # e
        BY <1>4, <4>2, EntriesPending
      <4> QED BY <1>5, <4>1, <4>2, <4>3
    <3>3. ASSUME NEW i \in 1..Len(next.remaining), Ours(next.remaining[i])
          PROVE  \E f \in Entries(P) \ Entries(next.pending) : Placement(g, next, next.remaining[i], f)
      <4>1. CASE i \in 1..Len(rem) /\ next.remaining[i] = rem[i]
        <5>1. PICK f \in Entries(P) \ Entries(step.pending) : Placement(g, step, rem[i], f)
          BY <2>0, <3>3, <4>1 DEF StepPlaces
        <5>2. Mixed(g)
          BY <3>2, <3>3, <4>1
        <5>3. Placement(g, next, rem[i], f)
          BY <5>1, <5>2 DEF Placement
        <5> QED BY <2>4, <4>1, <5>3
      <4>2. CASE next.remaining[i] = Hook(e)
        BY <2>4, <2>5, <4>2
      <4> QED BY <3>1, <4>1, <4>2
    <3>4. ASSUME NEW f \in Entries(P) \ Entries(next.pending)
          PROVE  \E i \in 1..Len(next.remaining) : next.remaining[i] = Hook(f)
      <4>1. CASE f = e
        <5>1. Len(rem) + 1 \in 1..Len(next.remaining)
          BY <1>1, <1>11
        <5> QED BY <1>11, <4>1, <5>1
      <4>2. CASE f \in Entries(P) \ Entries(step.pending)
        <5>1. PICK i \in 1..Len(rem) : rem[i] = Hook(f)
          BY <2>0, <4>2 DEF StepPlaces
        <5>2. i \in 1..Len(next.remaining) /\ next.remaining[i] = rem[i]
          BY <1>1, <1>11
        <5> QED BY <5>1, <5>2
      <4> QED BY <2>4, <4>1, <4>2
    <3>5. ASSUME NEW i \in 1..Len(next.remaining), NEW j \in 1..Len(next.remaining),
                 Ours(next.remaining[i]), next.remaining[i] = next.remaining[j]
          PROVE  i = j
      <4>1. CASE i \in 1..Len(rem) /\ next.remaining[i] = rem[i]
        <5>1. j \in 1..Len(rem) /\ next.remaining[j] = rem[j]
          BY <3>1, <3>2, <3>5, <4>1
        <5> QED BY <2>0, <3>5, <4>1, <5>1 DEF StepPlaces
      <4>2. CASE i = Len(rem) + 1 /\ next.remaining[i] = Hook(e)
        <5>1. j = Len(rem) + 1
          BY <3>1, <3>2, <3>5, <4>2
        <5> QED BY <4>2, <5>1
      <4> QED BY <3>1, <4>1, <4>2
    <3>6. Mixed(g) => next.shell = g
      BY <1>8, <2>0 DEF StepPlaces
    <3>7. ~Mixed(g) => Len(next.remaining) <= 1 /\ (next.remaining = <<>> => next.shell = g)
      <4>1. Len(next.remaining) = Len(rem) + 1 /\ next.remaining # <<>>
        BY <1>1, <1>11
      <4> QED BY <2>3, <4>1
    <3> QED BY <3>3, <3>4, <3>5, <3>6, <3>7 DEF StepPlaces
  <2> QED BY <2>6, <2>7
<1> QED BY <1>2, <1>8, <1>10, <1>12 DEF StepInv

\* A handler of ours for which there is none any more goes, if no other one
\* of the group would move for it.
LEMMA StepDropped ==
  ASSUME NEW g \in GroupType, NEW P, NEW before, NEW n \in Nat, n + 1 <= Len(g.hooks),
         NEW step, StepInv(g, P, before, step, n), Ours(g.hooks[n + 1]),
         ~(Match(step.pending, g, g.hooks[n + 1], step.remaining) > 0)
  PROVE  StepInv(g, P, before, Handled(g, step, n + 1), n + 1)
<1> DEFINE h == g.hooks[n + 1]
           rem == step.remaining
           later == \E k \in n + 1 + 1..Len(g.hooks) : ~Ours(g.hooks[k])
           next == [remaining |-> rem, pending |-> step.pending,
                    shell |-> step.shell, refused |-> step.refused \/ later]
<1>1. step \in StepType /\ Len(rem) \in Nat
  BY LenProperties DEF StepInv, StepTyped, StepType
<1>2. Handled(g, step, n + 1) = next
  BY <1>1, HandledDropped, Zenon
<1>3. Ours(h)
  OBVIOUS
<1> HIDE DEF h, later
<1>4. /\ next.remaining = rem /\ next.pending = step.pending
      /\ next.shell = step.shell /\ next.refused = (step.refused \/ later)
  OBVIOUS
<1>5. next \in StepType
  <2>1. (step.refused \/ later) \in BOOLEAN
    OBVIOUS
  <2> DEFINE r == step.refused \/ later
  <2> HIDE DEF r
  <2>2. [remaining |-> rem, pending |-> step.pending, shell |-> step.shell, refused |-> r] \in StepType
    BY <1>1, <2>1 DEF StepType, r
  <2> QED BY <2>2 DEF r
<1> HIDE DEF next
<1>6. StepTyped(P, next, n + 1, before)
  <2>1. Len(rem) <= n + 1
    BY <1>1 DEF StepInv, StepTyped
  <2>2. before => step.refused
    BY DEF StepInv, StepTyped
  <2>3. before => next.refused
    BY <1>4, <2>2, Zenon
  <2> QED BY <1>4, <1>5, <2>1, <2>3 DEF StepInv, StepTyped
<1>7. ASSUME ~next.refused PROVE StepKeeps(g, next, n + 1) /\ StepPlaces(g, P, next)
  <2>0. ~step.refused /\ ~later
    BY <1>4, <1>7, Zenon
  <2>1. StepKeeps(g, step, n) /\ StepPlaces(g, P, step)
    BY <2>0 DEF StepInv
  <2>2. StepPlaces(g, P, next)
    BY <1>4, <2>1 DEF StepPlaces, Placement
  <2>3. ASSUME NEW i \in 1..n + 1, ~Ours(g.hooks[i])
        PROVE  i <= Len(next.remaining) /\ next.remaining[i] = g.hooks[i]
    <3>1. i \in 1..n
      BY <1>3, <2>3 DEF h
    <3> QED BY <1>4, <2>1, <2>3, <3>1 DEF StepKeeps
  <2>4. ~\E k \in n + 1 + 1..Len(g.hooks) : ~Ours(g.hooks[k])
    BY <2>0 DEF later
  <2> QED BY <1>4, <2>1, <2>2, <2>3, <2>4 DEF StepKeeps
<1> QED BY <1>2, <1>6, <1>7 DEF StepInv

\* After the last handler.
LEMMA StepsEnd ==
  ASSUME version \in 1..Upgrades + 1, NEW g \in GroupType, NEW P, IsPending(P),
         NEW before \in BOOLEAN
  PROVE  LET begin == [remaining |-> <<>>, pending |-> P, shell |-> g, refused |-> before]
         IN StepInv(g, P, before, Steps(g, begin)[Len(g.hooks)], Len(g.hooks))
<1> DEFINE begin == [remaining |-> <<>>, pending |-> P, shell |-> g, refused |-> before]
           steps == Steps(g, begin)
           L == Len(g.hooks)
           S == {n \in Nat : n <= L => StepInv(g, P, before, steps[n], n)}
<1>1. L \in Nat
  BY LenProperties DEF GroupType
<1>2. steps[0] = begin /\ \A i \in 1..L : steps[i] = Handled(g, steps[i - 1], i)
  BY <1>1, StepsUnfold
<1> HIDE DEF steps
<1>3. 0 \in S
  <2>1. /\ begin.remaining = <<>> /\ begin.pending = P /\ begin.shell = g /\ begin.refused = before
        /\ Len(begin.remaining) = 0 /\ begin.remaining \in Seq(Handler)
    OBVIOUS
  <2>2. begin \in StepType
    BY <2>1 DEF StepType, IsPending
  <2> HIDE DEF begin
  <2>3. StepTyped(P, begin, 0, before)
    BY <2>1, <2>2 DEF StepTyped
  <2>4. StepKeeps(g, begin, 0)
    BY <2>1 DEF StepKeeps
  <2>5. StepPlaces(g, P, begin)
    BY <2>1 DEF StepPlaces
  <2> QED BY <1>2, <2>3, <2>4, <2>5 DEF StepInv
<1>4. ASSUME NEW n \in Nat, n \in S PROVE n + 1 \in S
  <2> SUFFICES ASSUME n + 1 <= L PROVE StepInv(g, P, before, steps[n + 1], n + 1)
    OBVIOUS
  <2>1. StepInv(g, P, before, steps[n], n)
    BY <1>1, <1>4
  <2>2. steps[n + 1] = Handled(g, steps[n], n + 1)
    <3>1. n + 1 \in 1..L /\ n + 1 - 1 = n
      BY <1>1
    <3> QED BY <1>2, <3>1
  <2> DEFINE step == steps[n]
  <2>3. StepInv(g, P, before, Handled(g, step, n + 1), n + 1)
    <3> HIDE DEF step
    <3>0. StepInv(g, P, before, step, n)
      BY <2>1 DEF step
    <3>1. CASE ~Ours(g.hooks[n + 1])
      BY <3>0, <3>1, StepOther
    <3>2. CASE Ours(g.hooks[n + 1]) /\ Match(step.pending, g, g.hooks[n + 1], step.remaining) > 0
      BY <3>0, <3>2, StepMatched
    <3>3. CASE Ours(g.hooks[n + 1]) /\ ~(Match(step.pending, g, g.hooks[n + 1], step.remaining) > 0)
      BY <3>0, <3>3, StepDropped
    <3> QED BY <3>1, <3>2, <3>3
  <2> QED BY <2>2, <2>3
<1>5. Nat \subseteq S
  <2> HIDE DEF S
  <2> QED BY <1>3, <1>4, NatInductionOverSet
<1>6. StepInv(g, P, before, steps[L], L)
  BY <1>1, <1>5
<1> QED BY <1>6 DEF steps

\* Others keep their places and their matcher, and nobody else has theirs.
KeptIn(g, group) ==
  /\ \A i \in 1..Len(g.hooks) : ~Ours(g.hooks[i]) =>
       i <= Len(group.hooks) /\ group.hooks[i] = g.hooks[i] /\ group.matcher = g.matcher
  /\ \A i \in 1..Len(group.hooks) : ~Ours(group.hooks[i]) =>
       i <= Len(g.hooks) /\ ~Ours(g.hooks[i])

\* A generated group stands in a group: as its handler, or in its place.
Stands(group, e) ==
  e.matcher = group.matcher /\ ~group.extra /\ (~Mixed(group) => group = e)

\* What is ours in a group is of these generated groups, and each of them is there once.
HasExactly(group, E) ==
  /\ \A i \in 1..Len(group.hooks) : Ours(group.hooks[i]) =>
       \E e \in E : group.hooks[i] = Hook(e) /\ Stands(group, e)
  /\ \A e \in E : \E i \in 1..Len(group.hooks) : group.hooks[i] = Hook(e)
  /\ \A i, j \in 1..Len(group.hooks) :
       Ours(group.hooks[i]) /\ group.hooks[i] = group.hooks[j] => i = j

LEMMA MixedIs ==
  ASSUME NEW g \in GroupType
  PROVE  /\ Mixed(g) <=> \E i \in 1..Len(g.hooks) : ~Ours(g.hooks[i])
         /\ Len(g.hooks) \in Nat
<1>1. DOMAIN g.hooks = 1..Len(g.hooks) /\ Len(g.hooks) \in Nat
  BY LenProperties DEF GroupType
<1> QED BY <1>1 DEF Mixed

\* What is left of a group after its last handler.
LEMMA GroupLeft ==
  ASSUME version \in 1..Upgrades + 1, NEW g \in GroupType, NEW P, IsPending(P), NEW before,
         NEW step, StepInv(g, P, before, step, Len(g.hooks)),
         NEW group, group = [step.shell EXCEPT !.hooks = step.remaining]
  PROVE  /\ group \in GroupType /\ Len(group.hooks) <= Len(g.hooks)
         /\ ~step.refused =>
              KeptIn(g, group) /\ HasExactly(group, Entries(P) \ Entries(step.pending))
<1> DEFINE rem == step.remaining
           L == Len(g.hooks)
<1>1. /\ step \in StepType /\ rem \in Seq(Handler) /\ Len(rem) \in Nat /\ L \in Nat
      /\ Len(rem) <= L /\ step.shell \in GroupType
  BY LenProperties, MixedIs DEF StepInv, StepTyped, StepType
<1>2. /\ group \in GroupType /\ group.hooks = rem
      /\ group.matcher = step.shell.matcher /\ group.extra = step.shell.extra
      /\ group = [matcher |-> step.shell.matcher, extra |-> step.shell.extra, hooks |-> rem]
  BY <1>1 DEF GroupType
<1>3. ASSUME ~step.refused
      PROVE  KeptIn(g, group) /\ HasExactly(group, Entries(P) \ Entries(step.pending))
  <2>0. StepKeeps(g, step, L) /\ StepPlaces(g, P, step)
    BY <1>3 DEF StepInv
  <2>1. Mixed(g) => group.matcher = g.matcher /\ group.extra = g.extra
    BY <1>2, <2>0 DEF StepPlaces
  <2>2. KeptIn(g, group)
    <3>1. ASSUME NEW i \in 1..L, ~Ours(g.hooks[i])
          PROVE  i <= Len(group.hooks) /\ group.hooks[i] = g.hooks[i] /\ group.matcher = g.matcher
      <4>1. Mixed(g)
        BY <3>1, MixedIs
      <4>2. i <= Len(rem) /\ rem[i] = g.hooks[i]
        BY <2>0, <3>1 DEF StepKeeps
      <4> QED BY <1>2, <2>1, <4>1, <4>2
    <3>2. ASSUME NEW i \in 1..Len(group.hooks), ~Ours(group.hooks[i])
          PROVE  i <= Len(g.hooks) /\ ~Ours(g.hooks[i])
      <4>1. i \in 1..Len(rem) /\ group.hooks[i] = rem[i]
        BY <1>2
      <4>2. rem[i] = g.hooks[i]
        BY <2>0, <3>2, <4>1 DEF StepKeeps
      <4> QED BY <1>1, <3>2, <4>1, <4>2
    <3> QED BY <3>1, <3>2 DEF KeptIn
  <2>3. Mixed(g) => Mixed(group)
    <3> SUFFICES ASSUME Mixed(g) PROVE Mixed(group)
      OBVIOUS
    <3>1. PICK i \in 1..L : ~Ours(g.hooks[i])
      BY MixedIs
    <3>2. i <= Len(group.hooks) /\ group.hooks[i] = g.hooks[i]
      BY <2>2, <3>1 DEF KeptIn
    <3>3. i \in 1..Len(group.hooks)
      BY <1>1, <1>2, <3>2
    <3> QED BY <1>2, <3>1, <3>2, <3>3, MixedIs
  <2>4. ASSUME NEW i \in 1..Len(group.hooks), Ours(group.hooks[i])
        PROVE  \E e \in Entries(P) \ Entries(step.pending) : group.hooks[i] = Hook(e) /\ Stands(group, e)
    <3>1. i \in 1..Len(rem) /\ group.hooks[i] = rem[i]
      BY <1>2
    <3>2. PICK e \in Entries(P) \ Entries(step.pending) : Placement(g, step, rem[i], e)
      BY <2>0, <2>4, <3>1 DEF StepPlaces
    <3>3. e \in GroupType /\ e.extra = FALSE /\ e.hooks = <<Hook(e)>>
      BY <3>2, EntriesPending, EntryIs
    <3>4. CASE Mixed(g)
      BY <2>1, <2>3, <3>1, <3>2, <3>4 DEF Placement, Suits, Stands
    <3>5. CASE ~Mixed(g)
      <4>1. step.shell = e /\ rem[i] = Hook(e)
        BY <3>2, <3>5 DEF Placement
      <4>2. Len(rem) = 1 /\ i = 1
        <5>1. Len(rem) <= 1
          BY <2>0, <3>5 DEF StepPlaces
        <5>2. Len(rem) \in Nat /\ i \in 1..Len(rem)
          BY <1>1, <3>1
        <5> DEFINE l == Len(rem)
        <5>3. l <= 1 /\ l \in Nat /\ i \in 1..l
          BY <5>1, <5>2
        <5> HIDE DEF l
        <5>4. l = 1 /\ i = 1
          BY <5>3
        <5> QED BY <5>4 DEF l
      <4>3. rem = <<Hook(e)>>
        BY <1>1, <4>1, <4>2
      <4>4. group = e
        BY <1>2, <3>3, <4>1, <4>3 DEF GroupType
      <4> QED BY <3>1, <3>3, <4>1, <4>4 DEF Stands
    <3> QED BY <3>4, <3>5
  <2>5. HasExactly(group, Entries(P) \ Entries(step.pending))
    BY <1>2, <2>0, <2>4 DEF HasExactly, StepPlaces
  <2> QED BY <2>2, <2>5
<1> QED BY <1>1, <1>2, <1>3

\* The merge of one group.
LEMMA GroupDone ==
  ASSUME version \in 1..Upgrades + 1, NEW g \in GroupType,
         NEW sofar \in PassType, IsPending(sofar.pending)
  PROVE  LET after == MergedGroup(sofar, g)
             n == Len(sofar.retained) + 1
         IN /\ after \in PassType /\ IsPending(after.pending)
            /\ Entries(after.pending) \subseteq Entries(sofar.pending)
            /\ sofar.refused => after.refused
            /\ Len(after.retained) = n
            /\ \A k \in 1..Len(sofar.retained) : after.retained[k] = sofar.retained[k]
            /\ Len(after.retained[n].hooks) <= Len(g.hooks)
            /\ ~after.refused =>
                 /\ KeptIn(g, after.retained[n])
                 /\ HasExactly(after.retained[n], Entries(sofar.pending) \ Entries(after.pending))
<1> DEFINE begin == [remaining |-> <<>>, pending |-> sofar.pending, shell |-> g,
                     refused |-> sofar.refused]
           step == Steps(g, begin)[Len(g.hooks)]
           group == [step.shell EXCEPT !.hooks = step.remaining]
           after == [retained |-> Append(sofar.retained, group),
                     pending |-> step.pending, refused |-> step.refused]
<1>1. sofar.refused \in BOOLEAN /\ sofar.retained \in Seq(GroupType) /\ Len(sofar.retained) \in Nat
  BY LenProperties DEF PassType
<1>2. StepInv(g, sofar.pending, sofar.refused, step, Len(g.hooks))
  BY <1>1, StepsEnd
<1>3. MergedGroup(sofar, g) = after
  BY DEF MergedGroup
<1> HIDE DEF step
<1>4. /\ group \in GroupType /\ Len(group.hooks) <= Len(g.hooks)
      /\ ~step.refused =>
           KeptIn(g, group) /\ HasExactly(group, Entries(sofar.pending) \ Entries(step.pending))
  BY <1>2, GroupLeft
<1>5. step \in StepType /\ IsPending(step.pending)
      /\ Entries(step.pending) \subseteq Entries(sofar.pending) /\ (sofar.refused => step.refused)
  BY <1>2 DEF StepInv, StepTyped
<1> HIDE DEF group
<1>6. /\ Append(sofar.retained, group) \in Seq(GroupType)
      /\ Len(Append(sofar.retained, group)) = Len(sofar.retained) + 1
      /\ \A i \in 1..Len(sofar.retained) : Append(sofar.retained, group)[i] = sofar.retained[i]
      /\ Append(sofar.retained, group)[Len(sofar.retained) + 1] = group
  BY <1>1, <1>4, AppendProperties
<1>7. /\ after.retained = Append(sofar.retained, group) /\ after.pending = step.pending
      /\ after.refused = step.refused
  OBVIOUS
<1>8. after \in PassType
  BY <1>5, <1>6 DEF PassType, StepType
<1> HIDE DEF after
<1> QED BY <1>3, <1>4, <1>5, <1>6, <1>7, <1>8

\* What is ours in the groups of an event is of these generated groups, and
\* each of them is there once.
Covered(gs, E) ==
  \A k \in 1..Len(gs) : \A i \in 1..Len(gs[k].hooks) : Ours(gs[k].hooks[i]) =>
    \E e \in E : gs[k].hooks[i] = Hook(e) /\ Stands(gs[k], e)

Once(gs) ==
  \A k, l \in 1..Len(gs) : \A i \in 1..Len(gs[k].hooks) : \A j \in 1..Len(gs[l].hooks) :
    Ours(gs[k].hooks[i]) /\ gs[k].hooks[i] = gs[l].hooks[j] => k = l /\ i = j

Everywhere(gs, E) ==
  /\ Covered(gs, E) /\ Once(gs)
  /\ \A e \in E : \E k \in 1..Len(gs) : \E i \in 1..Len(gs[k].hooks) : gs[k].hooks[i] = Hook(e)

LEMMA OnceIs ==
  ASSUME NEW gs, Once(gs), NEW k \in 1..Len(gs), NEW l \in 1..Len(gs),
         NEW i \in 1..Len(gs[k].hooks), NEW j \in 1..Len(gs[l].hooks),
         Ours(gs[k].hooks[i]), gs[k].hooks[i] = gs[l].hooks[j]
  PROVE  k = l /\ i = j
BY DEF Once

\* A sequence is one after another.
Joined(r, s, t) ==
  /\ Len(s) \in Nat /\ Len(t) \in Nat /\ Len(r) = Len(s) + Len(t)
  /\ \A k \in 1..Len(s) : r[k] = s[k]
  /\ \A k \in 1..Len(t) : r[Len(s) + k] = t[k]

LEMMA EverywhereJoins ==
  ASSUME version \in 1..Upgrades + 1,
         NEW E, NEW F, E \cup F \subseteq Entries(Pending), E \cap F = {},
         NEW s, NEW t, NEW r, Joined(r, s, t), Everywhere(s, E), Everywhere(t, F)
  PROVE  Everywhere(r, E \cup F)
<1>1. ASSUME NEW k \in 1..Len(r)
      PROVE  \/ k \in 1..Len(s) /\ r[k] = s[k]
             \/ \E l \in 1..Len(t) : k = Len(s) + l /\ r[k] = t[l]
  <2>1. CASE k <= Len(s)
    BY <2>1 DEF Joined
  <2>2. CASE ~(k <= Len(s))
    <3>1. k - Len(s) \in 1..Len(t) /\ k = Len(s) + (k - Len(s))
      BY <2>2 DEF Joined
    <3>2. r[Len(s) + (k - Len(s))] = t[k - Len(s)]
      BY <3>1 DEF Joined
    <3> QED BY <3>1, <3>2
  <2> QED BY <2>1, <2>2
<1>2. ASSUME NEW k \in 1..Len(s) PROVE k \in 1..Len(r) /\ r[k] = s[k]
  BY DEF Joined
<1>3. ASSUME NEW k \in 1..Len(t) PROVE Len(s) + k \in 1..Len(r) /\ r[Len(s) + k] = t[k]
  BY DEF Joined
\* Two handlers of ours that are the same are of the same group.
<1>4. ASSUME NEW k \in 1..Len(s), NEW l \in 1..Len(t),
             NEW i \in 1..Len(s[k].hooks), NEW j \in 1..Len(t[l].hooks), Ours(s[k].hooks[i])
      PROVE  s[k].hooks[i] # t[l].hooks[j]
  <2> SUFFICES ASSUME s[k].hooks[i] = t[l].hooks[j] PROVE FALSE
    OBVIOUS
  <2>0. Covered(s, E) /\ Covered(t, F)
    BY DEF Everywhere
  <2>1. PICK e \in E : s[k].hooks[i] = Hook(e)
    BY <1>4, <2>0 DEF Covered
  <2>2. Ours(t[l].hooks[j])
    BY <1>4
  <2>3. PICK f \in F : t[l].hooks[j] = Hook(f)
    BY <2>0, <2>2 DEF Covered
  <2>4. e \in Entries(Pending) /\ f \in Entries(Pending) /\ Hook(e).name = Hook(f).name
    BY <2>1, <2>3
  <2>5. e = f
    BY <2>4, EntryIs
  <2> QED BY <2>5
<1>5. ASSUME NEW k \in 1..Len(r), NEW i \in 1..Len(r[k].hooks), Ours(r[k].hooks[i])
      PROVE  \E e \in E \cup F : r[k].hooks[i] = Hook(e) /\ Stands(r[k], e)
  <2>1. CASE k \in 1..Len(s) /\ r[k] = s[k]
    <3>1. \E e \in E : s[k].hooks[i] = Hook(e) /\ Stands(s[k], e)
      BY <1>5, <2>1 DEF Everywhere, Covered
    <3> QED BY <2>1, <3>1
  <2>2. ASSUME NEW l \in 1..Len(t), r[k] = t[l]
        PROVE  \E e \in E \cup F : r[k].hooks[i] = Hook(e) /\ Stands(r[k], e)
    <3>1. \E e \in F : t[l].hooks[i] = Hook(e) /\ Stands(t[l], e)
      BY <1>5, <2>2 DEF Everywhere, Covered
    <3> QED BY <2>2, <3>1
  <2> QED BY <1>1, <2>1, <2>2
<1>6. ASSUME NEW e \in E \cup F
      PROVE  \E k \in 1..Len(r) : \E i \in 1..Len(r[k].hooks) : r[k].hooks[i] = Hook(e)
  <2>1. CASE e \in E
    <3>1. PICK k \in 1..Len(s) : \E i \in 1..Len(s[k].hooks) : s[k].hooks[i] = Hook(e)
      BY <2>1 DEF Everywhere
    <3>2. k \in 1..Len(r) /\ r[k] = s[k]
      BY <1>2
    <3> QED BY <3>1, <3>2
  <2>2. CASE e \in F
    <3>1. PICK k \in 1..Len(t) : \E i \in 1..Len(t[k].hooks) : t[k].hooks[i] = Hook(e)
      BY <2>2 DEF Everywhere
    <3>2. Len(s) + k \in 1..Len(r) /\ r[Len(s) + k] = t[k]
      BY <1>3
    <3> DEFINE m == Len(s) + k
    <3> HIDE DEF m
    <3>3. m \in 1..Len(r) /\ r[m] = t[k]
      BY <3>2 DEF m
    <3> QED BY <3>1, <3>3
  <2> QED BY <2>1, <2>2
<1>7. ASSUME NEW k \in 1..Len(r), NEW l \in 1..Len(r),
             NEW i \in 1..Len(r[k].hooks), NEW j \in 1..Len(r[l].hooks),
             Ours(r[k].hooks[i]), r[k].hooks[i] = r[l].hooks[j]
      PROVE  k = l /\ i = j
  <2>0. Ours(r[l].hooks[j])
    BY <1>7
  <2>1. CASE k \in 1..Len(s) /\ r[k] = s[k] /\ l \in 1..Len(s) /\ r[l] = s[l]
    <3>1. i \in 1..Len(s[k].hooks) /\ j \in 1..Len(s[l].hooks) /\ Ours(s[k].hooks[i])
          /\ s[k].hooks[i] = s[l].hooks[j]
      BY <1>7, <2>1
    <3>2. Once(s)
      BY DEF Everywhere
    <3> QED BY <2>1, <3>1, <3>2 DEF Once
  <2>2. ASSUME k \in 1..Len(s), r[k] = s[k], NEW m \in 1..Len(t), r[l] = t[m] PROVE FALSE
    <3>1. i \in 1..Len(s[k].hooks) /\ j \in 1..Len(t[m].hooks) /\ Ours(s[k].hooks[i])
          /\ s[k].hooks[i] = t[m].hooks[j]
      BY <1>7, <2>2
    <3> QED BY <1>4, <2>2, <3>1
  <2>3. ASSUME l \in 1..Len(s), r[l] = s[l], NEW m \in 1..Len(t), r[k] = t[m] PROVE FALSE
    <3>1. j \in 1..Len(s[l].hooks) /\ i \in 1..Len(t[m].hooks) /\ Ours(s[l].hooks[j])
          /\ s[l].hooks[j] = t[m].hooks[i]
      BY <1>7, <2>0, <2>3
    <3> QED BY <1>4, <2>3, <3>1
  <2>4. ASSUME NEW m \in 1..Len(t), k = Len(s) + m, r[k] = t[m],
               NEW q \in 1..Len(t), l = Len(s) + q, r[l] = t[q]
        PROVE  k = l /\ i = j
    <3>1. i \in 1..Len(t[m].hooks) /\ j \in 1..Len(t[q].hooks) /\ Ours(t[m].hooks[i])
          /\ t[m].hooks[i] = t[q].hooks[j]
      BY <1>7, <2>4
    <3>2. m = q /\ i = j
      <4>1. Once(t)
        BY DEF Everywhere
      <4>2. m \in 1..Len(t) /\ q \in 1..Len(t)
        OBVIOUS
      <4> QED BY <3>1, <4>1, <4>2, OnceIs
    <3> QED BY <2>4, <3>2
  <2>5. CASE k \in 1..Len(s) /\ r[k] = s[k]
    BY <1>1, <2>1, <2>2, <2>5
  <2>6. ASSUME NEW m \in 1..Len(t), k = Len(s) + m, r[k] = t[m] PROVE k = l /\ i = j
    BY <1>1, <2>3, <2>4, <2>6
  <2> QED BY <1>1, <2>5, <2>6
<1>8. Covered(r, E \cup F)
  BY <1>5 DEF Covered
<1>9. Once(r)
  BY <1>7 DEF Once
<1> QED BY <1>6, <1>8, <1>9 DEF Everywhere

LEMMA EverywhereOne ==
  ASSUME NEW group, NEW E, HasExactly(group, E)
  PROVE  Everywhere(<<group>>, E)
<1> DEFINE s == <<group>>
<1>1. Len(s) = 1 /\ s[1] = group /\ \A k \in 1..Len(s) : k = 1
  OBVIOUS
<1> HIDE DEF s
<1>2. 1 \in 1..Len(s)
  BY <1>1
<1>3. Covered(s, E)
  BY <1>1, <1>2 DEF Covered, HasExactly
<1>4. Once(s)
  BY <1>1, <1>2 DEF Once, HasExactly
<1>5. \A e \in E : \E k \in 1..Len(s) : \E i \in 1..Len(s[k].hooks) : s[k].hooks[i] = Hook(e)
  BY <1>1, <1>2 DEF HasExactly
<1> QED BY <1>3, <1>4, <1>5 DEF Everywhere, s

LEMMA EverywherePending ==
  ASSUME version \in 1..Upgrades + 1, NEW P, IsPending(P)
  PROVE  Everywhere(P, Entries(P))
<1>1. ASSUME NEW k \in 1..Len(P)
      PROVE  /\ P[k] \in Entries(P) /\ Len(P[k].hooks) = 1 /\ P[k].hooks[1] = Hook(P[k])
             /\ Stands(P[k], P[k])
             /\ \A i \in 1..Len(P[k].hooks) : i = 1 /\ P[k].hooks[i] = Hook(P[k])
  <2> DEFINE e == P[k]
  <2>1. e \in Entries(P) /\ e \in Entries(Pending)
    BY DEF Entries, IsPending
  <2> HIDE DEF e
  <2>2. e.extra = FALSE /\ Len(e.hooks) = 1
    BY <2>1, EntryIs
  <2>3. Stands(e, e)
    BY <2>2 DEF Stands
  <2>4. e.hooks[1] = Hook(e)
    BY DEF Hook
  <2>5. \A i \in 1..Len(e.hooks) : i = 1
    BY <2>2
  <2> QED BY <2>1, <2>2, <2>3, <2>4, <2>5 DEF e
<1>2. ASSUME NEW e \in Entries(P)
      PROVE  \E k \in 1..Len(P) : \E i \in 1..Len(P[k].hooks) : P[k].hooks[i] = Hook(e)
  <2>1. PICK k \in 1..Len(P) : e = P[k]
    BY DEF Entries
  <2>2. 1 \in 1..Len(P[k].hooks) /\ P[k].hooks[1] = Hook(e)
    BY <1>1, <2>1
  <2> QED BY <2>2
<1>3. ASSUME NEW k \in 1..Len(P), NEW l \in 1..Len(P),
             NEW i \in 1..Len(P[k].hooks), NEW j \in 1..Len(P[l].hooks),
             P[k].hooks[i] = P[l].hooks[j]
      PROVE  k = l /\ i = j
  <2>1. i = 1 /\ j = 1 /\ Hook(P[k]) = Hook(P[l])
    BY <1>1, <1>3
  <2>2. P[k] \in Entries(Pending) /\ P[l] \in Entries(Pending)
    BY DEF IsPending
  <2>3. P[k] = P[l]
    BY <2>1, <2>2, EntryIs
  <2> QED BY <2>1, <2>3 DEF IsPending
<1>4. ASSUME NEW k \in 1..Len(P), NEW i \in 1..Len(P[k].hooks)
      PROVE  \E e \in Entries(P) : P[k].hooks[i] = Hook(e) /\ Stands(P[k], e)
  BY <1>1
<1>5. Covered(P, Entries(P))
  BY <1>4 DEF Covered
<1>6. Once(P)
  BY <1>3 DEF Once
<1> QED BY <1>2, <1>5, <1>6 DEF Everywhere

\* After n groups.
PassInv(gs, pass, n) ==
  /\ pass \in PassType /\ IsPending(pass.pending) /\ Len(pass.retained) = n
  /\ \A k \in 1..n : Len(pass.retained[k].hooks) <= Len(gs[k].hooks)
  /\ ~pass.refused =>
       /\ \A k \in 1..n : KeptIn(gs[k], pass.retained[k])
       /\ Everywhere(pass.retained, Entries(Pending) \ Entries(pass.pending))

LEMMA PassesEnd ==
  ASSUME version \in 1..Upgrades + 1, NEW gs \in Seq(GroupType)
  PROVE  PassInv(gs, Passes(gs)[Len(gs)], Len(gs)) /\ Len(gs) \in Nat
<1> DEFINE passes == Passes(gs)
           L == Len(gs)
           S == {n \in Nat : n <= L => PassInv(gs, passes[n], n)}
           begin == [retained |-> <<>>, pending |-> Pending, refused |-> FALSE]
<1>1. L \in Nat
  BY LenProperties
<1>2. passes[0] = begin /\ \A i \in 1..L : passes[i] = MergedGroup(passes[i - 1], gs[i])
  BY <1>1, PassesUnfold
<1> HIDE DEF passes
<1>3. 0 \in S
  <2>1. begin.retained = <<>> /\ begin.pending = Pending /\ begin.refused = FALSE
    OBVIOUS
  <2>2. IsPending(Pending) /\ Pending \in Seq(GroupType)
    BY PendingWhole, PendingTyped
  <2>3. begin \in PassType
    BY <2>2 DEF PassType
  <2> HIDE DEF begin
  <2>4. Everywhere(begin.retained, Entries(Pending) \ Entries(begin.pending))
    BY <2>1 DEF Everywhere, Covered, Once
  <2>5. PassInv(gs, begin, 0)
    BY <2>1, <2>2, <2>3, <2>4 DEF PassInv
  <2> QED BY <1>2, <2>5
<1>4. ASSUME NEW n \in Nat, n \in S PROVE n + 1 \in S
  <2> SUFFICES ASSUME n + 1 <= L PROVE PassInv(gs, passes[n + 1], n + 1)
    OBVIOUS
  <2> DEFINE sofar == passes[n]
             g == gs[n + 1]
             after == MergedGroup(sofar, g)
             group == after.retained[n + 1]
  <2>1. PassInv(gs, sofar, n)
    BY <1>1, <1>4
  <2>2. passes[n + 1] = after
    <3>1. n + 1 \in 1..L /\ n + 1 - 1 = n
      BY <1>1
    <3> QED BY <1>2, <3>1
  <2>3. g \in GroupType
    <3>1. n + 1 \in 1..L
      BY <1>1
    <3> QED BY <3>1, ElementOfSeq
  <2> HIDE DEF sofar, g
  <2>4. sofar \in PassType /\ IsPending(sofar.pending) /\ Len(sofar.retained) = n
    BY <2>1 DEF PassInv
  <2>5. /\ after \in PassType /\ IsPending(after.pending)
        /\ Entries(after.pending) \subseteq Entries(sofar.pending)
        /\ sofar.refused => after.refused
        /\ Len(after.retained) = n + 1
        /\ \A k \in 1..n : after.retained[k] = sofar.retained[k]
        /\ Len(group.hooks) <= Len(g.hooks)
        /\ ~after.refused =>
             KeptIn(g, group) /\ HasExactly(group, Entries(sofar.pending) \ Entries(after.pending))
    BY <2>3, <2>4, GroupDone, Zenon
  <2> HIDE DEF after
  <2>6. ASSUME NEW k \in 1..n + 1 PROVE k \in 1..n \/ k = n + 1
    OBVIOUS
  <2>7. ASSUME NEW k \in 1..n + 1 PROVE Len(after.retained[k].hooks) <= Len(gs[k].hooks)
    <3>1. CASE k \in 1..n
      BY <2>1, <2>5, <3>1 DEF PassInv
    <3>2. CASE k = n + 1
      BY <2>5, <3>2 DEF g
    <3> QED BY <2>6, <3>1, <3>2
  <2>8. ASSUME ~after.refused
        PROVE  /\ \A k \in 1..n + 1 : KeptIn(gs[k], after.retained[k])
               /\ Everywhere(after.retained, Entries(Pending) \ Entries(after.pending))
    <3>0. ~sofar.refused /\ KeptIn(g, group)
          /\ HasExactly(group, Entries(sofar.pending) \ Entries(after.pending))
      BY <2>5, <2>8
    <3>1. /\ \A k \in 1..n : KeptIn(gs[k], sofar.retained[k])
          /\ Everywhere(sofar.retained, Entries(Pending) \ Entries(sofar.pending))
      BY <2>1, <3>0 DEF PassInv
    <3>2. ASSUME NEW k \in 1..n + 1 PROVE KeptIn(gs[k], after.retained[k])
      <4>1. CASE k \in 1..n
        BY <2>5, <3>1, <4>1
      <4>2. CASE k = n + 1
        BY <3>0, <4>2 DEF g
      <4> QED BY <2>6, <4>1, <4>2
    <3> DEFINE E == Entries(Pending) \ Entries(sofar.pending)
               F == Entries(sofar.pending) \ Entries(after.pending)
               s == sofar.retained
               t == <<group>>
    <3>3. Everywhere(t, F)
      BY <3>0, EverywhereOne
    <3>4. E \cup F \subseteq Entries(Pending) /\ E \cap F = {}
          /\ E \cup F = Entries(Pending) \ Entries(after.pending)
      BY <2>4, <2>5, EntriesPending
    <3>5. Len(s) = n /\ Len(t) = 1 /\ t[1] = group
      BY <2>4
    <3> HIDE DEF E, F, s, t
    <3>6. /\ Len(s) \in Nat /\ Len(t) \in Nat /\ Len(after.retained) = Len(s) + Len(t)
          /\ \A k \in 1..Len(s) : after.retained[k] = s[k]
      BY <2>5, <3>5 DEF s
    <3>7. \A k \in 1..Len(t) : after.retained[Len(s) + k] = t[k]
      <4>1. \A k \in 1..Len(t) : k = 1
        BY <3>5
      <4> QED BY <3>5, <4>1
    <3>8. Everywhere(s, E)
      BY <3>1 DEF s, E
    <3>9. Everywhere(after.retained, E \cup F)
      <4>1. Joined(after.retained, s, t)
        BY <3>6, <3>7 DEF Joined
      <4> QED BY <3>3, <3>4, <3>8, <4>1, EverywhereJoins
    <3> QED BY <3>2, <3>4, <3>9
  <2>9. PassInv(gs, after, n + 1)
    BY <2>5, <2>7, <2>8 DEF PassInv
  <2> QED BY <2>2, <2>9
<1>5. Nat \subseteq S
  <2> HIDE DEF S
  <2> QED BY <1>3, <1>4, NatInductionOverSet
<1>6. PassInv(gs, passes[L], L)
  BY <1>1, <1>5
<1> QED BY <1>1, <1>6 DEF passes

\* What an integration makes of the groups of an event.
LEMMA MergedDone ==
  ASSUME version \in 1..Upgrades + 1, NEW gs \in Seq(GroupType)
  PROVE  LET to == Merged(gs).groups
         IN /\ to \in Seq(GroupType) /\ Merged(gs).refused \in BOOLEAN
            /\ Len(gs) \in Nat /\ Len(to) \in Nat /\ Len(gs) <= Len(to)
            /\ \A k \in 1..Len(gs) : Len(to[k].hooks) <= Len(gs[k].hooks)
            /\ \A k \in Len(gs) + 1..Len(to) : Len(to[k].hooks) = 1 /\ Ours(to[k].hooks[1])
            /\ ~Merged(gs).refused =>
                 /\ \A k \in 1..Len(gs) : KeptIn(gs[k], to[k])
                 /\ Everywhere(to, Entries(Pending))
<1> DEFINE end == Passes(gs)[Len(gs)]
           s == end.retained
           t == end.pending
           to == Merged(gs).groups
<1>1. Merged(gs).groups = end.retained \o end.pending /\ Merged(gs).refused = end.refused
  BY DEF Merged
<1>2. PassInv(gs, end, Len(gs)) /\ Len(gs) \in Nat
  BY PassesEnd
<1> HIDE DEF end
<1>3. /\ end \in PassType /\ IsPending(end.pending) /\ Len(end.retained) = Len(gs)
      /\ end.retained \in Seq(GroupType) /\ end.pending \in Seq(GroupType) /\ end.refused \in BOOLEAN
      /\ Len(end.pending) \in Nat
  BY <1>2, LenProperties DEF PassInv, PassType
<1>4. to = s \o t /\ s \in Seq(GroupType) /\ t \in Seq(GroupType) /\ Len(s) = Len(gs)
      /\ Len(t) \in Nat /\ IsPending(t)
  BY <1>1, <1>3
<1> HIDE DEF s, t, to
<1>5. /\ to \in Seq(GroupType) /\ Len(to) = Len(s) + Len(t)
      /\ \A k \in 1..Len(s) + Len(t) : to[k] = IF k <= Len(s) THEN s[k] ELSE t[k - Len(s)]
  BY <1>4, ConcatProperties, Zenon
<1>6. ASSUME NEW k \in 1..Len(s) PROVE to[k] = s[k]
  <2>1. k \in 1..Len(s) + Len(t) /\ k <= Len(s)
    BY <1>2, <1>4
  <2> QED BY <1>5, <2>1
<1>7. ASSUME NEW k \in 1..Len(t) PROVE to[Len(s) + k] = t[k]
  <2>1. Len(s) + k \in 1..Len(s) + Len(t) /\ ~(Len(s) + k <= Len(s)) /\ Len(s) + k - Len(s) = k
    BY <1>2, <1>4
  <2> QED BY <1>5, <2>1
<1>8. \A k \in 1..Len(gs) : Len(to[k].hooks) <= Len(gs[k].hooks)
  BY <1>2, <1>4, <1>6 DEF PassInv, s
<1>9. ASSUME NEW k \in Len(gs) + 1..Len(to) PROVE Len(to[k].hooks) = 1 /\ Ours(to[k].hooks[1])
  <2>1. k - Len(s) \in 1..Len(t) /\ Len(s) + (k - Len(s)) = k
    BY <1>2, <1>4, <1>5
  <2>2. to[k] = t[k - Len(s)]
    BY <1>7, <2>1
  <2>3. to[k] \in Entries(Pending)
    BY <1>4, <2>1, <2>2 DEF IsPending
  <2> QED BY <2>3, EntryIs DEF Hook
<1>10. ASSUME ~Merged(gs).refused
       PROVE  /\ \A k \in 1..Len(gs) : KeptIn(gs[k], to[k])
              /\ Everywhere(to, Entries(Pending))
  <2>1. /\ \A k \in 1..Len(gs) : KeptIn(gs[k], s[k])
        /\ Everywhere(s, Entries(Pending) \ Entries(t))
    BY <1>1, <1>2, <1>10 DEF PassInv, s, t
  <2>2. \A k \in 1..Len(gs) : KeptIn(gs[k], to[k])
    BY <1>4, <1>6, <2>1
  <2> DEFINE E == Entries(Pending) \ Entries(t)
             F == Entries(t)
  <2>3. E \cup F = Entries(Pending) /\ E \cap F = {}
    BY <1>4, EntriesPending
  <2>4. Everywhere(t, F)
    BY <1>4, EverywherePending
  <2>5. Everywhere(s, E)
    BY <2>1
  <2> HIDE DEF E, F
  <2>6. Everywhere(to, E \cup F)
    <3>1. Joined(to, s, t)
      BY <1>2, <1>4, <1>5, <1>6, <1>7 DEF Joined
    <3> QED BY <2>3, <2>4, <2>5, <3>1, EverywhereJoins
  <2> QED BY <2>2, <2>3, <2>6
<1>11. Len(to) \in Nat /\ Len(gs) <= Len(to)
  BY <1>2, <1>4, <1>5
<1>12. Merged(gs).refused \in BOOLEAN
  BY <1>1, <1>3
<1> QED BY <1>2, <1>5, <1>8, <1>9, <1>10, <1>11, <1>12 DEF to

(***************************************************************************)
(* The same again: a second integration meets each generated handler where *)
(* the first one put it.                                                   *)
(***************************************************************************)
MetIn(g, n, e) == \E i \in 1..n : g.hooks[i] = Hook(e)

AgainInv(g, P, step, n) ==
  /\ step \in StepType /\ IsPending(step.pending)
  /\ Len(step.remaining) = n
  /\ \A i \in 1..n : step.remaining[i] = g.hooks[i]
  /\ step.shell = g /\ step.refused = FALSE
  /\ Entries(step.pending) = {e \in Entries(P) : ~MetIn(g, n, e)}

LEMMA AgainOther ==
  ASSUME version \in 1..Upgrades + 1, NEW g \in GroupType, NEW P, IsPending(P),
         NEW n \in Nat, n + 1 <= Len(g.hooks),
         NEW step, AgainInv(g, P, step, n), ~Ours(g.hooks[n + 1])
  PROVE  AgainInv(g, P, Handled(g, step, n + 1), n + 1)
<1> DEFINE h == g.hooks[n + 1]
           rem == step.remaining
           next == [remaining |-> Append(rem, h), pending |-> step.pending,
                    shell |-> step.shell, refused |-> step.refused]
<1>1. step \in StepType /\ IsPending(step.pending) /\ rem \in Seq(Handler) /\ Len(rem) = n
      /\ step.shell = g /\ step.refused = FALSE
  BY DEF AgainInv, StepType
<1>2. Handled(g, step, n + 1) = next
  BY <1>1, HandledOther, Zenon
<1>3. h \in Handler /\ ~Ours(h)
  <2>1. n + 1 \in 1..Len(g.hooks)
    BY MixedIs
  <2> QED BY <2>1, ElementOfSeq DEF GroupType
<1> HIDE DEF h
<1>4. /\ Append(rem, h) \in Seq(Handler) /\ Len(Append(rem, h)) = n + 1
      /\ \A i \in 1..n : Append(rem, h)[i] = rem[i]
      /\ Append(rem, h)[n + 1] = h
  BY <1>1, <1>3, AppendProperties
<1>5. /\ next.remaining = Append(rem, h) /\ next.pending = step.pending
      /\ next.shell = step.shell /\ next.refused = step.refused
  OBVIOUS
<1>6. next \in StepType
  BY <1>1, <1>4 DEF StepType
<1> HIDE DEF next
<1>7. ASSUME NEW i \in 1..n + 1 PROVE next.remaining[i] = g.hooks[i]
  <2>1. CASE i = n + 1
    BY <1>4, <1>5, <2>1 DEF h
  <2>2. CASE i # n + 1
    <3>1. i \in 1..n
      BY <2>2
    <3> QED BY <1>4, <1>5, <3>1 DEF AgainInv
  <2> QED BY <2>1, <2>2
<1>8. ASSUME NEW e \in Entries(P) PROVE MetIn(g, n + 1, e) <=> MetIn(g, n, e)
  <2>1. h # Hook(e)
    BY <1>3, EntriesPending, EntryIs
  <2>2. \A i \in 1..n + 1 : i \in 1..n \/ i = n + 1
    OBVIOUS
  <2>3. \A i \in 1..n : i \in 1..n + 1
    OBVIOUS
  <2> QED BY <2>1, <2>2, <2>3 DEF MetIn, h
<1>9. Entries(next.pending) = {e \in Entries(P) : ~MetIn(g, n + 1, e)}
  BY <1>5, <1>8 DEF AgainInv
<1> QED BY <1>1, <1>2, <1>4, <1>5, <1>6, <1>7, <1>9 DEF AgainInv

LEMMA AgainOurs ==
  ASSUME version \in 1..Upgrades + 1, NEW g \in GroupType, NEW P, IsPending(P),
         NEW E, E \subseteq Entries(P), HasExactly(g, E),
         NEW n \in Nat, n + 1 <= Len(g.hooks),
         NEW step, AgainInv(g, P, step, n), Ours(g.hooks[n + 1])
  PROVE  AgainInv(g, P, Handled(g, step, n + 1), n + 1)
<1> DEFINE h == g.hooks[n + 1]
           rem == step.remaining
           m == Match(step.pending, g, h, rem)
<1>1. step \in StepType /\ IsPending(step.pending) /\ rem \in Seq(Handler) /\ Len(rem) = n
      /\ step.shell = g /\ step.refused = FALSE
  BY DEF AgainInv, StepType
<1>2. n + 1 \in 1..Len(g.hooks) /\ Len(g.hooks) \in Nat
  BY MixedIs
<1>3. PICK e \in E : h = Hook(e) /\ Stands(g, e)
  BY <1>2 DEF HasExactly
<1>4. e \in Entries(P) /\ e \in Entries(Pending)
  BY EntriesPending
<1>5. /\ e \in GroupType /\ e.hooks = <<Hook(e)>> /\ Len(e.hooks) = 1
      /\ Hook(e) \in Handler /\ Ours(Hook(e))
      /\ \A f \in Entries(Pending) : Hook(e).name = Hook(f).name => e = f
  BY <1>4, EntryIs
<1>6. e \in Entries(step.pending)
  <2>1. ASSUME NEW i \in 1..n, g.hooks[i] = Hook(e) PROVE FALSE
    <3>1. i \in 1..Len(g.hooks) /\ i # n + 1
      BY <1>2
    <3> QED BY <1>2, <1>3, <1>5, <2>1, <3>1 DEF HasExactly
  <2>2. ~MetIn(g, n, e)
    BY <2>1 DEF MetIn
  <2> QED BY <1>4, <2>2 DEF AgainInv
<1>7. Fits(e, g, h, rem)
  <2>1. Mixed(g) \/ rem = <<>>
    <3> SUFFICES ASSUME ~Mixed(g) PROVE rem = <<>>
      OBVIOUS
    <3>1. g = e
      BY <1>3 DEF Stands
    <3>2. n = 0
      BY <1>2, <1>5, <3>1
    <3> QED BY <1>1, <3>2
  <2> QED BY <1>3, <2>1 DEF Fits, Stands
<1>8. m \in 1..Len(step.pending) /\ step.pending[m] = e
  <2>1. m \in 1..Len(step.pending) /\ Fits(step.pending[m], g, h, rem)
    BY <1>1, <1>6, <1>7, MatchIs
  <2> HIDE DEF m
  <2>2. step.pending[m] \in Entries(Pending)
    BY <1>1, <2>1 DEF IsPending
  <2>3. Hook(e).name = Hook(step.pending[m]).name
    BY <1>3, <2>1 DEF Fits
  <2> QED BY <1>5, <2>1, <2>2, <2>3
<1> DEFINE next == [remaining |-> rem \o step.pending[m].hooks, pending |-> RemoveAt(step.pending, m),
                    shell |-> IF Mixed(g) THEN step.shell ELSE step.pending[m],
                    refused |-> step.refused]
<1>9. Handled(g, step, n + 1) = next
  <2>1. m > 0
    <3> HIDE DEF m
    <3>1. m \in 1..Len(step.pending)
      BY <1>8
    <3>2. Len(step.pending) \in Nat
      BY <1>1, LenProperties DEF IsPending
    <3> QED BY <3>1, <3>2
  <2> QED BY <1>1, <2>1, HandledMatched, Zenon
<1> HIDE DEF m, h
<1>10. /\ IsPending(RemoveAt(step.pending, m))
       /\ Entries(RemoveAt(step.pending, m)) = Entries(step.pending) \ {e}
  BY <1>1, <1>8, RemovedIs
<1> DEFINE longer == rem \o e.hooks
<1>11. /\ longer \in Seq(Handler) /\ Len(longer) = n + 1
       /\ \A i \in 1..n + 1 : longer[i] = IF i <= n THEN rem[i] ELSE e.hooks[i - n]
  <2>1. e.hooks \in Seq(Handler)
    BY <1>5 DEF GroupType
  <2> QED BY <1>1, <1>5, <2>1, ConcatProperties
<1>12. (IF Mixed(g) THEN step.shell ELSE e) = g
  BY <1>1, <1>3 DEF Stands
<1>13. /\ next.remaining = longer /\ next.pending = RemoveAt(step.pending, m)
       /\ next.shell = g /\ next.refused = FALSE
  BY <1>1, <1>8, <1>12
<1>14. next \in StepType
  <2>1. RemoveAt(step.pending, m) \in Seq(GroupType)
    BY <1>10 DEF IsPending
  <2>2. next = [remaining |-> longer, pending |-> RemoveAt(step.pending, m),
                shell |-> g, refused |-> FALSE]
    BY <1>1, <1>8, <1>12
  <2> HIDE DEF next, longer
  <2> QED BY <1>11, <2>1, <2>2 DEF StepType
<1> HIDE DEF next, longer
<1>15. ASSUME NEW i \in 1..n + 1 PROVE next.remaining[i] = g.hooks[i]
  <2>1. CASE i = n + 1
    <3>1. ~(i <= n) /\ i - n = 1
      BY <2>1
    <3>2. e.hooks[1] = Hook(e)
      BY DEF Hook
    <3> QED BY <1>3, <1>11, <1>13, <2>1, <3>1, <3>2 DEF h
  <2>2. CASE i # n + 1
    <3>1. i \in 1..n /\ i <= n
      BY <2>2
    <3>2. rem[i] = g.hooks[i]
      BY <3>1 DEF AgainInv
    <3> QED BY <1>11, <1>13, <3>1, <3>2
  <2> QED BY <2>1, <2>2
<1>16. ASSUME NEW f \in Entries(P) PROVE MetIn(g, n + 1, f) <=> MetIn(g, n, f) \/ f = e
  <2>1. h = Hook(f) <=> f = e
    <3>1. f \in Entries(Pending)
      BY EntriesPending
    <3> QED BY <1>3, <1>5, <3>1
  <2>2. \A i \in 1..n + 1 : i \in 1..n \/ i = n + 1
    OBVIOUS
  <2>3. n + 1 \in 1..n + 1 /\ \A i \in 1..n : i \in 1..n + 1
    OBVIOUS
  <2> QED BY <2>1, <2>2, <2>3 DEF MetIn, h
<1>17. Entries(next.pending) = {f \in Entries(P) : ~MetIn(g, n + 1, f)}
  BY <1>10, <1>13, <1>16 DEF AgainInv
<1> QED BY <1>9, <1>10, <1>11, <1>13, <1>14, <1>15, <1>17 DEF AgainInv

LEMMA AgainGroup ==
  ASSUME version \in 1..Upgrades + 1, NEW g \in GroupType,
         NEW sofar \in PassType, IsPending(sofar.pending), sofar.refused = FALSE,
         NEW E, E \subseteq Entries(sofar.pending), HasExactly(g, E)
  PROVE  LET after == MergedGroup(sofar, g)
         IN /\ after.retained = Append(sofar.retained, g) /\ after.refused = FALSE
            /\ IsPending(after.pending) /\ after \in PassType
            /\ Entries(after.pending) = {e \in Entries(sofar.pending) : ~MetIn(g, Len(g.hooks), e)}
<1> DEFINE P == sofar.pending
           begin == [remaining |-> <<>>, pending |-> P, shell |-> g, refused |-> sofar.refused]
           steps == Steps(g, begin)
           L == Len(g.hooks)
           S == {n \in Nat : n <= L => AgainInv(g, P, steps[n], n)}
<1>1. L \in Nat
  BY MixedIs
<1>2. steps[0] = begin /\ \A i \in 1..L : steps[i] = Handled(g, steps[i - 1], i)
  BY <1>1, StepsUnfold
<1> HIDE DEF steps
<1>3. 0 \in S
  <2>1. /\ begin.remaining = <<>> /\ begin.pending = P /\ begin.shell = g /\ begin.refused = FALSE
        /\ Len(begin.remaining) = 0 /\ begin.remaining \in Seq(Handler)
    OBVIOUS
  <2>2. begin \in StepType
    BY <2>1 DEF StepType, IsPending
  <2> HIDE DEF begin
  <2>3. \A e : ~MetIn(g, 0, e)
    BY DEF MetIn
  <2>4. AgainInv(g, P, begin, 0)
    BY <2>1, <2>2, <2>3 DEF AgainInv
  <2> QED BY <1>2, <2>4
<1>4. ASSUME NEW n \in Nat, n \in S PROVE n + 1 \in S
  <2> SUFFICES ASSUME n + 1 <= L PROVE AgainInv(g, P, steps[n + 1], n + 1)
    OBVIOUS
  <2>1. AgainInv(g, P, steps[n], n)
    BY <1>1, <1>4
  <2>2. steps[n + 1] = Handled(g, steps[n], n + 1)
    <3>1. n + 1 \in 1..L /\ n + 1 - 1 = n
      BY <1>1
    <3> QED BY <1>2, <3>1
  <2> DEFINE step == steps[n]
  <2>3. AgainInv(g, P, Handled(g, step, n + 1), n + 1)
    <3>0. AgainInv(g, P, step, n)
      BY <2>1
    <3> HIDE DEF step, P
    <3>1. E \subseteq Entries(P) /\ IsPending(P)
      BY DEF P
    <3>2. CASE Ours(g.hooks[n + 1])
      BY <3>0, <3>1, <3>2, AgainOurs
    <3>3. CASE ~Ours(g.hooks[n + 1])
      BY <3>0, <3>1, <3>3, AgainOther
    <3> QED BY <3>2, <3>3
  <2> QED BY <2>2, <2>3
<1>5. Nat \subseteq S
  <2> HIDE DEF S
  <2> QED BY <1>3, <1>4, NatInductionOverSet
<1> DEFINE end == steps[L]
           group == [end.shell EXCEPT !.hooks = end.remaining]
<1>6. AgainInv(g, P, end, L)
  BY <1>1, <1>5
<1>7. MergedGroup(sofar, g) = [retained |-> Append(sofar.retained, group),
                               pending |-> end.pending, refused |-> end.refused]
  BY DEF MergedGroup, steps
<1> HIDE DEF end
<1>8. end.remaining = g.hooks
  <2>1. end.remaining \in Seq(Handler) /\ g.hooks \in Seq(Handler)
    BY <1>6 DEF AgainInv, StepType, GroupType
  <2>2. Len(end.remaining) = Len(g.hooks) /\ \A i \in 1..Len(end.remaining) : end.remaining[i] = g.hooks[i]
    BY <1>6 DEF AgainInv
  <2> QED BY <2>1, <2>2, SeqEqual
<1>9. group = g
  <2>1. end.shell = g
    BY <1>6 DEF AgainInv
  <2> QED BY <1>8, <2>1 DEF GroupType
<1> DEFINE after == [retained |-> Append(sofar.retained, g), pending |-> end.pending, refused |-> FALSE]
<1>10. MergedGroup(sofar, g) = after
  <2>1. end.refused = FALSE
    BY <1>6 DEF AgainInv
  <2> HIDE DEF group
  <2> QED BY <1>7, <1>9, <2>1
<1>11. /\ after.retained = Append(sofar.retained, g) /\ after.refused = FALSE
       /\ after.pending = end.pending
  OBVIOUS
<1>12. after \in PassType
  <2>1. Append(sofar.retained, g) \in Seq(GroupType)
    BY AppendProperties DEF PassType
  <2>2. end.pending \in Seq(GroupType)
    BY <1>6 DEF AgainInv, StepType
  <2> QED BY <2>1, <2>2 DEF PassType
<1>13. IsPending(end.pending) /\ Entries(end.pending) = {e \in Entries(P) : ~MetIn(g, L, e)}
  BY <1>6 DEF AgainInv
<1> HIDE DEF after
<1> QED BY <1>10, <1>11, <1>12, <1>13

\* After n groups of the second integration.
MetBefore(gs, n, e) == \E k \in 1..n : \E i \in 1..Len(gs[k].hooks) : gs[k].hooks[i] = Hook(e)

AgainPass(gs, pass, n) ==
  /\ pass \in PassType /\ IsPending(pass.pending) /\ pass.refused = FALSE
  /\ Len(pass.retained) = n
  /\ \A k \in 1..n : pass.retained[k] = gs[k]
  /\ Entries(pass.pending) = {e \in Entries(Pending) : ~MetBefore(gs, n, e)}

LEMMA MergedAgain ==
  ASSUME version \in 1..Upgrades + 1, NEW gs \in Seq(GroupType), Everywhere(gs, Entries(Pending))
  PROVE  Merged(gs).groups = gs /\ Merged(gs).refused = FALSE
<1> DEFINE passes == Passes(gs)
           L == Len(gs)
           S == {n \in Nat : n <= L => AgainPass(gs, passes[n], n)}
           begin == [retained |-> <<>>, pending |-> Pending, refused |-> FALSE]
<1>1. L \in Nat
  BY LenProperties
<1>2. passes[0] = begin /\ \A i \in 1..L : passes[i] = MergedGroup(passes[i - 1], gs[i])
  BY <1>1, PassesUnfold
<1> HIDE DEF passes
<1>3. 0 \in S
  <2>1. begin.retained = <<>> /\ begin.pending = Pending /\ begin.refused = FALSE
    OBVIOUS
  <2>2. IsPending(Pending) /\ Pending \in Seq(GroupType)
    BY PendingWhole, PendingTyped
  <2>3. begin \in PassType
    BY <2>2 DEF PassType
  <2> HIDE DEF begin
  <2>4. \A e : ~MetBefore(gs, 0, e)
    BY DEF MetBefore
  <2>5. AgainPass(gs, begin, 0)
    BY <2>1, <2>2, <2>3, <2>4 DEF AgainPass
  <2> QED BY <1>2, <2>5
<1>4. ASSUME NEW n \in Nat, n \in S PROVE n + 1 \in S
  <2> SUFFICES ASSUME n + 1 <= L PROVE AgainPass(gs, passes[n + 1], n + 1)
    OBVIOUS
  <2> DEFINE sofar == passes[n]
             g == gs[n + 1]
             after == MergedGroup(sofar, g)
             E == {e \in Entries(Pending) : MetIn(g, Len(g.hooks), e)}
  <2>1. AgainPass(gs, sofar, n)
    BY <1>1, <1>4
  <2>2. passes[n + 1] = after
    <3>1. n + 1 \in 1..L /\ n + 1 - 1 = n
      BY <1>1
    <3> QED BY <1>2, <3>1
  <2>3. g \in GroupType /\ n + 1 \in 1..L
    <3>1. n + 1 \in 1..L
      BY <1>1
    <3> QED BY <3>1, ElementOfSeq
  <2> HIDE DEF sofar
  <2>4. sofar \in PassType /\ IsPending(sofar.pending) /\ Len(sofar.retained) = n /\ sofar.refused = FALSE
        /\ Entries(sofar.pending) = {e \in Entries(Pending) : ~MetBefore(gs, n, e)}
    BY <2>1 DEF AgainPass
  <2>5. E \subseteq Entries(sofar.pending)
    <3> SUFFICES ASSUME NEW e \in E, MetBefore(gs, n, e) PROVE FALSE
      BY <2>4
    <3>1. PICK i \in 1..Len(g.hooks) : g.hooks[i] = Hook(e)
      BY DEF MetIn
    <3>2. PICK k \in 1..n : \E j \in 1..Len(gs[k].hooks) : gs[k].hooks[j] = Hook(e)
      BY DEF MetBefore
    <3>3. PICK j \in 1..Len(gs[k].hooks) : gs[k].hooks[j] = Hook(e)
      BY <3>2
    <3>4. Ours(Hook(e))
      BY EntryIs
    <3>5. k \in 1..L /\ k # n + 1
      BY <1>1
    <3>6. Once(gs)
      BY DEF Everywhere
    <3> DEFINE o == n + 1
    <3>7. o \in 1..Len(gs) /\ k \in 1..Len(gs) /\ k # o
      BY <2>3, <3>5
    <3>8. i \in 1..Len(gs[o].hooks) /\ j \in 1..Len(gs[k].hooks)
      OBVIOUS
    <3>9. Ours(gs[k].hooks[j]) /\ gs[k].hooks[j] = gs[o].hooks[i]
      BY <3>1, <3>3, <3>4, Zenon
    <3> HIDE DEF o, g
    <3> QED BY <3>6, <3>7, <3>8, <3>9, Zenon DEF Once
  <2>6. HasExactly(g, E)
    <3>1. ASSUME NEW i \in 1..Len(g.hooks), Ours(g.hooks[i])
          PROVE  \E e \in E : g.hooks[i] = Hook(e) /\ Stands(g, e)
      <4>1. PICK e \in Entries(Pending) : g.hooks[i] = Hook(e) /\ Stands(g, e)
        BY <2>3, <3>1 DEF Everywhere, Covered
      <4> QED BY <4>1 DEF MetIn
    <3>2. ASSUME NEW e \in E PROVE \E i \in 1..Len(g.hooks) : g.hooks[i] = Hook(e)
      BY DEF MetIn
    <3>3. ASSUME NEW i \in 1..Len(g.hooks), NEW j \in 1..Len(g.hooks),
                 Ours(g.hooks[i]), g.hooks[i] = g.hooks[j]
          PROVE  i = j
      BY <2>3, <3>3 DEF Everywhere, Once
    <3> HIDE DEF E, g
    <3> QED BY <3>1, <3>2, <3>3 DEF HasExactly
  <2> HIDE DEF g
  <2>7. /\ after.retained = Append(sofar.retained, g) /\ after.refused = FALSE
        /\ IsPending(after.pending) /\ after \in PassType
        /\ Entries(after.pending) = {e \in Entries(sofar.pending) : ~MetIn(g, Len(g.hooks), e)}
    <3> HIDE DEF E
    <3> QED BY <2>3, <2>4, <2>5, <2>6, AgainGroup
  <2> HIDE DEF after
  <2>8. /\ Len(after.retained) = n + 1
        /\ \A k \in 1..n : after.retained[k] = sofar.retained[k]
        /\ after.retained[n + 1] = g
    <3>1. sofar.retained \in Seq(GroupType)
      BY <2>4 DEF PassType
    <3> QED BY <2>3, <2>4, <2>7, <3>1, AppendProperties
  <2>9. ASSUME NEW k \in 1..n + 1 PROVE after.retained[k] = gs[k]
    <3>1. CASE k = n + 1
      BY <2>8, <3>1 DEF g
    <3>2. CASE k # n + 1
      <4>1. k \in 1..n
        BY <3>2
      <4> QED BY <2>1, <2>8, <4>1 DEF AgainPass
    <3> QED BY <3>1, <3>2
  <2>10. ASSUME NEW e
         PROVE  MetBefore(gs, n + 1, e) <=> MetBefore(gs, n, e) \/ MetIn(g, Len(g.hooks), e)
    <3>1. \A k \in 1..n + 1 : k \in 1..n \/ k = n + 1
      OBVIOUS
    <3>2. n + 1 \in 1..n + 1 /\ \A k \in 1..n : k \in 1..n + 1
      OBVIOUS
    <3> QED BY <3>1, <3>2 DEF MetBefore, MetIn, g
  <2>11. Entries(after.pending) = {e \in Entries(Pending) : ~MetBefore(gs, n + 1, e)}
    BY <2>4, <2>7, <2>10
  <2>12. AgainPass(gs, after, n + 1)
    BY <2>7, <2>8, <2>9, <2>11 DEF AgainPass
  <2> QED BY <2>2, <2>12
<1>5. Nat \subseteq S
  <2> HIDE DEF S
  <2> QED BY <1>3, <1>4, NatInductionOverSet
<1> DEFINE end == passes[L]
<1>6. AgainPass(gs, end, L)
  BY <1>1, <1>5
<1>7. Merged(gs).groups = end.retained \o end.pending /\ Merged(gs).refused = end.refused
  BY DEF Merged, passes
<1> HIDE DEF end
<1>8. end.pending = <<>>
  <2>1. Entries(end.pending) = {}
    <3>1. ASSUME NEW e \in Entries(Pending) PROVE MetBefore(gs, L, e)
      BY DEF Everywhere, MetBefore
    <3> QED BY <1>6, <3>1 DEF AgainPass
  <2>2. end.pending \in Seq(GroupType) /\ Len(end.pending) \in Nat
    BY <1>6, LenProperties DEF AgainPass, IsPending
  <2>3. ~(1 \in 1..Len(end.pending))
    BY <2>1 DEF Entries
  <2>4. Len(end.pending) = 0
    BY <2>2, <2>3
  <2> QED BY <2>2, <2>4, EmptySeq
<1>9. end.retained = gs
  <2>1. end.retained \in Seq(GroupType) /\ Len(end.retained) = Len(gs)
        /\ \A k \in 1..Len(end.retained) : end.retained[k] = gs[k]
    BY <1>6 DEF AgainPass, PassType
  <2> QED BY <2>1, SeqEqual
<1> QED BY <1>6, <1>7, <1>8, <1>9, ConcatEmptySeq DEF AgainPass

(***************************************************************************)
(* The event of the configuration keeps its type, and no group of it grows *)
(* beyond what a place can name.                                           *)
(***************************************************************************)
MergeInv ==
  /\ MergeTypeOK
  /\ \A k \in 1..Len(groups) : Len(groups[k].hooks) <= Width

LEMMA MergeTypes ==
  ASSUME MergeTypeOK
  PROVE  /\ groups \in Seq(GroupType) /\ Len(groups) \in Nat
         /\ version \in 1..Upgrades + 1 /\ refused \in BOOLEAN
BY LenProperties DEF MergeTypeOK, GroupType, Handler

LEMMA MergeStarts == MergeInit => MergeInv
<1> SUFFICES ASSUME MergeInit PROVE MergeInv
  OBVIOUS
<1>0. Width \in Nat \ {0} /\ Upgrades \in Nat /\ GroupLimit \in Nat
  BY MergeAssumption
<1>1. Handlers \subseteq Handler
  <2>1. 1 \in 0..Upgrades + 1 /\ 0 \in 0..Upgrades + 1
    BY <1>0
  <2> QED BY <2>1 DEF Handlers, Handler, Own, Other
<1>2. ASSUME NEW g \in SomeGroup PROVE g \in GroupType /\ Len(g.hooks) <= Width
  <2>1. g.hooks \in BoundedSeq(Handlers, Width)
    BY DEF SomeGroup
  <2>2. PICK m \in 0..Width : g.hooks \in [1..m -> Handlers]
    BY <2>1 DEF BoundedSeq, SeqOf
  <2>3. m \in Nat /\ m <= Width
    BY <1>0
  <2>4. g.hooks \in Seq(Handler) /\ Len(g.hooks) = m
    BY <1>1, <2>2, <2>3
  <2>5. g = [matcher |-> g.matcher, extra |-> g.extra, hooks |-> g.hooks]
        /\ g.matcher \in {"none", "Bash"} /\ g.extra \in BOOLEAN
    BY DEF SomeGroup
  <2>6. g \in GroupType
    BY <2>4, <2>5 DEF GroupType
  <2> QED BY <2>3, <2>4, <2>6
<1>3. PICK n \in 0..GroupLimit : groups \in [1..n -> SomeGroup]
  BY DEF MergeInit, BoundedSeq, SeqOf
<1>4. n \in Nat /\ DOMAIN groups = 1..n /\ \A k \in 1..n : groups[k] \in SomeGroup
  BY <1>0, <1>3
<1>5. groups \in Seq(GroupType) /\ Len(groups) = n
  <2>1. groups \in [1..n -> GroupType]
    BY <1>2, <1>3
  <2> QED BY <1>4, <2>1
<1>6. ASSUME NEW k \in 1..Len(groups) PROVE Len(groups[k].hooks) <= Width
  <2>1. groups[k] \in SomeGroup
    BY <1>4, <1>5
  <2> QED BY <1>2, <2>1
<1>7. version \in 1..Upgrades + 1 /\ refused \in BOOLEAN
  <2>1. version = 1
    BY DEF MergeInit
  <2>2. version \in 1..Upgrades + 1
    BY <1>0, <2>1
  <2>3. refused \in BOOLEAN
    BY DEF MergeInit
  <2> QED BY <2>2, <2>3
<1> QED BY <1>5, <1>6, <1>7 DEF MergeInv, MergeTypeOK, GroupType, Handler

\* The groups of an event after an integration.
LEMMA MergedFits ==
  ASSUME MergeInv
  PROVE  LET to == Merged(groups).groups
         IN to \in Seq(GroupType) /\ \A k \in 1..Len(to) : Len(to[k].hooks) <= Width
<1> DEFINE to == Merged(groups).groups
<1>1. groups \in Seq(GroupType) /\ Len(groups) \in Nat /\ version \in 1..Upgrades + 1
      /\ \A k \in 1..Len(groups) : Len(groups[k].hooks) <= Width
  BY MergeTypes DEF MergeInv
<1>2. /\ to \in Seq(GroupType) /\ Len(to) \in Nat /\ Len(groups) <= Len(to)
      /\ \A k \in 1..Len(groups) : Len(to[k].hooks) <= Len(groups[k].hooks)
      /\ \A k \in Len(groups) + 1..Len(to) : Len(to[k].hooks) = 1
  BY <1>1, MergedDone
<1> HIDE DEF to
<1>3. ASSUME NEW k \in 1..Len(to) PROVE Len(to[k].hooks) <= Width
  <2>1. to[k] \in GroupType
    BY <1>2, <1>3, ElementOfSeq
  <2>2. Len(to[k].hooks) \in Nat /\ Width \in Nat \ {0}
    BY <2>1, MixedIs, MergeAssumption
  <2>3. CASE k <= Len(groups)
    <3>1. k \in 1..Len(groups)
      BY <1>1, <2>3
    <3>2. groups[k] \in GroupType
      BY <1>1, <3>1, ElementOfSeq
    <3>3. Len(groups[k].hooks) \in Nat
      BY <3>2, MixedIs
    <3>4. Len(to[k].hooks) <= Len(groups[k].hooks) /\ Len(groups[k].hooks) <= Width
      BY <1>1, <1>2, <3>1
    <3> QED BY <2>2, <3>3, <3>4
  <2>4. CASE ~(k <= Len(groups))
    <3>1. k \in Len(groups) + 1..Len(to)
      BY <1>1, <1>2, <2>4
    <3>2. Len(to[k].hooks) = 1
      BY <1>2, <3>1
    <3> QED BY <2>2, <3>2
  <2> QED BY <2>3, <2>4
<1> QED BY <1>2, <1>3 DEF to

LEMMA MergeStep == MergeInv /\ [MergeNext]_mergevars => MergeInv'
<1> SUFFICES ASSUME MergeInv, [MergeNext]_mergevars PROVE MergeInv'
  OBVIOUS
<1>0. groups \in Seq(GroupType) /\ version \in 1..Upgrades + 1 /\ refused \in BOOLEAN
      /\ \A k \in 1..Len(groups) : Len(groups[k].hooks) <= Width
  BY MergeTypes DEF MergeInv
<1>1. CASE Integrate
  <2>1. Merged(groups).refused \in BOOLEAN
    BY <1>0, MergedDone
  <2>2. refused' \in BOOLEAN /\ version' = version
    BY <1>1, <2>1 DEF Integrate
  <2>3. groups' \in Seq(GroupType) /\ \A k \in 1..Len(groups') : Len(groups'[k].hooks) <= Width
    <3>1. groups' = groups \/ groups' = Merged(groups).groups
      BY <1>1 DEF Integrate
    <3> QED BY <1>0, <3>1, MergedFits
  <2> QED BY <1>0, <2>2, <2>3 DEF MergeInv, MergeTypeOK, GroupType, Handler
<1>2. CASE Upgrade
  <2>1. version' \in 1..Upgrades + 1
    BY <1>0, <1>2, MergeAssumption DEF Upgrade
  <2> QED BY <1>0, <1>2, <2>1 DEF Upgrade, MergeInv, MergeTypeOK, GroupType, Handler
<1>3. CASE UNCHANGED mergevars
  BY <1>0, <1>3 DEF mergevars, MergeInv, MergeTypeOK, GroupType, Handler
<1> QED BY <1>1, <1>2, <1>3 DEF MergeNext

\* The groups of an event stay groups of handlers of ours and of others, of a
\* version that was generated.
THEOREM MergeTypeCorrect == MergeSpec => []MergeTypeOK
<1>1. MergeInit => MergeInv
  BY MergeStarts
<1>2. MergeInv /\ [MergeNext]_mergevars => MergeInv'
  BY MergeStep
<1>3. MergeInv => MergeTypeOK
  BY DEF MergeInv
<1> QED BY <1>1, <1>2, <1>3, PTL DEF MergeSpec

\* What an integration that is not refused has done.
LEMMA IntegrateExact ==
  ASSUME MergeInv, NEW to, to = Merged(groups).groups, ~Merged(groups).refused
  PROVE  Exactly(groups, to)
<1> DEFINE mine == Places(to) \ Placed(to)
<1>1. groups \in Seq(GroupType) /\ Len(groups) \in Nat /\ version \in 1..Upgrades + 1
  BY MergeTypes DEF MergeInv
<1>2. /\ to \in Seq(GroupType) /\ Len(to) \in Nat /\ Len(groups) <= Len(to)
      /\ \A k \in Len(groups) + 1..Len(to) : Len(to[k].hooks) = 1 /\ Ours(to[k].hooks[1])
      /\ \A k \in 1..Len(groups) : KeptIn(groups[k], to[k])
      /\ Everywhere(to, Entries(Pending))
  BY <1>1, MergedDone
<1>3. \A k \in 1..Len(to) : Len(to[k].hooks) <= Width
  BY MergedFits
<1>4. \A k \in 1..Len(to) : Len(to[k].hooks) \in Nat
  BY <1>2, ElementOfSeq, MixedIs
<1>5. \A k \in 1..Len(groups) : Len(groups[k].hooks) \in Nat /\ Len(groups[k].hooks) <= Width
  BY <1>1, ElementOfSeq, MixedIs DEF MergeInv
<1>6. Width \in Nat
  BY MergeAssumption
<1>7. ASSUME NEW p \in Placed(groups)
      PROVE  /\ p \in Placed(to)
             /\ to[p[1]].hooks[p[2]] = groups[p[1]].hooks[p[2]]
             /\ to[p[1]].matcher = groups[p[1]].matcher
  <2> DEFINE k == p[1]
             i == p[2]
  <2>1. /\ p \in (1..Len(groups)) \X (1..Width) /\ k \in 1..Len(groups) /\ i \in 1..Width
        /\ i <= Len(groups[k].hooks) /\ ~Ours(groups[k].hooks[i])
    BY DEF Placed, Places
  <2>2. p = <<k, i>>
    BY <2>1
  <2> HIDE DEF k, i
  <2>3. i \in 1..Len(groups[k].hooks)
    BY <1>5, <2>1
  <2>4. i <= Len(to[k].hooks) /\ to[k].hooks[i] = groups[k].hooks[i] /\ to[k].matcher = groups[k].matcher
    BY <1>2, <2>1, <2>3 DEF KeptIn
  <2>5. k \in 1..Len(to)
    BY <1>1, <1>2, <2>1
  <2>6. p \in Placed(to)
    BY <2>1, <2>2, <2>4, <2>5 DEF Placed, Places
  <2> QED BY <2>4, <2>6 DEF k, i
<1>8. ASSUME NEW p \in Placed(to) PROVE p \in Placed(groups)
  <2> DEFINE k == p[1]
             i == p[2]
  <2>1. /\ p \in (1..Len(to)) \X (1..Width) /\ k \in 1..Len(to) /\ i \in 1..Width
        /\ i <= Len(to[k].hooks) /\ ~Ours(to[k].hooks[i])
    BY DEF Placed, Places
  <2>2. p = <<k, i>>
    BY <2>1
  <2> HIDE DEF k, i
  <2>3. i \in 1..Len(to[k].hooks)
    BY <1>4, <2>1
  <2>4. k \in 1..Len(groups)
    <3> SUFFICES ASSUME k \notin 1..Len(groups) PROVE FALSE
      OBVIOUS
    <3>1. k \in Len(groups) + 1..Len(to)
      BY <1>1, <1>2, <2>1
    <3>2. Len(to[k].hooks) = 1 /\ Ours(to[k].hooks[1])
      BY <1>2, <3>1
    <3>3. i = 1
      BY <2>3, <3>2
    <3> QED BY <2>1, <3>2, <3>3
  <2>5. i <= Len(groups[k].hooks) /\ ~Ours(groups[k].hooks[i])
    BY <1>2, <2>1, <2>3, <2>4 DEF KeptIn
  <2> QED BY <2>1, <2>2, <2>4, <2>5 DEF Placed, Places
<1>9. ASSUME NEW k \in 1..Len(to), NEW i \in 1..Len(to[k].hooks), Ours(to[k].hooks[i])
      PROVE  <<k, i>> \in mine
  <2>1. i <= Len(to[k].hooks) /\ i \in 1..Width
    BY <1>3, <1>4, <1>6
  <2> QED BY <1>9, <2>1 DEF Placed, Places
<1>10. ASSUME NEW m \in DOMAIN Generated
       PROVE  \E p \in mine : /\ to[p[1]].matcher = Generated[m].matcher
                              /\ to[p[1]].hooks[p[2]] = Own(Generated[m].role, version)
  <2>1. m \in 1..Len(Generated)
    BY MergeAssumption, LenProperties
  <2> DEFINE e == Pending[m]
  <2>2. e \in Entries(Pending) /\ e.matcher = Generated[m].matcher
        /\ Hook(e) = Own(Generated[m].role, version)
    <3>1. e = [matcher |-> Generated[m].matcher, extra |-> FALSE,
               hooks |-> <<Own(Generated[m].role, version)>>]
      BY <1>1, <2>1, PendingTyped
    <3>2. e \in Entries(Pending)
      BY <1>1, <2>1, PendingTyped DEF Entries
    <3> HIDE DEF e
    <3> QED BY <3>1, <3>2 DEF Hook
  <2> HIDE DEF e
  <2>3. PICK k \in 1..Len(to) : \E i \in 1..Len(to[k].hooks) : to[k].hooks[i] = Hook(e)
    BY <1>2, <2>2 DEF Everywhere
  <2>4. PICK i \in 1..Len(to[k].hooks) : to[k].hooks[i] = Hook(e)
    BY <2>3
  <2>5. Ours(to[k].hooks[i])
    BY <1>1, <2>2, <2>4, EntryIs
  <2>6. PICK f \in Entries(Pending) : to[k].hooks[i] = Hook(f) /\ Stands(to[k], f)
    BY <1>2, <2>5 DEF Everywhere, Covered
  <2>7. e = f
    BY <1>1, <2>2, <2>4, <2>6, EntryIs
  <2>8. to[k].matcher = Generated[m].matcher
    BY <2>2, <2>6, <2>7 DEF Stands
  <2>9. <<k, i>> \in mine
    BY <1>9, <2>5
  <2> DEFINE p == <<k, i>>
  <2>10. p \in mine /\ p[1] = k /\ p[2] = i
    BY <2>9
  <2> HIDE DEF p, mine
  <2> QED BY <2>2, <2>4, <2>8, <2>10
<1>11. ASSUME NEW p \in mine, NEW q \in mine, to[p[1]].hooks[p[2]] = to[q[1]].hooks[q[2]]
       PROVE  p = q
  <2>1. ASSUME NEW r \in mine
        PROVE  /\ r = <<r[1], r[2]>> /\ r[1] \in 1..Len(to) /\ r[2] \in 1..Len(to[r[1]].hooks)
               /\ Ours(to[r[1]].hooks[r[2]])
    <3>1. r \in Places(to) /\ r \notin Placed(to)
      OBVIOUS
    <3>2. r \in (1..Len(to)) \X (1..Width) /\ r[2] <= Len(to[r[1]].hooks)
      BY <3>1 DEF Places
    <3>3. r = <<r[1], r[2]>> /\ r[1] \in 1..Len(to) /\ r[2] \in 1..Width
      BY <3>2
    <3>4. Len(to[r[1]].hooks) \in Nat
      BY <1>4, <3>3
    <3>5. r[2] \in 1..Len(to[r[1]].hooks)
      BY <3>2, <3>3, <3>4
    <3>6. Ours(to[r[1]].hooks[r[2]])
      BY <3>1 DEF Placed
    <3> QED BY <3>3, <3>5, <3>6
  <2>2. Once(to)
    BY <1>2 DEF Everywhere
  <2> HIDE DEF mine
  <2>3. p[1] = q[1] /\ p[2] = q[2]
    <3> DEFINE k == p[1]
               i == p[2]
               l == q[1]
               j == q[2]
    <3>1. /\ k \in 1..Len(to) /\ i \in 1..Len(to[k].hooks) /\ Ours(to[k].hooks[i])
          /\ l \in 1..Len(to) /\ j \in 1..Len(to[l].hooks)
          /\ to[k].hooks[i] = to[l].hooks[j]
      BY <1>11, <2>1
    <3> HIDE DEF k, i, l, j
    <3>2. k = l /\ i = j
      BY <2>2, <3>1 DEF Once
    <3> QED BY <3>2 DEF k, i, l, j
  <2>4. p = <<p[1], p[2]>> /\ q = <<q[1], q[2]>>
    BY <2>1
  <2> QED BY <2>3, <2>4
<1>12. Merged(to).groups = to /\ ~Merged(to).refused
  BY <1>1, <1>2, MergedAgain
<1> HIDE DEF mine
<1>13. \A p, q \in mine : to[p[1]].hooks[p[2]] = to[q[1]].hooks[q[2]] => p = q
  BY <1>11
<1>14. Placed(to) \subseteq Placed(groups)
  BY <1>8
<1> QED BY <1>7, <1>10, <1>12, <1>13, <1>14, Zenon DEF Exactly, mine

\* MergeExact (merge_hooks, integrate.py): whatever the configuration held, an
\* integration that is not refused leaves every hook of others where it was and
\* under the same matcher, has each generated hook of this version exactly once
\* and nothing else of ours, and would change nothing if it were repeated.
THEOREM HooksMergeExactly == MergeSpec => MergeExact
<1>1. MergeInit => MergeInv
  BY MergeStarts
<1>2. MergeInv /\ [MergeNext]_mergevars => MergeInv'
  BY MergeStep
<1>3. MergeInv /\ [MergeNext]_mergevars => [Integrate /\ ~refused' => Exactly(groups, groups')]_mergevars
  <2> SUFFICES ASSUME MergeInv, Integrate, ~refused' PROVE Exactly(groups, groups')
    OBVIOUS
  <2>1. groups' = Merged(groups).groups /\ ~Merged(groups).refused
    BY DEF Integrate
  <2> QED BY <2>1, IntegrateExact, Zenon
<1> QED BY <1>1, <1>2, <1>3, PTL DEF MergeSpec, MergeExact

=============================================================================
