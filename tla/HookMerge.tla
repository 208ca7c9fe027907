------------------------------ MODULE HookMerge ------------------------------
(***************************************************************************)
(* merge_hooks (integrate.py): how the handlers of memcap are put into the *)
(* matcher groups of one event of an agent's configuration, again and      *)
(* again, between handlers of others, whose positions carry their trust.   *)
(***************************************************************************)
EXTENDS Integers, Sequences, SequencesExt

CONSTANTS Roles,       \* the second word of our commands
          Others,      \* handlers that are not ours
          Generated,   \* role and matcher of the groups that are generated
          GroupLimit, Width,   \* of the groups and handlers at the beginning
          Upgrades

ASSUME MergeAssumption ==
  /\ Generated \in Seq([role : Roles, matcher : {"none", "Bash"}])
  /\ \A i, j \in DOMAIN Generated : Generated[i].role = Generated[j].role => i = j
  /\ Roles \cap Others = {} /\ GroupLimit \in Nat
  /\ Width \in Nat \ {0} /\ Upgrades \in Nat

VARIABLES groups,      \* of the event
          version,     \* of the generated commands
          refused      \* the last integration was refused

mergevars == <<groups, version, refused>>

Own(role, v) == [name |-> role, version |-> v]
Other(name) == [name |-> name, version |-> 0]
Handlers == {Own(r, 1) : r \in Roles} \cup {Other(x) : x \in Others}
Ours(handler) == handler.name \in Roles

\* extra: keys besides the matcher and the handlers.
SomeGroup == [matcher : {"none", "Bash"}, extra : BOOLEAN, hooks : BoundedSeq(Handlers, Width)]

MergeTypeOK ==
  /\ groups \in Seq([matcher : {"none", "Bash"}, extra : BOOLEAN,
                     hooks : Seq([name : Roles \cup Others, version : 0..Upgrades + 1])])
  /\ version \in 1..Upgrades + 1 /\ refused \in BOOLEAN

MergeInit ==
  /\ groups \in BoundedSeq(SomeGroup, GroupLimit)
  /\ version = 1 /\ refused = FALSE

Fresh1(g) == [matcher |-> g.matcher, extra |-> FALSE, hooks |-> <<Own(g.role, version)>>]
Pending == [i \in DOMAIN Generated |-> Fresh1(Generated[i])]

(***************************************************************************)
(* The merge of one group.                                                 *)
(***************************************************************************)
Mixed(group) == \E i \in DOMAIN group.hooks : ~Ours(group.hooks[i])

\* The generated group that replaces a handler of ours, 0 if there is none.
Match(pending, group, handler, remaining) ==
  LET fits(g) == /\ g.hooks[1].name = handler.name
                 /\ Mixed(group) \/ remaining = <<>>
                 /\ Mixed(group) => g.matcher = group.matcher /\ ~group.extra
      found == {i \in DOMAIN pending : fits(pending[i])}
  IN IF found = {} THEN 0 ELSE CHOOSE i \in found : \A j \in found : i <= j

\* Mutant: a stale handler of ours is removed wherever it stands.
HandledLoosely(group, step, i) ==
  LET handler == group.hooks[i]
      match == Match(step.pending, group, handler, step.remaining)
  IN IF ~Ours(handler) THEN [step EXCEPT !.remaining = Append(@, handler)]
     ELSE IF match > 0
     THEN [step EXCEPT !.remaining = @ \o step.pending[match].hooks,
                       !.pending = RemoveAt(@, match),
                       !.shell = IF Mixed(group) THEN @ ELSE step.pending[match]]
     ELSE step

Handled(group, step, i) ==
  LET handler == group.hooks[i]
      match == Match(step.pending, group, handler, step.remaining)
      later == \E k \in i + 1..Len(group.hooks) : ~Ours(group.hooks[k])
  IN IF ~Ours(handler) THEN [step EXCEPT !.remaining = Append(@, handler)]
     ELSE IF match > 0
     THEN [step EXCEPT !.remaining = @ \o step.pending[match].hooks,
                       !.pending = RemoveAt(@, match),
                       !.shell = IF Mixed(group) THEN @ ELSE step.pending[match]]
     ELSE [step EXCEPT !.refused = @ \/ later]

\* What is left of a group is kept in its place, even when it is empty.
Steps(group, begin) ==
  LET step[i \in 0..Len(group.hooks)] == IF i = 0 THEN begin ELSE Handled(group, step[i - 1], i)
  IN step

MergedGroup(sofar, group) ==
  LET begin == [remaining |-> <<>>, pending |-> sofar.pending, shell |-> group,
                refused |-> sofar.refused]
      end == Steps(group, begin)[Len(group.hooks)]
  IN [retained |-> Append(sofar.retained, [end.shell EXCEPT !.hooks = end.remaining]),
      pending |-> end.pending, refused |-> end.refused]

Passes(gs) ==
  LET pass[i \in 0..Len(gs)] ==
        IF i = 0 THEN [retained |-> <<>>, pending |-> Pending, refused |-> FALSE]
        ELSE MergedGroup(pass[i - 1], gs[i])
  IN pass

Merged(gs) ==
  LET end == Passes(gs)[Len(gs)]
  IN [groups |-> end.retained \o end.pending, refused |-> end.refused]

(***************************************************************************)
(* memcap integrate, and an upgrade of memcap.                             *)
(***************************************************************************)
Integrate ==
  /\ refused' = Merged(groups).refused
  /\ groups' = IF refused' THEN groups ELSE Merged(groups).groups
  /\ UNCHANGED version

Upgrade == version <= Upgrades /\ version' = version + 1 /\ UNCHANGED <<groups, refused>>

MergeNext == Integrate \/ Upgrade

MergeSpec == MergeInit /\ [][MergeNext]_mergevars

(***************************************************************************)
(* Properties.                                                             *)
(***************************************************************************)
\* README.md:365-367: unrelated hooks keep their group and handler positions.
Places(gs) == {p \in (1..Len(gs)) \X (1..Width) : p[2] <= Len(gs[p[1]].hooks)}
Placed(gs) == {p \in Places(gs) : ~Ours(gs[p[1]].hooks[p[2]])}

\* Every hook of others is where it was, under the same matcher; each generated
\* hook of this version is there exactly once and nothing else of ours; the
\* same again would change nothing.
Exactly(from, to) ==
  LET mine == Places(to) \ Placed(to)
  IN /\ \A p \in Placed(from) :
          /\ p \in Placed(to)
          /\ to[p[1]].hooks[p[2]] = from[p[1]].hooks[p[2]]
          /\ to[p[1]].matcher = from[p[1]].matcher
     /\ Placed(to) \subseteq Placed(from)
     /\ \A i \in DOMAIN Generated :
          \E p \in mine : /\ to[p[1]].matcher = Generated[i].matcher
                          /\ to[p[1]].hooks[p[2]] = Own(Generated[i].role, version)
     /\ \A p, q \in mine : to[p[1]].hooks[p[2]] = to[q[1]].hooks[q[2]] => p = q
     /\ Merged(to).groups = to /\ ~Merged(to).refused

\* README.md:369-373: an integration that is not refused leaves what is not ours
\* alone, and is exact about what is.
MergeExact == [][Integrate /\ ~refused' => Exactly(groups, groups')]_mergevars
=============================================================================
