----------------------------- MODULE MCAdmission -----------------------------
(***************************************************************************)
(* Small instances of Admission for TLC.  A behaviour is of one of two     *)
(* kinds: "starts" has reboots, measurements without a label and pauses,   *)
(* on a host that is well or fails to be measured; "pressure" has a host   *)
(* that pages or is critical, and a longer clock; "any" is not restricted. *)
(***************************************************************************)
EXTENDS Admission, TLC

CONSTANTS a, b,
          Stories,      \* the kinds
          StartsTime    \* bound on the clock of "starts"

VARIABLE story

MCTwo == {a, b}
\* The host is well; or it is well, pages or is critical.
MCPaging == {[state |-> "ok", paging |-> FALSE], [state |-> "ok", paging |-> TRUE],
             [state |-> "critical", paging |-> FALSE]}
MCSymmetry == Permutations(MCTwo)

Calm(s) == s \in {Nothing, Busy} \/ (~s.paging /\ s.state # "critical")
Labelled(s) == s \in {Nothing, Busy} \/ s.labelled

StoryInit == Init /\ story \in Stories
StoryNext ==
  /\ UNCHANGED story
  /\ \/ story = "any" /\ Next
     \/ /\ story = "starts" /\ Next
        /\ now' <= StartsTime /\ \A p \in Supervisors : Calm(held'[p])
     \/ /\ story = "pressure" /\ Next
        /\ boot' = 1 /\ (launch' # Nobody => ~launch'.bypass)
        /\ \A p \in Supervisors : Labelled(held'[p])

StorySpec == StoryInit /\ [][StoryNext]_<<vars, story>>
=============================================================================
