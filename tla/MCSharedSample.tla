--------------------------- MODULE MCSharedSample ---------------------------
(***************************************************************************)
(* Small instances of SharedSample for TLC.                                *)
(***************************************************************************)
EXTENDS SharedSample

CONSTANTS a, b, c, K, L

MCThree == {a, b, c}
\* c has another configuration than a and b.
MCTwoKeys == [p \in Supervisors |-> IF p = c THEN L ELSE K]
MCOnlyA == {a}
=============================================================================
