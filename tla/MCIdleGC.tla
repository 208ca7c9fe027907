------------------------------ MODULE MCIdleGC ------------------------------
(***************************************************************************)
(* Small instances of IdleGC for TLC: the agents A and B, with the sessions*)
(* a and b in one project, and a development server of A.                  *)
(***************************************************************************)
EXTENDS IdleGC

CONSTANTS A, B, a, b, project, server

MCAgents == {A, B}
MCSessions == {a, b}
MCAgentOf == [s \in Sessions |-> IF s = a THEN A ELSE B]
MCProjectOf == [s \in Sessions |-> project]
MCHelpers == {server}
MCOwnerOf == [h \in Helpers |-> A]
MCFirstSession == {a}
MCSecondSession == {b}
MCSecondAgent == {B}
MCNobody == {}

\* While the marker of a failed hook lies there nothing is authorized, and nothing
\* takes it away.
Unmarked == ~stuck
=============================================================================
