----------------------------- MODULE MCScheduler -----------------------------
(***************************************************************************)
(* Small instances of Scheduler for TLC.                                   *)
(***************************************************************************)
EXTENDS Scheduler

CONSTANTS a, b, c, S, T, server

MCTwo == {a, b}
MCThree == {a, b, c}
MCTwoSessions == {S, T}
MCResources == {server}

\* a and c belong to one session, b to another.
MCSessionOf == [r \in Runs |-> IF r = b THEN T ELSE S]
\* All requests are finite / all ask for one server.
MCAllFinite == [r \in Runs |-> NoResource]
MCAllServer == [r \in Runs |-> server]
\* c is finite, the others, of two sessions, ask for the server.
MCMixed == [r \in Runs |-> IF r = c THEN NoResource ELSE server]
MCNobody == {}
MCOnlyA == {a}
MCOnlyB == {b}
\* The command of a, and nothing of the others, is an agent CLI.
MCNoAgents == [r \in Runs |-> {}]
MCAgentA == [r \in Runs |-> IF r = a THEN {"leader"} ELSE {}]
=============================================================================
