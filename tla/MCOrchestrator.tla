---------------------------- MODULE MCOrchestrator ----------------------------
(* Small instances of Orchestrator for TLC. *)
EXTENDS OrchestratorProperties

CONSTANTS t1, t2, b1, b2

D(t, b) == [id |-> t, body |-> b]

\* A plan of two steps, its revisions to one step and to two with the same id,
\* and a draft in which nothing parses.
MCDrafts == {<<D(t1, b1), D(t2, b2)>>, <<D(t2, b1)>>, <<D(t2, b1), D(t2, b2)>>, <<>>}

\* A single plan: the runs that are about its execution.
MCOnePlan == {<<D(t1, b1), D(t2, b2)>>}
=============================================================================
