---------------------------- MODULE MCAgentRun ----------------------------
(* Small instances of AgentRun for TLC. *)
EXTENDS AgentRun, TLC

CONSTANTS q1, q2

MCPlans == {<<FALSE>>, <<TRUE>>, <<FALSE, TRUE>>, <<TRUE, FALSE>>, <<TRUE, FALSE, FALSE>>, <<TRUE, FALSE, TRUE>>,
            <<FALSE, FALSE, TRUE>>}

MCSymmetry == Permutations(Requests)
=============================================================================
