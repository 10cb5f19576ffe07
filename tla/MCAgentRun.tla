----------------------------- MODULE MCAgentRun -----------------------------
(* The instances of AgentRun that TLC checks. *)
EXTENDS AgentRun, TLC

WorkerSymmetry == Permutations(Worker)

=============================================================================
