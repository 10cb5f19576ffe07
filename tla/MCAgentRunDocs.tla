--------------------------- MODULE MCAgentRunDocs ---------------------------
(* The instances of AgentRunDocs that TLC checks. *)
EXTENDS AgentRunDocs, TLC

WorkerSymmetry == Permutations(Worker)

=============================================================================
