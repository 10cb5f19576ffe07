---------------------------- MODULE AgentRunDocs ----------------------------
(* Two statements of the repository's documents and comments about the runs of *)
(* AgentRun, which the code does not keep.                                     *)
EXTENDS AgentRun

\* ADR-0018: taking over an ANCHOR_READY run "does not touch the lease of a
\* working Worker".
ResumeSparesWorkerLease ==
    [][\A w \in Worker :
         /\ job[w].run # 0
         /\ run[job[w].run].owner = w
         /\ job' = job
         => run'[job[w].run].owner = w]_vars

\* service.py: "whatever stage the run the save made is in, the user's
\* request for a judgment is remembered" in the run the user is given.
UserRequestRemembered == \A r \in answered : run[r].trigger = "USER_REQUEST"

=============================================================================
