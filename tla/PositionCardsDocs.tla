-------------------------- MODULE PositionCardsDocs --------------------------
(* A statement of the API contract about the runs of PositionCards, which the  *)
(* code does not keep.                                                         *)
EXTENDS PositionCards

\* "SUPERSEDED when the input version or the consultation scope changes during
\* the run" (api-f3): a run never completes with an anchor card written from
\* other consultations than the anchor has.
ScopeChangeSupersedes ==
    [][\A r \in Run :
         run[r].status = "JUDGING" /\ run'[r].status = "COMPLETED" =>
            \E w \in Worker :
                /\ Verifies(w, r, "conclude")
                /\ cards[run[r].anchorCard].input =
                       job[w].seen.ledger[run[r].anchor]]_vars

=============================================================================
