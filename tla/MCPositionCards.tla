--------------------------- MODULE MCPositionCards ---------------------------
(* The instances of PositionCards that TLC checks. *)
EXTENDS PositionCards, TLC

CardSymmetry ==
    Permutations(Worker) \cup Permutations(Requirement) \cup Permutations(Run)

\* Two runs are followed through one claim each, one run alone through all of
\* its claims: the retries of one run and the races of two are separate cases.
RetriesOrRaces ==
    (\A r \in Run : run[r] # NoRun) =>
        \A r \in Run : run[r].attempt <= 1

=============================================================================
