---------------------------- MODULE RunLifecycle ----------------------------
(***************************************************************************)
(* What a client that polls its F3 runs may rely on, without workers,      *)
(* leases or attempts: the statuses of a run follow one line, retries and  *)
(* crashes never take it back, an ending is final, and a run a save filed  *)
(* rests with its anchor card until a user wants it.                       *)
(***************************************************************************)
EXTENDS Naturals

CONSTANT Run

VARIABLES
    stage,   \* the public status of each run
    wanted   \* whether a user has asked for the judgment

vars == <<stage, wanted>>

Terminal == {"COMPLETED", "FAILED_TERMINAL", "SUPERSEDED"}
Begun == {"RUNNING", "ANCHOR_READY", "CANDIDATES_READY",
          "CANDIDATE_CARDS_READY", "JUDGING"}
Stage == {"ABSENT", "QUEUED"} \cup Begun \cup Terminal

\* The stages a user pays for.
OnRequest == {<<"ANCHOR_READY", "CANDIDATES_READY">>,
              <<"CANDIDATES_READY", "CANDIDATE_CARDS_READY">>,
              <<"CANDIDATE_CARDS_READY", "JUDGING">>,
              <<"CANDIDATE_CARDS_READY", "COMPLETED">>,
              <<"JUDGING", "COMPLETED">>}
Unasked == {<<"QUEUED", "RUNNING">>, <<"RUNNING", "ANCHOR_READY">>}

Rests(r) == stage[r] = "ANCHOR_READY" /\ ~wanted[r]

Init ==
    /\ stage = [r \in Run |-> "ABSENT"]
    /\ wanted = [r \in Run |-> FALSE]

File(r) ==
    /\ stage[r] = "ABSENT"
    /\ stage'[r] = "QUEUED"

Want(r) ==
    /\ stage[r] \in Begun \cup {"QUEUED"}
    /\ wanted'[r]
    /\ stage'[r] = stage[r]

Advance(r) ==
    /\ \/ <<stage[r], stage'[r]>> \in Unasked
       \/ wanted[r] /\ <<stage[r], stage'[r]>> \in OnRequest
    /\ wanted'[r] = wanted[r]

\* A run ends early by a failure or a change of its input, never at rest.
EndEarly(r) ==
    /\ stage[r] \in Begun
    /\ ~Rests(r)
    /\ stage'[r] \in {"FAILED_TERMINAL", "SUPERSEDED"}
    /\ wanted'[r] = wanted[r]

Stays(r) == stage'[r] = stage[r] /\ wanted'[r] = wanted[r]

\* Several runs may move at once: one poll ends the hopeless and starts one.
Next ==
    /\ stage' \in [Run -> Stage]
    /\ wanted' \in [Run -> BOOLEAN]
    /\ \A r \in Run : File(r) \/ Want(r) \/ Advance(r) \/ EndEarly(r) \/ Stays(r)

Spec == Init /\ [][Next]_vars

\* Whatever fails on the way, a filed run ends or rests, and a wanted one ends.
Settles ==
    /\ \A r \in Run : (stage[r] = "QUEUED") ~> (stage[r] \in Terminal \/ Rests(r))
    /\ \A r \in Run : (stage[r] \in Begun /\ wanted[r]) ~> (stage[r] \in Terminal)

=============================================================================
