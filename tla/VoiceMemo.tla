------------------------------ MODULE VoiceMemo ------------------------------
(***************************************************************************)
(* F2: a broker uploads a voice memo (api/f2.py) and gets proposals for    *)
(* the fields of a ledger form (brokerage_ai/f2).                          *)
(*                                                                         *)
(* A process analyses one memo at a time.  The slot is claimed before the  *)
(* upload is parsed; the analysis is a task of its own, which outlives the *)
(* request when its caller goes away, and whose speech-to-text runs in a   *)
(* thread on a temporary file.                                             *)
(***************************************************************************)
EXTENDS Integers, FiniteSets

CONSTANTS
    Memo,      \* requests, each with its audio file
    Nothing,   \* no task, no ledger
    Field,     \* names of fields
    Columns,   \* ALLOWED_FIELDS of "property" and "buyer"
    Forms,     \* bound: the form that is open, its ledger and its filled fields
    Analyses   \* bound: what the model may answer

ASSUME VoiceAssumption ==
    /\ Nothing \notin Memo
    /\ Columns \in [{"property", "buyer"} -> SUBSET Field]
    \* f2Api.ts sends the fields of a form together with its ledger.
    /\ \A form \in Forms : form.ledger = Nothing => form.filled = {}

VARIABLES
    slot,         \* f2_analysis_busy
    analysisTask, \* f2_analysis_task
    uploader,     \* the requests
    audio,        \* the temporary files
    memoJob,      \* the tasks
    onDone,       \* whether the task releases the slot when it is done
    lifespan      \* of the application and its clients

voiceVars == <<slot, analysisTask, uploader, audio, memoJob, onDone, lifespan>>

NoJob == [at |-> "none"]
Away == [at |-> "away"]
Working == {m \in Memo : memoJob[m].at \in {"queued", "transcribing", "analysing"}}

VoiceInit ==
    /\ slot = FALSE /\ onDone = FALSE
    /\ analysisTask = Nothing
    /\ uploader = [m \in Memo |-> Away]
    /\ audio = {}
    /\ memoJob = [m \in Memo |-> NoJob]
    /\ lifespan = "serving"

-----------------------------------------------------------------------------
(* F2Pipeline: from an analysis to proposals.                                *)

\* _resolve_ledger_type
LedgerOf(type) ==
    CASE type = "sell" -> "property" [] type = "buy" -> "buyer" [] OTHER -> Nothing

\* _is_ledger_mismatch
Mismatch(open, ledger) == open # Nothing /\ ledger # Nothing /\ open # ledger

\* The fields whose quotation is in the transcript and that the ledger has.
Proposable(analysis, ledger) == analysis.fields \cap analysis.heard \cap Columns[ledger]

\* _build_proposals.  What the form holds counts only when it is of the same
\* ledger; a proposal for an empty field is ticked.
Proposals(form, analysis) ==
    LET ledger == LedgerOf(analysis.type)
        filled == IF form.ledger = ledger THEN form.filled ELSE {}
    IN IF ledger = Nothing \/ Mismatch(form.ledger, ledger) THEN {}
       ELSE {[field |-> f, ticked |-> f \notin filled] : f \in Proposable(analysis, ledger)}

-----------------------------------------------------------------------------
(* The request.                                                              *)

At(m, place) == uploader[m].at = place
UploaderGoes(m, place) == uploader' = [uploader EXCEPT ![m] = place]

\* F2AnalysisRoute: another request finds the slot taken.
Claim(m) ==
    /\ lifespan = "serving" /\ uploader[m].at \in {"away", "answered"}
    /\ IF slot
       THEN UploaderGoes(m, [at |-> "answered", what |-> [outcome |-> "busy"]]) /\ UNCHANGED slot
       ELSE UploaderGoes(m, [at |-> "parsing"]) /\ slot' = TRUE
    /\ UNCHANGED <<analysisTask, audio, memoJob, onDone, lifespan>>

\* _parse_current_fields, _validate_audio, then the file is made.
BeginCopy(m) ==
    /\ At(m, "parsing")
    /\ UploaderGoes(m, [at |-> "copying"])
    /\ audio' = audio \cup {m}
    /\ UNCHANGED <<slot, analysisTask, memoJob, onDone, lifespan>>

\* The upload is not allowed, too large, empty or broken off before there is a
\* task: its file goes with it.
Refuse(m) ==
    /\ uploader[m].at \in {"parsing", "copying"}
    /\ UploaderGoes(m, [at |-> "leaving", what |-> [outcome |-> "refused"]])
    /\ audio' = audio \ {m}
    /\ UNCHANGED <<slot, analysisTask, memoJob, onDone, lifespan>>

\* _copy_limited has ended; nothing is awaited until the task is known to the
\* application.
StartTask(m, form) ==
    /\ At(m, "copying")
    /\ UploaderGoes(m, [at |-> "waiting"])
    /\ analysisTask' = m
    /\ memoJob' = [memoJob EXCEPT ![m] = [at |-> "queued", form |-> form]]
    /\ UNCHANGED <<slot, audio, onDone, lifespan>>

\* The caller is cancelled; the shield keeps the task.
CallerLeaves(m) ==
    /\ At(m, "waiting")
    /\ UploaderGoes(m, [at |-> "leaving", what |-> [outcome |-> "gone"]])
    /\ UNCHANGED <<slot, analysisTask, audio, memoJob, onDone, lifespan>>

Answered(m) ==
    /\ At(m, "waiting") /\ memoJob[m].at = "done"
    /\ UploaderGoes(m, [at |-> "leaving", what |-> memoJob[m].what])
    /\ UNCHANGED <<slot, analysisTask, audio, memoJob, onDone, lifespan>>

\* _release_slot
ReleaseSlot ==
    /\ slot' = FALSE
    /\ analysisTask' = Nothing
    /\ memoJob' = [m \in Memo |-> IF m = analysisTask THEN NoJob ELSE memoJob[m]]

\* Faulty: the slot goes with its request.
TaskRunsOnNever == FALSE

TaskRunsOn == analysisTask # Nothing /\ memoJob[analysisTask].at # "done"

\* The end of the route: an unfinished task releases the slot itself.
LeaveRoute(m) ==
    /\ At(m, "leaving")
    /\ UploaderGoes(m, [at |-> "answered", what |-> uploader[m].what])
    /\ IF TaskRunsOn
       THEN onDone' = TRUE /\ UNCHANGED <<slot, analysisTask, memoJob>>
       ELSE ReleaseSlot /\ UNCHANGED onDone
    /\ UNCHANGED <<audio, lifespan>>

TaskReleases ==
    /\ onDone /\ analysisTask # Nothing /\ memoJob[analysisTask].at = "done"
    /\ ReleaseSlot
    /\ onDone' = FALSE
    /\ UNCHANGED <<uploader, audio, lifespan>>

-----------------------------------------------------------------------------
(* The task.                                                                 *)

JobGoes(m, from, to) ==
    /\ memoJob[m].at = from
    /\ memoJob' = [memoJob EXCEPT ![m].at = to]
    /\ UNCHANGED <<slot, analysisTask, uploader, audio, onDone, lifespan>>

StartThread(m) == JobGoes(m, "queued", "transcribing")
Transcribed(m) == m \in audio /\ JobGoes(m, "transcribing", "analysing")

\* _run_and_cleanup removes the file however the analysis ends.
EndJob(m, what) ==
    /\ memoJob' = [memoJob EXCEPT ![m] = [at |-> "done", what |-> what]]
    /\ audio' = audio \ {m}
    /\ UNCHANGED <<slot, analysisTask, uploader, onDone, lifespan>>

\* The audio cannot be decoded, nobody speaks, or the server fails.
NotTranscribed(m) == memoJob[m].at = "transcribing" /\ EndJob(m, [outcome |-> "failed"])
NotAnalysed(m) == memoJob[m].at = "analysing" /\ EndJob(m, [outcome |-> "failed"])

Analysed(m, analysis) ==
    /\ memoJob[m].at = "analysing"
    /\ EndJob(m, [outcome |-> "analysed", form |-> memoJob[m].form, analysis |-> analysis,
              proposals |-> Proposals(memoJob[m].form, analysis)])

-----------------------------------------------------------------------------
(* The application stops.                                                    *)

\* The server has no more requests.
BeginShutdown ==
    /\ lifespan = "serving"
    /\ \A m \in Memo : uploader[m].at \in {"away", "answered"}
    /\ lifespan' = "stopping"
    /\ UNCHANGED <<slot, analysisTask, uploader, audio, memoJob, onDone>>

\* gather of the task, then F2Runtime.close.
CloseClients ==
    /\ lifespan = "stopping"
    /\ ~TaskRunsOn
    /\ lifespan' = "closed"
    /\ UNCHANGED <<slot, analysisTask, uploader, audio, memoJob, onDone>>

VoiceNext ==
    \/ \E m \in Memo :
          \/ Claim(m) \/ BeginCopy(m) \/ Refuse(m)
          \/ \E form \in Forms : StartTask(m, form)
          \/ CallerLeaves(m) \/ Answered(m) \/ LeaveRoute(m)
          \/ StartThread(m) \/ Transcribed(m) \/ NotTranscribed(m) \/ NotAnalysed(m)
          \/ \E analysis \in Analyses : Analysed(m, analysis)
    \/ TaskReleases \/ BeginShutdown \/ CloseClients

VoiceSpec == VoiceInit /\ [][VoiceNext]_voiceVars

-----------------------------------------------------------------------------

\* Whatever a caller does, an audio file on the disk or an analysis in progress
\* has the slot, is alone, and finds the clients open: the next upload is
\* admitted only when the file is gone (F2AnalysisRoute, main.py lifespan).
AnalysisKeepsItsSlot ==
    /\ Cardinality(audio \cup Working) <= 1
    /\ audio \cup Working # {} => slot /\ lifespan # "closed"
    /\ Working \subseteq audio

\* A proposal that is ticked when the broker first sees it was heard on the memo
\* and is for a field the open form left empty (_build_proposals with the test
\* of the ledger in run).
TickedProposalsFillGaps ==
    \A m \in Memo :
        (uploader[m].at = "answered" /\ uploader[m].what.outcome = "analysed") =>
            LET shown == uploader[m].what
            IN \A p \in shown.proposals :
                  p.ticked => p.field \in shown.analysis.heard \ shown.form.filled

\* What a memo costs and what it leaves: one analysis at a time, whoever leaves
\* in the middle, and proposals that overwrite nothing by themselves.
VoiceMemoIsSafe == AnalysisKeepsItsSlot /\ TickedProposalsFillGaps

=============================================================================
