------------------------------ MODULE Chatbot ------------------------------
(***************************************************************************)
(* The chatbot: conversations and requests in PostgreSQL, and the backend  *)
(* instances that admit a question, run it as a task of their event loop,  *)
(* and write its progress and its end in short transactions of worker      *)
(* threads.  A thread once started is not stopped by the cancellation or   *)
(* the timeout of the task that waits for it.                              *)
(*                                                                         *)
(* A step is one transaction, or one turn of an event loop between two     *)
(* awaits.                                                                 *)
(*                                                                         *)
(* A definition under a comment that begins with "Faulty" is a plausible   *)
(* mistake in the definition after it, which the properties must catch;    *)
(* no action uses it.                                                      *)
(***************************************************************************)
EXTENDS Naturals, Sequences, FiniteSets

CONSTANTS
    Conversation,  \* ids of chat_conversation; a deleted one is not reused
    Instance,      \* instance ids; a restarted process gets a new one
    NoInstance,
    Key,           \* client_request_id
    Capacity,      \* max_concurrent_requests
    MaxRequests,   \* bound: rows of chat_request ever inserted
    MaxVersion,    \* bound: state_version
    MaxRevision    \* bound: revision before the last one

ASSUME ChatConstants ==
    /\ NoInstance \notin Instance
    /\ Capacity \in Nat \ {0}
    /\ MaxRequests \in Nat \ {0}
    /\ MaxVersion \in Nat \ {0}
    /\ MaxRevision \in Nat \ {0}

VARIABLES
    conv,   \* chat_conversation with its chat_message rows in order
    req,    \* chat_request
    inst,   \* ChatbotManager of each instance
    task,   \* per request: where its task is, and on which instance
    calls   \* per request: transitions handed to a thread, not yet committed

vars == <<conv, req, inst, task, calls>>

Request == 1..MaxRequests

-----------------------------------------------------------------------------
(* Rows. *)

ActiveStatus == {"ACCEPTED", "RUNNING"}
TerminalStatus == {"COMPLETED", "FAILED", "CANCELLED", "INTERRUPTED"}

\* What a sweep finds of an active request's deadline_at and heartbeat_at.
Clock == {"fresh", "stale", "overdue"}

RequestRow ==
    [status: ActiveStatus \cup TerminalStatus, conv: Conversation, key: Key,
     revision: Nat, clock: Clock]
NoRequest == [status |-> "NONE"]
Deleted == [status |-> "DELETED"]

Message == [role: {"user", "assistant"}, request: Request]

\* filters: the request whose search conditions are in force, or 0.
ConversationRow ==
    [state: {"new", "open", "gone"}, version: Nat,
     filters: Request \cup {0}, log: Seq(Message)]

Stored(r) == req[r].status \in ActiveStatus \cup TerminalStatus
Active(r) == req[r].status \in ActiveStatus
ActiveOf(c) == {r \in Request : Active(r) /\ req[r].conv = c}

-----------------------------------------------------------------------------
(* Tasks and their calls. *)

\* Under the task's timeout: awaiting RUNNING, at work, awaiting a stage,
\* awaiting the completion.
Timed == {"start", "work", "report", "complete"}
Place == Timed \cup {"none", "new", "fail", "interrupt", "over"}

\* complete, without search results or with them.
Answer == {"ANSWERED", "FOUND"}
Call == {"RUNNING", "STAGE", "FAILED", "INTERRUPTED"} \cup Answer

\* What a task at a place waits for.
Awaits(place) ==
    CASE place = "start"     -> {"RUNNING"}
      [] place = "report"    -> {"STAGE"}
      [] place = "complete"  -> Answer
      [] place = "fail"      -> {"FAILED"}
      [] place = "interrupt" -> {"INTERRUPTED"}
      [] OTHER               -> {}

\* self.tasks of an instance: a task leaves it when it is over.
Tasks(i) == {r \in Request : task[r].on = i /\ task[r].at # "over"}

NoSubmit == [at |-> "none", request |-> 0]

Init ==
    /\ conv = [c \in Conversation |->
                 [state |-> "new", version |-> 1, filters |-> 0, log |-> <<>>]]
    /\ req = [r \in Request |-> NoRequest]
    /\ inst = [i \in Instance |->
                 [phase |-> "new", submit |-> NoSubmit, walk |-> {}]]
    /\ task = [r \in Request |-> [at |-> "none", on |-> NoInstance]]
    /\ calls = [r \in Request |-> {}]

-----------------------------------------------------------------------------
(* ChatStore.transition, the one way a request moves. *)

StatusOf(r, call) ==
    CASE call = "STAGE"     -> req[r].status
      [] call \in Answer   -> "COMPLETED"
      [] OTHER              -> call

\* Each change is visible in the revision; the transition is a heartbeat.
Moved(r, call) ==
    [req[r] EXCEPT
        !.status = StatusOf(r, call),
        !.revision = @ + 1,
        !.clock = IF @ = "overdue" /\ StatusOf(r, call) \in ActiveStatus
                  THEN @ ELSE "fresh"]

\* The answer is a message; one that brings search results also replaces the
\* conditions in force.
Answered(row, r, call) ==
    [row EXCEPT !.log = Append(@, [role |-> "assistant", request |-> r]),
                !.filters = IF call = "FOUND" THEN r ELSE @,
                !.version = IF call = "FOUND" THEN @ + 1 ELSE @]

\* Faulty: looks at the row before it has the lock of the conversation, and
\* moves it if it is still there.
TransitionUnchecked(r, call) ==
    IF Stored(r)
    THEN /\ req' = [req EXCEPT ![r] = Moved(r, call)]
         /\ conv' = IF call \in Answer
                    THEN [conv EXCEPT ![req[r].conv] = Answered(@, r, call)]
                    ELSE conv
    ELSE UNCHANGED <<req, conv>>

\* Under the lock of its conversation, an active request moves; one that has
\* ended, or was deleted, does not.
Transition(r, call) ==
    IF Active(r)
    THEN /\ req' = [req EXCEPT ![r] = Moved(r, call)]
         /\ conv' = IF call \in Answer
                    THEN [conv EXCEPT ![req[r].conv] = Answered(@, r, call)]
                    ELSE conv
    ELSE UNCHANGED <<req, conv>>

-----------------------------------------------------------------------------
(* The broker's requests. *)

Create(c) ==
    /\ conv[c].state = "new"
    /\ conv' = [conv EXCEPT ![c].state = "open"]
    /\ UNCHANGED <<req, inst, task, calls>>

HasSlot(i) == Cardinality(Tasks(i)) < Capacity

\* submit: under the admission lock of the instance, the slot is looked up
\* before the transaction begins.  (Without one nothing can be accepted.)
SubmitBegin(i) ==
    /\ inst[i].phase = "up"
    /\ inst[i].submit = NoSubmit
    /\ HasSlot(i)
    /\ inst' = [inst EXCEPT ![i].submit.at = "accepting"]
    /\ UNCHANGED <<conv, req, task, calls>>

\* Faulty: knows a key only while its request is active.
SubmittedActive(c, k) ==
    {r \in Request : Active(r) /\ req[r].conv = c /\ req[r].key = k}

Submitted(c, k) ==
    {r \in Request : Stored(r) /\ req[r].conv = c /\ req[r].key = k}

\* Faulty: takes the version for the proof that nothing is in progress.
AcceptableByVersion(c, k) == conv[c].state = "open" /\ Submitted(c, k) = {}

\* The question names the present version of the conversation.
Acceptable(c, k) ==
    /\ conv[c].state = "open"
    /\ Submitted(c, k) = {}
    /\ ActiveOf(c) = {}

\* The row and the question's message in one transaction.
Accept(i, c, k) ==
    /\ inst[i].submit.at = "accepting"
    /\ Acceptable(c, k)
    /\ \E r \in Request :
        /\ \A q \in Request : (req[q].status = "NONE") <=> (q >= r)
        /\ req' = [req EXCEPT ![r] =
              [status |-> "ACCEPTED", conv |-> c, key |-> k, revision |-> 1,
               clock |-> "fresh"]]
        /\ conv' = [conv EXCEPT ![c].log =
              Append(@, [role |-> "user", request |-> r])]
        /\ inst' = [inst EXCEPT ![i].submit =
              [at |-> "accepted", request |-> r]]
    /\ UNCHANGED <<task, calls>>

\* Any other outcome leaves everything as it is: the key is known (its request
\* is returned, or the question differs), another question is in progress, the
\* version is old, no slot, an expired reference, a failed statement.
Refuse(i) ==
    /\ inst[i].submit.at = "accepting"
    /\ inst' = [inst EXCEPT ![i].submit = NoSubmit]
    /\ UNCHANGED <<conv, req, task, calls>>

\* Back on the event loop, which may be closing by now: the task is created.
SubmitEnds(i) ==
    /\ inst[i].submit.at = "accepted"
    /\ task' = [task EXCEPT ![inst[i].submit.request] = [at |-> "new", on |-> i]]
    /\ inst' = [inst EXCEPT ![i].submit = NoSubmit]
    /\ UNCHANGED <<conv, req, calls>>

\* cancel marks the row; the task finds out at its next transition.
Cancel(r) ==
    /\ Active(r)
    /\ Transition(r, "CANCELLED")
    /\ UNCHANGED <<inst, task, calls>>

\* Faulty: resets under a question in progress.
ResettableAnyTime(c) == conv[c].state = "open" /\ conv[c].version < MaxVersion

\* reset, for a client that knows the present version.
Resettable(c) ==
    /\ conv[c].state = "open"
    /\ ActiveOf(c) = {}
    /\ conv[c].version < MaxVersion

Reset(c) ==
    /\ Resettable(c)
    /\ conv' = [conv EXCEPT ![c].filters = 0, ![c].version = @ + 1]
    /\ UNCHANGED <<req, inst, task, calls>>

\* remove deletes the conversation with its messages and requests; their tasks
\* keep their slots.
Remove(c) ==
    /\ conv[c].state = "open"
    /\ conv' = [conv EXCEPT ![c].state = "gone", ![c].log = <<>>,
                            ![c].filters = 0]
    /\ req' = [r \in Request |->
                 IF Stored(r) /\ req[r].conv = c THEN Deleted ELSE req[r]]
    /\ UNCHANGED <<inst, task, calls>>

-----------------------------------------------------------------------------
(* The task of a request: _run. *)

Begins(r) ==
    /\ task[r].at = "new"
    /\ task' = [task EXCEPT ![r].at = "start"]
    /\ calls' = [calls EXCEPT ![r] = @ \cup {"RUNNING"}]
    /\ UNCHANGED <<conv, req, inst>>

\* A progress or a search is written before the workflow goes on.
Reports(r) ==
    /\ task[r].at = "work"
    /\ Active(r) => req[r].revision < MaxRevision
    /\ task' = [task EXCEPT ![r].at = "report"]
    /\ calls' = [calls EXCEPT ![r] = @ \cup {"STAGE"}]
    /\ UNCHANGED <<conv, req, inst>>

\* The workflow returns an answer, with search results or without.
Answers(r, call) ==
    /\ task[r].at = "work"
    /\ call = "FOUND" /\ Active(r) => conv[req[r].conv].version < MaxVersion
    /\ task' = [task EXCEPT ![r].at = "complete"]
    /\ calls' = [calls EXCEPT ![r] = @ \cup {call}]
    /\ UNCHANGED <<conv, req, inst>>

\* The context is read for an active request only.
FindsItEnded(r) ==
    /\ task[r].at = "work"
    /\ ~Active(r)
    /\ task' = [task EXCEPT ![r].at = "over"]
    /\ UNCHANGED <<conv, req, inst, calls>>

\* Where a task goes when the call it waits for has returned: a start that is
\* refused is the end of it, a stage that is refused cancels it.
After(place, accepted) ==
    CASE place = "start" /\ accepted   -> "work"
      [] place = "report" /\ accepted  -> "work"
      [] place = "report" /\ ~accepted -> "interrupt"
      [] OTHER                         -> "over"

\* A call commits, whether its task still waits for it or not.
Commit(r, call) ==
    LET awaited == call \in Awaits(task[r].at)
        place == IF awaited THEN After(task[r].at, Active(r)) ELSE task[r].at
    IN
    /\ call \in calls[r]
    /\ Transition(r, call)
    /\ task' = [task EXCEPT ![r].at = place]
    /\ calls' = [calls EXCEPT ![r] =
          (@ \ {call}) \cup
              (IF awaited /\ place = "interrupt" THEN {"INTERRUPTED"} ELSE {})]
    /\ UNCHANGED inst

\* The deadline is reached, the model, the search or a statement fails.  A
\* thread that has started goes on; the call of one that never started, or
\* that failed, is a call that never commits.
Failable(r) == task[r].at \in Timed

StepFails(r) ==
    /\ Failable(r)
    /\ calls' = [calls EXCEPT ![r] = @ \cup {"FAILED"}]
    /\ task' = [task EXCEPT ![r].at = "fail"]
    /\ UNCHANGED <<conv, req, inst>>

\* The failure or the interruption cannot be written: suppressed.
LastCallFails(r) ==
    /\ task[r].at \in {"fail", "interrupt"}
    /\ calls' = [calls EXCEPT ![r] = @ \ Awaits(task[r].at)]
    /\ task' = [task EXCEPT ![r].at = "over"]
    /\ UNCHANGED <<conv, req, inst>>

-----------------------------------------------------------------------------
(* Maintenance, stop and start of instances. *)

\* Time passes without a heartbeat, or beyond the deadline.
HeartbeatLapses(r) ==
    /\ Active(r) /\ req[r].clock = "fresh"
    /\ req' = [req EXCEPT ![r].clock = "stale"]
    /\ UNCHANGED <<conv, inst, task, calls>>

DeadlinePasses(r) ==
    /\ Active(r) /\ req[r].clock # "overdue"
    /\ req' = [req EXCEPT ![r].clock = "overdue"]
    /\ UNCHANGED <<conv, inst, task, calls>>

\* _maintain: a transition that changes nothing else.
Heartbeat(i, r) ==
    /\ inst[i].phase = "up"
    /\ r \in Tasks(i)
    /\ Active(r) /\ req[r].clock = "stale"
    /\ req' = [req EXCEPT ![r].clock = "fresh"]
    /\ UNCHANGED <<conv, inst, task, calls>>

\* Faulty: interrupts without a new revision.
InterruptedSilently(r) ==
    [req[r] EXCEPT !.status = "INTERRUPTED", !.clock = "fresh"]

Interrupted(r) ==
    [req[r] EXCEPT !.status = "INTERRUPTED", !.clock = "fresh",
                   !.revision = @ + 1]

\* Faulty: an instance looks after its own requests.
SweptByOwner(i, r) ==
    inst[i].phase = "up" /\ task[r].on = i /\ Active(r) /\ req[r].clock # "fresh"

Swept(i, r) == inst[i].phase = "up" /\ Active(r) /\ req[r].clock # "fresh"

\* interrupt_stale, of any instance for every request: the candidates are read
\* without a lock and looked at again under the conversation's.
InterruptStale(r) ==
    /\ \E i \in Instance : Swept(i, r)
    /\ req' = [req EXCEPT ![r] = Interrupted(r)]
    /\ UNCHANGED <<conv, inst, task, calls>>

Start(i) ==
    /\ inst[i].phase = "new"
    /\ inst' = [inst EXCEPT ![i].phase = "up"]
    /\ UNCHANGED <<conv, req, task, calls>>

\* (Bound: one instance stays up, or is still to come.)
AnotherServes(i) == \E j \in Instance \ {i} : inst[j].phase \in {"new", "up"}

\* close: no more submissions, no more maintenance, and a walk over the tasks
\* of this moment.
CloseBegin(i) ==
    /\ inst[i].phase = "up"
    /\ AnotherServes(i)
    /\ inst' = [inst EXCEPT ![i].phase = "closing", ![i].walk = Tasks(i)]
    /\ UNCHANGED <<conv, req, task, calls>>

\* Each task's request is marked INTERRUPTED (or not, if that fails), then the
\* task is cancelled: before its first step it vanishes, at work it turns to
\* writing INTERRUPTED, and while it writes its end it is over.
CloseTask(i, r) ==
    /\ r \in inst[i].walk
    /\ inst' = [inst EXCEPT ![i].walk = @ \ {r}]
    /\ \/ /\ task[r].at = "over"
          /\ UNCHANGED <<conv, req, task, calls>>
       \/ /\ task[r].at # "over"
          /\ Transition(r, "INTERRUPTED") \/ UNCHANGED <<conv, req>>
          /\ \/ /\ task[r].at \in Timed
                /\ task' = [task EXCEPT ![r].at = "interrupt"]
                /\ calls' = [calls EXCEPT ![r] = @ \cup {"INTERRUPTED"}]
             \/ /\ task[r].at \notin Timed
                /\ task' = [task EXCEPT ![r].at = "over"]
                /\ UNCHANGED calls

\* All tasks have ended; the process stops, with a submission it may be in.
Exit(i) ==
    /\ inst[i].phase = "closing" /\ inst[i].walk = {} /\ Tasks(i) = {}
    /\ inst' = [inst EXCEPT ![i].phase = "down", ![i].submit = NoSubmit]
    /\ UNCHANGED <<conv, req, task, calls>>

Crash(i) ==
    /\ inst[i].phase \in {"up", "closing"}
    /\ AnotherServes(i)
    /\ inst' = [inst EXCEPT ![i] =
          [phase |-> "down", submit |-> NoSubmit, walk |-> {}]]
    /\ task' = [r \in Request |->
                  IF task[r].on = i THEN [task[r] EXCEPT !.at = "over"] ELSE task[r]]
    /\ calls' = [r \in Request |-> IF task[r].on = i THEN {} ELSE calls[r]]
    /\ UNCHANGED <<conv, req>>

-----------------------------------------------------------------------------
\* What an event loop and its threads go on with by themselves.
Proceeds(r) ==
    \/ Begins(r) \/ StepFails(r) \/ LastCallFails(r)
    \/ \E call \in Awaits(task[r].at) : Commit(r, call)

Works(r) ==
    Reports(r) \/ FindsItEnded(r)
    \/ \E call \in Answer : Answers(r, call)

Next ==
    \/ \E c \in Conversation : Create(c) \/ Reset(c) \/ Remove(c)
    \/ \E i \in Instance :
        \/ \E c \in Conversation, k \in Key : Accept(i, c, k)
        \/ SubmitBegin(i) \/ Refuse(i) \/ SubmitEnds(i)
        \/ Start(i) \/ CloseBegin(i) \/ Exit(i) \/ Crash(i)
        \/ \E r \in Request : Heartbeat(i, r) \/ CloseTask(i, r)
    \/ \E r \in Request :
        \/ Cancel(r) \/ Proceeds(r) \/ Works(r)
        \/ \E call \in Call \ Awaits(task[r].at) : Commit(r, call)
        \/ HeartbeatLapses(r) \/ DeadlinePasses(r) \/ InterruptStale(r)

Spec == Init /\ [][Next]_vars

\* A process that is deployed comes up and sweeps every few seconds, the clock
\* goes on, a task's timer fires and a thread returns.  The model and the
\* search owe nothing, nor do brokers, heartbeats, stops and crashes.
Fairness ==
    /\ \A i \in Instance : WF_vars(Start(i))
    /\ \A r \in Request :
        /\ WF_vars(Proceeds(r))
        /\ WF_vars(DeadlinePasses(r)) /\ WF_vars(InterruptStale(r))

FairSpec == Spec /\ Fairness

-----------------------------------------------------------------------------
(* Properties. *)

TypeOK ==
    /\ conv \in [Conversation -> ConversationRow]
    /\ req \in [Request -> RequestRow \cup {NoRequest, Deleted}]
    /\ inst \in [Instance ->
          [phase: {"new", "up", "closing", "down"}, walk: SUBSET Request,
           submit: [at: {"none", "accepting", "accepted"},
                    request: Request \cup {0}]]]
    /\ task \in [Request -> [at: Place, on: Instance \cup {NoInstance}]]
    /\ calls \in [Request -> SUBSET Call]

\* Tabs and instances that submit at the same time get one question through:
\* a conversation never has two in progress (accept).
OneActiveRequest ==
    \A q, r \in Request :
        Active(q) /\ Active(r) /\ req[q].conv = req[r].conv => q = r

\* A question is asked once: no two requests of a conversation have the same
\* client_request_id, whenever and wherever it was sent again (accept).
SubmittedOnce ==
    \A q, r \in Request :
        /\ Stored(q) /\ Stored(r)
        /\ req[q].conv = req[r].conv /\ req[q].key = req[r].key
        => q = r

\* The transcript is one of turns: a request has its question in it once, an
\* answer exactly if it is COMPLETED, and right behind the question, whichever
\* of an answer, a timeout, a cancellation, a stop or a sweep came late.
TranscriptInTurns ==
    \A r \in Request : Stored(r) =>
        LET log == conv[req[r].conv].log
            mine == {n \in DOMAIN log : log[n].request = r}
        IN
        \E n \in mine :
            /\ log[n].role = "user"
            /\ IF req[r].status = "COMPLETED"
               THEN mine = {n, n + 1} /\ log[n + 1].role = "assistant"
               ELSE mine = {n}

\* An instance never runs more tasks than it has slots, also when requests are
\* cancelled, interrupted or deleted under tasks that go on (submit, remove).
SlotsBound == \A i \in Instance : Cardinality(Tasks(i)) <= Capacity

Outcome(r) ==
    CASE req[r].status = "NONE"      -> "none"
      [] req[r].status = "DELETED"   -> "erased"
      [] Active(r)                   -> "pending"
      [] req[r].status = "COMPLETED" -> "answered"
      [] OTHER                       -> "unanswered"

Conversations == INSTANCE ChatConversation WITH
    state <- [c \in Conversation |-> conv[c].state],
    outcome <- [r \in Request |-> Outcome(r)],
    askedIn <- [r \in Request |-> IF Stored(r) THEN req[r].conv ELSE "nowhere"],
    context <- [c \in Conversation |-> conv[c].filters]

\* Whatever races inside, a broker sees questions asked one at a time, settled
\* once and for good, under search conditions nobody changes meanwhile.
ImplementsConversation == Conversations!Spec

\* Every accepted question ends, also when its instance dies before its task
\* exists, or stops while nobody watches (interrupt_stale).
EveryRequestEnds == \A r \in Request : Active(r) ~> ~Active(r)

\* A slot comes back, also when the request is deleted under a model that does
\* not answer: by the deadline at the latest (remove).
EverySlotReturns ==
    \A r \in Request : (task[r].at \notin {"none", "over"}) ~> (task[r].at = "over")

=============================================================================
