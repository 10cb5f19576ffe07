----------------------------- MODULE ChatEvents -----------------------------
(***************************************************************************)
(* The event stream of a request (GET /requests/{id}/events) beside the    *)
(* chatbot: it polls the row and tells the client what has a new revision. *)
(***************************************************************************)
EXTENDS Chatbot

VARIABLE stream  \* per request: one client's subscription

eventVars == <<vars, stream>>

NoStream == [at |-> "none", seen |-> 0, told |-> "NONE"]

EventsInit == Init /\ stream = [r \in Request |-> NoStream]

\* What a client has been told after it is sent the row; an ending closes.
Sent(r) ==
    [at |-> IF req[r].status \in TerminalStatus THEN "closed" ELSE "open",
     seen |-> req[r].revision, told |-> req[r].status]

\* The stream begins with a snapshot.
Subscribe(r) ==
    /\ stream[r] = NoStream
    /\ Stored(r)
    /\ stream' = [stream EXCEPT ![r] = Sent(r)]
    /\ UNCHANGED vars

\* One poll: a row that is gone closes the stream without a word, a new
\* revision is sent, and an ending closes whether it was sent or not.
Poll(r) ==
    /\ stream[r].at = "open"
    /\ stream' = [stream EXCEPT ![r] =
          IF ~Stored(r) THEN [@ EXCEPT !.at = "closed"]
          ELSE IF req[r].revision > stream[r].seen THEN Sent(r)
          ELSE [@ EXCEPT !.at = Sent(r).at]]
    /\ UNCHANGED vars

Disconnect(r) ==
    /\ stream[r].at = "open"
    /\ stream' = [stream EXCEPT ![r].at = "left"]
    /\ UNCHANGED vars

EventsNext ==
    \/ Next /\ UNCHANGED stream
    \/ \E r \in Request : Subscribe(r) \/ Poll(r) \/ Disconnect(r)

EventsSpec ==
    /\ EventsInit /\ [][EventsNext]_eventVars
    /\ Fairness /\ \A r \in Request : WF_eventVars(Poll(r))

-----------------------------------------------------------------------------
\* A client whose stream was closed by the server knows how the request ended:
\* every ending has a revision of its own, so none is swallowed between two
\* polls, whoever wrote it (transition, interrupt_stale, close).
StreamTellsTheEnd ==
    \A r \in Request :
        stream[r].at = "closed" /\ Stored(r) => stream[r].told = req[r].status

\* No client waits for ever on a stream that has nothing more to say.
EveryStreamCloses == \A r \in Request : (stream[r].at = "open") ~> (stream[r].at # "open")

\* Under the fairness of the server's tasks and sweeps nothing waits for ever:
\* no request, no slot and no client (run_request, close_stale, the stream).
EverythingEnds == EveryRequestEnds /\ EverySlotReturns /\ EveryStreamCloses

=============================================================================
