-------------------------- MODULE ChatConversation --------------------------
(***************************************************************************)
(* What a broker sees of a chatbot conversation, without instances, tasks, *)
(* timeouts or races: questions are asked one at a time, each is settled   *)
(* once and for good, and the search conditions in force are those of an   *)
(* answer or none, and never change under a pending question.              *)
(***************************************************************************)
EXTENDS Naturals

CONSTANTS Conversation, Request

VARIABLES
    state,    \* per conversation: new, open or gone
    outcome,  \* per question: none, pending, answered, unanswered, erased
    askedIn,  \* per question that was asked and not erased: its conversation
    context   \* per conversation: the question whose conditions are in force

vars == <<state, outcome, askedIn, context>>

Asked(r, c) ==
    outcome[r] \in {"pending", "answered", "unanswered"} /\ askedIn[r] = c
Pending(c) == \E r \in Request : outcome[r] = "pending" /\ askedIn[r] = c

Init ==
    /\ state = [c \in Conversation |-> "new"]
    /\ outcome = [r \in Request |-> "none"]
    /\ askedIn = [r \in Request |-> "nowhere"]
    /\ context = [c \in Conversation |-> 0]

Open(c) ==
    /\ state[c] = "new"
    /\ state' = [state EXCEPT ![c] = "open"]
    /\ UNCHANGED <<outcome, askedIn, context>>

Ask(c, r) ==
    /\ state[c] = "open"
    /\ ~Pending(c)
    /\ outcome[r] = "none"
    /\ outcome' = [outcome EXCEPT ![r] = "pending"]
    /\ askedIn' = [askedIn EXCEPT ![r] = c]
    /\ UNCHANGED <<state, context>>

\* An answer may bring new conditions into force.
Settle(r) ==
    /\ outcome[r] = "pending"
    /\ \/ /\ outcome' = [outcome EXCEPT ![r] = "unanswered"]
          /\ UNCHANGED context
       \/ /\ outcome' = [outcome EXCEPT ![r] = "answered"]
          /\ \/ UNCHANGED context
             \/ context' = [context EXCEPT ![askedIn[r]] = r]
    /\ UNCHANGED <<state, askedIn>>

Reset(c) ==
    /\ state[c] = "open"
    /\ ~Pending(c)
    /\ context' = [context EXCEPT ![c] = 0]
    /\ UNCHANGED <<state, outcome, askedIn>>

Erase(c) ==
    /\ state[c] = "open"
    /\ state' = [state EXCEPT ![c] = "gone"]
    /\ outcome' = [r \in Request |->
                      IF Asked(r, c) THEN "erased" ELSE outcome[r]]
    /\ askedIn' = [r \in Request |->
                      IF Asked(r, c) THEN "nowhere" ELSE askedIn[r]]
    /\ context' = [context EXCEPT ![c] = 0]

Next ==
    \/ \E c \in Conversation :
        Open(c) \/ Reset(c) \/ Erase(c) \/ \E r \in Request : Ask(c, r)
    \/ \E r \in Request : Settle(r)

Spec == Init /\ [][Next]_vars

=============================================================================
