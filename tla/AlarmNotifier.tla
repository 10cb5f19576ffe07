----------------------------- MODULE AlarmNotifier -----------------------------
(***************************************************************************)
(* The two Lambda functions that write to Discord (infra/delivery/lambda):  *)
(* alarms, with a search of the logs as an extra, and deliveries.  SNS      *)
(* invokes a function with records; a failed invocation is repeated.        *)
(* Texts are lengths.                                                       *)
(***************************************************************************)
EXTENDS Integers, SequencesExt

CONSTANTS
    Alarms,        \* messages of the alarm topic: [form, arn, time, context, state, name, reason]
    Deliveries,    \* messages of the delivery topic: [kind, state]
    RecordLimit,   \* bound: records of one invocation
    RetryLimit,    \* invocations that SNS adds to the first
    WaitTicks, PollTicks, \* QUERY_WAIT_SECONDS, QUERY_POLL_SECONDS
    CallTicks,     \* a call to the logs that comes back promptly; it may also hang
    LambdaTicks,   \* the function's timeout
    ContentLimit, NameLimit, ReasonLimit, \* DISCORD_CONTENT_LIMIT, 255, REASON_LIMIT
    HeadLength, LinkLength, LinksPrefix, ReasonPrefix, DetailPrefix,
    DetailLengths, \* lengths of a rendered row of the log
    None

ASSUME AlarmNotifierAssumption ==
    /\ RecordLimit \in Nat \ {0} /\ RetryLimit \in Nat /\ LambdaTicks \in Nat
    /\ WaitTicks \in Nat /\ PollTicks \in Nat \ {0} /\ CallTicks \in Nat
    /\ HeadLength \in Nat /\ NameLimit \in Nat /\ ContentLimit \in Nat /\ ReasonLimit \in Nat
    /\ HeadLength + NameLimit <= ContentLimit
    /\ LinkLength \in Nat /\ LinksPrefix \in Nat /\ ReasonPrefix \in Nat /\ DetailPrefix \in Nat
    /\ DetailLengths \subseteq Nat
    /\ \A a \in Alarms : a.form = "alarm" => a.name \in Nat /\ a.reason \in Nat

VARIABLES
    event,      \* what SNS delivers: [function, records]
    invocation, \* the running one: its clock, when its search began, if all calls were prompt
    toldOf,     \* history: for each record, the lengths of the messages Discord accepted
    failures    \* history: why invocations failed, and their search

notifierVars == <<event, invocation, toldOf, failures>>

EventRecords == DOMAIN event.records
Running(at, clock) ==
    [pc |-> "record", at |-> at, clock |-> clock, began |-> clock, prompt |-> TRUE, detail |-> None]
Current == event.records[invocation.at]

------------------------------------------------------------------------------
(* alarm_message                                                             *)

(* A section is left out when not even its prefix fits.                      *)
Least(x, y) == IF x <= y THEN x ELSE y
FitSection(prefix, length, available, maximum) ==
    IF available <= prefix THEN 0 ELSE prefix + Least(length, Least(maximum, available - prefix))

Links(a) == IF ~a.arn THEN 0 ELSE IF a.time /\ a.context THEN 3 ELSE 2
LinksSection(a) == IF Links(a) = 0 THEN 0 ELSE LinksPrefix + Links(a) * LinkLength

(* The links go in whole or not at all, then the reason, then the detail.     *)
Heading(a) == HeadLength + Least(a.name, NameLimit)
WithLinks(a) ==
    Heading(a) + (IF Heading(a) + LinksSection(a) <= ContentLimit THEN LinksSection(a) ELSE 0)
WithReason(a) ==
    WithLinks(a) + FitSection(ReasonPrefix, a.reason, ContentLimit - WithLinks(a), ReasonLimit)
AlarmContent(a, detail) ==
    WithReason(a) + (IF detail = None THEN 0 ELSE
        FitSection(DetailPrefix, detail, ContentLimit - WithReason(a), ContentLimit))

(* A message that is not an alarm is passed over.                            *)
IsAlarm(a) == a.form = "alarm"
Enriched(a) == IsAlarm(a) /\ a.arn /\ a.time /\ a.context /\ a.state = "ALARM"

------------------------------------------------------------------------------
AlarmNotifierInit ==
    /\ event \in [function : {"alarm"}, records : SeqOf(Alarms, RecordLimit)]
           \cup [function : {"delivery"}, records : SeqOf(Deliveries, RecordLimit)]
    /\ invocation = Running(1, 0)
    /\ toldOf = [r \in EventRecords |-> <<>>]
    /\ failures = <<>>

(* A call takes any time, but the platform ends the function at its timeout:
   no call sets a limit of its own that is shorter (boto3 waits 60 s).       *)
CallTimes == 0 .. LambdaTicks - 1 - invocation.clock
Spends(time, pc, detail) ==
    invocation' = [invocation EXCEPT !.pc = pc, !.clock = @ + time, !.detail = detail,
                                     !.prompt = @ /\ time <= CallTicks]

Searching == {"starting", "polling", "stopping"}
\* Faulty: asks until the query is complete.
NeverPast == FALSE
PastDeadline == invocation.clock >= invocation.began + WaitTicks

(* The sleep between two polls, never beyond the deadline.                   *)
Woken(time) ==
    LET left == invocation.began + WaitTicks - time
    IN  Least(LambdaTicks, time + (IF left <= 0 THEN 0 ELSE Least(PollTicks, left)))

NextRecord ==
    /\ invocation.pc = "record"
    /\ invocation' =
          IF invocation.at > Len(event.records) THEN [pc |-> "ended"]
          ELSE IF event.function = "alarm" /\ ~IsAlarm(Current)
               THEN Running(invocation.at + 1, invocation.clock)
          ELSE [invocation EXCEPT !.pc =
                    IF event.function = "alarm" /\ Enriched(Current) THEN "starting"
                    ELSE IF event.function = "delivery" /\ Current.kind = "pipeline" THEN "reading"
                    ELSE "send"]
    /\ UNCHANGED <<event, toldOf, failures>>

(* _recent_error: whatever fails, the alarm is told without the detail.      *)
QueryStarts ==
    /\ invocation.pc = "starting"
    /\ \E time \in CallTimes : \E pc \in {"polling", "send"} : Spends(time, pc, None)
    /\ UNCHANGED <<event, toldOf, failures>>

QueryPolled ==
    /\ invocation.pc = "polling"
    /\ IF PastDeadline THEN invocation' = [invocation EXCEPT !.pc = "stopping"]
       ELSE \E time \in CallTimes :
              \/ \E detail \in DetailLengths \cup {None} : Spends(time, "send", detail)
              \/ Spends(time, "stopping", None)
              \/ invocation' = [invocation EXCEPT !.clock = Woken(@ + time),
                                                  !.prompt = @ /\ time <= CallTicks]
    /\ UNCHANGED <<event, toldOf, failures>>

(* _best_effort_stop: stopped or not, the alarm is told.                     *)
QueryStopped ==
    /\ invocation.pc = "stopping"
    /\ \E time \in CallTimes : Spends(time, "send", None)
    /\ UNCHANGED <<event, toldOf, failures>>

InvocationFails(why, prompt) ==
    /\ failures' = Append(failures, [why |-> why, began |-> invocation.began, prompt |-> prompt])
    /\ invocation' = IF Len(failures) < RetryLimit THEN Running(1, 0) ELSE [pc |-> "lost"]
    /\ UNCHANGED <<event, toldOf>>

(* pipeline_message reads the pipeline, and its actions when it failed.      *)
PipelineRead ==
    /\ invocation.pc = "reading"
    /\ \/ /\ \E time \in CallTimes : Spends(time, "send", None)
          /\ UNCHANGED <<event, toldOf, failures>>
       \/ InvocationFails("pipeline", invocation.prompt)

(* _send: the secret, Discord, its status.                                   *)
ContentLength ==
    IF event.function = "alarm" THEN AlarmContent(Current, invocation.detail) ELSE HeadLength
SendDone ==
    /\ invocation.pc = "send"
    /\ toldOf' = [toldOf EXCEPT ![invocation.at] = Append(@, ContentLength)]
    /\ \E time \in CallTimes : invocation' = Running(invocation.at + 1, invocation.clock + time)
    /\ UNCHANGED <<event, failures>>
SendFails ==
    /\ invocation.pc = "send"
    /\ InvocationFails("delivery", invocation.prompt)

(* The call that was running, or the sleep, would have outlasted the function;
   a call that is cut off was prompt if there was not even CallTicks left.    *)
LambdaTimesOut ==
    /\ invocation.pc \in Searching \cup {"reading", "send"}
    /\ invocation.pc = "polling" => ~PastDeadline \/ CallTimes = {}
    /\ LET inTime == invocation.prompt /\ LambdaTicks <= invocation.clock + CallTicks
       IN  InvocationFails(IF invocation.pc \in Searching THEN "search" ELSE "timeout", inTime)

AlarmNotifierNext ==
    \/ NextRecord \/ QueryStarts \/ QueryPolled \/ QueryStopped \/ PipelineRead
    \/ SendDone \/ SendFails \/ LambdaTimesOut

AlarmNotifierSpec == AlarmNotifierInit /\ [][AlarmNotifierNext]_notifierVars
------------------------------------------------------------------------------
(* An extra on top of the alarm must not use up the time to tell it.  The search
   never fails an invocation by an error, and its calls being prompt, it hands the
   alarm on within SearchTicks, so that it can run the function out of time only if
   it began with less than that left; a call that hangs is another matter.  And an
   invocation that ends has told every alarm it was given, each in a message that
   Discord takes.  (_recent_error, _best_effort_stop, alarm_message, handler)      *)
SearchTicks == WaitTicks + 2 * CallTicks
SearchLeavesTime ==
    /\ \A i \in DOMAIN failures :
          /\ failures[i].why \in {"delivery", "pipeline", "timeout", "search"}
          /\ failures[i].why = "search" /\ failures[i].prompt =>
                LambdaTicks <= failures[i].began + SearchTicks
    /\ invocation.pc = "send" /\ invocation.prompt =>
          invocation.clock <= invocation.began + SearchTicks
    /\ invocation.pc = "ended" =>
          \A r \in EventRecords :
              event.function = "delivery" \/ IsAlarm(event.records[r]) => toldOf[r] # <<>>
    /\ \A r \in EventRecords : \A i \in DOMAIN toldOf[r] : toldOf[r][i] <= ContentLimit

=============================================================================
