---------------------------- MODULE ModelSelection ----------------------------
(***************************************************************************)
(* The AI models of the brokerage offices (model_selection.py,             *)
(* general_model.py, chatbot_model.py): operators who review and change    *)
(* ai_model_config while the API files runs and chatbot requests and a     *)
(* worker ends them.                                                       *)
(*                                                                         *)
(* Every statement reads what is committed when it runs.  PostgreSQL locks *)
(* tables (ROW SHARE, ROW EXCLUSIVE, EXCLUSIVE) and rows of brokerage (FOR *)
(* UPDATE, and FOR KEY SHARE by the foreign key of an inserted run).       *)
(***************************************************************************)
EXTENDS Naturals, FiniteSets, Sequences

CONSTANTS
    Office,      \* brokerage offices
    Capability,  \* POSITION_CARD, BROKERAGE_JUDGMENT, CHATBOT
    ChatOnly,    \* the capabilities that chatbot requests use
    AiModel,     \* provider and model, as a selection names them
    Operator,    \* calls of the tools, each made once
    RunWork,     \* runs that may be filed
    ChatWork,    \* chatbot requests that may be accepted
    FirstModels  \* the models configured at first, for each target

(* Runs and requests are rows of two tables; a call of a tool is a transaction
   of its own.                                                               *)
ASSUME SelectionAssumption ==
    /\ ChatOnly \subseteq Capability
    /\ RunWork \cap ChatWork = {}
    /\ Operator \cap (RunWork \cup ChatWork) = {}

VARIABLES
    activeConfig,  \* the active rows of ai_model_config, for each target
    workRow,       \* runs and chatbot requests
    tableLock,     \* table locks held
    officeLock,    \* row locks of brokerage held
    selection      \* what each operator's call does

selectionVars == <<activeConfig, workRow, tableLock, officeLock, selection>>

Target == Office \X Capability
Work == RunWork \cup ChatWork
TableOf(w) == IF w \in RunWork THEN "agent_run" ELSE "chat_request"
NoWork == [state |-> "none"]
NoSelection == [pc |-> "idle"]
EndedSelection == [pc |-> "ended"]

(* agent_run.status and chat_request.status that count as unfinished; a run
   that rests at its anchor card is one of them.                             *)
PendingWork(b) == {w \in Work : workRow[w].state = "pending" /\ workRow[w].office = b}

SelectionInit ==
    /\ activeConfig \in
          [Target -> {{[version |-> 1, model |-> m]} : m \in FirstModels} \cup {{}}]
    /\ workRow = [w \in Work |-> NoWork]
    /\ tableLock = [t \in {"brokerage", "ai_model_config", "agent_run", "chat_request"} |-> {}]
    /\ officeLock = [b \in Office |-> {}]
    /\ selection = [o \in Operator |-> NoSelection]

------------------------------------------------------------------------------
(* Locks: EXCLUSIVE conflicts with all others, the row modes do not conflict.*)

TableFree(who, t, mode) ==
    \A l \in tableLock[t] : l.by = who \/ (mode # "exclusive" /\ l.mode # "exclusive")
RowFree(who, b, mode) ==
    \A l \in officeLock[b] : l.by = who \/ (mode = "key" /\ l.mode = "key")
LockTable(who, t, mode) ==
    tableLock' = [tableLock EXCEPT ![t] = @ \cup {[by |-> who, mode |-> mode]}]
LockOfficeRow(who, b, mode) ==
    officeLock' = [officeLock EXCEPT ![b] = @ \cup {[by |-> who, mode |-> mode]}]
ReleaseLocks(who) ==
    /\ tableLock' = [t \in DOMAIN tableLock |-> {l \in tableLock[t] : l.by # who}]
    /\ officeLock' = [b \in Office |-> {l \in officeLock[b] : l.by # who}]

------------------------------------------------------------------------------
(* Runs and chatbot requests                                                 *)

(* A run is inserted under its own advisory lock; the foreign key then locks
   the row of the office.                                                    *)
InsertRun(w, b) ==
    /\ w \in RunWork
    /\ workRow[w] = NoWork
    /\ TableFree(w, "agent_run", "row")
    /\ LockTable(w, "agent_run", "row")
    /\ workRow' = [workRow EXCEPT ![w] = [state |-> "inserting", office |-> b]]
    /\ UNCHANGED <<activeConfig, officeLock, selection>>

CheckOffice(w) ==
    LET b == workRow[w].office IN
    /\ w \in RunWork
    /\ workRow[w].state = "inserting"
    /\ TableFree(w, "brokerage", "row") /\ RowFree(w, b, "key")
    /\ LockTable(w, "brokerage", "row") /\ LockOfficeRow(w, b, "key")
    /\ workRow' = [workRow EXCEPT ![w].state = "inserted"]
    /\ UNCHANGED <<activeConfig, selection>>

(* A chatbot request locks the row of its office first.                      *)
LockOffice(w, b) ==
    /\ w \in ChatWork
    /\ workRow[w] = NoWork
    /\ TableFree(w, "brokerage", "row") /\ RowFree(w, b, "update")
    /\ LockTable(w, "brokerage", "row") /\ LockOfficeRow(w, b, "update")
    /\ workRow' = [workRow EXCEPT ![w] = [state |-> "accepting", office |-> b]]
    /\ UNCHANGED <<activeConfig, selection>>

InsertChat(w) ==
    /\ w \in ChatWork
    /\ workRow[w].state = "accepting"
    /\ TableFree(w, "chat_request", "row")
    /\ LockTable(w, "chat_request", "row")
    /\ workRow' = [workRow EXCEPT ![w].state = "inserted"]
    /\ UNCHANGED <<activeConfig, officeLock, selection>>

CommitWork(w) ==
    /\ workRow[w].state = "inserted"
    /\ workRow' = [workRow EXCEPT ![w].state = "pending"]
    /\ ReleaseLocks(w)
    /\ UNCHANGED <<activeConfig, selection>>

(* A deadlock or any other failure ends the transaction.                     *)
AbortWork(w) ==
    /\ workRow[w].state \in {"inserting", "accepting", "inserted"}
    /\ workRow' = [workRow EXCEPT ![w] = NoWork]
    /\ ReleaseLocks(w)
    /\ UNCHANGED <<activeConfig, selection>>

EndWork(w) ==
    /\ workRow[w].state = "pending"
    /\ TableFree(w, TableOf(w), "row")
    /\ workRow' = [workRow EXCEPT ![w].state = "done"]
    /\ UNCHANGED <<activeConfig, tableLock, officeLock, selection>>

------------------------------------------------------------------------------
(* The calls of the operators                                                *)

Becomes(o, s) == selection' = [selection EXCEPT ![o] = s]
Turns(o, pc) == selection' = [selection EXCEPT ![o].pc = pc]

(* list_targets: the configurations first, the unfinished work in later
   statements, without locks.                                                *)
ListConfigs(o, m) ==
    /\ selection[o] = NoSelection
    /\ Becomes(o, [pc |-> "listing", model |-> m, configs |-> activeConfig])
    /\ UNCHANGED <<activeConfig, workRow, tableLock, officeLock>>

ListWork(o) ==
    /\ selection[o].pc = "listing"
    /\ Becomes(o, [pc |-> "reviewed", model |-> selection[o].model,
                   snapshot |-> <<selection[o].configs,
                                  [b \in Office |-> Cardinality(PendingWork(b))]>>])
    /\ UNCHANGED <<activeConfig, workRow, tableLock, officeLock>>

(* The operator confirms targets of the list, or names one without a list.   *)
ApplyTargets(o, targets) ==
    /\ selection[o].pc = "reviewed"
    /\ Becomes(o, [pc |-> "lock", kind |-> "targets", model |-> selection[o].model,
                   targets |-> targets, snapshot |-> selection[o].snapshot, held |-> 0])
    /\ UNCHANGED <<activeConfig, workRow, tableLock, officeLock>>

ApplyOne(o, t, m) ==
    /\ selection[o] = NoSelection
    /\ Becomes(o, [pc |-> "lock", kind |-> "one", model |-> m, targets |-> {t},
                   snapshot |-> <<>>, held |-> 0])
    /\ UNCHANGED <<activeConfig, workRow, tableLock, officeLock>>

(* lock_selection_inputs: one statement, table after table.                  *)
LockOrder == <<"brokerage", "ai_model_config", "agent_run", "chat_request">>
LocksWork(o, t) == TableFree(o, t, "exclusive") /\ LockTable(o, t, "exclusive")

LockNext(o) ==
    LET k == selection[o].held + 1 IN
    /\ selection[o].pc = "lock"
    /\ LocksWork(o, LockOrder[k])
    /\ selection' = [selection EXCEPT ![o].held = k,
                                      ![o].pc = IF k = Len(LockOrder) THEN "check" ELSE "lock"]
    /\ UNCHANGED <<activeConfig, workRow, officeLock>>

Compatible(t, m) == \A c \in activeConfig[t] : c.model = m

\* Faulty: applies whatever was reviewed.
ReviewedConfigs(o) == TRUE

Reviewed(o) ==
    selection[o].snapshot = <<activeConfig, [b \in Office |-> Cardinality(PendingWork(b))]>>

(* apply_targets checks the whole list, apply_selection the office.          *)
MayApply(o) ==
    LET s == selection[o] IN
    IF s.kind = "one" THEN \A t \in s.targets : PendingWork(t[1]) = {}
    ELSE /\ Reviewed(o)
         /\ \A b \in Office : PendingWork(b) = {}
         /\ \A t \in Target : ~Compatible(t, s.model) => t \in s.targets

CheckSelection(o) ==
    /\ selection[o].pc = "check"
    /\ IF MayApply(o) THEN Turns(o, "write") /\ UNCHANGED <<tableLock, officeLock>>
       ELSE Becomes(o, EndedSelection) /\ ReleaseLocks(o)
    /\ UNCHANGED <<activeConfig, workRow>>

(* The target that already runs the model alone keeps its row; any other gets
   a new version and the rows before it are inactive.                        *)
LastVersion(t) == IF activeConfig[t] = {} THEN 0 ELSE (CHOOSE c \in activeConfig[t] : TRUE).version
NewConfig(t, m) ==
    IF activeConfig[t] # {} /\ Compatible(t, m) THEN activeConfig[t]
    ELSE {[version |-> 1 + LastVersion(t), model |-> m]}
SelectedConfigs(s) ==
    [t \in Target |-> IF t \in s.targets THEN NewConfig(t, s.model) ELSE activeConfig[t]]

WriteSelection(o) ==
    /\ selection[o].pc = "write"
    /\ activeConfig' = SelectedConfigs(selection[o])
    /\ Becomes(o, EndedSelection)
    /\ ReleaseLocks(o)
    /\ UNCHANGED workRow

(* activate_chatbot and activate_general lock the row of the office, look at
   the work of their own capabilities only and keep one row per profile.     *)
ActivateTargets(b, chat) == {b} \X (IF chat THEN ChatOnly ELSE Capability \ ChatOnly)

ActivateBegin(o, b, chat, m) ==
    /\ selection[o] = NoSelection
    /\ TableFree(o, "brokerage", "row") /\ RowFree(o, b, "update")
    /\ LockTable(o, "brokerage", "row") /\ LockOfficeRow(o, b, "update")
    /\ Becomes(o, [pc |-> "count", office |-> b, chat |-> chat, model |-> m])
    /\ UNCHANGED <<activeConfig, workRow>>

ActivateGeneral(o, b, m) == ActivateBegin(o, b, FALSE, m)
ActivateChatbot(o, b, m) == ActivateBegin(o, b, TRUE, m)

ActivateCount(o) ==
    LET s == selection[o]
        own == {w \in PendingWork(s.office) : (w \in ChatWork) = s.chat} IN
    /\ s.pc = "count"
    /\ IF own = {} THEN Turns(o, "activate") /\ UNCHANGED <<tableLock, officeLock>>
       ELSE Becomes(o, EndedSelection) /\ ReleaseLocks(o)
    /\ UNCHANGED <<activeConfig, workRow>>

ActivateWrite(o) ==
    LET s == selection[o] IN
    /\ s.pc = "activate"
    /\ TableFree(o, "ai_model_config", "row")
    /\ activeConfig' = [t \in Target |->
          IF t \in ActivateTargets(s.office, s.chat)
          THEN {[version |-> 0, model |-> s.model]} ELSE activeConfig[t]]
    /\ Becomes(o, EndedSelection)
    /\ ReleaseLocks(o)
    /\ UNCHANGED workRow

(* lock_timeout, statement_timeout, a deadlock, an interrupted call.         *)
SelectionFails(o) ==
    /\ selection[o].pc \in {"lock", "check", "write", "count", "activate"}
    /\ Becomes(o, EndedSelection)
    /\ ReleaseLocks(o)
    /\ UNCHANGED <<activeConfig, workRow>>

SelectionNext ==
    \/ \E w \in Work :
          \/ \E b \in Office : InsertRun(w, b) \/ LockOffice(w, b)
          \/ CheckOffice(w) \/ InsertChat(w) \/ CommitWork(w) \/ AbortWork(w) \/ EndWork(w)
    \/ \E o \in Operator :
          \/ \E m \in AiModel : ListConfigs(o, m)
          \/ ListWork(o)
          \/ \E targets \in SUBSET Target : ApplyTargets(o, targets)
          \/ \E t \in Target, m \in AiModel : ApplyOne(o, t, m)
          \/ LockNext(o) \/ CheckSelection(o) \/ WriteSelection(o)
          \/ \E b \in Office, m \in AiModel : ActivateGeneral(o, b, m) \/ ActivateChatbot(o, b, m)
          \/ ActivateCount(o) \/ ActivateWrite(o) \/ SelectionFails(o)

SelectionSpec == SelectionInit /\ [][SelectionNext]_selectionVars
------------------------------------------------------------------------------
Serves(w, c) == (w \in ChatWork) <=> (c \in ChatOnly)

(* The model of a capability is never changed under a run or a chatbot request
   of its office that is filed, or written and only waiting to be committed.  A
   confirmed selection replaces what its operator saw in the list, in every
   target, and leaves one model everywhere: another operator's change in
   between is never undone by it.  (lock_selection_inputs, the FOR UPDATE of
   the activations, apply_targets)                                           *)
ModelsChangeAtRest ==
    [][/\ \A t \in Target : activeConfig'[t] # activeConfig[t] =>
             \A w \in Work : workRow[w].state \in {"inserted", "pending"} =>
                 ~(workRow[w].office = t[1] /\ Serves(w, t[2]))
       /\ \A o \in Operator :
             selection[o].pc = "write" /\ selection[o].kind = "targets"
                 /\ activeConfig' # activeConfig /\ selection'[o] = EndedSelection =>
             /\ activeConfig = selection[o].snapshot[1]
             /\ \A t \in Target : \A c \in activeConfig'[t] : c.model = selection[o].model
      ]_selectionVars

=============================================================================
