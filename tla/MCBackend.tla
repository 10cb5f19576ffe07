----------------------------- MODULE MCBackend ------------------------------
(***************************************************************************)
(* The components of the backend that keep rows of their own, for TLC.     *)
(* They share no state: a behaviour is one of the component it began with, *)
(* and the others stay as they were.  The filings are those of AgentRun,   *)
(* with one worker and two rows for one anchor.                            *)
(***************************************************************************)
EXTENDS PropertyLedger, UserSession, Agenda, VoiceMemo, AgentRun, TLC

VARIABLE focus   \* the component that moves

Component == {"ledger", "session", "agenda", "voice", "filing"}

\* Brokers, values and parts are interchangeable.
LedgerSymmetry == Permutations(Broker) \cup Permutations(Value) \cup Permutations(Part)

-----------------------------------------------------------------------------
\* Agenda: two listings to revalidate and two events of one day, which tie.
MCAgendas ==
    [unit : {[u \in AgendaUnit |-> [live |-> TRUE, expiry |-> 5]]},
     listing : {[l \in AgendaListing |-> [open |-> TRUE, unit |-> 1,
                    received |-> IF l = 1 THEN 1 ELSE d]] : d \in {1, 3}},
     requirement : {[q \in AgendaRequirement |-> [live |-> TRUE, active |-> a,
                        CLIENT_TENANCY_EXPIRY |-> NoDate, REQUEST_EXPIRY |-> 4,
                        MOVE_IN |-> NoDate]] : a \in BOOLEAN},
     event : {[e \in AgendaEvent |-> [live |-> TRUE, date |-> 6, category |-> k]] :
                  k \in {2, 6}}]

-----------------------------------------------------------------------------
\* VoiceMemo: a form of either ledger or of none, with and without gaps.
MCColumns == [property |-> {"memo", "price"}, buyer |-> {"memo", "budget"}]
MCForms ==
    {[ledger |-> l, filled |-> {}] : l \in {"property", "buyer", Nothing}}
    \cup {[ledger |-> "property", filled |-> {"memo"}],
          [ledger |-> "buyer", filled |-> {"memo", "budget"}]}
MCAnalyses == [type : {"sell", "buy", "other"},
               fields : {{"memo", "price"}, {"memo", "budget"}},
               heard : {{"memo"}, {"memo", "price"}}]

-----------------------------------------------------------------------------
\* The component that moves begins anywhere, each of the others in one state.
BackendInit ==
    /\ focus \in Component
    /\ LedgerInit /\ SessionInit /\ VoiceInit /\ Init
    /\ AgendaInit
    /\ focus # "agenda" =>
          /\ \A l \in AgendaListing : agendaLedger.listing[l].received = 1
          /\ \A q \in AgendaRequirement : agendaLedger.requirement[q].active
          /\ \A e \in AgendaEvent : agendaLedger.event[e].category = 2

\* Everything but the component that moves.
Only(component) ==
    /\ focus = component
    /\ UNCHANGED focus
    /\ component # "ledger" => UNCHANGED ledgerVars
    /\ component # "session" => UNCHANGED sessionVars
    /\ component # "agenda" => UNCHANGED agendaVars
    /\ component # "voice" => UNCHANGED voiceVars
    /\ component # "filing" => UNCHANGED vars

BackendNext ==
    \/ Only("ledger") /\ LedgerNext
    \/ Only("session") /\ SessionNext
    \/ Only("agenda") /\ AgendaNext
    \/ Only("voice") /\ VoiceNext
    \/ Only("filing") /\ Next

BackendSpec ==
    /\ BackendInit
    /\ [][BackendNext]_<<focus, ledgerVars, sessionVars, agendaVars, voiceVars, vars>>

=============================================================================
