-------------------------- MODULE InteractionScope --------------------------
(***************************************************************************)
(* Which consultation logs the agent of one side may read, and how a stage *)
(* of an F3 run finds out that they changed while the model was writing.   *)
(*                                                                         *)
(* A stage reads the logs in the scope of its target and keeps only their  *)
(* identity: a digest of the scope, a count, the latest time and the       *)
(* greatest id.  It stores its card when the identity it computes again,   *)
(* from the ledger as it then is, is the same.  The broker goes on logging *)
(* calls, some with an older date, and changing who is tied to what.       *)
(***************************************************************************)
EXTENDS Integers, Sequences, FiniteSetsExt

CONSTANTS
    Home,       \* rows of property_unit
    Offer,      \* rows of property_listing
    Wish,       \* rows of property_requirement
    Person,     \* rows of party
    Nil,        \* NULL
    Hanging,    \* what a log hangs on: records of home, offer, wish, person
    Hours,      \* when a consultation took place
    LogLimit,   \* bound: consultation logs
    TieLimit    \* bound: changes of who is tied to what

ASSUME ScopeAssumption ==
    /\ Home # {} /\ Hours \in SUBSET Int
    /\ Nil \notin Home \cup Offer \cup Wish \cup Person

VARIABLES
    talk,    \* client_interaction, in the order of the ids
    ties,    \* per unit, everyone property_unit_party_relation ever named
    client,  \* per listing, its unit and client_party_id
    wanted,  \* per requirement, party_id and co_broker_party_id
    tieChanges,
    reading  \* what the stage that is at the model has read

scopeVars == <<talk, ties, client, wanted, tieChanges, reading>>

\* A log hangs on at least one of a unit, a listing, a requirement, a person.
HangsOn(on) == on.home # Nil \/ on.offer # Nil \/ on.wish # Nil \/ on.person # Nil

AllowedParties(t) ==
    (IF t \in Offer THEN ties[client[t].home] \cup {client[t].party}
     ELSE {wanted[t].party, wanted[t].coBroker}) \ {Nil}

Allowed(t, on) == on.person \in AllowedParties(t)

\* _scope_conditions: a listing's agent never reads a log that hangs on a
\* requirement, and reads one of the unit alone only from an allowed party.
InScope(t, log) ==
    /\ ~log.voided
    /\ LET on == log.on IN
       IF t \in Wish
       THEN on.wish = t /\ (on.person = Nil \/ Allowed(t, on))
       ELSE /\ on.wish = Nil
            /\ \/ on.offer = t /\ (on.person = Nil \/ Allowed(t, on))
               \/ on.offer = Nil /\ on.home = client[t].home /\ Allowed(t, on)

ScopedInteractions(t) == {i \in DOMAIN talk : InScope(t, talk[i])}

ScopeIdentity(t) ==
    [target |-> t, home |-> IF t \in Offer THEN client[t].home ELSE Nil,
     allowed |-> AllowedParties(t)]

\* Faulty: trusts the number and the time of the last one.
InteractionSummaryByTime(t) ==
    LET ids == ScopedInteractions(t)
    IN IF ids = {} THEN <<0>>
       ELSE <<Cardinality(ids), Max({talk[i].hour : i \in ids})>>

InteractionSummary(t) ==
    LET ids == ScopedInteractions(t)
    IN IF ids = {} THEN <<0>>
       ELSE <<Cardinality(ids), Max({talk[i].hour : i \in ids}), Max(ids)>>

SourceOf(t) == [scope |-> ScopeIdentity(t), summary |-> InteractionSummary(t)]

NotReading == [target |-> Nil]

ScopeInit ==
    /\ talk = <<>>
    /\ ties = [u \in Home |-> {}]
    /\ client \in [Offer -> [home : Home, party : {Nil}]]
    /\ wanted \in [Wish -> [party : Person, coBroker : {Nil}]]
    /\ tieChanges = 0
    /\ reading = NotReading

AddLog(on, hour) ==
    /\ Len(talk) < LogLimit
    /\ HangsOn(on)
    /\ talk' = Append(talk, [on |-> on, hour |-> hour, voided |-> FALSE])
    /\ UNCHANGED <<ties, client, wanted, tieChanges, reading>>

\* is_voided is read everywhere and written by hand.
VoidLog(i) ==
    /\ ~talk[i].voided
    /\ talk' = [talk EXCEPT ![i].voided = TRUE]
    /\ UNCHANGED <<ties, client, wanted, tieChanges, reading>>

ChangesTies ==
    /\ tieChanges < TieLimit
    /\ tieChanges' = tieChanges + 1
    /\ UNCHANGED <<talk, reading>>

InUse == UNION {ties[u] : u \in Home} \cup {client[o].party : o \in Offer}
         \cup UNION {{wanted[r].party, wanted[r].coBroker} : r \in Wish}

\* A name in a free slot of the unit makes a new party.  Ending a relation
\* fills valid_to, which the scope does not look at.
RelateParty(u, p) ==
    /\ p \notin InUse
    /\ ChangesTies
    /\ ties' = [ties EXCEPT ![u] = @ \cup {p}]
    /\ UNCHANGED <<client, wanted>>

ChangeClient(o, p) ==
    /\ p # client[o].party
    /\ ChangesTies
    /\ client' = [client EXCEPT ![o].party = p]
    /\ UNCHANGED <<ties, wanted>>

ChangeCoBroker(r, p) ==
    /\ p # wanted[r].coBroker
    /\ ChangesTies
    /\ wanted' = [wanted EXCEPT ![r].coBroker = p]
    /\ UNCHANGED <<ties, client>>

\* build_anchor_snapshot, then the model.
ReadInteractions(t) ==
    /\ reading = NotReading
    /\ reading' = [target |-> t, rows |-> ScopedInteractions(t), source |-> SourceOf(t)]
    /\ UNCHANGED <<talk, ties, client, wanted, tieChanges>>

SourceUnchanged == SourceOf(reading.target) = reading.source

\* Stores the card under an unchanged source, raises SourceChangedError else:
\* the stage is over.
EndReading ==
    /\ reading # NotReading
    /\ reading' = NotReading
    /\ UNCHANGED <<talk, ties, client, wanted, tieChanges>>

ScopeNext ==
    \/ \E on \in Hanging, hour \in Hours : AddLog(on, hour)
    \/ \E i \in DOMAIN talk : VoidLog(i)
    \/ \E u \in Home, p \in Person : RelateParty(u, p)
    \/ \E o \in Offer, p \in Person \cup {Nil} : ChangeClient(o, p)
    \/ \E r \in Wish, p \in Person \cup {Nil} : ChangeCoBroker(r, p)
    \/ \E t \in Offer \cup Wish : ReadInteractions(t)
    \/ EndReading

ScopeSpec == ScopeInit /\ [][ScopeNext]_scopeVars

-----------------------------------------------------------------------------

\* A stage that finds its source unchanged has shown the model the very logs
\* that are in scope now, though it compares only a digest and three numbers:
\* no voided log and no backdated new one slips by.  And what a client was told
\* on a requirement is never among the logs of a listing, nor the other way
\* round, whoever is tied to both (_verify_and_insert_card,
\* summarize_scoped_interactions, _scope_conditions).
SameSourceSameLogs ==
    reading # NotReading =>
        /\ SourceUnchanged => reading.rows = ScopedInteractions(reading.target)
        /\ \A t \in Offer \cup Wish :
              (t \in Offer) # (reading.target \in Offer) =>
                  reading.rows \cap ScopedInteractions(t) = {}

=============================================================================
