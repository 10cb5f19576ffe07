---------------------------- MODULE PropertyLedger ----------------------------
(***************************************************************************)
(* The property ledger and the calendar of one brokerage office            *)
(* (domain/property_ledger, domain/calendar): brokers who create, save and *)
(* delete complexes, units, listings, requirements and calendar events at  *)
(* the same time.                                                          *)
(*                                                                         *)
(* Each request is one transaction under READ COMMITTED: a statement reads *)
(* what is committed when it runs, an UPDATE waits for the transaction     *)
(* that changed the row and then looks at the row again.  A unit carries   *)
(* its people and a requirement its desired complexes in other tables.     *)
(* A save gives a unit persons of its own; a person whom seed or imported  *)
(* data ties to several units, and whose name a save of one changes for    *)
(* all without moving their versions, is not modelled.                     *)
(***************************************************************************)
EXTENDS Naturals, FiniteSets

CONSTANTS
    Complex,      \* complexes
    Unit,         \* property units
    Listing,      \* listings of units
    Requirement,  \* what clients look for
    Event,        \* calendar events
    Broker,       \* requests in progress
    Value,        \* contents of a row's own columns
    Part,         \* contents of its rows in other tables
    MaxRowVersion,  \* bound: row_version
    MaxRows       \* bound: units, requirements and events, those being created too

ASSUME LedgerAssumption ==
    /\ MaxRowVersion \in Nat /\ MaxRows \in Nat
    /\ Value # {} /\ Part # {}
    /\ Unit \cap (Listing \cup Requirement \cup Event) = {}

VARIABLES
    complexRow,  \* the complexes
    ledgerRow,   \* the rows with a row_version, as committed
    ledgerLock,  \* who holds which row lock
    ledgerTx     \* the transactions

ledgerVars == <<complexRow, ledgerRow, ledgerLock, ledgerTx>>

StoredRow == Unit \cup Listing \cup Requirement \cup Event
Absent == [state |-> "absent"]
NoTx == [pc |-> "idle"]
NoParts == "no parts"

(* A lock is of a complex, of a row, or of the people of a unit.             *)
LockName == (Complex \X {"complex"}) \cup (StoredRow \X {"row"}) \cup (Unit \X {"people"})

NewRow(parent, v, p) ==
    [state |-> "live", parent |-> parent, version |-> 1, value |-> v, part |-> p]
Coming == {ledgerTx[b].row : b \in {o \in Broker : ledgerTx[o].pc = "insert"}}
RoomForRow ==
    Cardinality({r \in StoredRow \ Listing : ledgerRow[r] # Absent \/ r \in Coming}) < MaxRows

IsLive(r) == ledgerRow[r].state = "live"
UnitsOf(c) == {u \in Unit : IsLive(u) /\ ledgerRow[u].parent = c}

(* find_property_listing joins the unit: the listing of a deleted unit is
   not found.                                                                *)
Found(r) == IsLive(r) /\ (r \in Listing => IsLive(ledgerRow[r].parent))

LedgerInit ==
    /\ complexRow = [c \in Complex |-> "absent"]
    /\ ledgerRow = [r \in StoredRow |-> Absent]
    /\ ledgerLock = [n \in LockName |-> {}]
    /\ ledgerTx = [b \in Broker |-> NoTx]

------------------------------------------------------------------------------
(* Transactions                                                              *)

Goto(b, pc) == ledgerTx' = [ledgerTx EXCEPT ![b].pc = pc]
Unlocked(b) == [n \in LockName |-> {l \in ledgerLock[n] : l.by # b}]

(* Rollback or the end of a transaction that wrote nothing.                  *)
Drop(b) ==
    /\ ledgerTx' = [ledgerTx EXCEPT ![b] = NoTx]
    /\ ledgerLock' = Unlocked(b)
    /\ UNCHANGED <<complexRow, ledgerRow>>

(* FOR SHARE, FOR UPDATE and the lock of an UPDATE.                          *)
CanLock(b, n, mode) ==
    \A l \in ledgerLock[n] : l.by = b \/ (l.mode = "share" /\ mode = "share")
Locks(b, n, mode) ==
    ledgerLock' = [ledgerLock EXCEPT ![n] = @ \cup {[by |-> b, mode |-> mode]}]

Begin(b, tx) ==
    /\ ledgerTx[b] = NoTx
    /\ ledgerTx' = [ledgerTx EXCEPT ![b] = tx]
    /\ UNCHANGED <<complexRow, ledgerRow, ledgerLock>>

(* A failing statement, a validation error or a lost client: every handler
   rolls back.  PostgreSQL ends one of two that wait for each other.         *)
Abort(b) == ledgerTx[b] # NoTx /\ Drop(b)

------------------------------------------------------------------------------
(* Complexes and the registration of units                                   *)

CreateComplex(b, c) ==
    /\ ledgerTx[b] = NoTx
    /\ complexRow[c] = "absent"
    /\ complexRow' = [complexRow EXCEPT ![c] = "live"]
    /\ UNCHANGED <<ledgerRow, ledgerLock, ledgerTx>>

\* Faulty: reads the complex without a lock.
ReadsComplexUnlocked(b, c) == UNCHANGED ledgerLock

(* _create_property_unit: the complex is read under a shared lock.           *)
ReadsComplex(b, c) == CanLock(b, <<c, "complex">>, "share") /\ Locks(b, <<c, "complex">>, "share")

CreateUnit(b, u, c, v, p) ==
    /\ ledgerTx[b] = NoTx
    /\ ledgerRow[u] = Absent
    /\ RoomForRow
    /\ complexRow[c] = "live"
    /\ ReadsComplex(b, c)
    /\ ledgerTx' = [ledgerTx EXCEPT ![b] =
          [pc |-> "insert", row |-> u, parent |-> c, value |-> v, part |-> p]]
    /\ UNCHANGED <<complexRow, ledgerRow>>

(* The unit, its people and their relations are committed together.          *)
InsertRow(b) ==
    LET tx == ledgerTx[b] IN
    /\ tx.pc = "insert"
    /\ ledgerRow[tx.row] = Absent
    /\ ledgerRow' = [ledgerRow EXCEPT ![tx.row] = NewRow(tx.parent, tx.value, tx.part)]
    /\ ledgerTx' = [ledgerTx EXCEPT ![b] = NoTx]
    /\ ledgerLock' = Unlocked(b)
    /\ UNCHANGED complexRow

(* delete_property_complex: the exclusive lock, then the count, then the
   UPDATE that commits.                                                      *)
DeleteComplex(b, c) ==
    /\ ledgerTx[b] = NoTx
    /\ complexRow[c] = "live"
    /\ CanLock(b, <<c, "complex">>, "update")
    /\ Locks(b, <<c, "complex">>, "update")
    /\ ledgerTx' = [ledgerTx EXCEPT ![b] = [pc |-> "count", row |-> c]]
    /\ UNCHANGED <<complexRow, ledgerRow>>

CountUnits(b) ==
    /\ ledgerTx[b].pc = "count"
    /\ IF UnitsOf(ledgerTx[b].row) = {}
       THEN Goto(b, "hide") /\ UNCHANGED <<complexRow, ledgerRow, ledgerLock>>
       ELSE Drop(b)

HideComplex(b) ==
    /\ ledgerTx[b].pc = "hide"
    /\ complexRow' = [complexRow EXCEPT ![ledgerTx[b].row] = "deleted"]
    /\ ledgerTx' = [ledgerTx EXCEPT ![b] = NoTx]
    /\ ledgerLock' = Unlocked(b)
    /\ UNCHANGED ledgerRow

------------------------------------------------------------------------------
(* Listings, requirements and events are registered without a lock; a listing
   looks for its unit first.                                                 *)

CreateListing(b, l, u, v) ==
    /\ ledgerRow[l] = Absent
    /\ IsLive(u)
    /\ Begin(b, [pc |-> "insert", row |-> l, parent |-> u, value |-> v, part |-> NoParts])

Inserts(b, r, v, p) ==
    /\ ledgerTx[b] = NoTx
    /\ ledgerRow[r] = Absent
    /\ RoomForRow
    /\ ledgerRow' = [ledgerRow EXCEPT ![r] = NewRow("none", v, p)]
    /\ UNCHANGED <<complexRow, ledgerLock, ledgerTx>>
CreateRequirement(b, q, v, p) == Inserts(b, q, v, p)
CreateEvent(b, e, v) == Inserts(b, e, v, NoParts)

------------------------------------------------------------------------------
(* Saves                                                                     *)

(* A screen reads the row, then in another statement its people or desired
   complexes.                                                                *)
LoadRow(b, r) ==
    /\ Found(r)
    /\ Begin(b, [pc |-> "loading", row |-> r, base |-> ledgerRow[r]])

LoadParts(b) ==
    LET tx == ledgerTx[b] IN
    /\ tx.pc = "loading"
    /\ ledgerTx' = [ledgerTx EXCEPT ![b].pc = "shown", ![b].base.part = ledgerRow[tx.row].part]
    /\ UNCHANGED <<complexRow, ledgerRow, ledgerLock>>

(* The request carries the version of the screen and what the broker made of
   it; a PATCH names some columns and, when they are shown to change, the
   people or complexes.                                                      *)
Save(b, v, p, named) ==
    LET tx == ledgerTx[b] IN
    /\ tx.pc = "shown"
    /\ tx.base.version < MaxRowVersion
    /\ v # tx.base.value => named
    /\ ledgerTx' = [ledgerTx EXCEPT ![b] =
          [pc |-> "read", row |-> tx.row, base |-> tx.base, value |-> v, part |-> p,
           named |-> named, wrote |-> {}]]
    /\ UNCHANGED <<complexRow, ledgerRow, ledgerLock>>

SaveUnit(b, v, p, named) == Save(b, v, p, named) /\ ledgerTx[b].row \in Unit
SaveRequirement(b, v, p) == Save(b, v, p, TRUE) /\ ledgerTx[b].row \in Requirement
SaveListing(b, v) ==
    ledgerTx[b].pc = "shown" /\ ledgerTx[b].row \in Listing /\ Save(b, v, ledgerTx[b].base.part, TRUE)
SaveEvent(b, v) ==
    ledgerTx[b].pc = "shown" /\ ledgerTx[b].row \in Event /\ Save(b, v, ledgerTx[b].base.part, TRUE)

(* A stale version is refused even when nothing would be written.  What
   changed is decided from the row as this statement finds it.               *)
SaveRead(b) ==
    LET tx == ledgerTx[b]
        found == ledgerRow[tx.row]
        changed == tx.value # found.value \/ (tx.row \in Requirement /\ tx.part # found.part) IN
    /\ tx.pc = "read"
    /\ IF ~Found(tx.row) \/ found.version # tx.base.version THEN Drop(b)
       ELSE /\ ledgerTx' = [ledgerTx EXCEPT
                  ![b].pc = "columns",
                  ![b].named = IF tx.row \in Unit THEN @ ELSE changed]
            /\ UNCHANGED <<complexRow, ledgerRow, ledgerLock>>

(* bump_row_version: one row, if it still has the expected version.          *)
Bumps(b) == CanLock(b, <<ledgerTx[b].row, "row">>, "update")
Matches(b) ==
    LET tx == ledgerTx[b] IN IsLive(tx.row) /\ ledgerRow[tx.row].version = tx.base.version

AfterColumns(r) == IF r \in Unit THEN "people" ELSE "commit"

SaveColumns(b) ==
    LET tx == ledgerTx[b] IN
    /\ tx.pc = "columns"
    /\ IF ~tx.named
       THEN Goto(b, AfterColumns(tx.row)) /\ UNCHANGED <<complexRow, ledgerRow, ledgerLock>>
       ELSE /\ Bumps(b)
            /\ IF ~Matches(b) THEN Drop(b)
               ELSE /\ Locks(b, <<tx.row, "row">>, "update")
                    /\ ledgerTx' = [ledgerTx EXCEPT
                          ![b].pc = AfterColumns(tx.row),
                          ![b].wrote = IF tx.row \in Requirement THEN {"row", "part"} ELSE {"row"}]
                    /\ UNCHANGED <<complexRow, ledgerRow>>

(* _replace_unit_parties compares with the people as they are committed now. *)
SavePeople(b) ==
    LET tx == ledgerTx[b] IN
    /\ tx.pc = "people"
    /\ IF tx.part = ledgerRow[tx.row].part
       THEN Goto(b, "commit") /\ UNCHANGED <<complexRow, ledgerRow, ledgerLock>>
       ELSE /\ CanLock(b, <<tx.row, "people">>, "update")
            /\ Locks(b, <<tx.row, "people">>, "update")
            /\ ledgerTx' = [ledgerTx EXCEPT ![b].pc = "bump", ![b].wrote = @ \cup {"part"}]
            /\ UNCHANGED <<complexRow, ledgerRow>>

\* Faulty: a change of the people alone keeps the version of the unit.
MustBumpNever(tx) == FALSE

(* People alone move the version of their unit too.                          *)
MustBump(tx) == "row" \notin tx.wrote

SaveBump(b) ==
    LET tx == ledgerTx[b] IN
    /\ tx.pc = "bump"
    /\ IF ~MustBump(tx)
       THEN Goto(b, "commit") /\ UNCHANGED <<complexRow, ledgerRow, ledgerLock>>
       ELSE /\ Bumps(b)
            /\ IF ~Matches(b) THEN Drop(b)
               ELSE /\ Locks(b, <<tx.row, "row">>, "update")
                    /\ ledgerTx' = [ledgerTx EXCEPT ![b].pc = "commit", ![b].wrote = @ \cup {"row"}]
                    /\ UNCHANGED <<complexRow, ledgerRow>>

SaveCommit(b) ==
    LET tx == ledgerTx[b] IN
    /\ tx.pc = "commit"
    /\ ledgerRow' = [ledgerRow EXCEPT
          ![tx.row].version = IF "row" \in tx.wrote THEN @ + 1 ELSE @,
          ![tx.row].value = IF "row" \in tx.wrote THEN tx.value ELSE @,
          ![tx.row].part = IF "part" \in tx.wrote THEN tx.part ELSE @]
    /\ ledgerTx' = [ledgerTx EXCEPT ![b] = NoTx]
    /\ ledgerLock' = Unlocked(b)
    /\ UNCHANGED complexRow

(* A soft delete from the version the screen shows; listings of a unit and the
   interactions of a requirement stay.  A listing is not deleted.            *)
Delete(b, r) ==
    /\ ledgerTx[b].pc = "shown"
    /\ ledgerTx[b].row = r
    /\ Goto(b, "delete")
    /\ UNCHANGED <<complexRow, ledgerRow, ledgerLock>>
DeleteUnit(b, u) == Delete(b, u)
DeleteRequirement(b, q) == Delete(b, q)
DeleteEvent(b, e) == Delete(b, e)

DeleteCommit(b) ==
    /\ ledgerTx[b].pc = "delete"
    /\ Bumps(b)
    /\ IF Matches(b)
       THEN /\ ledgerRow' = [ledgerRow EXCEPT ![ledgerTx[b].row].state = "deleted",
                                              ![ledgerTx[b].row].version = @ + 1]
            /\ ledgerTx' = [ledgerTx EXCEPT ![b] = NoTx]
            /\ ledgerLock' = Unlocked(b)
            /\ UNCHANGED complexRow
       ELSE Drop(b)

------------------------------------------------------------------------------
LedgerNext ==
    \E b \in Broker :
        \/ \E c \in Complex : CreateComplex(b, c) \/ DeleteComplex(b, c)
        \/ CountUnits(b) \/ HideComplex(b)
        \/ \E u \in Unit, c \in Complex, v \in Value, p \in Part : CreateUnit(b, u, c, v, p)
        \/ \E l \in Listing, u \in Unit, v \in Value : CreateListing(b, l, u, v)
        \/ \E q \in Requirement, v \in Value, p \in Part : CreateRequirement(b, q, v, p)
        \/ \E e \in Event, v \in Value : CreateEvent(b, e, v)
        \/ InsertRow(b)
        \/ \E r \in StoredRow : LoadRow(b, r)
        \/ LoadParts(b)
        \/ \E v \in Value, p \in Part, named \in BOOLEAN : SaveUnit(b, v, p, named)
        \/ \E v \in Value, p \in Part : SaveRequirement(b, v, p)
        \/ \E v \in Value : SaveListing(b, v) \/ SaveEvent(b, v)
        \/ SaveRead(b) \/ SaveColumns(b) \/ SavePeople(b) \/ SaveBump(b) \/ SaveCommit(b)
        \/ \E u \in Unit : DeleteUnit(b, u)
        \/ \E q \in Requirement : DeleteRequirement(b, q)
        \/ \E e \in Event : DeleteEvent(b, e)
        \/ DeleteCommit(b)
        \/ Abort(b)

LedgerSpec == LedgerInit /\ [][LedgerNext]_ledgerVars
------------------------------------------------------------------------------
(* A unit is never left in a complex that was deleted: whoever of the deletion
   and the registration comes second sees the other and is refused.
   (lock_property_complex)                                                   *)
UnitsHaveTheirComplex ==
    \A u \in Unit : IsLive(u) => complexRow[ledgerRow[u].parent] = "live"

(* A save that changes a unit with its people, a requirement with its desired
   complexes, a listing or an event replaces exactly what the broker's screen
   had loaded, and a deletion deletes it: of two requests from the same version
   the later one is refused, even where it changes another table only.
   (bump_row_version, save_property_unit)                                    *)
NothingIsOverwrittenUnseen ==
    [][\A r \in StoredRow :
          ledgerRow[r] # Absent /\ ledgerRow'[r] # ledgerRow[r] =>
              \E b \in Broker : /\ ledgerTx[b] # NoTx /\ ledgerTx'[b] = NoTx
                                /\ ledgerTx[b].row = r
                                /\ ledgerTx[b].base = ledgerRow[r]]_ledgerVars

------------------------------------------------------------------------------
(* What the office sees of its transactions.  A broker's screen stands from its
   second statement to the end of the request it sends.                      *)
Showing == {"shown", "read", "columns", "people", "bump", "commit", "delete"}
Screen(tx) ==
    IF tx.pc \in Showing THEN [row |-> tx.row, seen |-> tx.base] ELSE [state |-> "blank"]
Screens == [b \in Broker |-> Screen(ledgerTx[b])]

Ledger == INSTANCE OptimisticLedger WITH
    Row <- StoredRow, complexes <- complexRow, rows <- ledgerRow, screen <- Screens

(* Whatever requests read, lock and give up in between, each takes effect at
   once or not at all, from a screen that was right: no save or deletion is
   lost or half written, a version moves by one with each, a unit never stays
   in a complex that was deleted, and what is deleted stays so.
   (save_property_unit, bump_row_version, lock_property_complex)             *)
ImplementsOptimisticLedger == Ledger!Spec

=============================================================================
