--------------------------- MODULE OptimisticLedger ---------------------------
(***************************************************************************)
(* What the brokers of an office may rely on who work on one ledger at the *)
(* same time, without transactions, statements or locks: every request     *)
(* takes effect at once or not at all.  A row is saved or deleted only     *)
(* from a screen that shows it as it is, whole; each time its version      *)
(* moves by one; a deleted row stays deleted; and a complex goes only when *)
(* the last of its units has gone.                                         *)
(***************************************************************************)
EXTENDS Naturals

CONSTANTS Complex, Unit, Row, Broker

VARIABLES
    complexes,  \* the complexes
    rows,       \* every row with what other tables hold of it
    screen      \* what each broker's screen shows, if anything

vars == <<complexes, rows, screen>>

Absent == [state |-> "absent"]
Blank == [state |-> "blank"]

Init ==
    /\ complexes = [c \in Complex |-> "absent"]
    /\ rows = [r \in Row |-> Absent]
    /\ screen = [b \in Broker |-> Blank]

AddComplex(c) ==
    /\ complexes[c] = "absent"
    /\ complexes' = [complexes EXCEPT ![c] = "live"]
    /\ UNCHANGED <<rows, screen>>

DropComplex(c) ==
    /\ complexes[c] = "live"
    /\ \A u \in Unit : ~(rows[u].state = "live" /\ rows[u].parent = c)
    /\ complexes' = [complexes EXCEPT ![c] = "deleted"]
    /\ UNCHANGED <<rows, screen>>

Register(r) ==
    /\ rows[r] = Absent /\ rows'[r] # Absent
    /\ rows' = [rows EXCEPT ![r] = rows'[r]]
    /\ rows'[r].state = "live" /\ rows'[r].version = 1
    /\ r \in Unit => complexes[rows'[r].parent] = "live"
    /\ UNCHANGED <<complexes, screen>>

\* A screen may be old, and may then show a mixture; it is right if it shows
\* the present version.
Shows(shown, r) ==
    /\ shown.row = r
    /\ shown.seen.version <= rows[r].version
    /\ shown.seen.version = rows[r].version => shown.seen = rows[r]

Look(b) ==
    /\ screen[b] = Blank /\ screen'[b] # Blank
    /\ \E r \in Row : rows[r] # Absent /\ Shows(screen'[b], r)
    /\ screen' = [screen EXCEPT ![b] = screen'[b]]
    /\ UNCHANGED <<complexes, rows>>

Leave(b) == screen' = [screen EXCEPT ![b] = Blank]

TurnAway(b) == Leave(b) /\ UNCHANGED <<complexes, rows>>

\* The row of b's screen, if it is still as shown.
Current(b, r) ==
    screen[b] = [row |-> r, seen |-> rows[r]] /\ rows[r].state = "live"

Edit(b, r) ==
    /\ Current(b, r)
    /\ rows' = [rows EXCEPT ![r].version = @ + 1,
                            ![r].value = rows'[r].value, ![r].part = rows'[r].part]
    /\ Leave(b)
    /\ UNCHANGED complexes

Remove(b, r) ==
    /\ Current(b, r)
    /\ rows' = [rows EXCEPT ![r].version = @ + 1, ![r].state = "deleted"]
    /\ Leave(b)
    /\ UNCHANGED complexes

Next ==
    \/ \E c \in Complex : AddComplex(c) \/ DropComplex(c)
    \/ \E r \in Row : Register(r)
    \/ \E b \in Broker : \/ Look(b) \/ TurnAway(b)
                         \/ \E r \in Row : Edit(b, r) \/ Remove(b, r)

Spec == Init /\ [][Next]_vars

=============================================================================
