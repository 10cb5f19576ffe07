------------------------ MODULE PropertyLedger_proofs ------------------------
(***************************************************************************)
(* Proofs of the properties of PropertyLedger, and that it implements      *)
(* OptimisticLedger, for every set of rows and brokers.  No property is    *)
(* inductive: a write is judged by what its transaction has read and       *)
(* locked before, so the invariant says of every transaction in progress   *)
(* what its locks and its base are worth.                                  *)
(***************************************************************************)
EXTENDS PropertyLedger, TLAPS

Lock == [by : Broker, mode : {"share", "update"}]
Parts == Part \cup {NoParts}
Stored == [state : {"live", "deleted"}, parent : Complex \cup Unit \cup {"none"},
           version : Nat, value : Value, part : Parts]
Shown == [state : {"live"}, parent : Complex \cup Unit \cup {"none"},
          version : Nat, value : Value, part : Parts]

InsertTx == [pc : {"insert"}, row : Unit \cup Listing, parent : Complex \cup Unit,
             value : Value, part : Parts]
ComplexTx == [pc : {"count", "hide"}, row : Complex]
ScreenTx == [pc : {"loading", "shown", "delete"}, row : StoredRow, base : Shown]
SaveTx == [pc : {"read", "columns", "people", "bump", "commit"}, row : StoredRow, base : Shown,
           value : Value, part : Parts, named : BOOLEAN, wrote : SUBSET {"row", "part"}]

LedgerTyped ==
    /\ complexRow \in [Complex -> {"absent", "live", "deleted"}]
    /\ ledgerRow \in [StoredRow -> Stored \cup {Absent}]
    /\ \A u \in Unit : ledgerRow[u] # Absent => ledgerRow[u].parent \in Complex
    /\ ledgerLock \in [LockName -> SUBSET Lock]
    /\ ledgerTx \in [Broker -> {NoTx} \cup InsertTx \cup ComplexTx \cup ScreenTx \cup SaveTx]

Holds(b, n, mode) == [by |-> b, mode |-> mode] \in ledgerLock[n]

\* Two brokers hold a lock together only if both share it.
LocksExclude ==
    \A n \in LockName : \A k, l \in ledgerLock[n] :
        k.by # l.by => k.mode = "share" /\ l.mode = "share"

\* The complex of a unit that is being registered is kept by its shared lock.
Registers(b) ==
    ledgerTx[b].pc = "insert" /\ ledgerTx[b].row \in Unit =>
        /\ ledgerTx[b].parent \in Complex
        /\ complexRow[ledgerTx[b].parent] = "live"
        /\ Holds(b, <<ledgerTx[b].parent, "complex">>, "share")

\* A complex about to be hidden is locked, is there, and was found without units.
Hides(b) ==
    ledgerTx[b].pc \in {"count", "hide"} =>
        /\ ledgerTx[b] \in ComplexTx
        /\ Holds(b, <<ledgerTx[b].row, "complex">>, "update")
        /\ complexRow[ledgerTx[b].row] = "live"
        /\ ledgerTx[b].pc = "hide" => UnitsOf(ledgerTx[b].row) = {}

\* What a screen has loaded is the row as it is, or an older version of it.
Saw(b) ==
    ledgerTx[b].pc \in {"loading", "shown", "delete", "read", "columns", "people", "bump",
                        "commit"} =>
        /\ ledgerTx[b] \in ScreenTx \cup SaveTx
        /\ ledgerRow[ledgerTx[b].row] # Absent
        /\ ledgerTx[b].base.version <= ledgerRow[ledgerTx[b].row].version
        /\ ledgerTx[b].base.version = ledgerRow[ledgerTx[b].row].version =>
              IF ledgerTx[b].pc = "loading"
              THEN ledgerRow[ledgerTx[b].row] =
                      [ledgerTx[b].base EXCEPT !.part = ledgerRow[ledgerTx[b].row].part]
              ELSE ledgerTx[b].base = ledgerRow[ledgerTx[b].row]

\* Whatever is written is written under the lock of its row, at its base.
Writes(b) ==
    ledgerTx[b].pc \in {"read", "columns", "people", "bump", "commit"} =>
        /\ ledgerTx[b] \in SaveTx
        /\ ledgerTx[b].pc \in {"people", "bump"} => ledgerTx[b].row \in Unit
        /\ ledgerTx[b].pc \in {"read", "columns"} => ledgerTx[b].wrote = {}
        /\ "row" \in ledgerTx[b].wrote =>
              /\ Holds(b, <<ledgerTx[b].row, "row">>, "update")
              /\ ledgerTx[b].base.version = ledgerRow[ledgerTx[b].row].version
        /\ ledgerTx[b].pc # "bump" /\ "part" \in ledgerTx[b].wrote => "row" \in ledgerTx[b].wrote

TxInv(b) == Registers(b) /\ Hides(b) /\ Saw(b) /\ Writes(b)

LedgerInv ==
    LedgerTyped /\ LocksExclude /\ (\A b \in Broker : TxInv(b)) /\ UnitsHaveTheirComplex

AnyTx == {NoTx} \cup InsertTx \cup ComplexTx \cup ScreenTx \cup SaveTx

------------------------------------------------------------------------------
(* Transactions and locks                                                    *)

\* What screens show is stored, and shown live.
LEMMA ShownStored ==
    /\ Shown \subseteq Stored
    /\ \A x \in Stored : x.state = "live" => x \in Shown
    BY DEF Shown, Stored

\* The place of a transaction tells which fields it has.
LEMMA PcTells ==
    ASSUME LedgerTyped, NEW b \in Broker
    PROVE  /\ ledgerTx[b].pc = "idle" => ledgerTx[b] = NoTx
           /\ ledgerTx[b].pc = "insert" => ledgerTx[b] \in InsertTx
           /\ ledgerTx[b].pc \in {"count", "hide"} => ledgerTx[b] \in ComplexTx
           /\ ledgerTx[b].pc \in {"loading", "shown", "delete"} => ledgerTx[b] \in ScreenTx
           /\ ledgerTx[b].pc \in {"read", "columns", "people", "bump", "commit"} =>
                 ledgerTx[b] \in SaveTx
    BY DEF LedgerTyped, NoTx, InsertTx, ComplexTx, ScreenTx, SaveTx

\* What a step of b may do to the locks: those of the others stay.
LocksOfOthers(b) ==
    /\ ledgerLock' \in [LockName -> SUBSET Lock]
    /\ \A n \in LockName : \A l \in Lock :
          l.by # b => (l \in ledgerLock'[n] <=> l \in ledgerLock[n])

LEMMA LockKept ==
    ASSUME LedgerInv, NEW b \in Broker, UNCHANGED ledgerLock
    PROVE  LocksOfOthers(b) /\ LocksExclude'
    BY DEF LedgerInv, LedgerTyped, LocksExclude, LocksOfOthers

LEMMA LockDropped ==
    ASSUME LedgerInv, NEW b \in Broker, ledgerLock' = Unlocked(b)
    PROVE  LocksOfOthers(b) /\ LocksExclude'
    BY DEF LedgerInv, LedgerTyped, LocksExclude, LocksOfOthers, Unlocked

LEMMA LockTaken ==
    ASSUME LedgerInv, NEW b \in Broker, NEW n \in LockName, NEW mode \in {"share", "update"},
           CanLock(b, n, mode), Locks(b, n, mode)
    PROVE  /\ LocksOfOthers(b) /\ LocksExclude'
           /\ Holds(b, n, mode)'
           /\ \A m \in LockName, k \in {"share", "update"} : Holds(b, m, k) => Holds(b, m, k)'
<1> DEFINE new == [by |-> b, mode |-> mode]
<1>1. new \in Lock /\ new.by = b /\ new.mode = mode
    BY DEF Lock
<1>2. ledgerLock \in [LockName -> SUBSET Lock]
    BY DEF LedgerInv, LedgerTyped
<1>3. ledgerLock' = [ledgerLock EXCEPT ![n] = @ \cup {new}]
    BY DEF Locks
<1> HIDE DEF new
<1>4. /\ ledgerLock' \in [LockName -> SUBSET Lock]
      /\ ledgerLock'[n] = ledgerLock[n] \cup {new}
      /\ \A m \in LockName : m # n => ledgerLock'[m] = ledgerLock[m]
    BY <1>1, <1>2, <1>3
<1>5. LocksOfOthers(b)
    BY <1>1, <1>2, <1>4 DEF LocksOfOthers
<1>6. \A l \in ledgerLock[n] : l.by = b \/ (l.mode = "share" /\ mode = "share")
    BY DEF CanLock
<1>7. LocksExclude'
  <2>1. \A m \in LockName : \A k, l \in ledgerLock[m] :
            k.by # l.by => k.mode = "share" /\ l.mode = "share"
    BY DEF LedgerInv, LocksExclude
  <2> QED
    BY <1>1, <1>4, <1>6, <2>1 DEF LocksExclude
<1>8. Holds(b, n, mode)'
    BY <1>4 DEF Holds, new
<1>9. \A m \in LockName, k \in {"share", "update"} : Holds(b, m, k) => Holds(b, m, k)'
    BY <1>4 DEF Holds
<1> QED
    BY <1>5, <1>7, <1>8, <1>9

\* What the locks of the others say stays; what b holds is looked at by itself.
LEMMA OthersHold ==
    ASSUME NEW b \in Broker, LocksOfOthers(b), NEW o \in Broker, o # b, NEW n \in LockName,
           NEW mode \in {"share", "update"}
    PROVE  Holds(o, n, mode)' <=> Holds(o, n, mode)
<1>1. [by |-> o, mode |-> mode] \in Lock /\ [by |-> o, mode |-> mode].by # b
    BY DEF Lock
<1> QED
    BY <1>1 DEF LocksOfOthers, Holds

\* The locks that the invariant speaks of are locks.
LEMMA LockNames ==
    /\ \A c \in Complex : <<c, "complex">> \in LockName
    /\ \A r \in StoredRow : <<r, "row">> \in LockName
    /\ \A u \in Unit : <<u, "people">> \in LockName
    BY DEF LockName

\* A transaction that is over has nothing to keep.
LEMMA OverInv ==
    ASSUME NEW b \in Broker, ledgerTx[b] = NoTx
    PROVE  TxInv(b)
    BY DEF TxInv, Registers, Hides, Saw, Writes, NoTx

\* A step of one broker that writes nothing.
LEMMA QuietStep ==
    ASSUME LedgerInv, NEW b \in Broker, NEW t \in AnyTx,
           ledgerTx' = [ledgerTx EXCEPT ![b] = t],
           UNCHANGED <<complexRow, ledgerRow>>, LocksOfOthers(b), LocksExclude', TxInv(b)'
    PROVE  LedgerInv'
<1>0. ledgerTx \in [Broker -> AnyTx]
    BY DEF LedgerInv, LedgerTyped, AnyTx
<1>1. /\ ledgerTx' \in [Broker -> AnyTx]
      /\ \A o \in Broker : o # b => ledgerTx'[o] = ledgerTx[o]
    BY <1>0
<1>2. LedgerTyped'
    BY <1>1 DEF LedgerInv, LedgerTyped, AnyTx, LocksOfOthers
<1>3. ASSUME NEW o \in Broker, o # b PROVE TxInv(o)'
  <2>0. TxInv(o) /\ ledgerTx'[o] = ledgerTx[o] /\ LedgerTyped
    BY <1>1, <1>3 DEF LedgerInv
  <2>1. Registers(o)'
    BY <1>3, <2>0, OthersHold, LockNames DEF TxInv, Registers
  <2>2. Hides(o)'
    <3>1. CASE ledgerTx[o].pc \in {"count", "hide"}
      <4>1. ledgerTx[o].row \in Complex
        BY <2>0, <3>1, PcTells DEF ComplexTx
      <4> QED
        BY <1>3, <2>0, <3>1, <4>1, OthersHold, LockNames DEF TxInv, Hides, UnitsOf, IsLive
    <3> QED
      BY <2>0, <3>1 DEF Hides
  <2>3. Saw(o)'
    BY <2>0 DEF TxInv, Saw
  <2>4. Writes(o)'
    <3>1. CASE ledgerTx[o].pc \in {"read", "columns", "people", "bump", "commit"}
      <4>1. ledgerTx[o].row \in StoredRow
        BY <2>0, <3>1, PcTells DEF SaveTx
      <4> QED
        BY <1>3, <2>0, <3>1, <4>1, OthersHold, LockNames DEF TxInv, Writes
    <3> QED
      BY <2>0, <3>1 DEF Writes
  <2> QED
    BY <2>1, <2>2, <2>3, <2>4 DEF TxInv
<1>4. UnitsHaveTheirComplex'
    BY DEF LedgerInv, UnitsHaveTheirComplex, IsLive
<1> QED
    BY <1>2, <1>3, <1>4 DEF LedgerInv

\* A rollback, or the end of a transaction that wrote nothing.
LEMMA DropStep ==
    ASSUME LedgerInv, NEW b \in Broker, Drop(b)
    PROVE  LedgerInv'
<1>1. ledgerTx'[b] = NoTx
    BY DEF Drop, LedgerInv, LedgerTyped
<1>2. TxInv(b)'
    BY <1>1 DEF TxInv, Registers, Hides, Saw, Writes, NoTx
<1> QED
    BY <1>2, LockDropped, QuietStep DEF Drop, AnyTx

------------------------------------------------------------------------------
(* Writes to the committed rows                                              *)

\* A commit over an existing row: nobody else has locked it, and its version
\* grows; or it is left as it was.
LEMMA UpdateStep ==
    ASSUME LedgerInv, NEW b \in Broker, NEW r \in StoredRow, NEW v \in Stored,
           ledgerRow[r] # Absent,
           ledgerRow' = [ledgerRow EXCEPT ![r] = v],
           v.parent = ledgerRow[r].parent,
           v.state = "live" => ledgerRow[r].state = "live",
           \/ v = ledgerRow[r]
           \/ /\ v.version = ledgerRow[r].version + 1
              /\ \A o \in Broker : o # b => ~Holds(o, <<r, "row">>, "update"),
           ledgerTx' = [ledgerTx EXCEPT ![b] = NoTx],
           ledgerLock' = Unlocked(b), UNCHANGED complexRow
    PROVE  LedgerInv'
<1>0. /\ ledgerRow \in [StoredRow -> Stored \cup {Absent}] /\ ledgerTx \in [Broker -> AnyTx]
      /\ LedgerTyped /\ LocksOfOthers(b) /\ LocksExclude'
    BY LockDropped DEF LedgerInv, LedgerTyped, AnyTx
<1>1. /\ ledgerRow' \in [StoredRow -> Stored \cup {Absent}]
      /\ ledgerRow'[r] = v
      /\ \A x \in StoredRow : x # r => ledgerRow'[x] = ledgerRow[x]
      /\ ledgerTx' \in [Broker -> AnyTx] /\ ledgerTx'[b] = NoTx
      /\ \A o \in Broker : o # b => ledgerTx'[o] = ledgerTx[o]
    BY <1>0 DEF AnyTx
<1>2. v # Absent /\ v.version \in Nat /\ ledgerRow[r] \in Stored /\ ledgerRow[r].version \in Nat
    BY <1>0 DEF Stored, Absent
<1>3. LedgerTyped'
  <2>1. \A u \in Unit : ledgerRow'[u] # Absent => ledgerRow'[u].parent \in Complex
    BY <1>0, <1>1, <1>2 DEF LedgerTyped, StoredRow
  <2> QED
    BY <1>0, <1>1, <2>1 DEF LedgerTyped, AnyTx, LocksOfOthers
<1>4. \A c : UnitsOf(c)' \subseteq UnitsOf(c)
    BY <1>1 DEF UnitsOf, IsLive, StoredRow
<1>5. ASSUME NEW o \in Broker, o # b PROVE TxInv(o)'
  <2>0. TxInv(o) /\ ledgerTx'[o] = ledgerTx[o]
    BY <1>1, <1>5 DEF LedgerInv
  <2>1. Registers(o)'
    BY <1>0, <1>5, <2>0, OthersHold, LockNames DEF TxInv, Registers
  <2>2. Hides(o)'
    <3>1. CASE ledgerTx[o].pc \in {"count", "hide"}
      <4>1. ledgerTx[o].row \in Complex
        BY <1>0, <3>1, PcTells DEF ComplexTx
      <4> QED
        BY <1>0, <1>4, <1>5, <2>0, <3>1, <4>1, OthersHold, LockNames DEF TxInv, Hides
    <3> QED
      BY <2>0, <3>1 DEF Hides
  <2>3. Saw(o)'
    <3>1. CASE ledgerTx[o].pc \in {"loading", "shown", "delete", "read", "columns", "people",
                                   "bump", "commit"}
      <4>1. ledgerTx[o].row \in StoredRow /\ ledgerTx[o].base \in Stored
        BY <1>0, <3>1, PcTells, ShownStored DEF ScreenTx, SaveTx
      <4>2. CASE ledgerTx[o].row # r \/ v = ledgerRow[r]
        BY <1>1, <2>0, <3>1, <4>1, <4>2 DEF TxInv, Saw
      <4>3. CASE ledgerTx[o].row = r /\ v.version = ledgerRow[r].version + 1
        <5>1. ledgerTx[o].base.version \in Nat
          BY <4>1 DEF Stored
        <5>2. ledgerTx[o].base.version <= ledgerRow[r].version
          BY <2>0, <3>1, <4>3 DEF TxInv, Saw
        <5>3. /\ ledgerTx[o].base.version <= v.version
              /\ ledgerTx[o].base.version # v.version
          BY <1>2, <4>3, <5>1, <5>2
        <5> QED
          BY <1>1, <1>2, <2>0, <3>1, <4>3, <5>3 DEF TxInv, Saw
      <4> QED
        BY <4>2, <4>3
    <3> QED
      BY <2>0, <3>1 DEF Saw
  <2>4. Writes(o)'
    <3>1. CASE ledgerTx[o].pc \in {"read", "columns", "people", "bump", "commit"}
      <4>1. ledgerTx[o].row \in StoredRow
        BY <1>0, <3>1, PcTells DEF SaveTx
      <4>2. "row" \in ledgerTx[o].wrote =>
                /\ Holds(o, <<ledgerTx[o].row, "row">>, "update")'
                /\ ledgerTx[o].base.version = ledgerRow'[ledgerTx[o].row].version
        BY <1>0, <1>1, <1>5, <2>0, <3>1, <4>1, OthersHold, LockNames DEF TxInv, Writes
      <4> QED
        BY <2>0, <3>1, <4>2 DEF TxInv, Writes
    <3> QED
      BY <2>0, <3>1 DEF Writes
  <2> QED
    BY <2>1, <2>2, <2>3, <2>4 DEF TxInv
<1>6. TxInv(b)'
    BY <1>1 DEF TxInv, Registers, Hides, Saw, Writes, NoTx
<1>7. UnitsHaveTheirComplex'
  <2>1. \A u \in Unit : IsLive(u)' => IsLive(u) /\ ledgerRow'[u].parent = ledgerRow[u].parent
    BY <1>1 DEF IsLive, StoredRow
  <2> QED
    BY <2>1 DEF LedgerInv, UnitsHaveTheirComplex
<1> QED
    BY <1>0, <1>3, <1>5, <1>6, <1>7 DEF LedgerInv

\* The commit of a new row: nobody is about to hide the complex of a new unit.
LEMMA InsertStep ==
    ASSUME LedgerInv, NEW b \in Broker, NEW r \in StoredRow, NEW v \in Stored,
           ledgerRow[r] = Absent,
           ledgerRow' = [ledgerRow EXCEPT ![r] = v],
           r \in Unit => /\ v.parent \in Complex
                         /\ complexRow[v.parent] = "live"
                         /\ \A o \in Broker : o # b =>
                                ~Holds(o, <<v.parent, "complex">>, "update"),
           ledgerTx' = [ledgerTx EXCEPT ![b] = NoTx],
           LocksOfOthers(b), LocksExclude', UNCHANGED complexRow
    PROVE  LedgerInv'
<1>0. /\ ledgerRow \in [StoredRow -> Stored \cup {Absent}] /\ ledgerTx \in [Broker -> AnyTx]
      /\ LedgerTyped
    BY DEF LedgerInv, LedgerTyped, AnyTx
<1>1. /\ ledgerRow' \in [StoredRow -> Stored \cup {Absent}]
      /\ ledgerRow'[r] = v
      /\ \A x \in StoredRow : x # r => ledgerRow'[x] = ledgerRow[x]
      /\ ledgerTx' \in [Broker -> AnyTx] /\ ledgerTx'[b] = NoTx
      /\ \A o \in Broker : o # b => ledgerTx'[o] = ledgerTx[o]
    BY <1>0 DEF AnyTx
<1>3. LedgerTyped'
  <2>1. \A u \in Unit : ledgerRow'[u] # Absent => ledgerRow'[u].parent \in Complex
    BY <1>0, <1>1 DEF LedgerTyped, StoredRow
  <2> QED
    BY <1>0, <1>1, <2>1 DEF LedgerTyped, AnyTx, LocksOfOthers
<1>4. \A c : r \notin Unit \/ c # v.parent => UnitsOf(c)' \subseteq UnitsOf(c)
    BY <1>1 DEF UnitsOf, IsLive, StoredRow
<1>5. ASSUME NEW o \in Broker, o # b PROVE TxInv(o)'
  <2>0. TxInv(o) /\ ledgerTx'[o] = ledgerTx[o]
    BY <1>1, <1>5 DEF LedgerInv
  <2>1. Registers(o)'
    BY <1>5, <2>0, OthersHold, LockNames DEF TxInv, Registers
  <2>2. Hides(o)'
    <3>1. CASE ledgerTx[o].pc \in {"count", "hide"}
      <4>1. /\ ledgerTx[o].row \in Complex
            /\ Holds(o, <<ledgerTx[o].row, "complex">>, "update")
        BY <1>0, <2>0, <3>1, PcTells DEF ComplexTx, TxInv, Hides
      <4>2. r \notin Unit \/ ledgerTx[o].row # v.parent
        BY <1>5, <4>1
      <4> QED
        BY <1>4, <1>5, <2>0, <3>1, <4>1, <4>2, OthersHold, LockNames DEF TxInv, Hides
    <3> QED
      BY <2>0, <3>1 DEF Hides
  <2>3. Saw(o)'
    <3>1. CASE ledgerTx[o].pc \in {"loading", "shown", "delete", "read", "columns", "people",
                                   "bump", "commit"}
      <4>1. ledgerTx[o].row \in StoredRow /\ ledgerTx[o].row # r
        BY <1>0, <2>0, <3>1, PcTells DEF ScreenTx, SaveTx, TxInv, Saw
      <4> QED
        BY <1>1, <2>0, <3>1, <4>1 DEF TxInv, Saw
    <3> QED
      BY <2>0, <3>1 DEF Saw
  <2>4. Writes(o)'
    <3>1. CASE ledgerTx[o].pc \in {"read", "columns", "people", "bump", "commit"}
      <4>1. ledgerTx[o].row \in StoredRow /\ ledgerTx[o].row # r
        BY <1>0, <2>0, <3>1, PcTells DEF SaveTx, TxInv, Saw
      <4> QED
        BY <1>1, <1>5, <2>0, <3>1, <4>1, OthersHold, LockNames DEF TxInv, Writes
    <3> QED
      BY <2>0, <3>1 DEF Writes
  <2> QED
    BY <2>1, <2>2, <2>3, <2>4 DEF TxInv
<1>6. TxInv(b)'
    BY <1>1 DEF TxInv, Registers, Hides, Saw, Writes, NoTx
<1>7. UnitsHaveTheirComplex'
  <2>1. \A u \in Unit : u # r /\ IsLive(u)' =>
            IsLive(u) /\ ledgerRow'[u].parent = ledgerRow[u].parent
    BY <1>1 DEF IsLive, StoredRow
  <2> QED
    BY <1>1, <2>1 DEF LedgerInv, UnitsHaveTheirComplex
<1> QED
    BY <1>3, <1>5, <1>6, <1>7 DEF LedgerInv

\* A change of one complex that no unit and no registration rests on.
LEMMA ComplexStep ==
    ASSUME LedgerInv, NEW b \in Broker, NEW c \in Complex, NEW s \in {"live", "deleted"},
           complexRow' = [complexRow EXCEPT ![c] = s],
           s = "deleted" => /\ UnitsOf(c) = {}
                            /\ \A o \in Broker, mode \in {"share", "update"} :
                                  o # b => ~Holds(o, <<c, "complex">>, mode),
           ledgerTx' = [ledgerTx EXCEPT ![b] = NoTx],
           LocksOfOthers(b), LocksExclude', UNCHANGED ledgerRow
    PROVE  LedgerInv'
<1>0. /\ ledgerTx \in [Broker -> AnyTx] /\ LedgerTyped
      /\ complexRow \in [Complex -> {"absent", "live", "deleted"}]
    BY DEF LedgerInv, LedgerTyped, AnyTx
<1>1. /\ complexRow' \in [Complex -> {"absent", "live", "deleted"}]
      /\ complexRow'[c] = s
      /\ \A d \in Complex : d # c => complexRow'[d] = complexRow[d]
      /\ ledgerTx' \in [Broker -> AnyTx] /\ ledgerTx'[b] = NoTx
      /\ \A o \in Broker : o # b => ledgerTx'[o] = ledgerTx[o]
    BY <1>0 DEF AnyTx
<1>2. LedgerTyped'
    BY <1>0, <1>1 DEF LedgerTyped, AnyTx, LocksOfOthers
<1>3. ASSUME NEW o \in Broker, o # b PROVE TxInv(o)'
  <2>0. TxInv(o) /\ ledgerTx'[o] = ledgerTx[o]
    BY <1>1, <1>3 DEF LedgerInv
  <2>1. Registers(o)'
    BY <1>1, <1>3, <2>0, OthersHold, LockNames DEF TxInv, Registers
  <2>2. Hides(o)'
    <3>1. CASE ledgerTx[o].pc \in {"count", "hide"}
      <4>1. ledgerTx[o].row \in Complex
        BY <1>0, <3>1, PcTells DEF ComplexTx
      <4> QED
        BY <1>1, <1>3, <2>0, <3>1, <4>1, OthersHold, LockNames DEF TxInv, Hides, UnitsOf, IsLive
    <3> QED
      BY <2>0, <3>1 DEF Hides
  <2>3. Saw(o)'
    BY <2>0 DEF TxInv, Saw
  <2>4. Writes(o)'
    <3>1. CASE ledgerTx[o].pc \in {"read", "columns", "people", "bump", "commit"}
      <4>1. ledgerTx[o].row \in StoredRow
        BY <1>0, <3>1, PcTells DEF SaveTx
      <4> QED
        BY <1>3, <2>0, <3>1, <4>1, OthersHold, LockNames DEF TxInv, Writes
    <3> QED
      BY <2>0, <3>1 DEF Writes
  <2> QED
    BY <2>1, <2>2, <2>3, <2>4 DEF TxInv
<1>4. TxInv(b)'
    BY <1>1 DEF TxInv, Registers, Hides, Saw, Writes, NoTx
<1>5. UnitsHaveTheirComplex'
  <2>1. ASSUME NEW u \in Unit, IsLive(u)' PROVE complexRow'[ledgerRow'[u].parent] = "live"
    <3>1. IsLive(u) /\ ledgerRow'[u].parent = ledgerRow[u].parent
      BY <2>1 DEF IsLive
    <3>2. ledgerRow[u].parent \in Complex
      BY <1>0, <3>1 DEF LedgerTyped, IsLive, Absent
    <3>3. ledgerRow[u].parent # c \/ s = "live"
      BY <3>1 DEF UnitsOf
    <3> QED
      BY <1>1, <3>1, <3>2, <3>3 DEF LedgerInv, UnitsHaveTheirComplex
  <2> QED
    BY <2>1 DEF UnitsHaveTheirComplex
<1> QED
    BY <1>2, <1>3, <1>4, <1>5 DEF LedgerInv

------------------------------------------------------------------------------
(* One lemma per action                                                      *)

\* What every step starts from.
LEMMA Before ==
    ASSUME LedgerInv, NEW b \in Broker
    PROVE  /\ LedgerTyped /\ LocksExclude /\ TxInv(b) /\ UnitsHaveTheirComplex
           /\ ledgerTx \in [Broker -> AnyTx]
           /\ ledgerRow \in [StoredRow -> Stored \cup {Absent}]
           /\ ledgerTx[b] \in AnyTx
    BY DEF LedgerInv, LedgerTyped, AnyTx

\* The ledger starts empty.
LEMMA InitLedger == LedgerInit => LedgerInv
<1> SUFFICES ASSUME LedgerInit PROVE LedgerInv
    OBVIOUS
<1>1. \A b \in Broker : ledgerTx[b] = NoTx
    BY DEF LedgerInit
<1>2. \A b \in Broker : TxInv(b)
    BY <1>1, OverInv
<1>3. LedgerTyped
    BY DEF LedgerInit, LedgerTyped, StoredRow
<1>4. LocksExclude
    BY DEF LedgerInit, LocksExclude
<1>5. UnitsHaveTheirComplex
    BY DEF LedgerInit, UnitsHaveTheirComplex, IsLive, Absent, StoredRow
<1> QED
    BY <1>2, <1>3, <1>4, <1>5 DEF LedgerInv

\* A new complex: no unit was in it.
LEMMA CreateComplexStep ==
    ASSUME LedgerInv, NEW b \in Broker, NEW c \in Complex, CreateComplex(b, c)
    PROVE  LedgerInv'
<1>1. ledgerTx' = [ledgerTx EXCEPT ![b] = NoTx]
    BY Before DEF CreateComplex
<1>2. complexRow' = [complexRow EXCEPT ![c] = "live"] /\ UNCHANGED ledgerRow /\ UNCHANGED ledgerLock
    BY DEF CreateComplex
<1>3. LocksOfOthers(b) /\ LocksExclude'
    BY <1>2, LockKept
<1> QED
    BY <1>1, <1>2, <1>3, ComplexStep

\* The exclusive lock of a deletion.
LEMMA DeleteComplexStep ==
    ASSUME LedgerInv, NEW b \in Broker, NEW c \in Complex, DeleteComplex(b, c)
    PROVE  LedgerInv'
<1> DEFINE t == [pc |-> "count", row |-> c]
<1>1. /\ ledgerTx' = [ledgerTx EXCEPT ![b] = t] /\ UNCHANGED <<complexRow, ledgerRow>>
      /\ complexRow[c] = "live"
      /\ CanLock(b, <<c, "complex">>, "update") /\ Locks(b, <<c, "complex">>, "update")
    BY DEF DeleteComplex
<1>2. t \in ComplexTx /\ t \in AnyTx
    BY DEF ComplexTx, AnyTx
<1>3. <<c, "complex">> \in LockName
    BY LockNames
<1>4. LocksOfOthers(b) /\ LocksExclude' /\ Holds(b, <<c, "complex">>, "update")'
    BY <1>1, <1>3, LockTaken
<1>5. ledgerTx'[b] = t
    BY <1>1, Before
<1>6. TxInv(b)'
    BY <1>1, <1>2, <1>4, <1>5 DEF TxInv, Registers, Hides, Saw, Writes
<1> QED
    BY <1>1, <1>2, <1>4, <1>6, QuietStep

\* The shared lock of a registration.
LEMMA CreateUnitStep ==
    ASSUME LedgerInv, NEW b \in Broker, NEW u \in Unit, NEW c \in Complex, NEW v \in Value,
           NEW p \in Part, CreateUnit(b, u, c, v, p)
    PROVE  LedgerInv'
<1> DEFINE t == [pc |-> "insert", row |-> u, parent |-> c, value |-> v, part |-> p]
<1>1. /\ ledgerTx' = [ledgerTx EXCEPT ![b] = t] /\ UNCHANGED <<complexRow, ledgerRow>>
      /\ CanLock(b, <<c, "complex">>, "share") /\ Locks(b, <<c, "complex">>, "share")
      /\ complexRow[c] = "live"
    BY DEF CreateUnit, ReadsComplex
<1>2. t \in AnyTx
    BY DEF InsertTx, AnyTx, Parts
<1>3. <<c, "complex">> \in LockName
    BY LockNames
<1>4. LocksOfOthers(b) /\ LocksExclude' /\ Holds(b, <<c, "complex">>, "share")'
    BY <1>1, <1>3, LockTaken
<1>5. ledgerTx'[b] = t
    BY <1>1, Before
<1>6. TxInv(b)'
    BY <1>1, <1>4, <1>5 DEF TxInv, Registers, Hides, Saw, Writes
<1> QED
    BY <1>1, <1>2, <1>4, <1>6, QuietStep

\* The count under the exclusive lock.
LEMMA CountUnitsStep ==
    ASSUME LedgerInv, NEW b \in Broker, CountUnits(b)
    PROVE  LedgerInv'
<1> DEFINE c == ledgerTx[b].row
           t == [pc |-> "hide", row |-> c]
<1>1. /\ ledgerTx[b] \in ComplexTx /\ c \in Complex /\ complexRow[c] = "live"
      /\ Holds(b, <<c, "complex">>, "update")
    BY Before DEF CountUnits, TxInv, Hides, ComplexTx
<1>2. CASE UnitsOf(c) = {}
  <2>1. /\ ledgerTx' = [ledgerTx EXCEPT ![b].pc = "hide"]
        /\ UNCHANGED <<complexRow, ledgerRow>> /\ UNCHANGED ledgerLock
    BY <1>2 DEF CountUnits, Goto
  <2>2. [ledgerTx[b] EXCEPT !.pc = "hide"] = t
    BY <1>1 DEF ComplexTx
  <2>3. ledgerTx' = [ledgerTx EXCEPT ![b] = t]
    BY <2>1, <2>2
  <2>4. t \in ComplexTx /\ t \in AnyTx
    BY <1>1 DEF ComplexTx, AnyTx
  <2>5. LocksOfOthers(b) /\ LocksExclude'
    BY <2>1, LockKept
  <2>6. ledgerTx'[b] = t
    BY <2>3, Before
  <2>7. /\ Holds(b, <<c, "complex">>, "update")' /\ UnitsOf(c)' = {}
        /\ complexRow'[ledgerTx'[b].row] = "live"
    BY <1>1, <1>2, <2>1, <2>6 DEF Holds, UnitsOf, IsLive
  <2>8. TxInv(b)'
    BY <2>4, <2>6, <2>7 DEF TxInv, Registers, Hides, Saw, Writes
  <2> QED
    BY <2>1, <2>3, <2>4, <2>5, <2>8, QuietStep
<1>3. CASE UnitsOf(c) # {}
    BY <1>3, DropStep DEF CountUnits
<1> QED
    BY <1>2, <1>3

\* The deletion commits: the lock has kept every registration out.
LEMMA HideComplexStep ==
    ASSUME LedgerInv, NEW b \in Broker, HideComplex(b)
    PROVE  LedgerInv'
<1> DEFINE c == ledgerTx[b].row
<1>1. /\ c \in Complex /\ UnitsOf(c) = {}
      /\ Holds(b, <<c, "complex">>, "update")
    BY Before DEF HideComplex, TxInv, Hides, ComplexTx
<1>2. /\ complexRow' = [complexRow EXCEPT ![c] = "deleted"]
      /\ ledgerTx' = [ledgerTx EXCEPT ![b] = NoTx]
      /\ ledgerLock' = Unlocked(b) /\ UNCHANGED ledgerRow
    BY DEF HideComplex
<1>3. LocksOfOthers(b) /\ LocksExclude'
    BY <1>2, LockDropped
<1>4. ASSUME NEW o \in Broker, NEW mode \in {"share", "update"}, o # b
      PROVE  ~Holds(o, <<c, "complex">>, mode)
  <2>1. <<c, "complex">> \in LockName
    BY <1>1, LockNames
  <2>2. LocksExclude
    BY Before
  <2> QED
    BY <1>1, <1>4, <2>1, <2>2 DEF Holds, LocksExclude
<1> QED
    BY <1>1, <1>2, <1>3, <1>4, ComplexStep

\* The registration commits: its shared lock has kept the complex.
LEMMA InsertRowStep ==
    ASSUME LedgerInv, NEW b \in Broker, InsertRow(b)
    PROVE  LedgerInv'
<1> DEFINE tx == ledgerTx[b]
           v == NewRow(tx.parent, tx.value, tx.part)
<1>1. tx \in InsertTx
    BY Before, PcTells DEF InsertRow
<1>2. tx.row \in StoredRow /\ v \in Stored
    BY <1>1 DEF InsertTx, StoredRow, Stored, NewRow
<1>3. /\ ledgerRow[tx.row] = Absent
      /\ ledgerRow' = [ledgerRow EXCEPT ![tx.row] = v]
      /\ ledgerTx' = [ledgerTx EXCEPT ![b] = NoTx]
      /\ ledgerLock' = Unlocked(b) /\ UNCHANGED complexRow
    BY DEF InsertRow
<1>4. LocksOfOthers(b) /\ LocksExclude'
    BY <1>3, LockDropped
<1>5. v.parent = tx.parent
    BY DEF NewRow
<1>6. ASSUME tx.row \in Unit
      PROVE  /\ tx.parent \in Complex /\ complexRow[tx.parent] = "live"
             /\ \A o \in Broker : o # b => ~Holds(o, <<tx.parent, "complex">>, "update")
  <2>1. /\ tx.parent \in Complex /\ complexRow[tx.parent] = "live"
        /\ Holds(b, <<tx.parent, "complex">>, "share")
    BY <1>6, Before DEF InsertRow, TxInv, Registers
  <2>2. <<tx.parent, "complex">> \in LockName
    BY <2>1, LockNames
  <2>3. LocksExclude
    BY Before
  <2> QED
    BY <2>1, <2>2, <2>3 DEF Holds, LocksExclude
<1> QED
    BY <1>2, <1>3, <1>4, <1>5, <1>6, InsertStep

\* A listing looks for its unit and locks nothing.
LEMMA CreateListingStep ==
    ASSUME LedgerInv, NEW b \in Broker, NEW l \in Listing, NEW u \in Unit, NEW v \in Value,
           CreateListing(b, l, u, v)
    PROVE  LedgerInv'
<1> DEFINE t == [pc |-> "insert", row |-> l, parent |-> u, value |-> v, part |-> NoParts]
<1>1. /\ ledgerTx' = [ledgerTx EXCEPT ![b] = t]
      /\ UNCHANGED <<complexRow, ledgerRow>> /\ UNCHANGED ledgerLock
    BY DEF CreateListing, Begin
<1>2. t \in AnyTx
    BY DEF InsertTx, AnyTx, Parts
<1>3. ledgerTx'[b] = t
    BY <1>1, Before
<1>4. l \notin Unit
    BY LedgerAssumption
<1>5. TxInv(b)'
    BY <1>3, <1>4 DEF TxInv, Registers, Hides, Saw, Writes
<1> QED
    BY <1>1, <1>2, <1>5, LockKept, QuietStep

\* Requirements and events are inserted at once.
LEMMA InsertsStep ==
    ASSUME LedgerInv, NEW b \in Broker, NEW r \in Requirement \cup Event, NEW v \in Value,
           NEW p \in Parts, Inserts(b, r, v, p)
    PROVE  LedgerInv'
<1> DEFINE new == NewRow("none", v, p)
<1>1. ledgerTx' = [ledgerTx EXCEPT ![b] = NoTx]
    BY Before DEF Inserts
<1>2. /\ ledgerRow[r] = Absent /\ ledgerRow' = [ledgerRow EXCEPT ![r] = new]
      /\ UNCHANGED complexRow /\ UNCHANGED ledgerLock
    BY DEF Inserts
<1>3. r \in StoredRow /\ r \notin Unit /\ new \in Stored
    BY LedgerAssumption DEF StoredRow, Stored, NewRow
<1> QED
    BY <1>1, <1>2, <1>3, LockKept, InsertStep

\* The first statement of a screen.
LEMMA LoadRowStep ==
    ASSUME LedgerInv, NEW b \in Broker, NEW r \in StoredRow, LoadRow(b, r)
    PROVE  LedgerInv'
<1> DEFINE t == [pc |-> "loading", row |-> r, base |-> ledgerRow[r]]
<1>1. /\ ledgerTx' = [ledgerTx EXCEPT ![b] = t]
      /\ UNCHANGED <<complexRow, ledgerRow>> /\ UNCHANGED ledgerLock
    BY DEF LoadRow, Begin
<1>2. ledgerRow[r] # Absent /\ ledgerRow[r] \in Stored /\ ledgerRow[r] \in Shown
    BY Before, ShownStored DEF LoadRow, Found, IsLive, Absent
<1>3. t \in ScreenTx /\ t \in AnyTx
    BY <1>2 DEF ScreenTx, AnyTx
<1>4. ledgerTx'[b] = t
    BY <1>1, Before
<1>5. /\ ledgerRow[r].version \in Nat
      /\ ledgerRow[r] = [ledgerRow[r] EXCEPT !.part = ledgerRow[r].part]
    BY <1>2 DEF Stored
<1>6. TxInv(b)'
  <2>1. Saw(b)'
    BY <1>1, <1>2, <1>3, <1>4, <1>5 DEF Saw
  <2> QED
    BY <1>4, <2>1 DEF TxInv, Registers, Hides, Writes
<1> QED
    BY <1>1, <1>3, <1>6, LockKept, QuietStep

\* A record of a screen, field by field.
LEMMA ScreenFields ==
    ASSUME NEW t \in ScreenTx, NEW p \in Parts
    PROVE  /\ [t EXCEPT !.pc = "shown", !.base.part = p] =
                 [pc |-> "shown", row |-> t.row, base |-> [t.base EXCEPT !.part = p]]
           /\ t.row \in StoredRow /\ t.base \in Shown
           /\ [t.base EXCEPT !.part = p] \in Shown
           /\ [t.base EXCEPT !.part = p].version = t.base.version
<1>1. t = [pc |-> t.pc, row |-> t.row, base |-> t.base] /\ t.row \in StoredRow /\ t.base \in Shown
    BY DEF ScreenTx
<1>2. /\ [t.base EXCEPT !.part = p] \in Shown
      /\ [t.base EXCEPT !.part = p].version = t.base.version
    BY <1>1 DEF Shown
<1>3. [t EXCEPT !.pc = "shown", !.base.part = p] =
      [t EXCEPT !.pc = "shown", !.base = [t.base EXCEPT !.part = p]]
    BY <1>1
<1>4. ASSUME NEW x \in Shown
      PROVE  [t EXCEPT !.pc = "shown", !.base = x] =
                [pc |-> "shown", row |-> t.row, base |-> x]
  <2> DEFINE e == [t EXCEPT !.pc = "shown", !.base = x]
  <2>1. e.pc = "shown" /\ e.row = t.row /\ e.base = x
    BY DEF ScreenTx
  <2>2. e \in ScreenTx
    BY DEF ScreenTx
  <2> HIDE DEF e
  <2>3. e = [pc |-> e.pc, row |-> e.row, base |-> e.base]
    BY <2>2 DEF ScreenTx
  <2>4. e = [pc |-> "shown", row |-> t.row, base |-> x]
    BY <2>1, <2>3
  <2> QED
    BY <2>4 DEF e
<1> QED
    BY <1>1, <1>2, <1>3, <1>4

\* The second statement: if the version is still that of the first, the row is.
LEMMA LoadPartsStep ==
    ASSUME LedgerInv, NEW b \in Broker, LoadParts(b)
    PROVE  LedgerInv'
<1> DEFINE tx == ledgerTx[b]
           base == [tx.base EXCEPT !.part = ledgerRow[tx.row].part]
           t == [pc |-> "shown", row |-> tx.row, base |-> base]
<1>1. /\ tx.pc = "loading" /\ tx \in ScreenTx
      /\ ledgerTx' = [ledgerTx EXCEPT ![b].pc = "shown",
                                      ![b].base.part = ledgerRow[tx.row].part]
      /\ UNCHANGED <<complexRow, ledgerRow>> /\ UNCHANGED ledgerLock
    BY Before, PcTells DEF LoadParts
<1>2. /\ tx.row \in StoredRow
      /\ ledgerRow[tx.row] # Absent /\ ledgerRow[tx.row] \in Stored
      /\ ledgerRow[tx.row].part \in Parts
      /\ tx.base.version <= ledgerRow[tx.row].version
      /\ tx.base.version = ledgerRow[tx.row].version => base = ledgerRow[tx.row]
    BY <1>1, Before DEF TxInv, Saw, ScreenTx, Stored
<1>3. /\ [tx EXCEPT !.pc = "shown", !.base.part = ledgerRow[tx.row].part] = t
      /\ base \in Shown /\ base.version = tx.base.version
    BY <1>1, <1>2, ScreenFields
<1>4. ledgerTx' = [ledgerTx EXCEPT ![b] = t]
    BY <1>1, <1>3
<1>6. t \in ScreenTx /\ t \in AnyTx
    BY <1>2, <1>3 DEF ScreenTx, AnyTx
<1>7. /\ ledgerTx'[b] = t /\ t.pc = "shown" /\ t.row = tx.row /\ t.base = base
      /\ UNCHANGED ledgerRow
    BY <1>1, <1>4, Before
<1>8. TxInv(b)'
  <2> HIDE DEF t, base, tx
  <2>1. Saw(b)'
    BY <1>2, <1>3, <1>6, <1>7 DEF Saw
  <2> QED
    BY <1>7, <2>1 DEF TxInv, Registers, Hides, Writes
<1> QED
    BY <1>1, <1>4, <1>6, <1>8, LockKept, QuietStep

\* The request of a save carries the base of its screen.
LEMMA SaveStep ==
    ASSUME LedgerInv, NEW b \in Broker, NEW v \in Value, NEW p \in Parts, NEW named \in BOOLEAN,
           Save(b, v, p, named)
    PROVE  LedgerInv'
<1> DEFINE tx == ledgerTx[b]
           t == [pc |-> "read", row |-> tx.row, base |-> tx.base, value |-> v, part |-> p,
                 named |-> named, wrote |-> {}]
<1>1. /\ tx.pc = "shown" /\ tx \in ScreenTx
      /\ ledgerTx' = [ledgerTx EXCEPT ![b] = t]
      /\ UNCHANGED <<complexRow, ledgerRow>> /\ UNCHANGED ledgerLock
    BY Before, PcTells DEF Save
<1>2. t \in SaveTx /\ t \in AnyTx
    BY <1>1 DEF ScreenTx, SaveTx, AnyTx
<1>3. /\ ledgerRow[tx.row] # Absent
      /\ tx.base.version <= ledgerRow[tx.row].version
      /\ tx.base.version = ledgerRow[tx.row].version => tx.base = ledgerRow[tx.row]
    BY <1>1, Before DEF TxInv, Saw
<1>4. ledgerTx'[b] = t
    BY <1>1, Before
<1>5. TxInv(b)'
  <2>1. Saw(b)'
    BY <1>1, <1>2, <1>3, <1>4 DEF Saw
  <2>2. Writes(b)'
    BY <1>2, <1>4 DEF Writes
  <2> QED
    BY <1>4, <2>1, <2>2 DEF TxInv, Registers, Hides
<1> QED
    BY <1>1, <1>2, <1>5, LockKept, QuietStep

\* What is known of a save in progress, and what a step within it leaves.
LEMMA SaveFacts ==
    ASSUME LedgerInv, NEW b \in Broker,
           ledgerTx[b].pc \in {"read", "columns", "people", "bump", "commit"}
    PROVE  /\ ledgerTx[b] \in SaveTx /\ ledgerTx[b].row \in StoredRow
           /\ ledgerTx[b].base \in Shown /\ ledgerTx[b].base \in Stored
           /\ ledgerRow[ledgerTx[b].row] # Absent /\ ledgerRow[ledgerTx[b].row] \in Stored
           /\ ledgerTx[b].base.version <= ledgerRow[ledgerTx[b].row].version
           /\ ledgerTx[b].base.version = ledgerRow[ledgerTx[b].row].version =>
                 ledgerTx[b].base = ledgerRow[ledgerTx[b].row]
           /\ <<ledgerTx[b].row, "row">> \in LockName
           /\ ledgerTx[b].pc \in {"people", "bump"} => ledgerTx[b].row \in Unit
           /\ ledgerTx[b].pc \in {"read", "columns"} => ledgerTx[b].wrote = {}
           /\ "row" \in ledgerTx[b].wrote =>
                 /\ Holds(b, <<ledgerTx[b].row, "row">>, "update")
                 /\ ledgerTx[b].base.version = ledgerRow[ledgerTx[b].row].version
           /\ ledgerTx[b].pc # "bump" /\ "part" \in ledgerTx[b].wrote =>
                 "row" \in ledgerTx[b].wrote
<1>1. ledgerTx[b] \in SaveTx /\ ledgerTx[b].row \in StoredRow /\ ledgerTx[b].base \in Shown
    BY Before, PcTells DEF SaveTx
<1>2. Saw(b) /\ Writes(b) /\ ledgerRow[ledgerTx[b].row] \in Stored \cup {Absent}
    BY <1>1, Before DEF TxInv
<1> QED
    BY <1>1, <1>2, LockNames, ShownStored DEF Saw, Writes

\* A step within a save that commits nothing.
LEMMA WithinSave ==
    ASSUME LedgerInv, NEW b \in Broker,
           ledgerTx[b].pc \in {"read", "columns", "people", "bump", "commit"},
           NEW t \in SaveTx, t.row = ledgerTx[b].row, t.base = ledgerTx[b].base,
           ledgerTx' = [ledgerTx EXCEPT ![b] = t],
           UNCHANGED <<complexRow, ledgerRow>>, LocksOfOthers(b), LocksExclude',
           t.pc \in {"people", "bump"} => t.row \in Unit,
           t.pc \in {"read", "columns"} => t.wrote = {},
           "row" \in t.wrote => /\ Holds(b, <<t.row, "row">>, "update")'
                                /\ t.base.version = ledgerRow[t.row].version,
           t.pc # "bump" /\ "part" \in t.wrote => "row" \in t.wrote
    PROVE  LedgerInv'
<1>1. t \in AnyTx /\ ledgerTx'[b] = t
    BY Before DEF AnyTx
<1>2. t.pc \in {"read", "columns", "people", "bump", "commit"}
    BY DEF SaveTx
<1>3. UNCHANGED ledgerRow
    OBVIOUS
<1>4. Saw(b)'
    BY <1>1, <1>2, <1>3, SaveFacts DEF Saw
<1>5. Writes(b)'
    BY <1>1, <1>2, <1>3 DEF Writes
<1>6. TxInv(b)'
    BY <1>1, <1>2, <1>4, <1>5 DEF TxInv, Registers, Hides
<1> QED
    BY <1>1, <1>6, QuietStep

\* How a save goes on.
SaveGo(t, pc, named, wrote) == [t EXCEPT !.pc = pc, !.named = named, !.wrote = wrote]

\* A record of a save, field by field.
LEMMA SaveFields ==
    ASSUME NEW t \in SaveTx, NEW pc \in {"read", "columns", "people", "bump", "commit"},
           NEW named \in BOOLEAN, NEW wrote \in SUBSET {"row", "part"}
    PROVE  /\ SaveGo(t, pc, named, wrote) \in SaveTx
           /\ SaveGo(t, pc, named, wrote).pc = pc
           /\ SaveGo(t, pc, named, wrote).row = t.row
           /\ SaveGo(t, pc, named, wrote).base = t.base
           /\ SaveGo(t, pc, named, wrote).wrote = wrote
           /\ t.named \in BOOLEAN /\ t.wrote \in SUBSET {"row", "part"}
    BY DEF SaveTx, SaveGo

\* The check of the version, before anything is locked.
LEMMA SaveReadStep ==
    ASSUME LedgerInv, NEW b \in Broker, SaveRead(b)
    PROVE  LedgerInv'
<1> DEFINE tx == ledgerTx[b]
           found == ledgerRow[tx.row]
           changed == tx.value # found.value \/ (tx.row \in Requirement /\ tx.part # found.part)
           named == IF tx.row \in Unit THEN tx.named ELSE changed
<1>1. tx.pc = "read" /\ tx \in SaveTx /\ tx.wrote = {}
    BY SaveFacts DEF SaveRead
<1>2. CASE Drop(b)
    BY <1>2, DropStep
<1>3. CASE /\ ledgerTx' = [ledgerTx EXCEPT ![b].pc = "columns",
                                           ![b].named = IF tx.row \in Unit THEN @ ELSE changed]
           /\ UNCHANGED <<complexRow, ledgerRow, ledgerLock>>
  <2>1. named \in BOOLEAN
    BY <1>1, SaveFields
  <2>2. PICK t \in SaveTx :
            /\ t.pc = "columns" /\ t.row = tx.row /\ t.base = tx.base /\ t.wrote = {}
            /\ [tx EXCEPT !.pc = "columns", !.named = named] = t
    <3>1. tx.wrote \in SUBSET {"row", "part"}
      BY <1>1
    <3>2. tx \in SaveTx /\ "columns" \in {"read", "columns", "people", "bump", "commit"}
      BY <1>1
    <3> HIDE DEF tx, named
    <3>3. /\ SaveGo(tx, "columns", named, tx.wrote) \in SaveTx
          /\ SaveGo(tx, "columns", named, tx.wrote).pc = "columns"
          /\ SaveGo(tx, "columns", named, tx.wrote).row = tx.row
          /\ SaveGo(tx, "columns", named, tx.wrote).base = tx.base
          /\ SaveGo(tx, "columns", named, tx.wrote).wrote = tx.wrote
      BY <2>1, <3>1, <3>2, SaveFields
    <3>4. [tx EXCEPT !.pc = "columns", !.named = named] = SaveGo(tx, "columns", named, tx.wrote)
      BY <3>2 DEF SaveGo, SaveTx
    <3> QED
      BY <1>1, <3>3, <3>4
  <2>3. ledgerTx' = [ledgerTx EXCEPT ![b] = t]
    BY <1>3, <2>2
  <2>4. UNCHANGED <<complexRow, ledgerRow>> /\ UNCHANGED ledgerLock
    BY <1>3
  <2>5. LocksOfOthers(b) /\ LocksExclude'
    BY <2>4, LockKept
  <2> QED
    BY <1>1, <2>2, <2>3, <2>4, <2>5, WithinSave
<1> QED
    BY <1>2, <1>3 DEF SaveRead

\* A step that only goes on.
LEMMA SaveGoesOn ==
    ASSUME LedgerInv, NEW b \in Broker,
           ledgerTx[b].pc \in {"columns", "people", "bump"},
           NEW pc \in {"people", "commit"}, Goto(b, pc),
           UNCHANGED <<complexRow, ledgerRow, ledgerLock>>,
           pc = "people" => ledgerTx[b].row \in Unit,
           ledgerTx[b].pc = "bump" => "row" \in ledgerTx[b].wrote
    PROVE  LedgerInv'
<1> DEFINE tx == ledgerTx[b]
<1>1. /\ tx \in SaveTx /\ <<tx.row, "row">> \in LockName
      /\ "row" \in tx.wrote => /\ Holds(b, <<tx.row, "row">>, "update")
                               /\ tx.base.version = ledgerRow[tx.row].version
      /\ "part" \in tx.wrote => "row" \in tx.wrote
    BY SaveFacts
<1>2. PICK t \in SaveTx :
          /\ t.pc = pc /\ t.row = tx.row /\ t.base = tx.base /\ t.wrote = tx.wrote
          /\ [tx EXCEPT !.pc = pc] = t
  <2>1. tx \in SaveTx /\ pc \in {"read", "columns", "people", "bump", "commit"}
    BY <1>1
  <2>2. tx.named \in BOOLEAN /\ tx.wrote \in SUBSET {"row", "part"}
    BY <1>1 DEF SaveTx
  <2> HIDE DEF tx
  <2>3. /\ SaveGo(tx, pc, tx.named, tx.wrote) \in SaveTx
        /\ SaveGo(tx, pc, tx.named, tx.wrote).pc = pc
        /\ SaveGo(tx, pc, tx.named, tx.wrote).row = tx.row
        /\ SaveGo(tx, pc, tx.named, tx.wrote).base = tx.base
        /\ SaveGo(tx, pc, tx.named, tx.wrote).wrote = tx.wrote
    BY <2>1, <2>2, SaveFields
  <2>4. [tx EXCEPT !.pc = pc] = SaveGo(tx, pc, tx.named, tx.wrote)
    BY <2>1 DEF SaveGo, SaveTx
  <2> QED
    BY <2>3, <2>4
<1>3. ledgerTx' = [ledgerTx EXCEPT ![b] = t]
    BY <1>2 DEF Goto
<1>4. UNCHANGED <<complexRow, ledgerRow>> /\ UNCHANGED ledgerLock
    OBVIOUS
<1>5. LocksOfOthers(b) /\ LocksExclude'
    BY <1>4, LockKept
<1>6. "row" \in t.wrote => /\ Holds(b, <<t.row, "row">>, "update")'
                           /\ t.base.version = ledgerRow[t.row].version
    BY <1>1, <1>2, <1>4 DEF Holds
<1> QED
    BY <1>1, <1>2, <1>3, <1>4, <1>5, <1>6, WithinSave

\* A step that takes a lock and goes on; the row's own lock is taken at its base.
LEMMA SaveLocks ==
    ASSUME LedgerInv, NEW b \in Broker,
           ledgerTx[b].pc \in {"columns", "people", "bump"},
           NEW pc \in {"people", "bump", "commit"}, NEW wrote \in SUBSET {"row", "part"},
           ledgerTx' = [ledgerTx EXCEPT ![b].pc = pc, ![b].wrote = wrote],
           NEW n \in LockName, CanLock(b, n, "update"), Locks(b, n, "update"),
           UNCHANGED <<complexRow, ledgerRow>>,
           "row" \in wrote => \/ "row" \in ledgerTx[b].wrote
                              \/ n = <<ledgerTx[b].row, "row">> /\ Matches(b),
           pc \in {"people", "bump"} => ledgerTx[b].row \in Unit,
           pc # "bump" /\ "part" \in wrote => "row" \in wrote
    PROVE  LedgerInv'
<1> DEFINE tx == ledgerTx[b]
<1>1. /\ tx \in SaveTx /\ <<tx.row, "row">> \in LockName
      /\ "row" \in tx.wrote => /\ Holds(b, <<tx.row, "row">>, "update")
                               /\ tx.base.version = ledgerRow[tx.row].version
    BY SaveFacts
<1>2. PICK t \in SaveTx :
          /\ t.pc = pc /\ t.row = tx.row /\ t.base = tx.base /\ t.wrote = wrote
          /\ [tx EXCEPT !.pc = pc, !.wrote = wrote] = t
  <2>1. tx \in SaveTx /\ pc \in {"read", "columns", "people", "bump", "commit"}
    BY <1>1
  <2>2. tx.named \in BOOLEAN /\ tx.wrote \in SUBSET {"row", "part"}
    BY <1>1 DEF SaveTx
  <2> HIDE DEF tx
  <2>3. /\ SaveGo(tx, pc, tx.named, wrote) \in SaveTx
        /\ SaveGo(tx, pc, tx.named, wrote).pc = pc
        /\ SaveGo(tx, pc, tx.named, wrote).row = tx.row
        /\ SaveGo(tx, pc, tx.named, wrote).base = tx.base
        /\ SaveGo(tx, pc, tx.named, wrote).wrote = wrote
    BY <2>1, <2>2, SaveFields
  <2>4. [tx EXCEPT !.pc = pc, !.wrote = wrote] = SaveGo(tx, pc, tx.named, wrote)
    BY <2>1 DEF SaveGo, SaveTx
  <2> QED
    BY <2>3, <2>4
<1>3. ledgerTx' = [ledgerTx EXCEPT ![b] = t]
    BY <1>2
<1>4. /\ LocksOfOthers(b) /\ LocksExclude' /\ Holds(b, n, "update")'
      /\ \A m \in LockName : Holds(b, m, "update") => Holds(b, m, "update")'
    BY LockTaken
<1>5. "row" \in t.wrote => /\ Holds(b, <<t.row, "row">>, "update")'
                           /\ t.base.version = ledgerRow[t.row].version
    BY <1>1, <1>2, <1>4 DEF Matches
<1> QED
    BY <1>1, <1>2, <1>3, <1>4, <1>5, WithinSave

\* The UPDATE of the row's own columns.
LEMMA SaveColumnsStep ==
    ASSUME LedgerInv, NEW b \in Broker, SaveColumns(b)
    PROVE  LedgerInv'
<1> DEFINE tx == ledgerTx[b]
<1>1. /\ tx.pc = "columns" /\ tx \in SaveTx /\ <<tx.row, "row">> \in LockName
      /\ AfterColumns(tx.row) \in {"people", "commit"}
      /\ AfterColumns(tx.row) = "people" => tx.row \in Unit
    BY SaveFacts DEF SaveColumns, AfterColumns
<1>2. CASE ~tx.named
    BY <1>1, <1>2, SaveGoesOn DEF SaveColumns
<1>3. CASE tx.named /\ ~Matches(b)
    BY <1>3, DropStep DEF SaveColumns
<1>4. CASE tx.named /\ Matches(b)
  <2> DEFINE wrote == IF tx.row \in Requirement THEN {"row", "part"} ELSE {"row"}
  <2>1. /\ ledgerTx' = [ledgerTx EXCEPT ![b].pc = AfterColumns(tx.row), ![b].wrote = wrote]
        /\ CanLock(b, <<tx.row, "row">>, "update") /\ Locks(b, <<tx.row, "row">>, "update")
        /\ UNCHANGED <<complexRow, ledgerRow>>
    BY <1>4 DEF SaveColumns, Bumps
  <2>2. wrote \in SUBSET {"row", "part"} /\ "row" \in wrote
    OBVIOUS
  <2> HIDE DEF wrote
  <2> QED
    BY <1>1, <1>4, <2>1, <2>2, SaveLocks
<1> QED
    BY <1>2, <1>3, <1>4

\* The comparison with the people of a unit.
LEMMA SavePeopleStep ==
    ASSUME LedgerInv, NEW b \in Broker, SavePeople(b)
    PROVE  LedgerInv'
<1> DEFINE tx == ledgerTx[b]
<1>1. tx.pc = "people" /\ tx \in SaveTx /\ tx.row \in Unit /\ tx.wrote \in SUBSET {"row", "part"}
    BY SaveFacts, SaveFields DEF SavePeople
<1>2. CASE tx.part = ledgerRow[tx.row].part
    BY <1>1, <1>2, SaveGoesOn DEF SavePeople
<1>3. CASE tx.part # ledgerRow[tx.row].part
  <2>1. /\ ledgerTx' = [ledgerTx EXCEPT ![b].pc = "bump", ![b].wrote = tx.wrote \cup {"part"}]
        /\ CanLock(b, <<tx.row, "people">>, "update") /\ Locks(b, <<tx.row, "people">>, "update")
        /\ UNCHANGED <<complexRow, ledgerRow>>
    BY <1>3 DEF SavePeople
  <2>2. tx.wrote \cup {"part"} \in SUBSET {"row", "part"}
    BY <1>1
  <2>3. <<tx.row, "people">> \in LockName
    BY <1>1, LockNames
  <2> QED
    BY <1>1, <2>1, <2>2, <2>3, SaveLocks
<1> QED
    BY <1>2, <1>3

\* The UPDATE of the version where only the people changed.
LEMMA SaveBumpStep ==
    ASSUME LedgerInv, NEW b \in Broker, SaveBump(b)
    PROVE  LedgerInv'
<1> DEFINE tx == ledgerTx[b]
<1>1. /\ tx.pc = "bump" /\ tx \in SaveTx /\ <<tx.row, "row">> \in LockName
      /\ tx.wrote \in SUBSET {"row", "part"}
    BY SaveFacts, SaveFields DEF SaveBump
<1>2. CASE ~MustBump(tx)
    BY <1>1, <1>2, SaveGoesOn DEF SaveBump, MustBump
<1>3. CASE MustBump(tx) /\ ~Matches(b)
    BY <1>3, DropStep DEF SaveBump
<1>4. CASE MustBump(tx) /\ Matches(b)
  <2>1. /\ ledgerTx' = [ledgerTx EXCEPT ![b].pc = "commit", ![b].wrote = tx.wrote \cup {"row"}]
        /\ CanLock(b, <<tx.row, "row">>, "update") /\ Locks(b, <<tx.row, "row">>, "update")
        /\ UNCHANGED <<complexRow, ledgerRow>>
    BY <1>4 DEF SaveBump, Bumps
  <2>2. tx.wrote \cup {"row"} \in SUBSET {"row", "part"} /\ "row" \in tx.wrote \cup {"row"}
    BY <1>1
  <2> QED
    BY <1>1, <1>4, <2>1, <2>2, SaveLocks
<1> QED
    BY <1>2, <1>3, <1>4

\* What a save and a deletion make of a row.
Rewritten(x, n, v, p) == [x EXCEPT !.version = n, !.value = v, !.part = p]
Hidden(x, n) == [x EXCEPT !.state = "deleted", !.version = n]

\* A stored row, field by field.
LEMMA StoredFields ==
    ASSUME NEW x \in Stored, NEW n \in Nat, NEW v \in Value, NEW p \in Parts
    PROVE  /\ Rewritten(x, n, v, p) \in Stored
           /\ Rewritten(x, n, v, p).version = n
           /\ Rewritten(x, n, v, p).parent = x.parent
           /\ Rewritten(x, n, v, p).state = x.state
           /\ Rewritten(x, x.version, x.value, x.part) = x
    BY DEF Stored, Rewritten

\* A deleted row, field by field.
LEMMA HiddenFields ==
    ASSUME NEW x \in Stored, NEW n \in Nat
    PROVE  /\ Hidden(x, n) \in Stored
           /\ Hidden(x, n).version = n
           /\ Hidden(x, n).parent = x.parent
           /\ Hidden(x, n).state = "deleted"
    BY DEF Stored, Hidden

\* The commit of a save: whatever it writes, it has locked.
LEMMA SaveCommitStep ==
    ASSUME LedgerInv, NEW b \in Broker, SaveCommit(b)
    PROVE  LedgerInv'
<1> DEFINE tx == ledgerTx[b]
           old == ledgerRow[tx.row]
           n == IF "row" \in tx.wrote THEN old.version + 1 ELSE old.version
           w == IF "row" \in tx.wrote THEN tx.value ELSE old.value
           p == IF "part" \in tx.wrote THEN tx.part ELSE old.part
           v == Rewritten(old, n, w, p)
<1>1. /\ tx.pc = "commit" /\ tx \in SaveTx /\ tx.row \in StoredRow /\ <<tx.row, "row">> \in LockName
      /\ old \in Stored /\ old # Absent
      /\ "row" \in tx.wrote => Holds(b, <<tx.row, "row">>, "update")
      /\ "part" \in tx.wrote => "row" \in tx.wrote
    BY SaveFacts DEF SaveCommit
<1>2. n \in Nat /\ w \in Value /\ p \in Parts
  <2>1. old.version \in Nat /\ old.value \in Value /\ old.part \in Parts
    BY <1>1 DEF Stored
  <2>2. tx.value \in Value /\ tx.part \in Parts
    BY <1>1 DEF SaveTx
  <2> QED
    BY <2>1, <2>2
<1>3. v \in Stored /\ v.version = n /\ v.parent = old.parent /\ v.state = old.state
    BY <1>1, <1>2, StoredFields
<1>4. /\ ledgerRow' = [ledgerRow EXCEPT ![tx.row] = v]
      /\ ledgerTx' = [ledgerTx EXCEPT ![b] = NoTx]
      /\ ledgerLock' = Unlocked(b) /\ UNCHANGED complexRow
    BY DEF SaveCommit, Rewritten
<1>5. \/ v = old
      \/ /\ v.version = old.version + 1
         /\ \A o \in Broker : o # b => ~Holds(o, <<tx.row, "row">>, "update")
  <2>1. CASE "row" \in tx.wrote
    <3>1. LocksExclude
      BY Before
    <3> QED
      BY <1>1, <1>3, <2>1, <3>1 DEF Holds, LocksExclude
  <2>2. CASE "row" \notin tx.wrote
    <3>1. v = Rewritten(old, old.version, old.value, old.part)
      BY <1>1, <2>2
    <3>2. old.version \in Nat /\ old.value \in Value /\ old.part \in Parts
      BY <1>1 DEF Stored
    <3> QED
      BY <1>1, <3>1, <3>2, StoredFields
  <2> QED
    BY <2>1, <2>2
<1> HIDE DEF v, old
<1> QED
    BY <1>1, <1>3, <1>4, <1>5, UpdateStep DEF old

\* A deletion is asked for on a screen.
LEMMA DeleteStep ==
    ASSUME LedgerInv, NEW b \in Broker, NEW r \in StoredRow, Delete(b, r)
    PROVE  LedgerInv'
<1> DEFINE tx == ledgerTx[b]
           t == [tx EXCEPT !.pc = "delete"]
<1>1. /\ tx.pc = "shown" /\ tx \in ScreenTx
      /\ ledgerTx' = [ledgerTx EXCEPT ![b] = t]
      /\ UNCHANGED <<complexRow, ledgerRow>> /\ UNCHANGED ledgerLock
    BY Before, PcTells DEF Delete, Goto
<1>2. t \in ScreenTx /\ t.pc = "delete" /\ t.row = tx.row /\ t.base = tx.base
    BY <1>1 DEF ScreenTx
<1>3. /\ ledgerRow[tx.row] # Absent
      /\ tx.base.version <= ledgerRow[tx.row].version
      /\ tx.base.version = ledgerRow[tx.row].version => tx.base = ledgerRow[tx.row]
    BY <1>1, Before DEF TxInv, Saw
<1>4. t \in AnyTx /\ ledgerTx'[b] = t
    BY <1>1, <1>2, Before DEF AnyTx
<1>5. TxInv(b)'
  <2> HIDE DEF t
  <2>1. Saw(b)'
    BY <1>1, <1>2, <1>3, <1>4 DEF Saw
  <2> QED
    BY <1>2, <1>4, <2>1 DEF TxInv, Registers, Hides, Writes
<1> QED
    BY <1>1, <1>4, <1>5, LockKept, QuietStep

\* The deletion commits if nobody else has the row and its version is unchanged.
LEMMA DeleteCommitStep ==
    ASSUME LedgerInv, NEW b \in Broker, DeleteCommit(b)
    PROVE  LedgerInv'
<1> DEFINE tx == ledgerTx[b]
           old == ledgerRow[tx.row]
           v == Hidden(old, old.version + 1)
<1>1. tx.pc = "delete" /\ tx \in ScreenTx /\ tx.row \in StoredRow
    BY Before, PcTells DEF DeleteCommit, ScreenTx
<1>2. CASE ~Matches(b)
    BY <1>2, DropStep DEF DeleteCommit
<1>3. CASE Matches(b)
  <2>1. old # Absent /\ old \in Stored
    BY <1>1, <1>3, Before DEF Matches, IsLive, Absent
  <2>2. old.version + 1 \in Nat
    BY <2>1 DEF Stored
  <2>3. /\ v \in Stored /\ v.version = old.version + 1 /\ v.parent = old.parent
        /\ v.state = "deleted"
    BY <2>1, <2>2, HiddenFields
  <2>4. /\ ledgerRow' = [ledgerRow EXCEPT ![tx.row] = v]
        /\ ledgerTx' = [ledgerTx EXCEPT ![b] = NoTx]
        /\ ledgerLock' = Unlocked(b) /\ UNCHANGED complexRow
    BY <1>3 DEF DeleteCommit, Hidden
  <2>5. \A o \in Broker : o # b => ~Holds(o, <<tx.row, "row">>, "update")
    BY DEF DeleteCommit, Bumps, CanLock, Holds
  <2> HIDE DEF v, old
  <2> QED
    BY <1>1, <2>1, <2>3, <2>4, <2>5, UpdateStep DEF old
<1> QED
    BY <1>2, <1>3

------------------------------------------------------------------------------
(* The theorems                                                              *)

\* A step that changes nothing.
LEMMA LedgerStutter ==
    ASSUME LedgerInv, UNCHANGED ledgerVars
    PROVE  LedgerInv'
<1>1. UNCHANGED complexRow /\ UNCHANGED ledgerRow /\ UNCHANGED ledgerLock /\ UNCHANGED ledgerTx
    BY DEF ledgerVars
<1>2. LedgerTyped' /\ LocksExclude' /\ UnitsHaveTheirComplex'
    BY <1>1 DEF LedgerInv, LedgerTyped, LocksExclude, UnitsHaveTheirComplex, IsLive
<1>3. \A b \in Broker : TxInv(b)'
    BY ZenonT(40), <1>1 DEF LedgerInv, TxInv, Registers, Hides, Saw, Writes, Holds, UnitsOf, IsLive
<1> QED
    BY <1>2, <1>3 DEF LedgerInv

\* Every step keeps the invariant.
LEMMA LedgerStep ==
    ASSUME LedgerInv, [LedgerNext]_ledgerVars
    PROVE  LedgerInv'
<1>1. CASE UNCHANGED ledgerVars
    BY <1>1, LedgerStutter
<1>2. ASSUME NEW b \in Broker, NEW c \in Complex, CreateComplex(b, c) \/ DeleteComplex(b, c)
      PROVE  LedgerInv'
    BY <1>2, CreateComplexStep, DeleteComplexStep
<1>3. ASSUME NEW b \in Broker, CountUnits(b) \/ HideComplex(b) \/ InsertRow(b)
      PROVE  LedgerInv'
    BY <1>3, CountUnitsStep, HideComplexStep, InsertRowStep
<1>4. ASSUME NEW b \in Broker, NEW u \in Unit, NEW c \in Complex, NEW v \in Value, NEW p \in Part,
             CreateUnit(b, u, c, v, p)
      PROVE  LedgerInv'
    BY <1>4, CreateUnitStep
<1>5. ASSUME NEW b \in Broker, NEW l \in Listing, NEW u \in Unit, NEW v \in Value,
             CreateListing(b, l, u, v)
      PROVE  LedgerInv'
    BY <1>5, CreateListingStep
<1>6. ASSUME NEW b \in Broker, NEW q \in Requirement, NEW v \in Value, NEW p \in Part,
             CreateRequirement(b, q, v, p)
      PROVE  LedgerInv'
  <2>1. q \in Requirement \cup Event /\ p \in Parts /\ Inserts(b, q, v, p)
    BY <1>6 DEF CreateRequirement, Parts
  <2> QED
    BY <2>1, InsertsStep
<1>7. ASSUME NEW b \in Broker, NEW e \in Event, NEW v \in Value, CreateEvent(b, e, v)
      PROVE  LedgerInv'
  <2>1. e \in Requirement \cup Event /\ NoParts \in Parts /\ Inserts(b, e, v, NoParts)
    BY <1>7 DEF CreateEvent, Parts
  <2> QED
    BY <2>1, InsertsStep
<1>8. ASSUME NEW b \in Broker, NEW r \in StoredRow, LoadRow(b, r)
      PROVE  LedgerInv'
    BY <1>8, LoadRowStep
<1>9. ASSUME NEW b \in Broker, LoadParts(b) \/ SaveRead(b) \/ SaveColumns(b) \/ SavePeople(b)
      PROVE  LedgerInv'
    BY <1>9, LoadPartsStep, SaveReadStep, SaveColumnsStep, SavePeopleStep
<1>10. ASSUME NEW b \in Broker, SaveBump(b) \/ SaveCommit(b) \/ DeleteCommit(b) \/ Abort(b)
      PROVE  LedgerInv'
    BY <1>10, SaveBumpStep, SaveCommitStep, DeleteCommitStep, DropStep DEF Abort
<1>11. ASSUME NEW b \in Broker, NEW v \in Value, NEW p \in Part, NEW named \in BOOLEAN,
              SaveUnit(b, v, p, named) \/ SaveRequirement(b, v, p)
      PROVE  LedgerInv'
  <2>1. p \in Parts /\ TRUE \in BOOLEAN
    BY DEF Parts
  <2>2. Save(b, v, p, named) \/ Save(b, v, p, TRUE)
    BY <1>11 DEF SaveUnit, SaveRequirement
  <2> QED
    BY <2>1, <2>2, SaveStep
<1>12. ASSUME NEW b \in Broker, NEW v \in Value, SaveListing(b, v) \/ SaveEvent(b, v)
      PROVE  LedgerInv'
  <2>1. ledgerTx[b].pc = "shown" /\ Save(b, v, ledgerTx[b].base.part, TRUE)
    BY <1>12 DEF SaveListing, SaveEvent
  <2>2. ledgerTx[b].base.part \in Parts
    BY <2>1, Before, PcTells, ShownStored DEF ScreenTx, Stored
  <2> QED
    BY <2>1, <2>2, SaveStep
<1>13. ASSUME NEW b \in Broker, NEW r \in StoredRow, Delete(b, r)
      PROVE  LedgerInv'
    BY <1>13, DeleteStep
<1> QED
    BY <1>1, <1>2, <1>3, <1>4, <1>5, <1>6, <1>7, <1>8, <1>9, <1>10, <1>11, <1>12, <1>13
       DEF LedgerNext, DeleteUnit, DeleteRequirement, DeleteEvent, StoredRow

\* Whatever brokers do at the same time: types, locks and what each transaction rests on.
THEOREM LedgerInvariance == LedgerSpec => []LedgerInv
<1>1. LedgerInit => LedgerInv
    BY InitLedger
<1>2. LedgerInv /\ [LedgerNext]_ledgerVars => LedgerInv'
    BY LedgerStep
<1> QED
    BY <1>1, <1>2, PTL DEF LedgerSpec

\* A unit is never left in a deleted complex.
\* (lock_property_complex, _create_property_unit, delete_property_complex)
THEOREM UnitsKept == LedgerSpec => []UnitsHaveTheirComplex
<1>1. LedgerInv => UnitsHaveTheirComplex
    BY DEF LedgerInv
<1> QED
    BY <1>1, LedgerInvariance, PTL

\* What a step that changes a stored row is: a commit that saw the row as it is.
LEMMA WritesSeen ==
    ASSUME LedgerInv, NEW b \in Broker, SaveCommit(b) \/ DeleteCommit(b), NEW r \in StoredRow,
           ledgerRow'[r] # ledgerRow[r]
    PROVE  ledgerTx[b] # NoTx /\ ledgerTx'[b] = NoTx /\ ledgerTx[b].row = r
           /\ ledgerTx[b].base = ledgerRow[r]
<1> DEFINE tx == ledgerTx[b]
<1>0. ledgerRow \in [StoredRow -> Stored \cup {Absent}] /\ ledgerTx \in [Broker -> AnyTx]
    BY Before
<1>1. CASE SaveCommit(b)
  <2> DEFINE old == ledgerRow[tx.row]
             n == IF "row" \in tx.wrote THEN old.version + 1 ELSE old.version
             w == IF "row" \in tx.wrote THEN tx.value ELSE old.value
             p == IF "part" \in tx.wrote THEN tx.part ELSE old.part
  <2>1. /\ tx.pc = "commit" /\ tx \in SaveTx /\ tx.row \in StoredRow /\ old \in Stored
        /\ "part" \in tx.wrote => "row" \in tx.wrote
        /\ "row" \in tx.wrote => tx.base.version = old.version
        /\ tx.base.version = old.version => tx.base = old
    BY <1>1, SaveFacts DEF SaveCommit
  <2>2. /\ ledgerRow' = [ledgerRow EXCEPT ![tx.row] = Rewritten(old, n, w, p)]
        /\ ledgerTx' = [ledgerTx EXCEPT ![b] = NoTx]
    BY <1>1 DEF SaveCommit, Rewritten
  <2>3. tx.row = r
    BY <1>0, <2>2
  <2>4. "row" \in tx.wrote
    <3> SUFFICES ASSUME "row" \notin tx.wrote PROVE FALSE
      OBVIOUS
    <3>1. Rewritten(old, n, w, p) = Rewritten(old, old.version, old.value, old.part)
      BY <2>1
    <3>2. old.version \in Nat /\ old.value \in Value /\ old.part \in Parts
      BY <2>1 DEF Stored
    <3>3. Rewritten(old, n, w, p) = old
      BY <2>1, <3>1, <3>2, StoredFields
    <3> QED
      BY <1>0, <2>1, <2>2, <2>3, <3>3
  <2> QED
    BY <1>0, <2>1, <2>2, <2>3, <2>4 DEF NoTx
<1>2. CASE DeleteCommit(b)
  <2>1. tx.pc = "delete"
    BY <1>2 DEF DeleteCommit
  <2>2. Matches(b)
    BY <1>2 DEF DeleteCommit, Drop
  <2>3. /\ ledgerTx' = [ledgerTx EXCEPT ![b] = NoTx]
        /\ \E x : ledgerRow' = [ledgerRow EXCEPT ![tx.row] = x]
    BY <1>2, <2>2 DEF DeleteCommit
  <2>4. tx.row = r
    BY <1>0, <2>3
  <2>5. tx.base = ledgerRow[r]
    BY <2>1, <2>2, <2>4, Before DEF TxInv, Saw, Matches
  <2> QED
    BY <1>0, <2>1, <2>3, <2>4, <2>5 DEF NoTx
<1> QED
    BY <1>1, <1>2

\* The other actions leave the stored rows alone.
LEMMA OnlyCommitsWrite ==
    ASSUME LedgerInv, [LedgerNext]_ledgerVars, NEW r \in StoredRow,
           ledgerRow[r] # Absent, ledgerRow'[r] # ledgerRow[r]
    PROVE  \E b \in Broker : SaveCommit(b) \/ DeleteCommit(b)
<1>0. ledgerRow \in [StoredRow -> Stored \cup {Absent}]
    BY DEF LedgerInv, LedgerTyped
<1>1. ~UNCHANGED ledgerRow
    OBVIOUS
<1>2. LedgerNext
    BY <1>1 DEF ledgerVars
<1>3. ASSUME NEW b \in Broker, InsertRow(b)
      PROVE  FALSE
  <2>1. /\ ledgerRow[ledgerTx[b].row] = Absent
        /\ \E x : ledgerRow' = [ledgerRow EXCEPT ![ledgerTx[b].row] = x]
    BY <1>3 DEF InsertRow
  <2> QED
    BY <1>0, <2>1
<1>4. ASSUME NEW b \in Broker, NEW q \in StoredRow, NEW v, NEW p, Inserts(b, q, v, p)
      PROVE  FALSE
    BY <1>0, <1>4 DEF Inserts
<1>5. \A b \in Broker : ~Drop(b)
    BY <1>1 DEF Drop
<1>6. ASSUME NEW b \in Broker, NEW c \in Complex, CreateComplex(b, c) \/ DeleteComplex(b, c)
      PROVE  FALSE
    BY <1>1, <1>6 DEF CreateComplex, DeleteComplex
<1>7. ASSUME NEW b \in Broker, CountUnits(b) \/ HideComplex(b) \/ LoadParts(b) \/ Abort(b)
      PROVE  FALSE
    BY <1>1, <1>5, <1>7 DEF CountUnits, HideComplex, LoadParts, Abort
<1>8. ASSUME NEW b \in Broker, SaveRead(b) \/ SaveColumns(b) \/ SavePeople(b) \/ SaveBump(b)
      PROVE  FALSE
    BY <1>1, <1>5, <1>8 DEF SaveRead, SaveColumns, SavePeople, SaveBump
<1>9. ASSUME NEW b \in Broker, NEW u, NEW c, NEW v, NEW p, CreateUnit(b, u, c, v, p)
      PROVE  FALSE
    BY <1>1, <1>9 DEF CreateUnit
<1>10. ASSUME NEW b \in Broker, NEW l, NEW u, NEW v, CreateListing(b, l, u, v) \/ LoadRow(b, l)
      PROVE  FALSE
    BY <1>1, <1>10 DEF CreateListing, LoadRow, Begin
<1>11. ASSUME NEW b \in Broker, NEW v, NEW p, NEW named, Save(b, v, p, named)
      PROVE  FALSE
    BY <1>1, <1>11 DEF Save
<1>12. ASSUME NEW b \in Broker, NEW x, Delete(b, x)
      PROVE  FALSE
    BY <1>1, <1>12 DEF Delete
<1>13. ASSUME NEW b \in Broker, NEW v, NEW p, NEW named,
              \/ SaveUnit(b, v, p, named) \/ SaveRequirement(b, v, p)
              \/ SaveListing(b, v) \/ SaveEvent(b, v)
      PROVE  FALSE
    BY <1>11, <1>13 DEF SaveUnit, SaveRequirement, SaveListing, SaveEvent
<1>14. ASSUME NEW b \in Broker, NEW q \in StoredRow, NEW v, NEW p,
              CreateRequirement(b, q, v, p) \/ CreateEvent(b, q, v)
      PROVE  FALSE
    BY <1>4, <1>14 DEF CreateRequirement, CreateEvent
<1>15. Requirement \subseteq StoredRow /\ Event \subseteq StoredRow
    BY DEF StoredRow
<1> QED
    BY <1>2, <1>3, <1>6, <1>7, <1>8, <1>9, <1>10, <1>12, <1>13, <1>14, <1>15
       DEF LedgerNext, DeleteUnit, DeleteRequirement, DeleteEvent

\* Of two requests from the same version of a row the later one is refused: what
\* is replaced or deleted is what the broker's screen had shown.
\* (bump_row_version, save_property_unit, delete_property_unit)
THEOREM NothingOverwritten == LedgerSpec => NothingIsOverwrittenUnseen
<1> DEFINE Seen ==
        \A r \in StoredRow :
            ledgerRow[r] # Absent /\ ledgerRow'[r] # ledgerRow[r] =>
                \E b \in Broker : /\ ledgerTx[b] # NoTx /\ ledgerTx'[b] = NoTx
                                  /\ ledgerTx[b].row = r
                                  /\ ledgerTx[b].base = ledgerRow[r]
<1>1. LedgerInv /\ [LedgerNext]_ledgerVars => [Seen]_ledgerVars
    BY OnlyCommitsWrite, WritesSeen
<1> QED
    BY <1>1, LedgerInvariance, PTL DEF LedgerSpec, NothingIsOverwrittenUnseen

------------------------------------------------------------------------------
(* What the office sees of its transactions                                  *)

\* A step of b moves the screen of b at most.
LEMMA ScreenMoves ==
    ASSUME LedgerInv, NEW b \in Broker, NEW t, ledgerTx' = [ledgerTx EXCEPT ![b] = t]
    PROVE  /\ Screens' = [Screens EXCEPT ![b] = Screen(t)]
           /\ Screens'[b] = Screen(t) /\ Screens[b] = Screen(ledgerTx[b])
<1>1. ledgerTx \in [Broker -> AnyTx]
    BY Before
<1>2. ledgerTx'[b] = t /\ \A o \in Broker : o # b => ledgerTx'[o] = ledgerTx[o]
    BY <1>1
<1>3. /\ Screens' = [o \in Broker |-> Screen(ledgerTx'[o])]
      /\ Screens = [o \in Broker |-> Screen(ledgerTx[o])]
    BY DEF Screens, Screen
<1>4. /\ [Screens EXCEPT ![b] = Screen(t)] =
            [o \in Broker |-> IF o = b THEN Screen(t) ELSE Screen(ledgerTx[o])]
    BY ONLY <1>3, b \in Broker
<1>5. \A o \in Broker : Screen(ledgerTx'[o]) = IF o = b THEN Screen(t) ELSE Screen(ledgerTx[o])
    BY <1>2
<1>6. Screens' = [o \in Broker |-> IF o = b THEN Screen(t) ELSE Screen(ledgerTx[o])]
    BY <1>3, <1>5
<1> QED
    BY <1>2, <1>3, <1>4, <1>6

\* A step that neither writes nor moves a screen is not seen.
LEMMA Unseen ==
    ASSUME LedgerInv, UNCHANGED <<complexRow, ledgerRow>>,
           \A b \in Broker : Screen(ledgerTx'[b]) = Screen(ledgerTx[b])
    PROVE  UNCHANGED Ledger!vars
<1>1. /\ Screens' = [o \in Broker |-> Screen(ledgerTx'[o])]
      /\ Screens = [o \in Broker |-> Screen(ledgerTx[o])]
    BY DEF Screens, Screen
<1>2. UNCHANGED Screens
    BY <1>1
<1> QED
    BY <1>2 DEF Ledger!vars

\* No transaction, no screen; a screen is blank before its second statement.
LEMMA ScreenOf ==
    /\ Screen(NoTx) = Ledger!Blank
    /\ \A t : t.pc \in {"insert", "count", "hide", "loading"} => Screen(t) = Ledger!Blank
    /\ \A t : t.pc \in Showing => Screen(t) = [row |-> t.row, seen |-> t.base]
    BY DEF Screen, Showing, NoTx, Ledger!Blank

\* Before a screen is shown, its broker has seen nothing.
LEMMA BeginsUnseen ==
    ASSUME LedgerInv, NEW b \in Broker, NEW t, ledgerTx[b] = NoTx,
           ledgerTx' = [ledgerTx EXCEPT ![b] = t],
           t.pc \in {"insert", "count", "hide", "loading"},
           UNCHANGED <<complexRow, ledgerRow>>
    PROVE  UNCHANGED Ledger!vars
<1>1. ledgerTx'[b] = t /\ \A o \in Broker : o # b => ledgerTx'[o] = ledgerTx[o]
    BY Before
<1>2. \A o \in Broker : Screen(ledgerTx'[o]) = Screen(ledgerTx[o])
    BY <1>1, ScreenOf
<1> QED
    BY <1>2, Unseen

\* Once it is shown, it stays as it is until the request ends.
LEMMA GoesOnUnseen ==
    ASSUME LedgerInv, NEW b \in Broker,
           ledgerTx[b].pc \in Showing, ledgerTx'[b].pc \in Showing,
           ledgerTx'[b].row = ledgerTx[b].row, ledgerTx'[b].base = ledgerTx[b].base,
           \A o \in Broker : o # b => ledgerTx'[o] = ledgerTx[o],
           UNCHANGED <<complexRow, ledgerRow>>
    PROVE  UNCHANGED Ledger!vars
<1>1. \A o \in Broker : Screen(ledgerTx'[o]) = Screen(ledgerTx[o])
    BY ScreenOf
<1> QED
    BY <1>1, Unseen

\* Whoever is refused or gives up leaves the screen, and nothing else changes.
LEMMA TurnedAway ==
    ASSUME LedgerInv, NEW b \in Broker, Drop(b)
    PROVE  Ledger!TurnAway(b)
<1>1. Screens' = [Screens EXCEPT ![b] = Screen(NoTx)]
    BY ScreenMoves DEF Drop
<1> QED
    BY <1>1, ScreenOf DEF Drop, Ledger!TurnAway, Ledger!Leave

\* The statements of a save that write nothing yet.
LEMMA SaveUnseen ==
    ASSUME LedgerInv, NEW b \in Broker,
           SaveRead(b) \/ SaveColumns(b) \/ SavePeople(b) \/ SaveBump(b)
    PROVE  UNCHANGED Ledger!vars \/ Ledger!TurnAway(b)
<1>1. CASE Drop(b)
    BY <1>1, TurnedAway
<1>2. CASE ~Drop(b)
  <2>0. ledgerTx[b].pc \in {"read", "columns", "people", "bump"}
    BY DEF SaveRead, SaveColumns, SavePeople, SaveBump
  <2>1. ledgerTx[b] \in SaveTx /\ ledgerTx \in [Broker -> AnyTx]
    BY <2>0, Before, PcTells
  <2>2. UNCHANGED <<complexRow, ledgerRow>>
    BY <1>2 DEF SaveRead, SaveColumns, SavePeople, SaveBump
  <2>3. \E t : /\ ledgerTx' = [ledgerTx EXCEPT ![b] = t] /\ t.pc \in Showing
               /\ t.row = ledgerTx[b].row /\ t.base = ledgerTx[b].base
    <3>1. CASE SaveRead(b)
      BY <1>2, <2>1, <3>1 DEF SaveRead, SaveTx, Showing
    <3>2. CASE SaveColumns(b)
      BY <1>2, <2>1, <3>2 DEF SaveColumns, AfterColumns, Goto, SaveTx, Showing
    <3>3. CASE SavePeople(b)
      BY <1>2, <2>1, <3>3 DEF SavePeople, Goto, SaveTx, Showing
    <3>4. CASE SaveBump(b)
      BY <1>2, <2>1, <3>4 DEF SaveBump, Goto, SaveTx, Showing
    <3> QED
      BY <3>1, <3>2, <3>3, <3>4
  <2>4. /\ ledgerTx'[b].pc \in Showing
        /\ ledgerTx'[b].row = ledgerTx[b].row /\ ledgerTx'[b].base = ledgerTx[b].base
        /\ \A o \in Broker : o # b => ledgerTx'[o] = ledgerTx[o]
    BY <2>1, <2>3
  <2>5. ledgerTx[b].pc \in Showing
    BY <2>0 DEF Showing
  <2> QED
    BY <2>2, <2>4, <2>5, GoesOnUnseen
<1> QED
    BY <1>1, <1>2

\* The other steps that write nothing.
LEMMA RequestUnseen ==
    ASSUME LedgerInv, NEW b \in Broker,
           \/ \E c \in Complex : DeleteComplex(b, c)
           \/ CountUnits(b)
           \/ \E u, c, v, p : CreateUnit(b, u, c, v, p)
           \/ \E l, u, v : CreateListing(b, l, u, v)
           \/ \E r : LoadRow(b, r) \/ Delete(b, r)
           \/ \E v, p, named : Save(b, v, p, named)
    PROVE  UNCHANGED Ledger!vars \/ Ledger!TurnAway(b)
<1>1. CASE \/ \E c \in Complex : DeleteComplex(b, c)
           \/ \E u, c, v, p : CreateUnit(b, u, c, v, p)
           \/ \E l, u, v : CreateListing(b, l, u, v)
           \/ \E r : LoadRow(b, r)
  <2>1. /\ \E t : /\ ledgerTx' = [ledgerTx EXCEPT ![b] = t]
                  /\ t.pc \in {"insert", "count", "loading"}
        /\ ledgerTx[b] = NoTx
        /\ UNCHANGED <<complexRow, ledgerRow>>
    <3>1. ASSUME NEW c \in Complex, DeleteComplex(b, c)
          PROVE  \E t : ledgerTx' = [ledgerTx EXCEPT ![b] = t] /\ t.pc = "count"
      <4>1. [pc |-> "count", row |-> c].pc = "count"
        OBVIOUS
      <4> QED
        BY <3>1, <4>1 DEF DeleteComplex
    <3>2. ASSUME NEW u, NEW c, NEW v, NEW p, CreateUnit(b, u, c, v, p)
          PROVE  \E t : ledgerTx' = [ledgerTx EXCEPT ![b] = t] /\ t.pc = "insert"
      <4>1. [pc |-> "insert", row |-> u, parent |-> c, value |-> v, part |-> p].pc = "insert"
        OBVIOUS
      <4> QED
        BY <3>2, <4>1 DEF CreateUnit
    <3>3. ASSUME NEW l, NEW u, NEW v, CreateListing(b, l, u, v)
          PROVE  \E t : ledgerTx' = [ledgerTx EXCEPT ![b] = t] /\ t.pc = "insert"
      <4>1. [pc |-> "insert", row |-> l, parent |-> u, value |-> v, part |-> NoParts].pc = "insert"
        OBVIOUS
      <4> QED
        BY <3>3, <4>1 DEF CreateListing, Begin
    <3>4. ASSUME NEW r, LoadRow(b, r)
          PROVE  \E t : ledgerTx' = [ledgerTx EXCEPT ![b] = t] /\ t.pc = "loading"
      <4>1. [pc |-> "loading", row |-> r, base |-> ledgerRow[r]].pc = "loading"
        OBVIOUS
      <4> QED
        BY <3>4, <4>1 DEF LoadRow, Begin
    <3>5. ledgerTx[b] = NoTx /\ UNCHANGED <<complexRow, ledgerRow>>
      BY <1>1 DEF DeleteComplex, CreateUnit, CreateListing, LoadRow, Begin
    <3> QED
      BY <1>1, <3>1, <3>2, <3>3, <3>4, <3>5
  <2> QED
    BY <2>1, BeginsUnseen
<1>2. CASE CountUnits(b)
  <2>1. CASE Drop(b)
    BY <2>1, TurnedAway
  <2>2. CASE ~Drop(b)
    <3>1. /\ ledgerTx[b].pc = "count" /\ ledgerTx[b] \in ComplexTx
          /\ ledgerTx \in [Broker -> AnyTx]
      BY <1>2, Before, PcTells DEF CountUnits
    <3>2. /\ ledgerTx' = [ledgerTx EXCEPT ![b].pc = "hide"]
          /\ UNCHANGED <<complexRow, ledgerRow>>
      BY <1>2, <2>2 DEF CountUnits, Goto
    <3>3. ledgerTx'[b].pc = "hide" /\ \A o \in Broker : o # b => ledgerTx'[o] = ledgerTx[o]
      BY <3>1, <3>2 DEF ComplexTx
    <3>4. \A o \in Broker : Screen(ledgerTx'[o]) = Screen(ledgerTx[o])
      BY <3>1, <3>3, ScreenOf
    <3> QED
      BY <3>2, <3>4, Unseen
  <2> QED
    BY <2>1, <2>2
<1>3. CASE (\E r : Delete(b, r)) \/ (\E v, p, named : Save(b, v, p, named))
  <2>1. /\ ledgerTx[b].pc = "shown" /\ ledgerTx[b] \in ScreenTx
        /\ ledgerTx \in [Broker -> AnyTx]
    BY <1>3, Before, PcTells DEF Delete, Save
  <2>2. \E t : /\ ledgerTx' = [ledgerTx EXCEPT ![b] = t] /\ t.pc \in Showing
               /\ t.row = ledgerTx[b].row /\ t.base = ledgerTx[b].base
    BY <1>3, <2>1 DEF Delete, Save, Goto, ScreenTx, Showing
  <2>3. /\ ledgerTx'[b].pc \in Showing
        /\ ledgerTx'[b].row = ledgerTx[b].row /\ ledgerTx'[b].base = ledgerTx[b].base
        /\ \A o \in Broker : o # b => ledgerTx'[o] = ledgerTx[o]
    BY <2>1, <2>2
  <2>4. UNCHANGED <<complexRow, ledgerRow>> /\ ledgerTx[b].pc \in Showing
    BY <1>3, <2>1 DEF Delete, Save, Showing
  <2> QED
    BY <2>3, <2>4, GoesOnUnseen
<1> QED
    BY <1>1, <1>2, <1>3

\* The second statement of a screen: what it shows is what is stored, or old.
LEMMA LooksStep ==
    ASSUME LedgerInv, NEW b \in Broker, LoadParts(b)
    PROVE  Ledger!Look(b)
<1> DEFINE r == ledgerTx[b].row
           t == ledgerTx'[b]
<1>1. /\ ledgerTx[b].pc = "loading" /\ ledgerTx[b] \in ScreenTx /\ ledgerTx \in [Broker -> AnyTx]
      /\ r \in StoredRow /\ ledgerRow[r] # Absent
      /\ UNCHANGED <<complexRow, ledgerRow>>
    BY Before, PcTells DEF LoadParts, ScreenTx, TxInv, Saw
<1>2. \E x : ledgerTx' = [ledgerTx EXCEPT ![b] = x] /\ x.pc = "shown" /\ x.row = r
  <2>1. ledgerRow[r].part \in Parts
    BY <1>1, Before DEF Stored
  <2>2. [ledgerTx[b] EXCEPT !.pc = "shown", !.base.part = ledgerRow[r].part] =
           [pc |-> "shown", row |-> r,
            base |-> [ledgerTx[b].base EXCEPT !.part = ledgerRow[r].part]]
    BY <1>1, <2>1, ScreenFields
  <2>3. ledgerTx' = [ledgerTx EXCEPT ![b] =
           [ledgerTx[b] EXCEPT !.pc = "shown", !.base.part = ledgerRow[r].part]]
    BY DEF LoadParts
  <2> DEFINE x == [ledgerTx[b] EXCEPT !.pc = "shown", !.base.part = ledgerRow[r].part]
  <2>4. x.pc = "shown" /\ x.row = r
    BY <2>2
  <2> HIDE DEF x
  <2> QED
    BY <2>3, <2>4 DEF x
<1>3. t.pc = "shown" /\ t.row = r /\ ledgerTx' = [ledgerTx EXCEPT ![b] = t]
    BY <1>1, <1>2
<1>4. Saw(b)'
    BY LoadPartsStep DEF LedgerInv, TxInv
<1>5. /\ t.base.version <= ledgerRow[r].version
      /\ t.base.version = ledgerRow[r].version => t.base = ledgerRow[r]
    BY <1>1, <1>3, <1>4 DEF Saw
<1>6. /\ Screens' = [Screens EXCEPT ![b] = Screen(t)]
      /\ Screens'[b] = Screen(t) /\ Screens[b] = Screen(ledgerTx[b])
    BY <1>3, ScreenMoves
<1>7. Screens'[b] = [row |-> r, seen |-> t.base] /\ Screens[b] = Ledger!Blank
    BY <1>1, <1>3, <1>6, ScreenOf DEF Showing
<1>8. Screens'[b] # Ledger!Blank
    BY <1>7 DEF Ledger!Blank
<1>9. Ledger!Shows(Screens'[b], r)
    BY <1>5, <1>7 DEF Ledger!Shows
<1>10. ledgerRow[r] # Ledger!Absent
    BY <1>1 DEF Ledger!Absent, Absent
<1> HIDE DEF r, t
<1> QED
    BY <1>1, <1>6, <1>7, <1>8, <1>9, <1>10 DEF Ledger!Look

\* A registration: the lock of the complex has kept it.
LEMMA RegistersRow ==
    ASSUME LedgerInv, NEW b \in Broker, InsertRow(b)
    PROVE  Ledger!Register(ledgerTx[b].row)
<1> DEFINE tx == ledgerTx[b]
           v == NewRow(tx.parent, tx.value, tx.part)
<1>1. /\ tx.pc = "insert" /\ tx \in InsertTx /\ tx.row \in StoredRow
      /\ ledgerRow[tx.row] = Absent /\ ledgerRow' = [ledgerRow EXCEPT ![tx.row] = v]
      /\ ledgerTx' = [ledgerTx EXCEPT ![b] = NoTx] /\ UNCHANGED complexRow
    BY Before, PcTells DEF InsertRow, InsertTx, StoredRow
<1>2. v.state = "live" /\ v.version = 1 /\ v.parent = tx.parent
    BY DEF NewRow
<1>3. tx.row \in Unit => complexRow[tx.parent] = "live"
    BY <1>1, Before DEF TxInv, Registers
<1>4. ledgerRow \in [StoredRow -> Stored \cup {Absent}] /\ ledgerTx \in [Broker -> AnyTx]
    BY Before
<1>5. ledgerRow'[tx.row] = v
    BY <1>1, <1>4
<1>6. UNCHANGED Screens
  <2>1. ledgerTx'[b] = NoTx /\ \A o \in Broker : o # b => ledgerTx'[o] = ledgerTx[o]
    BY <1>1, <1>4
  <2>2. \A o \in Broker : Screen(ledgerTx'[o]) = Screen(ledgerTx[o])
    BY <1>1, <2>1, ScreenOf
  <2> QED
    BY <2>2 DEF Screens
<1>7. v # Absent
    BY <1>2 DEF Absent
<1> HIDE DEF v, tx
<1> QED
    BY <1>1, <1>2, <1>3, <1>5, <1>6, <1>7
       DEF Ledger!Register, Ledger!Absent, Absent, tx

\* A registration without a lock.
LEMMA InsertsRow ==
    ASSUME LedgerInv, NEW b \in Broker, NEW r \in Requirement \cup Event, NEW x, NEW p,
           Inserts(b, r, x, p)
    PROVE  Ledger!Register(r)
<1> DEFINE v == NewRow("none", x, p)
<1>1. /\ ledgerRow[r] = Absent /\ ledgerRow' = [ledgerRow EXCEPT ![r] = v]
      /\ UNCHANGED ledgerTx /\ UNCHANGED complexRow
    BY DEF Inserts
<1>2. v.state = "live" /\ v.version = 1
    BY DEF NewRow
<1>3. r \in StoredRow /\ r \notin Unit /\ ledgerRow \in [StoredRow -> Stored \cup {Absent}]
    BY Before, LedgerAssumption DEF StoredRow
<1>4. ledgerRow'[r] = v
    BY <1>1, <1>3
<1>5. UNCHANGED Screens
    BY <1>1 DEF Screens, Screen
<1>6. v # Absent
    BY <1>2 DEF Absent
<1> HIDE DEF v
<1> QED
    BY <1>1, <1>2, <1>3, <1>4, <1>5, <1>6 DEF Ledger!Register, Ledger!Absent, Absent

\* A complex comes; it goes when the last of its units has gone.
LEMMA ComplexComesOrGoes ==
    ASSUME LedgerInv, NEW b \in Broker,
           HideComplex(b) \/ (\E c \in Complex : CreateComplex(b, c))
    PROVE  \E c \in Complex : Ledger!AddComplex(c) \/ Ledger!DropComplex(c)
<1>1. ASSUME NEW c \in Complex, CreateComplex(b, c)
      PROVE  Ledger!AddComplex(c)
  <2>1. UNCHANGED Screens
    BY <1>1 DEF CreateComplex, Screens, Screen
  <2> QED
    BY <1>1, <2>1 DEF CreateComplex, Ledger!AddComplex
<1>2. ASSUME HideComplex(b)
      PROVE  ledgerTx[b].row \in Complex /\ Ledger!DropComplex(ledgerTx[b].row)
  <2> DEFINE c == ledgerTx[b].row
  <2>1. /\ ledgerTx[b].pc = "hide" /\ ledgerTx \in [Broker -> AnyTx]
        /\ c \in Complex /\ UnitsOf(c) = {} /\ complexRow[c] = "live"
    BY <1>2, Before DEF HideComplex, TxInv, Hides, ComplexTx
  <2>2. /\ complexRow' = [complexRow EXCEPT ![c] = "deleted"]
        /\ ledgerTx' = [ledgerTx EXCEPT ![b] = NoTx] /\ UNCHANGED ledgerRow
    BY <1>2 DEF HideComplex
  <2>3. UNCHANGED Screens
    <3>1. ledgerTx'[b] = NoTx /\ \A o \in Broker : o # b => ledgerTx'[o] = ledgerTx[o]
      BY <2>1, <2>2
    <3>2. \A o \in Broker : Screen(ledgerTx'[o]) = Screen(ledgerTx[o])
      BY <2>1, <3>1, ScreenOf
    <3> QED
      BY <3>2 DEF Screens
  <2>4. \A u \in Unit : ~(ledgerRow[u].state = "live" /\ ledgerRow[u].parent = c)
    BY <2>1 DEF UnitsOf, IsLive
  <2> HIDE DEF c
  <2> QED
    BY <2>1, <2>2, <2>3, <2>4 DEF Ledger!DropComplex, c
<1> QED
    BY <1>1, <1>2

\* A commit ends the request of its screen.
LEMMA LeavesScreen ==
    ASSUME LedgerInv, NEW b \in Broker, ledgerTx[b].pc \in Showing,
           ledgerTx' = [ledgerTx EXCEPT ![b] = NoTx]
    PROVE  /\ Ledger!Leave(b)
           /\ Screens[b] = [row |-> ledgerTx[b].row, seen |-> ledgerTx[b].base]
<1>1. Screens' = [Screens EXCEPT ![b] = Screen(NoTx)] /\ Screens[b] = Screen(ledgerTx[b])
    BY ScreenMoves
<1>2. Screen(NoTx) = Ledger!Blank
    BY ScreenOf
<1>3. Screen(ledgerTx[b]) = [row |-> ledgerTx[b].row, seen |-> ledgerTx[b].base]
    BY ScreenOf
<1> QED
    BY <1>1, <1>2, <1>3 DEF Ledger!Leave

\* The commit of a save is an edit of what its screen shows, or writes nothing.
LEMMA EditsRow ==
    ASSUME LedgerInv, NEW b \in Broker, SaveCommit(b)
    PROVE  Ledger!TurnAway(b) \/ \E r \in StoredRow : Ledger!Edit(b, r)
<1> DEFINE tx == ledgerTx[b]
           r == tx.row
           old == ledgerRow[r]
           n == IF "row" \in tx.wrote THEN old.version + 1 ELSE old.version
           w == IF "row" \in tx.wrote THEN tx.value ELSE old.value
           p == IF "part" \in tx.wrote THEN tx.part ELSE old.part
           v == Rewritten(old, n, w, p)
<1>1. /\ tx.pc = "commit" /\ r \in StoredRow /\ tx \in SaveTx
      /\ old \in Stored /\ tx.base \in Shown
      /\ "part" \in tx.wrote => "row" \in tx.wrote
      /\ "row" \in tx.wrote => tx.base.version = old.version
      /\ tx.base.version = old.version => tx.base = old
      /\ ledgerRow \in [StoredRow -> Stored \cup {Absent}]
    BY SaveFacts, Before DEF SaveCommit
<1>2. /\ ledgerRow' = [ledgerRow EXCEPT ![r] = v]
      /\ ledgerTx' = [ledgerTx EXCEPT ![b] = NoTx] /\ UNCHANGED complexRow
    BY DEF SaveCommit, Rewritten
<1>3. Ledger!Leave(b) /\ Screens[b] = [row |-> r, seen |-> tx.base]
    BY <1>1, <1>2, LeavesScreen DEF Showing
<1>4. old.version \in Nat /\ old.value \in Value /\ old.part \in Parts
    BY <1>1 DEF Stored
<1>5. CASE "row" \notin tx.wrote
  <2>1. v = old
    <3>1. n = old.version /\ w = old.value /\ p = old.part
      BY <1>1, <1>5
    <3> QED
      BY <1>1, <1>4, <3>1, StoredFields
  <2>2. UNCHANGED ledgerRow
    BY <1>1, <1>2, <2>1
  <2> QED
    BY <1>2, <1>3, <2>2 DEF Ledger!TurnAway
<1>6. CASE "row" \in tx.wrote
  <2>1. tx.base = old /\ old.state = "live"
    BY <1>1, <1>6 DEF Shown
  <2>2. Ledger!Current(b, r)
    BY <1>3, <2>1 DEF Ledger!Current
  <2>3. ledgerRow'[r] = v
    BY <1>1, <1>2
  <2>4. n = old.version + 1
    BY <1>6
  <2>5. v.value = w /\ v.part = p
    BY <1>1 DEF Rewritten, Stored
  <2>6. ledgerRow' = [ledgerRow EXCEPT ![r] =
            [ledgerRow[r] EXCEPT !.version = ledgerRow[r].version + 1,
                                 !.value = ledgerRow'[r].value, !.part = ledgerRow'[r].part]]
    BY <1>2, <2>3, <2>4, <2>5 DEF Rewritten
  <2>7. UNCHANGED complexRow /\ Ledger!Leave(b)
    BY <1>2, <1>3
  <2> HIDE DEF v, r
  <2>8. Ledger!Edit(b, r)
    BY ONLY <2>2, <2>6, <2>7 DEF Ledger!Edit
  <2> QED
    BY <1>1, <2>8
<1> QED
    BY <1>5, <1>6

\* A deletion commits from the version its screen shows, or is refused.
LEMMA RemovesRow ==
    ASSUME LedgerInv, NEW b \in Broker, DeleteCommit(b)
    PROVE  Ledger!TurnAway(b) \/ \E r \in StoredRow : Ledger!Remove(b, r)
<1> DEFINE tx == ledgerTx[b]
           r == tx.row
<1>1. /\ tx.pc = "delete" /\ tx \in ScreenTx /\ r \in StoredRow
      /\ tx.base.version = ledgerRow[r].version => tx.base = ledgerRow[r]
    BY Before, PcTells DEF DeleteCommit, ScreenTx, TxInv, Saw
<1>2. CASE ~Matches(b)
    BY <1>2, TurnedAway DEF DeleteCommit
<1>3. CASE Matches(b)
  <2>1. tx.base = ledgerRow[r] /\ ledgerRow[r].state = "live"
    BY <1>1, <1>3 DEF Matches, IsLive
  <2>2. /\ ledgerRow' = [ledgerRow EXCEPT ![r].state = "deleted", ![r].version = @ + 1]
        /\ ledgerTx' = [ledgerTx EXCEPT ![b] = NoTx] /\ UNCHANGED complexRow
    BY <1>3 DEF DeleteCommit
  <2>3. Ledger!Leave(b) /\ Screens[b] = [row |-> r, seen |-> tx.base]
    BY <1>1, <2>2, LeavesScreen DEF Showing
  <2>4. Ledger!Current(b, r)
    BY <2>1, <2>3 DEF Ledger!Current
  <2>5. ledgerRow' = [ledgerRow EXCEPT ![r].version = @ + 1, ![r].state = "deleted"]
    BY <2>2
  <2>6. Ledger!Remove(b, r)
    BY <2>2, <2>3, <2>4, <2>5 DEF Ledger!Remove
  <2> QED
    BY <1>1, <2>6
<1> QED
    BY <1>2, <1>3

\* Every step is a step of the office's view, or is not seen.
LEMMA LedgerRefines ==
    ASSUME LedgerInv, [LedgerNext]_ledgerVars
    PROVE  [Ledger!Next]_(Ledger!vars)
<1>1. CASE UNCHANGED ledgerVars
  <2>1. UNCHANGED Screens /\ UNCHANGED complexRow /\ UNCHANGED ledgerRow
    BY <1>1 DEF ledgerVars, Screens, Screen
  <2> QED
    BY <2>1 DEF Ledger!vars
<1>2. ASSUME NEW b \in Broker, HideComplex(b) \/ (\E c \in Complex : CreateComplex(b, c))
      PROVE  Ledger!Next
    BY <1>2, ComplexComesOrGoes DEF Ledger!Next
<1>3. ASSUME NEW b \in Broker, InsertRow(b)
      PROVE  Ledger!Next
  <2>1. ledgerTx[b].row \in StoredRow
    BY <1>3, Before, PcTells DEF InsertRow, InsertTx, StoredRow
  <2> QED
    BY <1>3, <2>1, RegistersRow DEF Ledger!Next
<1>4. ASSUME NEW b \in Broker, NEW r \in Requirement \cup Event, NEW v, NEW p, Inserts(b, r, v, p)
      PROVE  Ledger!Next
  <2>1. r \in StoredRow
    BY DEF StoredRow
  <2> QED
    BY <1>4, <2>1, InsertsRow DEF Ledger!Next
<1>5. ASSUME NEW b \in Broker, LoadParts(b) \/ SaveCommit(b) \/ DeleteCommit(b) \/ Abort(b)
      PROVE  Ledger!Next
    BY <1>5, LooksStep, EditsRow, RemovesRow, TurnedAway DEF Abort, Ledger!Next
<1>6. ASSUME NEW b \in Broker, SaveRead(b) \/ SaveColumns(b) \/ SavePeople(b) \/ SaveBump(b)
      PROVE  [Ledger!Next]_(Ledger!vars)
    BY <1>6, SaveUnseen DEF Ledger!Next
<1>7. ASSUME NEW b \in Broker,
             \/ \E c \in Complex : DeleteComplex(b, c)
             \/ CountUnits(b)
             \/ \E u, c, v, p : CreateUnit(b, u, c, v, p)
             \/ \E l, u, v : CreateListing(b, l, u, v)
             \/ \E r : LoadRow(b, r) \/ Delete(b, r)
             \/ \E v, p, named : Save(b, v, p, named)
      PROVE  [Ledger!Next]_(Ledger!vars)
    BY <1>7, RequestUnseen DEF Ledger!Next
<1> QED
  <2>1. CASE LedgerNext
    <3>1. PICK b \in Broker :
            \/ \E c \in Complex : CreateComplex(b, c) \/ DeleteComplex(b, c)
            \/ CountUnits(b) \/ HideComplex(b)
            \/ \E u, c, v, p : CreateUnit(b, u, c, v, p)
            \/ \E l, u, v : CreateListing(b, l, u, v)
            \/ \E r \in Requirement \cup Event : \E v, p : Inserts(b, r, v, p)
            \/ InsertRow(b) \/ LoadParts(b)
            \/ \E r : LoadRow(b, r) \/ Delete(b, r)
            \/ \E v, p, named : Save(b, v, p, named)
            \/ SaveRead(b) \/ SaveColumns(b) \/ SavePeople(b) \/ SaveBump(b) \/ SaveCommit(b)
            \/ DeleteCommit(b) \/ Abort(b)
      BY <2>1 DEF LedgerNext, CreateRequirement, CreateEvent, SaveUnit, SaveRequirement,
                  SaveListing, SaveEvent, DeleteUnit, DeleteRequirement, DeleteEvent
    <3> QED
      BY <1>2, <1>3, <1>4, <1>5, <1>6, <1>7, <3>1
  <2> QED
    BY <1>1, <2>1

\* For every number of brokers and rows: whatever their requests read, lock and
\* give up in between, the office sees requests that take effect at once, from
\* screens that were right.
\* (save_property_unit, bump_row_version, lock_property_complex)
THEOREM LedgerIsOptimistic == LedgerSpec => ImplementsOptimisticLedger
<1>1. LedgerInit => Ledger!Init
  <2> SUFFICES ASSUME LedgerInit PROVE Ledger!Init
    OBVIOUS
  <2>1. Screens = [b \in Broker |-> Ledger!Blank]
    BY ScreenOf DEF LedgerInit, Screens
  <2> QED
    BY <2>1 DEF LedgerInit, Ledger!Init, Ledger!Absent, Absent
<1>2. LedgerInv /\ [LedgerNext]_ledgerVars => [Ledger!Next]_(Ledger!vars)
    BY LedgerRefines
<1> QED
    BY <1>1, <1>2, LedgerInvariance, PTL
       DEF LedgerSpec, ImplementsOptimisticLedger, Ledger!Spec

=============================================================================
