-------------------------- MODULE Brokerage_proofs --------------------------
(***************************************************************************)
(* What holds of the parts around the F3 runs for every value of their     *)
(* constants: a stored list of candidates keeps to the version its run     *)
(* was filed for (CandidateSearch), the models of a brokerage change only  *)
(* while no work is under way (ModelSelection), a poll of a run shows      *)
(* whole pages (RunResults), a stage stores a card only over the very      *)
(* logs it has read (InteractionScope), and what is stored of a model's    *)
(* answers is grounded in the logs (Generation).                           *)
(***************************************************************************)
EXTENDS MCBrokerage, SequenceTheorems, FiniteSetTheorems, WellFoundedInduction, TLAPS

-----------------------------------------------------------------------------
(* The search                                                                *)

SearchFields == {"status", "at", "anchor", "card", "version", "filed", "criteria",
                 "scores", "candidates"}

SearchTyped ==
    /\ seekers \in [Seeker -> SeekerRows]
    /\ rowVersion \in [Seeker \cup Stock -> Nat]
    /\ DOMAIN search = SearchFields
    /\ search.anchor \in Seeker \cup Stock
    /\ search.version \in Nat
    /\ search.version <= rowVersion[search.anchor]

(* The version of a row tells which row it is: while it is the one of the
   run, the requirement says what it said when the run was filed.            *)
VersionTellsRow ==
    OfSeeker /\ VersionKept => seekers[search.anchor] = search.filed

(* What the criteria owe to the filed requirement. *)
CriteriaSay ==
    /\ DOMAIN search.criteria = {"demand", "amount", "pyeongs", "blocks"}
    /\ search.criteria.demand = search.filed.demand
    /\ search.criteria.pyeongs = search.filed.pyeongs

CriteriaName ==
    /\ search.filed.blocks \cap blocks \subseteq search.criteria.blocks
    /\ search.criteria.blocks \subseteq search.filed.blocks

(* The criteria are those of the filed requirement as long as its version is
   the current one, and for good once the list is stored.                    *)
CriteriaKept ==
    /\ OfSeeker /\ VersionKept /\ Stage("complexes") => CriteriaSay
    /\ OfSeeker /\ VersionKept /\ (Stage("rows") \/ Stage("store")) =>
          CriteriaSay /\ CriteriaName
    /\ OfSeeker /\ Stored => CriteriaSay /\ CriteriaName

SearchInv == SearchTyped /\ VersionTellsRow /\ CriteriaKept
(* What the requirement of a started run says is what it is filed for. *)
LEMMA SearchStarts == SearchInit => SearchInv
<1> SUFFICES ASSUME SearchInit PROVE SearchInv
  OBVIOUS
<1>1. PICK a \in {b \in Seeker \cup Stock : IsActive(b)}, e \in Estimates :
        search = [status |-> "ANCHOR_READY", at |-> "start", anchor |-> a,
                  card |-> Card(a, e), version |-> 1,
                  filed |-> IF a \in Seeker THEN seekers[a] ELSE stock[a],
                  criteria |-> <<>>, scores |-> {}, candidates |-> <<>>]
  BY DEF SearchInit
<1>2. /\ search.status = "ANCHOR_READY" /\ search.at = "start"
      /\ search.anchor = a /\ search.version = 1
      /\ search.filed = IF a \in Seeker THEN seekers[a] ELSE stock[a]
  BY <1>1
<1>3. SearchTyped
  <2>1. DOMAIN search = SearchFields
    BY <1>1 DEF SearchFields
  <2>2. rowVersion[a] = 1 /\ a \in Seeker \cup Stock
    BY DEF SearchInit
  <2> QED
    BY <1>2, <2>1, <2>2 DEF SearchInit, SearchTyped
<1>4. VersionTellsRow
  BY <1>2 DEF VersionTellsRow, OfSeeker
<1>5. CriteriaKept
  BY <1>2 DEF CriteriaKept, Stage, Stored
<1> QED
  BY <1>3, <1>4, <1>5 DEF SearchInv

(* A save of the requirement moves its version, so a run that was filed for it
   is no longer at the current one.                                          *)
LEMMA EditSeekerKeeps ==
    ASSUME SearchInv, NEW s \in Seeker, NEW row \in SeekerRows, EditSeeker(s, row)
    PROVE  SearchInv'
<1>1. /\ search' = search /\ blocks' = blocks /\ stock' = stock
      /\ seekers' = [seekers EXCEPT ![s] = row]
      /\ rowVersion' = [rowVersion EXCEPT ![s] = @ + 1]
  BY DEF EditSeeker, Edit
<1>2. SearchTyped'
  BY <1>1 DEF SearchInv, SearchTyped
<1>3. (OfSeeker /\ VersionKept)' => search.anchor # s /\ OfSeeker /\ VersionKept
  BY <1>1 DEF SearchInv, SearchTyped, OfSeeker, VersionKept
<1>4. VersionTellsRow'
  BY <1>1, <1>3 DEF SearchInv, SearchTyped, VersionTellsRow, OfSeeker, VersionKept
<1>5. CriteriaKept'
  BY <1>1, <1>3 DEF SearchInv, CriteriaKept, CriteriaSay, CriteriaName, Stage, Stored, OfSeeker
<1> QED
  BY <1>2, <1>4, <1>5 DEF SearchInv

LEMMA EditStockKeeps ==
    ASSUME SearchInv, SearchAssumption, NEW l \in Stock, NEW row \in StockRows,
           EditStock(l, row)
    PROVE  SearchInv'
<1>1. /\ search' = search /\ blocks' = blocks /\ seekers' = seekers
  BY DEF EditStock, Edit
<1>2. \E n \in Nat : n >= rowVersion[l] /\ rowVersion' = [rowVersion EXCEPT ![l] = n]
  <2>1. rowVersion[l] \in Nat /\ rowVersion[l] + 1 \in Nat
    BY DEF SearchInv, SearchTyped
  <2>2. \/ rowVersion' = [rowVersion EXCEPT ![l] = rowVersion[l]]
        \/ rowVersion' = [rowVersion EXCEPT ![l] = rowVersion[l] + 1]
    BY DEF EditStock
  <2> QED
    BY <2>1, <2>2
<1>3. \A b \in Seeker : rowVersion'[b] = rowVersion[b]
  BY <1>2 DEF SearchAssumption, SearchInv, SearchTyped
<1>4. SearchTyped'
  BY <1>1, <1>2 DEF SearchInv, SearchTyped
<1>5. (OfSeeker /\ VersionKept)' => OfSeeker /\ VersionKept
  BY <1>1, <1>3 DEF OfSeeker, VersionKept
<1>6. VersionTellsRow'
  BY <1>1, <1>5 DEF SearchInv, VersionTellsRow, OfSeeker
<1>7. CriteriaKept'
  BY <1>1, <1>5 DEF SearchInv, CriteriaKept, CriteriaSay, CriteriaName, Stage, Stored, OfSeeker
<1> QED
  BY <1>4, <1>6, <1>7 DEF SearchInv

(* Complexes only go, so the criteria still name all that are left. *)
LEMMA DeleteBlockKeeps ==
    ASSUME SearchInv, NEW b \in Block, DeleteBlock(b)
    PROVE  SearchInv'
<1>1. /\ search' = search /\ rowVersion' = rowVersion /\ seekers' = seekers
      /\ blocks' = blocks \ {b}
  BY DEF DeleteBlock, Edit
<1>2. SearchTyped' /\ VersionTellsRow'
  BY <1>1 DEF SearchInv, SearchTyped, VersionTellsRow, OfSeeker, VersionKept
<1>3. /\ (OfSeeker /\ VersionKept)' => OfSeeker /\ VersionKept
      /\ OfSeeker' => OfSeeker
      /\ \A place : Stage(place)' => Stage(place)
      /\ Stored' => Stored
  BY <1>1 DEF OfSeeker, VersionKept, Stage, Stored
<1>4. (CriteriaSay => CriteriaSay') /\ (CriteriaName => CriteriaName')
  BY <1>1 DEF CriteriaSay, CriteriaName
<1>5. CriteriaKept'
  BY <1>3, <1>4 DEF SearchInv, CriteriaKept
<1> QED
  BY <1>2, <1>5 DEF SearchInv

(* A statement of the stage leaves the ledger and the run's own version alone. *)
LEMMA StageKeeps ==
    ASSUME SearchInv, NEW new, Reads(new), DOMAIN new = SearchFields, new.anchor = search.anchor,
           new.version = search.version, new.filed = search.filed
    PROVE  /\ SearchTyped' /\ VersionTellsRow'
           /\ (OfSeeker /\ VersionKept)' <=> (OfSeeker /\ VersionKept)
           /\ OfSeeker' <=> OfSeeker
           /\ blocks' = blocks /\ search'.filed = search.filed
<1>1. /\ search' = new /\ rowVersion' = rowVersion /\ seekers' = seekers /\ blocks' = blocks
  BY DEF Reads
<1>2. SearchTyped'
  BY <1>1 DEF SearchInv, SearchTyped, SearchFields
<1>3. (OfSeeker' <=> OfSeeker) /\ (VersionKept' <=> VersionKept)
  BY <1>1 DEF OfSeeker, VersionKept
<1>4. VersionTellsRow'
  BY <1>1, <1>3 DEF SearchInv, VersionTellsRow
<1> QED
  BY <1>1, <1>2, <1>3, <1>4

LEMMA SupersedeKeeps ==
    ASSUME SearchInv, Supersede
    PROVE  SearchInv'
<1> DEFINE new == [search EXCEPT !.status = "SUPERSEDED"]
<1>1. /\ DOMAIN new = SearchFields
      /\ new.anchor = search.anchor /\ new.version = search.version
      /\ new.filed = search.filed
      /\ new.status = "SUPERSEDED"
      /\ new.at = search.at
      /\ new.criteria = search.criteria
  BY DEF SearchInv, SearchTyped, SearchFields
<1>2. Reads(new)
  BY DEF Supersede
<1>3. search'.status = "SUPERSEDED"
  BY <1>1, <1>2 DEF Reads
<1> HIDE DEF new
<1>4. CriteriaKept'
  BY <1>3 DEF CriteriaKept, Stage, Stored
<1>5. SearchTyped' /\ VersionTellsRow'
  BY <1>1, <1>2, StageKeeps
<1> QED
  BY <1>4, <1>5 DEF SearchInv

LEMMA StartSearchKeeps ==
    ASSUME SearchInv, StartSearch
    PROVE  SearchInv'
<1>1. CASE ~VersionKept
  BY <1>1, SupersedeKeeps DEF StartSearch
<1>2. CASE VersionKept
  <2> DEFINE new == [search EXCEPT !.at = "criteria"]
  <2>1. /\ DOMAIN new = SearchFields
        /\ new.anchor = search.anchor /\ new.version = search.version
        /\ new.filed = search.filed
        /\ new.status = search.status
        /\ new.at = "criteria"
        /\ new.criteria = search.criteria
    BY DEF SearchInv, SearchTyped, SearchFields
  <2>2. Reads(new)
    BY <1>2 DEF StartSearch
  <2>3. search'.at = "criteria" /\ search'.status = "ANCHOR_READY"
    BY <2>1, <2>2 DEF Reads, StartSearch, Stage
  <2> HIDE DEF new
  <2>4. CriteriaKept'
    BY <2>3 DEF CriteriaKept, Stage, Stored
  <2>5. SearchTyped' /\ VersionTellsRow'
    BY <2>1, <2>2, StageKeeps
  <2> QED
    BY <2>4, <2>5 DEF SearchInv
<1> QED
  BY <1>1, <1>2

(* The demand and the sizes are read from the row that the version tells. *)
LEMMA ReadCriteriaKeeps ==
    ASSUME SearchInv, SearchAssumption, ReadCriteria
    PROVE  SearchInv'
<1> DEFINE a == search.anchor
           amount == AnchorAmount(search.card)
           c == IF a \in Stock
                THEN [kind |-> search.card.kind, amount |-> amount,
                      block |-> stock[a].block, pyeong |-> stock[a].pyeong]
                ELSE [demand |-> seekers[a].demand, amount |-> amount,
                      pyeongs |-> seekers[a].pyeongs, blocks |-> {}]
           place == IF a \in Stock THEN "rows" ELSE "complexes"
           new == [search EXCEPT !.at = place, !.criteria = c]
<1>1. /\ DOMAIN new = SearchFields
      /\ new.anchor = search.anchor /\ new.version = search.version
      /\ new.filed = search.filed
      /\ new.status = search.status
      /\ new.at = place
      /\ new.criteria = c
  BY DEF SearchInv, SearchTyped, SearchFields
<1>2. Reads(new)
  BY DEF ReadCriteria
<1>3. OfSeeker => a \notin Stock
  BY DEF OfSeeker, SearchAssumption
<1>4. search' = new
  BY <1>2 DEF Reads
<1>5. /\ search'.status = "ANCHOR_READY"
      /\ search'.at = place
      /\ search'.criteria = c
  BY <1>1, <1>4 DEF ReadCriteria, Stage
<1>6. a \notin Stock => /\ place = "complexes"
                       /\ c = [demand |-> seekers[a].demand, amount |-> amount,
                                pyeongs |-> seekers[a].pyeongs, blocks |-> {}]
  OBVIOUS
<1> HIDE DEF new, c, place, amount
<1>7. /\ SearchTyped' /\ VersionTellsRow'
      /\ (OfSeeker /\ VersionKept)' <=> (OfSeeker /\ VersionKept)
      /\ OfSeeker' <=> OfSeeker
      /\ search'.filed = search.filed
  BY <1>1, <1>2, StageKeeps
<1>8. OfSeeker /\ VersionKept => CriteriaSay'
  BY <1>3, <1>5, <1>6, <1>7 DEF SearchInv, VersionTellsRow, CriteriaSay
<1>9. CriteriaKept'
  BY <1>3, <1>5, <1>6, <1>7, <1>8 DEF CriteriaKept, Stage, Stored
<1> QED
  BY <1>7, <1>9 DEF SearchInv

LEMMA ReadComplexesKeeps ==
    ASSUME SearchInv, ReadComplexes
    PROVE  SearchInv'
<1> DEFINE named == seekers[search.anchor].blocks \cap blocks
           c == [search.criteria EXCEPT !.blocks = named]
           new == [search EXCEPT !.at = "rows", !.criteria = c]
<1>1. /\ DOMAIN new = SearchFields
      /\ new.anchor = search.anchor /\ new.version = search.version
      /\ new.filed = search.filed
      /\ new.status = search.status
      /\ new.at = "rows"
      /\ new.criteria = c
  BY DEF SearchInv, SearchTyped, SearchFields
<1>2. Reads(new)
  BY DEF ReadComplexes
<1>3. search' = new /\ blocks' = blocks
  BY <1>2 DEF Reads
<1>4. /\ search'.status = "ANCHOR_READY"
      /\ search'.at = "rows"
      /\ search'.criteria = c
  BY <1>1, <1>3 DEF ReadComplexes, Stage
<1>5. CriteriaSay =>
        /\ DOMAIN c = {"demand", "amount", "pyeongs", "blocks"}
        /\ c.demand = search.filed.demand /\ c.pyeongs = search.filed.pyeongs
        /\ c.blocks = named
  BY DEF CriteriaSay
<1>6. OfSeeker /\ VersionKept => named = search.filed.blocks \cap blocks
  BY DEF SearchInv, VersionTellsRow
<1> HIDE DEF new, c, named
<1>7. /\ SearchTyped' /\ VersionTellsRow'
      /\ (OfSeeker /\ VersionKept)' <=> (OfSeeker /\ VersionKept)
      /\ OfSeeker' <=> OfSeeker
      /\ search'.filed = search.filed
  BY <1>1, <1>2, StageKeeps
<1>8. OfSeeker /\ VersionKept => CriteriaSay
  BY DEF SearchInv, CriteriaKept, ReadComplexes
<1>9. OfSeeker /\ VersionKept => CriteriaSay' /\ CriteriaName'
  BY <1>3, <1>4, <1>5, <1>6, <1>7, <1>8 DEF CriteriaSay, CriteriaName
<1>10. CriteriaKept'
  BY <1>4, <1>7, <1>9 DEF CriteriaKept, Stage, Stored
<1> QED
  BY <1>7, <1>10 DEF SearchInv

LEMMA ReadCandidatesKeeps ==
    ASSUME SearchInv, ReadCandidates
    PROVE  SearchInv'
<1>1. PICK found : Reads([search EXCEPT !.at = "store", !.scores = found])
  BY DEF ReadCandidates
<1> DEFINE new == [search EXCEPT !.at = "store", !.scores = found]
<1>2. /\ DOMAIN new = SearchFields
      /\ new.anchor = search.anchor /\ new.version = search.version
      /\ new.filed = search.filed
      /\ new.status = search.status
      /\ new.at = "store"
      /\ new.criteria = search.criteria
  BY DEF SearchInv, SearchTyped, SearchFields
<1>3. search' = new /\ blocks' = blocks
  BY <1>1 DEF Reads
<1>4. /\ search'.status = "ANCHOR_READY"
      /\ search'.at = "store"
      /\ search'.criteria = search.criteria
  BY <1>2, <1>3 DEF ReadCandidates, Stage
<1>5. Reads(new)
  BY <1>1
<1> HIDE DEF new
<1>6. /\ SearchTyped' /\ VersionTellsRow'
      /\ (OfSeeker /\ VersionKept)' <=> (OfSeeker /\ VersionKept)
      /\ search'.filed = search.filed
  BY <1>2, <1>5, StageKeeps
<1>7. OfSeeker /\ VersionKept => CriteriaSay /\ CriteriaName
  BY DEF SearchInv, CriteriaKept, ReadCandidates
<1>8. OfSeeker /\ VersionKept => CriteriaSay' /\ CriteriaName'
  BY <1>3, <1>4, <1>6, <1>7 DEF CriteriaSay, CriteriaName
<1>9. CriteriaKept'
  BY <1>4, <1>6, <1>8 DEF CriteriaKept, Stage, Stored
<1> QED
  BY <1>6, <1>9 DEF SearchInv

(* The version is asked for a second time before the list is stored: what the
   criteria owe to the current row, they owe to the filed one.               *)
LEMMA StoreCandidatesKeeps ==
    ASSUME SearchInv, StoreCandidates
    PROVE  SearchInv'
<1>1. CASE ~StillCurrent
  BY <1>1, SupersedeKeeps DEF StoreCandidates
<1>2. CASE StillCurrent
  <2> DEFINE list == Ordered(search.scores)
             new == [search EXCEPT !.status = "CANDIDATES_READY", !.at = "stored",
                                   !.scores = {}, !.candidates = list]
  <2>1. /\ DOMAIN new = SearchFields
        /\ new.anchor = search.anchor /\ new.version = search.version
        /\ new.filed = search.filed
        /\ new.status = "CANDIDATES_READY"
        /\ new.at = "stored"
        /\ new.criteria = search.criteria
    BY DEF SearchInv, SearchTyped, SearchFields
  <2>2. Reads(new)
    BY <1>2 DEF StoreCandidates
  <2>3. search' = new /\ blocks' = blocks
    BY <2>2 DEF Reads
  <2>4. search'.status = "CANDIDATES_READY" /\ search'.criteria = search.criteria
    BY <2>1, <2>3
  <2> HIDE DEF new, list
  <2>5. /\ SearchTyped' /\ VersionTellsRow'
        /\ OfSeeker' <=> OfSeeker
        /\ search'.filed = search.filed
    BY <2>1, <2>2, StageKeeps
  <2>6. OfSeeker => CriteriaSay /\ CriteriaName
    BY <1>2 DEF SearchInv, CriteriaKept, StoreCandidates, StillCurrent
  <2>7. OfSeeker => CriteriaSay' /\ CriteriaName'
    BY <2>3, <2>4, <2>5, <2>6 DEF CriteriaSay, CriteriaName
  <2>8. CriteriaKept'
    BY <2>4, <2>5, <2>7 DEF CriteriaKept, Stage, Stored
  <2> QED
    BY <2>5, <2>8 DEF SearchInv
<1> QED
  BY <1>1, <1>2

LEMMA CutShortKeeps ==
    ASSUME SearchInv, CutShort
    PROVE  SearchInv'
<1> DEFINE new == [search EXCEPT !.at = "start", !.criteria = <<>>, !.scores = {}]
<1>1. /\ DOMAIN new = SearchFields
      /\ new.anchor = search.anchor /\ new.version = search.version
      /\ new.filed = search.filed
      /\ new.status = search.status
      /\ new.at = "start"
      /\ new.criteria = <<>>
  BY DEF SearchInv, SearchTyped, SearchFields
<1>2. Reads(new)
  BY DEF CutShort
<1>3. search'.at = "start" /\ search'.status = "ANCHOR_READY"
  BY <1>1, <1>2 DEF Reads, CutShort
<1> HIDE DEF new
<1>4. CriteriaKept'
  BY <1>3 DEF CriteriaKept, Stage, Stored
<1>5. SearchTyped' /\ VersionTellsRow'
  BY <1>1, <1>2, StageKeeps
<1> QED
  BY <1>4, <1>5 DEF SearchInv

(* SearchInv is inductive. *)
LEMMA SearchStep ==
    ASSUME SearchInv, SearchAssumption, [SearchNext]_searchVars
    PROVE  SearchInv'
<1>1. CASE \E s \in Seeker, row \in SeekerRows : EditSeeker(s, row)
  BY <1>1, EditSeekerKeeps
<1>2. CASE \E l \in Stock, row \in StockRows : EditStock(l, row)
  BY <1>2, EditStockKeeps
<1>3. CASE \E b \in Block : DeleteBlock(b)
  BY <1>3, DeleteBlockKeeps
<1>4. CASE StartSearch
  BY <1>4, StartSearchKeeps
<1>5. CASE ReadCriteria
  BY <1>5, ReadCriteriaKeeps
<1>6. CASE ReadComplexes
  BY <1>6, ReadComplexesKeeps
<1>7. CASE ReadCandidates
  BY <1>7, ReadCandidatesKeeps
<1>8. CASE StoreCandidates
  BY <1>8, StoreCandidatesKeeps
<1>9. CASE CutShort
  BY <1>9, CutShortKeeps
<1>10. CASE UNCHANGED searchVars
  BY <1>10 DEF searchVars, SearchInv, SearchTyped, VersionTellsRow, CriteriaKept,
     CriteriaSay, CriteriaName, OfSeeker, VersionKept, Stage, Stored
<1> QED
  BY <1>1, <1>2, <1>3, <1>4, <1>5, <1>6, <1>7, <1>8, <1>9, <1>10 DEF SearchNext

(* The criteria of a search keep to the requirement its run was filed for, as
   long as the version of that requirement is the current one.               *)
THEOREM SearchInvariance == SearchSpec => []SearchInv
<1>1. SearchInit => SearchInv
  BY SearchStarts
<1>2. SearchInv /\ [SearchNext]_searchVars => SearchInv'
  BY SearchStep, SearchAssumption
<1> QED
  BY <1>1, <1>2, PTL DEF SearchSpec

(* A stored list of candidates answers the requirement the run was filed for,
   whatever was saved between the statements of the stage that made it.      *)
THEOREM SelectionKept == SearchSpec => []SelectionKeepsToItsVersion
<1>1. SearchInv => SelectionKeepsToItsVersion
  BY DEF SearchInv, CriteriaKept, CriteriaSay, CriteriaName, SelectionKeepsToItsVersion
<1> QED
  BY <1>1, SearchInvariance, PTL

-----------------------------------------------------------------------------
(* The selection of models                                                   *)

SelectionTables == {"brokerage", "ai_model_config", "agent_run", "chat_request"}

(* Two holders of a table, or of a row of brokerage, are in modes that do not
   conflict.                                                                 *)
TablesExclude ==
    /\ DOMAIN tableLock = SelectionTables
    /\ \A t \in SelectionTables : \A k, l \in tableLock[t] :
          k.by # l.by => k.mode # "exclusive" /\ l.mode # "exclusive"
OfficesExclude ==
    /\ DOMAIN officeLock = Office
    /\ \A b \in Office : \A k, l \in officeLock[b] :
          k.by # l.by => k.mode = "key" /\ l.mode = "key"

WorkStates == {"inserting", "accepting", "inserted", "pending", "done"}
OfficeMode(w) == IF w \in RunWork THEN "key" ELSE "update"

(* A row that is written and not committed is covered by the lock of its
   table and, once it is complete, of its office.                            *)
WorkHolds(w) ==
    /\ workRow[w] \in {NoWork} \cup [state : WorkStates, office : Office]
    /\ workRow[w].state = "inserting" => w \in RunWork
    /\ workRow[w].state = "accepting" => w \in ChatWork
    /\ workRow[w].state \in {"inserting", "inserted"} =>
          [by |-> w, mode |-> "row"] \in tableLock[TableOf(w)]
    /\ workRow[w].state \in {"accepting", "inserted"} =>
          [by |-> w, mode |-> OfficeMode(w)] \in officeLock[workRow[w].office]

Selecting(o) == selection[o].pc \in {"lock", "check", "write"}
Activating(o) == selection[o].pc \in {"count", "activate"}

(* A selection holds the tables up to the place it has come to, an activation
   the row of its office.                                                    *)
CallHolds(o) ==
    /\ "pc" \in DOMAIN selection[o]
    /\ Selecting(o) =>
          /\ DOMAIN selection[o] = {"pc", "kind", "model", "targets", "snapshot", "held"}
          /\ selection[o].held \in 0..Len(LockOrder)
          /\ \A k \in 1..selection[o].held :
                [by |-> o, mode |-> "exclusive"] \in tableLock[LockOrder[k]]
          /\ selection[o].pc # "lock" <=> selection[o].held = Len(LockOrder)
    /\ Activating(o) =>
          /\ DOMAIN selection[o] = {"pc", "office", "chat", "model"}
          /\ selection[o].office \in Office
          /\ selection[o].chat \in BOOLEAN
          /\ [by |-> o, mode |-> "update"] \in officeLock[selection[o].office]

(* What the call has checked is still so when it writes. *)
CheckedHolds(o) ==
    /\ selection[o].pc = "write" =>
          /\ \A t \in selection[o].targets : PendingWork(t[1]) = {}
          /\ selection[o].kind = "targets" =>
                /\ activeConfig = selection[o].snapshot[1]
                /\ \A t \in Target : ~Compatible(t, selection[o].model) => t \in selection[o].targets
    /\ selection[o].pc = "activate" =>
          {w \in PendingWork(selection[o].office) : (w \in ChatWork) = selection[o].chat} = {}

SelectionInv ==
    /\ DOMAIN workRow = Work /\ DOMAIN selection = Operator
    /\ TablesExclude /\ OfficesExclude
    /\ \A w \in Work : WorkHolds(w)
    /\ \A o \in Operator : CallHolds(o) /\ CheckedHolds(o)

(* A lock is given only beside locks that do not conflict with it. *)
LEMMA TableTaken ==
    ASSUME TablesExclude, NEW who, NEW t \in SelectionTables, NEW mode,
           TableFree(who, t, mode), LockTable(who, t, mode)
    PROVE  /\ TablesExclude'
           /\ [by |-> who, mode |-> mode] \in tableLock'[t]
           /\ \A x \in SelectionTables : tableLock[x] \subseteq tableLock'[x]
<1> DEFINE new == [by |-> who, mode |-> mode]
<1>1. new.by = who /\ new.mode = mode
  OBVIOUS
<1>2. /\ DOMAIN tableLock' = SelectionTables
      /\ tableLock'[t] = tableLock[t] \cup {new}
      /\ \A x \in SelectionTables : x # t => tableLock'[x] = tableLock[x]
  BY DEF TablesExclude, LockTable
<1> HIDE DEF new
<1>3. \A l \in tableLock[t] : l.by # new.by => new.mode # "exclusive" /\ l.mode # "exclusive"
  BY <1>1 DEF TableFree
<1>4. \A x \in SelectionTables : \A k, l \in tableLock'[x] :
        k.by # l.by => k.mode # "exclusive" /\ l.mode # "exclusive"
  BY <1>2, <1>3 DEF TablesExclude
<1> QED
  BY <1>2, <1>4 DEF TablesExclude, new

LEMMA OfficeTaken ==
    ASSUME OfficesExclude, NEW who, NEW b \in Office, NEW mode,
           RowFree(who, b, mode), LockOfficeRow(who, b, mode)
    PROVE  /\ OfficesExclude'
           /\ [by |-> who, mode |-> mode] \in officeLock'[b]
           /\ \A x \in Office : officeLock[x] \subseteq officeLock'[x]
<1> DEFINE new == [by |-> who, mode |-> mode]
<1>1. new.by = who /\ new.mode = mode
  OBVIOUS
<1>2. /\ DOMAIN officeLock' = Office
      /\ officeLock'[b] = officeLock[b] \cup {new}
      /\ \A x \in Office : x # b => officeLock'[x] = officeLock[x]
  BY DEF OfficesExclude, LockOfficeRow
<1> HIDE DEF new
<1>3. \A l \in officeLock[b] : l.by # new.by => new.mode = "key" /\ l.mode = "key"
  BY <1>1 DEF RowFree
<1>4. \A x \in Office : \A k, l \in officeLock'[x] :
        k.by # l.by => k.mode = "key" /\ l.mode = "key"
  BY <1>2, <1>3 DEF OfficesExclude
<1> QED
  BY <1>2, <1>4 DEF OfficesExclude, new

(* The locks of x are still held after the step. *)
LocksKept(x) ==
    /\ \A t \in SelectionTables : \A l \in tableLock[t] : l.by = x => l \in tableLock'[t]
    /\ \A b \in Office : \A l \in officeLock[b] : l.by = x => l \in officeLock'[b]

(* The end of a transaction takes no lock of another. *)
LEMMA LocksReleased ==
    ASSUME TablesExclude, OfficesExclude, NEW who, ReleaseLocks(who)
    PROVE  TablesExclude' /\ OfficesExclude' /\ \A x : x # who => LocksKept(x)
<1>1. TablesExclude'
  BY DEF TablesExclude, ReleaseLocks
<1>2. OfficesExclude'
  BY DEF OfficesExclude, ReleaseLocks
<1>3. \A x : x # who => LocksKept(x)
  BY DEF TablesExclude, OfficesExclude, ReleaseLocks, LocksKept
<1> QED
  BY <1>1, <1>2, <1>3

LEMMA TableOfTables == \A w : TableOf(w) \in SelectionTables
  BY DEF TableOf, SelectionTables

LEMMA LockOrderTables == Len(LockOrder) = 4 /\ \A k \in 1..4 : LockOrder[k] \in SelectionTables
  BY DEF LockOrder, SelectionTables

(* What a row or a call is covered by rests on its own locks. *)
LEMMA WorkFrame ==
    ASSUME NEW w \in Work, WorkHolds(w), workRow'[w] = workRow[w], LocksKept(w)
    PROVE  WorkHolds(w)'
<1>1. /\ workRow'[w] \in {NoWork} \cup [state : WorkStates, office : Office]
      /\ workRow'[w].state = "inserting" => w \in RunWork
      /\ workRow'[w].state = "accepting" => w \in ChatWork
  BY DEF WorkHolds
<1>2. workRow[w].state \in {"inserting", "inserted"} =>
        [by |-> w, mode |-> "row"] \in tableLock'[TableOf(w)]
  BY TableOfTables DEF WorkHolds, LocksKept
<1>3. workRow[w].state \in {"accepting", "inserted"} => workRow[w].office \in Office
  BY DEF WorkHolds, NoWork
<1>4. workRow[w].state \in {"accepting", "inserted"} =>
        [by |-> w, mode |-> OfficeMode(w)] \in officeLock'[workRow[w].office]
  BY <1>3 DEF WorkHolds, LocksKept
<1> QED
  BY <1>1, <1>2, <1>4 DEF WorkHolds, TableOf, OfficeMode

LEMMA CallFrame ==
    ASSUME NEW o \in Operator, CallHolds(o), selection'[o] = selection[o], LocksKept(o)
    PROVE  CallHolds(o)'
<1>1. Selecting(o) =>
        \A k \in 1..selection[o].held :
            [by |-> o, mode |-> "exclusive"] \in tableLock'[LockOrder[k]]
  <2> SUFFICES ASSUME Selecting(o), NEW k \in 1..selection[o].held
               PROVE  [by |-> o, mode |-> "exclusive"] \in tableLock'[LockOrder[k]]
    OBVIOUS
  <2>1. selection[o].held \in 0..4
    BY LockOrderTables DEF CallHolds
  <2>2. k \in 1..4
    BY <2>1
  <2>3. LockOrder[k] \in SelectionTables
    BY <2>2, LockOrderTables
  <2>4. [by |-> o, mode |-> "exclusive"] \in tableLock[LockOrder[k]]
    BY DEF CallHolds
  <2> QED
    BY <2>3, <2>4 DEF LocksKept
<1>2. Activating(o) => [by |-> o, mode |-> "update"] \in officeLock'[selection[o].office]
  BY DEF CallHolds, LocksKept
<1>3. (Selecting(o)' <=> Selecting(o)) /\ (Activating(o)' <=> Activating(o))
  BY DEF Selecting, Activating
<1> QED
  BY <1>1, <1>2, <1>3 DEF CallHolds, LockOrder

(* A check stays true while the configurations do and no work of an office is
   added.                                                                    *)
LEMMA CheckedFrame ==
    ASSUME NEW o \in Operator, CheckedHolds(o), selection'[o] = selection[o],
           selection[o].pc = "write" => activeConfig' = activeConfig,
           \A b : PendingWork(b)' \subseteq PendingWork(b)
    PROVE  CheckedHolds(o)'
<1>1. selection[o].pc = "write" =>
        /\ \A t \in selection[o].targets : PendingWork(t[1])' = {}
        /\ selection[o].kind = "targets" =>
              /\ activeConfig' = selection[o].snapshot[1]
              /\ \A t \in Target : ~Compatible(t, selection[o].model)' => t \in selection[o].targets
  BY DEF CheckedHolds, Compatible
<1>2. selection[o].pc = "activate" =>
        {w \in PendingWork(selection[o].office)' : (w \in ChatWork) = selection[o].chat} = {}
  BY DEF CheckedHolds
<1> QED
  BY <1>1, <1>2 DEF CheckedHolds, Compatible, PendingWork

LEMMA AllTablesHeld ==
    ASSUME SelectionInv, NEW o \in Operator, selection[o].pc \in {"check", "write"}, NEW k \in 1..4
    PROVE  [by |-> o, mode |-> "exclusive"] \in tableLock[LockOrder[k]]
<1>1. Selecting(o) /\ selection[o].pc # "lock"
  BY DEF Selecting
<1>2. CallHolds(o)
  BY DEF SelectionInv
<1>3. selection[o].held = 4
  BY <1>1, <1>2, LockOrderTables DEF CallHolds
<1> QED
  BY <1>1, <1>2, <1>3 DEF CallHolds

(* Who holds the tables knows that no row waits to be committed; who holds the
   office, that no row of the office does.                                   *)
LEMMA TablesCover ==
    ASSUME SelectionInv, SelectionAssumption, NEW o \in Operator,
           selection[o].pc \in {"check", "write"}, NEW w \in Work
    PROVE  workRow[w].state # "inserted"
<1> SUFFICES ASSUME workRow[w].state = "inserted" PROVE FALSE
  OBVIOUS
<1>1. PICK k \in 1..4 : LockOrder[k] = TableOf(w)
  <2>1. LockOrder[3] = "agent_run" /\ LockOrder[4] = "chat_request"
    BY DEF LockOrder
  <2> QED
    BY <2>1 DEF TableOf
<1>3. [by |-> o, mode |-> "exclusive"] \in tableLock[TableOf(w)]
  BY <1>1, AllTablesHeld
<1>4. [by |-> w, mode |-> "row"] \in tableLock[TableOf(w)]
  BY DEF SelectionInv, WorkHolds
<1>5. o # w
  BY DEF SelectionAssumption, Work
<1> QED
  BY <1>3, <1>4, <1>5, TableOfTables DEF SelectionInv, TablesExclude

LEMMA OfficeCovers ==
    ASSUME SelectionInv, SelectionAssumption, NEW o \in Operator, Activating(o), NEW w \in Work,
           workRow[w].state = "inserted"
    PROVE  workRow[w].office # selection[o].office
<1> SUFFICES ASSUME workRow[w].office = selection[o].office PROVE FALSE
  OBVIOUS
<1>1. selection[o].office \in Office
  BY DEF SelectionInv, CallHolds
<1>2. [by |-> o, mode |-> "update"] \in officeLock[selection[o].office]
  BY DEF SelectionInv, CallHolds
<1>3. [by |-> w, mode |-> OfficeMode(w)] \in officeLock[selection[o].office]
  BY DEF SelectionInv, WorkHolds
<1>4. o # w
  BY DEF SelectionAssumption, Work
<1> QED
  BY <1>1, <1>2, <1>3, <1>4 DEF SelectionInv, OfficesExclude

(* While a selection is about to write, no other call changes the models. *)
LEMMA OneWriter ==
    ASSUME SelectionInv, SelectionAssumption, NEW o \in Operator, selection[o].pc = "write",
           NEW p \in Operator, p # o
    PROVE  selection[p].pc # "write" /\ ~ActivateWrite(p)
<1>1. LockOrder[2] = "ai_model_config"
  BY DEF LockOrder
<1>2. [by |-> o, mode |-> "exclusive"] \in tableLock["ai_model_config"]
  BY <1>1, AllTablesHeld
<1>3. selection[p].pc = "write" =>
        [by |-> p, mode |-> "exclusive"] \in tableLock["ai_model_config"]
  BY <1>1, AllTablesHeld
<1>4. selection[p].pc # "write"
  BY <1>2, <1>3 DEF SelectionInv, TablesExclude, SelectionTables
<1>5. ~ActivateWrite(p)
  BY <1>2 DEF ActivateWrite, TableFree
<1> QED
  BY <1>4, <1>5

(* A step of a run or a request changes its own row and its own locks. *)
LEMMA WorkStep ==
    ASSUME SelectionInv, SelectionAssumption, NEW w \in Work, NEW row,
           workRow' = [workRow EXCEPT ![w] = row],
           UNCHANGED <<activeConfig, selection>>,
           TablesExclude', OfficesExclude', \A x : x # w => LocksKept(x),
           WorkHolds(w)',
           row.state = "pending" =>
              workRow[w].state = "inserted" /\ row.office = workRow[w].office
    PROVE  SelectionInv'
<1>1. DOMAIN workRow' = Work /\ DOMAIN selection' = Operator
  BY DEF SelectionInv
<1>2. \A v \in Work : v # w => workRow'[v] = workRow[v]
  BY DEF SelectionInv
<1>3. workRow'[w] = row
  BY DEF SelectionInv
<1>4. ASSUME NEW v \in Work PROVE WorkHolds(v)'
  BY <1>2, WorkFrame DEF SelectionInv
<1>5. ASSUME NEW o \in Operator PROVE CallHolds(o)'
  <2>1. o # w
    BY DEF SelectionAssumption, Work
  <2> QED
    BY <2>1, CallFrame DEF SelectionInv
<1>6. ASSUME NEW o \in Operator PROVE CheckedHolds(o)'
  <2>0. CheckedHolds(o)
    BY DEF SelectionInv
  <2>1. CASE row.state # "pending"
    <3>1. \A b : PendingWork(b)' \subseteq PendingWork(b)
      BY <1>2, <1>3, <2>1 DEF PendingWork
    <3> QED
      BY <2>0, <3>1, CheckedFrame
  <2>2. CASE row.state = "pending"
    <3>1. \A b : PendingWork(b)' \subseteq PendingWork(b) \cup {w}
      BY <1>2 DEF PendingWork
    <3>2. \A b : w \in PendingWork(b)' => b = workRow[w].office
      BY <1>3, <2>2 DEF PendingWork
    <3>3. selection[o].pc # "write"
      BY <2>2, TablesCover
    <3>4. selection[o].pc = "activate" => workRow[w].office # selection[o].office
      BY <2>2, OfficeCovers DEF Activating
    <3>5. selection[o].pc = "activate" =>
            PendingWork(selection[o].office)' \subseteq PendingWork(selection[o].office)
      BY <3>1, <3>2, <3>4
    <3>6. selection[o].pc = "activate" =>
            {v \in PendingWork(selection[o].office)' : (v \in ChatWork) = selection[o].chat} = {}
      BY <2>0, <3>5 DEF CheckedHolds
    <3> QED
      BY <3>3, <3>6 DEF CheckedHolds, PendingWork
  <2> QED
    BY <2>1, <2>2
<1> QED
  BY <1>1, <1>4, <1>5, <1>6 DEF SelectionInv

(* A step of a call changes its own state and its own locks. *)
LEMMA CallStep ==
    ASSUME SelectionInv, SelectionAssumption, NEW o \in Operator, NEW row,
           selection' = [selection EXCEPT ![o] = row],
           UNCHANGED workRow,
           \A p \in Operator : p # o /\ selection[p].pc = "write" => activeConfig' = activeConfig,
           TablesExclude', OfficesExclude', \A x : x # o => LocksKept(x),
           CallHolds(o)', CheckedHolds(o)'
    PROVE  SelectionInv'
<1>1. DOMAIN workRow' = Work /\ DOMAIN selection' = Operator
  BY DEF SelectionInv
<1>2. \A p \in Operator : p # o => selection'[p] = selection[p]
  BY DEF SelectionInv
<1>3. ASSUME NEW v \in Work PROVE WorkHolds(v)'
  <2>1. o # v
    BY DEF SelectionAssumption, Work
  <2> QED
    BY <2>1, WorkFrame DEF SelectionInv
<1>4. ASSUME NEW p \in Operator PROVE CallHolds(p)'
  BY <1>2, CallFrame DEF SelectionInv
<1>5. \A b : PendingWork(b)' \subseteq PendingWork(b)
  BY DEF PendingWork
<1>6. ASSUME NEW p \in Operator PROVE CheckedHolds(p)'
  BY <1>2, <1>5, CheckedFrame DEF SelectionInv
<1> QED
  BY <1>1, <1>3, <1>4, <1>6 DEF SelectionInv

(* A call that has ended, or that has not begun to lock, holds nothing it
   would have to.                                                            *)
LEMMA CallRests ==
    ASSUME NEW o \in Operator, "pc" \in DOMAIN selection'[o],
           selection'[o].pc \notin {"lock", "check", "write", "count", "activate"}
    PROVE  CallHolds(o)' /\ CheckedHolds(o)'
  BY DEF CallHolds, CheckedHolds, Selecting, Activating

LEMMA InsertRunKeeps ==
    ASSUME SelectionInv, SelectionAssumption, NEW w \in Work, NEW b \in Office, InsertRun(w, b)
    PROVE  SelectionInv'
<1> DEFINE row == [state |-> "inserting", office |-> b]
<1>1. workRow' = [workRow EXCEPT ![w] = row] /\ officeLock' = officeLock
  BY DEF InsertRun
<1>2. /\ TablesExclude'
      /\ [by |-> w, mode |-> "row"] \in tableLock'["agent_run"]
      /\ \A x \in SelectionTables : tableLock[x] \subseteq tableLock'[x]
  BY TableTaken DEF InsertRun, SelectionInv, SelectionTables
<1>3. OfficesExclude' /\ \A x : LocksKept(x)
  BY <1>1, <1>2 DEF SelectionInv, OfficesExclude, LocksKept
<1>4. workRow'[w] = row
  BY <1>1 DEF SelectionInv
<1>5. WorkHolds(w)'
  BY <1>2, <1>4 DEF WorkHolds, InsertRun, TableOf, WorkStates
<1> QED
  BY <1>1, <1>2, <1>3, <1>5, WorkStep DEF InsertRun

LEMMA CheckOfficeKeeps ==
    ASSUME SelectionInv, SelectionAssumption, NEW w \in Work, CheckOffice(w)
    PROVE  SelectionInv'
<1> DEFINE b == workRow[w].office
           row == [workRow[w] EXCEPT !.state = "inserted"]
<1>1. WorkHolds(w) /\ w \in RunWork /\ workRow[w].state = "inserting"
  BY DEF SelectionInv, CheckOffice
<1>2. workRow[w] \in [state : WorkStates, office : Office]
  BY <1>1 DEF WorkHolds, NoWork
<1>3. b \in Office /\ row = [state |-> "inserted", office |-> b]
  BY <1>2
<1>4. workRow' = [workRow EXCEPT ![w] = row]
  BY DEF CheckOffice
<1>5. /\ TablesExclude'
      /\ \A x \in SelectionTables : tableLock[x] \subseteq tableLock'[x]
  BY TableTaken DEF CheckOffice, SelectionInv, SelectionTables
<1>6. /\ OfficesExclude'
      /\ [by |-> w, mode |-> "key"] \in officeLock'[b]
      /\ \A x \in Office : officeLock[x] \subseteq officeLock'[x]
  BY <1>3, OfficeTaken DEF CheckOffice, SelectionInv
<1>7. \A x : LocksKept(x)
  BY <1>5, <1>6 DEF LocksKept
<1>8. [by |-> w, mode |-> "row"] \in tableLock'["agent_run"]
  BY <1>1, <1>5 DEF WorkHolds, TableOf, SelectionTables
<1> HIDE DEF row, b
<1>9. workRow'[w] = [state |-> "inserted", office |-> b]
  BY <1>3, <1>4 DEF SelectionInv
<1>10. WorkHolds(w)'
  BY <1>1, <1>3, <1>6, <1>8, <1>9 DEF WorkHolds, TableOf, WorkStates, OfficeMode
<1>11. row.state # "pending"
  BY <1>3
<1> QED
  BY <1>4, <1>5, <1>6, <1>7, <1>10, <1>11, WorkStep DEF CheckOffice

LEMMA LockOfficeKeeps ==
    ASSUME SelectionInv, SelectionAssumption, NEW w \in Work, NEW b \in Office, LockOffice(w, b)
    PROVE  SelectionInv'
<1> DEFINE row == [state |-> "accepting", office |-> b]
<1>1. workRow' = [workRow EXCEPT ![w] = row]
  BY DEF LockOffice
<1>2. /\ TablesExclude'
      /\ \A x \in SelectionTables : tableLock[x] \subseteq tableLock'[x]
  BY TableTaken DEF LockOffice, SelectionInv, SelectionTables
<1>3. /\ OfficesExclude'
      /\ [by |-> w, mode |-> "update"] \in officeLock'[b]
      /\ \A x \in Office : officeLock[x] \subseteq officeLock'[x]
  BY OfficeTaken DEF LockOffice, SelectionInv
<1>4. \A x : LocksKept(x)
  BY <1>2, <1>3 DEF LocksKept
<1>5. workRow'[w] = row
  BY <1>1 DEF SelectionInv
<1>6. w \in ChatWork /\ w \notin RunWork
  BY DEF LockOffice, SelectionAssumption
<1>7. WorkHolds(w)'
  BY <1>3, <1>5, <1>6 DEF WorkHolds, OfficeMode, WorkStates
<1> QED
  BY <1>1, <1>2, <1>3, <1>4, <1>7, WorkStep DEF LockOffice

LEMMA InsertChatKeeps ==
    ASSUME SelectionInv, SelectionAssumption, NEW w \in Work, InsertChat(w)
    PROVE  SelectionInv'
<1> DEFINE b == workRow[w].office
           row == [workRow[w] EXCEPT !.state = "inserted"]
<1>1. WorkHolds(w) /\ w \in ChatWork /\ w \notin RunWork /\ workRow[w].state = "accepting"
  BY DEF SelectionInv, InsertChat, SelectionAssumption
<1>2. workRow[w] \in [state : WorkStates, office : Office]
  BY <1>1 DEF WorkHolds, NoWork
<1>3. b \in Office /\ row = [state |-> "inserted", office |-> b]
  BY <1>2
<1>4. workRow' = [workRow EXCEPT ![w] = row] /\ officeLock' = officeLock
  BY DEF InsertChat
<1>5. /\ TablesExclude'
      /\ [by |-> w, mode |-> "row"] \in tableLock'["chat_request"]
      /\ \A x \in SelectionTables : tableLock[x] \subseteq tableLock'[x]
  BY TableTaken DEF InsertChat, SelectionInv, SelectionTables
<1>6. OfficesExclude' /\ \A x : LocksKept(x)
  BY <1>4, <1>5 DEF SelectionInv, OfficesExclude, LocksKept
<1>7. [by |-> w, mode |-> "update"] \in officeLock'[b]
  BY <1>1, <1>4 DEF WorkHolds, OfficeMode
<1> HIDE DEF row, b
<1>8. workRow'[w] = [state |-> "inserted", office |-> b]
  BY <1>3, <1>4 DEF SelectionInv
<1>9. WorkHolds(w)'
  BY <1>1, <1>3, <1>5, <1>7, <1>8 DEF WorkHolds, TableOf, WorkStates, OfficeMode
<1>10. row.state # "pending"
  BY <1>3
<1> QED
  BY <1>4, <1>5, <1>6, <1>9, <1>10, WorkStep DEF InsertChat

(* A row becomes visible only where nobody has counted the work for a change. *)
LEMMA CommitWorkKeeps ==
    ASSUME SelectionInv, SelectionAssumption, NEW w \in Work, CommitWork(w)
    PROVE  SelectionInv'
<1> DEFINE b == workRow[w].office
           row == [workRow[w] EXCEPT !.state = "pending"]
<1>1. WorkHolds(w) /\ workRow[w].state = "inserted"
  BY DEF SelectionInv, CommitWork
<1>2. workRow[w] \in [state : WorkStates, office : Office]
  BY <1>1 DEF WorkHolds, NoWork
<1>3. b \in Office /\ row = [state |-> "pending", office |-> b]
  BY <1>2
<1>4. workRow' = [workRow EXCEPT ![w] = row]
  BY DEF CommitWork
<1>5. TablesExclude' /\ OfficesExclude' /\ \A x : x # w => LocksKept(x)
  BY LocksReleased DEF SelectionInv, CommitWork
<1>6. row.state = "pending" => workRow[w].state = "inserted" /\ row.office = workRow[w].office
  BY <1>1, <1>3
<1> HIDE DEF row, b
<1>7. workRow'[w] = [state |-> "pending", office |-> b]
  BY <1>3, <1>4 DEF SelectionInv
<1>8. WorkHolds(w)'
  BY <1>3, <1>7 DEF WorkHolds, WorkStates
<1> QED
  BY <1>4, <1>5, <1>6, <1>8, WorkStep DEF CommitWork

LEMMA AbortWorkKeeps ==
    ASSUME SelectionInv, SelectionAssumption, NEW w \in Work, AbortWork(w)
    PROVE  SelectionInv'
<1>1. workRow' = [workRow EXCEPT ![w] = NoWork]
  BY DEF AbortWork
<1>2. TablesExclude' /\ OfficesExclude' /\ \A x : x # w => LocksKept(x)
  BY LocksReleased DEF SelectionInv, AbortWork
<1>3. workRow'[w] = NoWork
  BY <1>1 DEF SelectionInv
<1>4. WorkHolds(w)'
  BY <1>3 DEF WorkHolds, NoWork
<1>5. NoWork.state # "pending"
  BY DEF NoWork
<1> QED
  BY <1>1, <1>2, <1>4, <1>5, WorkStep DEF AbortWork

LEMMA EndWorkKeeps ==
    ASSUME SelectionInv, SelectionAssumption, NEW w \in Work, EndWork(w)
    PROVE  SelectionInv'
<1> DEFINE b == workRow[w].office
           row == [workRow[w] EXCEPT !.state = "done"]
<1>1. WorkHolds(w) /\ workRow[w].state = "pending"
  BY DEF SelectionInv, EndWork
<1>2. workRow[w] \in [state : WorkStates, office : Office]
  BY <1>1 DEF WorkHolds, NoWork
<1>3. b \in Office /\ row = [state |-> "done", office |-> b]
  BY <1>2
<1>4. workRow' = [workRow EXCEPT ![w] = row]
  BY DEF EndWork
<1>5. TablesExclude' /\ OfficesExclude' /\ \A x : LocksKept(x)
  BY DEF SelectionInv, EndWork, TablesExclude, OfficesExclude, LocksKept
<1>6. row.state # "pending"
  BY <1>3
<1> HIDE DEF row, b
<1>7. workRow'[w] = [state |-> "done", office |-> b]
  BY <1>3, <1>4 DEF SelectionInv
<1>8. WorkHolds(w)'
  BY <1>3, <1>7 DEF WorkHolds, WorkStates
<1> QED
  BY <1>4, <1>5, <1>6, <1>8, WorkStep DEF EndWork

(* A step that holds no lock of the call, before it has begun. *)
LEMMA CallReadsKeeps ==
    ASSUME SelectionInv, SelectionAssumption, NEW o \in Operator, NEW row, Becomes(o, row),
           UNCHANGED <<activeConfig, workRow, tableLock, officeLock>>,
           CallHolds(o)', row.pc \notin {"write", "activate"}
    PROVE  SelectionInv'
<1>1. selection' = [selection EXCEPT ![o] = row] /\ selection'[o] = row
  BY DEF Becomes, SelectionInv
<1>2. TablesExclude' /\ OfficesExclude' /\ \A x : LocksKept(x)
  BY DEF SelectionInv, TablesExclude, OfficesExclude, LocksKept
<1>3. CheckedHolds(o)'
  BY <1>1 DEF CheckedHolds
<1> QED
  BY <1>1, <1>2, <1>3, CallStep

LEMMA ListConfigsKeeps ==
    ASSUME SelectionInv, SelectionAssumption, NEW o \in Operator, NEW m \in AiModel,
           ListConfigs(o, m)
    PROVE  SelectionInv'
<1> DEFINE row == [pc |-> "listing", model |-> m, configs |-> activeConfig]
<1>1. Becomes(o, row) /\ UNCHANGED <<activeConfig, workRow, tableLock, officeLock>>
  BY DEF ListConfigs
<1>2. selection'[o] = row
  BY <1>1 DEF Becomes, SelectionInv
<1>3. CallHolds(o)'
  BY <1>2 DEF CallHolds, Selecting, Activating
<1> QED
  BY <1>1, <1>3, CallReadsKeeps

LEMMA ListWorkKeeps ==
    ASSUME SelectionInv, SelectionAssumption, NEW o \in Operator, ListWork(o)
    PROVE  SelectionInv'
<1>1. PICK m, n : /\ Becomes(o, [pc |-> "reviewed", model |-> m, snapshot |-> n])
                  /\ UNCHANGED <<activeConfig, workRow, tableLock, officeLock>>
  BY DEF ListWork
<1>2. selection'[o] = [pc |-> "reviewed", model |-> m, snapshot |-> n]
  BY <1>1 DEF Becomes, SelectionInv
<1>3. CallHolds(o)'
  BY <1>2 DEF CallHolds, Selecting, Activating
<1> QED
  BY <1>1, <1>3, CallReadsKeeps

LEMMA ApplyKeeps ==
    ASSUME SelectionInv, SelectionAssumption, NEW o \in Operator,
           \/ \E targets \in SUBSET Target : ApplyTargets(o, targets)
           \/ \E t \in Target, m \in AiModel : ApplyOne(o, t, m)
    PROVE  SelectionInv'
<1>1. PICK kind, m, targets, n :
        /\ Becomes(o, [pc |-> "lock", kind |-> kind, model |-> m, targets |-> targets,
                       snapshot |-> n, held |-> 0])
        /\ UNCHANGED <<activeConfig, workRow, tableLock, officeLock>>
  BY DEF ApplyTargets, ApplyOne
<1>2. selection'[o] = [pc |-> "lock", kind |-> kind, model |-> m, targets |-> targets,
                       snapshot |-> n, held |-> 0]
  BY <1>1 DEF Becomes, SelectionInv
<1>3. 0 \in 0..Len(LockOrder)' /\ Len(LockOrder)' # 0 /\ \A k : k \notin 1..0
  BY LockOrderTables DEF LockOrder
<1>4. CallHolds(o)'
  BY <1>2, <1>3 DEF CallHolds, Selecting, Activating
<1> QED
  BY <1>1, <1>4, CallReadsKeeps

LEMMA LockNextKeeps ==
    ASSUME SelectionInv, SelectionAssumption, NEW o \in Operator, LockNext(o)
    PROVE  SelectionInv'
<1> DEFINE s == selection[o]
<1>1. PICK h \in 0..4 : h = s.held
  BY LockOrderTables DEF SelectionInv, CallHolds, Selecting, LockNext
<1> DEFINE k == h + 1
           pc == IF k = Len(LockOrder) THEN "check" ELSE "lock"
           row == [s EXCEPT !.held = k, !.pc = pc]
<1>2. /\ s.pc = "lock"
      /\ TableFree(o, LockOrder[k], "exclusive") /\ LockTable(o, LockOrder[k], "exclusive")
      /\ selection' = [selection EXCEPT ![o] = row]
      /\ UNCHANGED <<activeConfig, workRow, officeLock>>
  BY <1>1 DEF LockNext, LocksWork
<1>3. /\ DOMAIN s = {"pc", "kind", "model", "targets", "snapshot", "held"}
      /\ \A j \in 1..h : [by |-> o, mode |-> "exclusive"] \in tableLock[LockOrder[j]]
  BY <1>1, <1>2 DEF SelectionInv, CallHolds, Selecting
<1>4. h \in 0..3 /\ k \in 1..4 /\ LockOrder[k] \in SelectionTables
  <2>1. h # 4
    BY <1>1, <1>2, LockOrderTables DEF SelectionInv, CallHolds, Selecting
  <2>2. h \in 0..3 /\ k \in 1..4
    BY <1>1, <2>1
  <2> QED
    BY <2>2, LockOrderTables
<1>5. /\ TablesExclude'
      /\ [by |-> o, mode |-> "exclusive"] \in tableLock'[LockOrder[k]]
      /\ \A x \in SelectionTables : tableLock[x] \subseteq tableLock'[x]
  BY <1>2, <1>4, TableTaken DEF SelectionInv
<1>6. OfficesExclude' /\ \A x : LocksKept(x)
  BY <1>2, <1>5 DEF SelectionInv, OfficesExclude, LocksKept
<1>7. \A j \in 1..h : [by |-> o, mode |-> "exclusive"] \in tableLock'[LockOrder[j]]
  <2>1. \A j \in 1..h : j \in 1..4
    BY <1>4
  <2> QED
    BY <1>3, <1>5, <2>1, LockOrderTables
<1>8. \A j \in 1..k : [by |-> o, mode |-> "exclusive"] \in tableLock'[LockOrder[j]]
  <2>1. \A j \in 1..k : j \in 1..h \/ j = k
    BY <1>4
  <2> QED
    BY <1>5, <1>7, <2>1
<1>9. /\ DOMAIN row = {"pc", "kind", "model", "targets", "snapshot", "held"}
      /\ row.pc = pc /\ row.held = k
  BY <1>3
<1>10. pc \in {"lock", "check"} /\ (pc # "lock" <=> k = Len(LockOrder))
  OBVIOUS
<1> HIDE DEF row, pc
<1>11. selection'[o] = row
  BY <1>2 DEF SelectionInv
<1>12. k \in 0..Len(LockOrder)
  BY <1>4, LockOrderTables
<1>13. CallHolds(o)'
  BY <1>8, <1>9, <1>10, <1>11, <1>12 DEF CallHolds, Selecting, Activating, LockOrder
<1>14. CheckedHolds(o)'
  BY <1>9, <1>10, <1>11 DEF CheckedHolds
<1> QED
  BY <1>2, <1>5, <1>6, <1>13, <1>14, CallStep

(* The call ends, in success or not, and holds nothing. *)
LEMMA CallEnds ==
    ASSUME SelectionInv, SelectionAssumption, NEW o \in Operator, Becomes(o, EndedSelection),
           ReleaseLocks(o), UNCHANGED workRow,
           \A p \in Operator : p # o /\ selection[p].pc = "write" => activeConfig' = activeConfig
    PROVE  SelectionInv'
<1>1. selection' = [selection EXCEPT ![o] = EndedSelection] /\ selection'[o] = EndedSelection
  BY DEF Becomes, SelectionInv
<1>2. TablesExclude' /\ OfficesExclude' /\ \A x : x # o => LocksKept(x)
  BY LocksReleased DEF SelectionInv
<1>3. CallHolds(o)' /\ CheckedHolds(o)'
  BY <1>1 DEF EndedSelection, CallHolds, CheckedHolds, Selecting, Activating
<1> QED
  BY <1>1, <1>2, <1>3, CallStep

(* What is checked under the locks of all tables. *)
LEMMA CheckSelectionKeeps ==
    ASSUME SelectionInv, SelectionAssumption, NEW o \in Operator, CheckSelection(o)
    PROVE  SelectionInv'
<1>1. CASE ~MayApply(o)
  BY <1>1, CallEnds DEF CheckSelection
<1>2. CASE MayApply(o)
  <2> DEFINE s == selection[o]
             row == [s EXCEPT !.pc = "write"]
  <2>1. /\ s.pc = "check"
        /\ selection' = [selection EXCEPT ![o] = row]
        /\ UNCHANGED <<activeConfig, workRow, tableLock, officeLock>>
    BY <1>2 DEF CheckSelection, Turns
  <2>2. CallHolds(o) /\ Selecting(o)
    BY <2>1 DEF SelectionInv, Selecting
  <2>3. DOMAIN s = {"pc", "kind", "model", "targets", "snapshot", "held"}
    BY <2>2 DEF CallHolds
  <2>4. /\ DOMAIN row = DOMAIN s /\ row.pc = "write" /\ row.held = s.held
        /\ row.kind = s.kind /\ row.model = s.model /\ row.targets = s.targets
        /\ row.snapshot = s.snapshot
    BY <2>3
  <2> HIDE DEF row
  <2>5. selection'[o] = row
    BY <2>1 DEF SelectionInv
  <2>6. TablesExclude' /\ OfficesExclude' /\ \A x : LocksKept(x)
    BY <2>1 DEF SelectionInv, TablesExclude, OfficesExclude, LocksKept
  <2>7. CallHolds(o)'
    BY <2>1, <2>2, <2>4, <2>5 DEF CallHolds, Selecting, Activating, LockOrder
  <2>8. \A t \in s.targets : PendingWork(t[1]) = {}
    <3>1. CASE s.kind = "one"
      BY <1>2, <3>1 DEF MayApply
    <3>2. CASE s.kind # "one"
      <4>1. \A b \in Office : PendingWork(b) = {}
        BY <1>2, <3>2 DEF MayApply
      <4>2. \A b : \A w \in PendingWork(b) : b \in Office
        <5> SUFFICES ASSUME NEW w \in Work, workRow[w].state = "pending"
                     PROVE  workRow[w].office \in Office
          BY DEF PendingWork
        <5>1. WorkHolds(w) /\ workRow[w] # NoWork
          BY DEF SelectionInv, NoWork
        <5> QED
          BY <5>1 DEF WorkHolds
      <4> QED
        BY <4>1, <4>2
    <3> QED
      BY <3>1, <3>2
  <2>9. s.kind = "targets" =>
          /\ activeConfig = s.snapshot[1]
          /\ \A t \in Target : ~Compatible(t, s.model) => t \in s.targets
    BY <1>2 DEF MayApply, Reviewed
  <2>10. CheckedHolds(o)'
    BY <2>1, <2>4, <2>5, <2>8, <2>9 DEF CheckedHolds, PendingWork, Compatible
  <2> QED
    BY <2>1, <2>6, <2>7, <2>10, CallStep
<1> QED
  BY <1>1, <1>2

LEMMA WriteSelectionKeeps ==
    ASSUME SelectionInv, SelectionAssumption, NEW o \in Operator, WriteSelection(o)
    PROVE  SelectionInv'
<1>1. \A p \in Operator : p # o => selection[p].pc # "write"
  BY OneWriter DEF WriteSelection
<1> QED
  BY <1>1, CallEnds DEF WriteSelection

LEMMA ActivateBeginKeeps ==
    ASSUME SelectionInv, SelectionAssumption, NEW o \in Operator, NEW b \in Office,
           NEW chat \in BOOLEAN, NEW m \in AiModel, ActivateBegin(o, b, chat, m)
    PROVE  SelectionInv'
<1> DEFINE row == [pc |-> "count", office |-> b, chat |-> chat, model |-> m]
<1>1. selection' = [selection EXCEPT ![o] = row] /\ UNCHANGED <<activeConfig, workRow>>
  BY DEF ActivateBegin, Becomes
<1>2. /\ TablesExclude'
      /\ \A x \in SelectionTables : tableLock[x] \subseteq tableLock'[x]
  BY TableTaken DEF ActivateBegin, SelectionInv, SelectionTables
<1>3. /\ OfficesExclude'
      /\ [by |-> o, mode |-> "update"] \in officeLock'[b]
      /\ \A x \in Office : officeLock[x] \subseteq officeLock'[x]
  BY OfficeTaken DEF ActivateBegin, SelectionInv
<1>4. \A x : LocksKept(x)
  BY <1>2, <1>3 DEF LocksKept
<1>5. selection'[o] = row
  BY <1>1 DEF SelectionInv
<1>6. CallHolds(o)' /\ CheckedHolds(o)'
  BY <1>3, <1>5 DEF CallHolds, CheckedHolds, Selecting, Activating
<1> QED
  BY <1>1, <1>2, <1>3, <1>4, <1>6, CallStep

(* What is counted under the lock of the office. *)
LEMMA ActivateCountKeeps ==
    ASSUME SelectionInv, SelectionAssumption, NEW o \in Operator, ActivateCount(o)
    PROVE  SelectionInv'
<1> DEFINE s == selection[o]
           own == {w \in PendingWork(s.office) : (w \in ChatWork) = s.chat}
<1>1. CASE own # {}
  BY <1>1, CallEnds DEF ActivateCount
<1>2. CASE own = {}
  <2> DEFINE row == [s EXCEPT !.pc = "activate"]
  <2>1. /\ s.pc = "count"
        /\ selection' = [selection EXCEPT ![o] = row]
        /\ UNCHANGED <<activeConfig, workRow, tableLock, officeLock>>
    BY <1>2 DEF ActivateCount, Turns
  <2>2. CallHolds(o) /\ Activating(o)
    BY <2>1 DEF SelectionInv, Activating
  <2>3. DOMAIN s = {"pc", "office", "chat", "model"}
    BY <2>2 DEF CallHolds
  <2>4. DOMAIN row = DOMAIN s /\ row.pc = "activate" /\ row.office = s.office /\ row.chat = s.chat
    BY <2>3
  <2> HIDE DEF row
  <2>5. selection'[o] = row
    BY <2>1 DEF SelectionInv
  <2>6. TablesExclude' /\ OfficesExclude' /\ \A x : LocksKept(x)
    BY <2>1 DEF SelectionInv, TablesExclude, OfficesExclude, LocksKept
  <2>7. CallHolds(o)'
    BY <2>1, <2>2, <2>4, <2>5 DEF CallHolds, Selecting, Activating
  <2>8. CheckedHolds(o)'
    BY <1>2, <2>1, <2>4, <2>5 DEF CheckedHolds, PendingWork
  <2> QED
    BY <2>1, <2>6, <2>7, <2>8, CallStep
<1> QED
  BY <1>1, <1>2

LEMMA ActivateWriteKeeps ==
    ASSUME SelectionInv, SelectionAssumption, NEW o \in Operator, ActivateWrite(o)
    PROVE  SelectionInv'
<1>1. \A p \in Operator : p # o => selection[p].pc # "write"
  BY OneWriter
<1> QED
  BY <1>1, CallEnds DEF ActivateWrite

LEMMA SelectionFailsKeeps ==
    ASSUME SelectionInv, SelectionAssumption, NEW o \in Operator, SelectionFails(o)
    PROVE  SelectionInv'
  BY CallEnds DEF SelectionFails

(* Nothing is locked, filed or begun at first. *)
LEMMA SelectionStarts == SelectionInit => SelectionInv
<1> SUFFICES ASSUME SelectionInit PROVE SelectionInv
  OBVIOUS
<1>1. /\ workRow = [w \in Work |-> NoWork]
      /\ tableLock = [t \in {"brokerage", "ai_model_config", "agent_run", "chat_request"} |-> {}]
      /\ officeLock = [b \in Office |-> {}]
      /\ selection = [o \in Operator |-> NoSelection]
  BY DEF SelectionInit
<1>2. TablesExclude /\ OfficesExclude
  BY <1>1 DEF TablesExclude, OfficesExclude, SelectionTables
<1>3. \A w \in Work : WorkHolds(w)
  BY <1>1 DEF WorkHolds, NoWork
<1>4. \A o \in Operator : CallHolds(o) /\ CheckedHolds(o)
  BY <1>1 DEF CallHolds, CheckedHolds, NoSelection, Selecting, Activating
<1> QED
  BY <1>1, <1>2, <1>3, <1>4 DEF SelectionInv

(* SelectionInv is inductive. *)
LEMMA SelectionStep ==
    ASSUME SelectionInv, SelectionAssumption, [SelectionNext]_selectionVars
    PROVE  SelectionInv'
<1>1. CASE \E w \in Work, b \in Office : InsertRun(w, b) \/ LockOffice(w, b)
  BY <1>1, InsertRunKeeps, LockOfficeKeeps
<1>2. CASE \E w \in Work : \/ CheckOffice(w) \/ InsertChat(w) \/ CommitWork(w)
                           \/ AbortWork(w) \/ EndWork(w)
  BY <1>2, CheckOfficeKeeps, InsertChatKeeps, CommitWorkKeeps, AbortWorkKeeps, EndWorkKeeps
<1>3. CASE \E o \in Operator :
             \/ \E m \in AiModel : ListConfigs(o, m)
             \/ ListWork(o)
             \/ \E targets \in SUBSET Target : ApplyTargets(o, targets)
             \/ \E t \in Target, m \in AiModel : ApplyOne(o, t, m)
  BY <1>3, ListConfigsKeeps, ListWorkKeeps, ApplyKeeps
<1>4. CASE \E o \in Operator : LockNext(o) \/ CheckSelection(o) \/ WriteSelection(o)
  BY <1>4, LockNextKeeps, CheckSelectionKeeps, WriteSelectionKeeps
<1>5. CASE \E o \in Operator, b \in Office, m \in AiModel :
             ActivateGeneral(o, b, m) \/ ActivateChatbot(o, b, m)
  BY <1>5, ActivateBeginKeeps DEF ActivateGeneral, ActivateChatbot
<1>6. CASE \E o \in Operator : ActivateCount(o) \/ ActivateWrite(o) \/ SelectionFails(o)
  BY <1>6, ActivateCountKeeps, ActivateWriteKeeps, SelectionFailsKeeps
<1>7. CASE UNCHANGED selectionVars
  BY <1>7 DEF selectionVars, SelectionInv, TablesExclude, OfficesExclude, WorkHolds, CallHolds,
     CheckedHolds, Selecting, Activating, PendingWork, Compatible, TableOf, OfficeMode, LockOrder
<1> QED
  BY <1>1, <1>2, <1>3, <1>4, <1>5, <1>6, <1>7 DEF SelectionNext

(* The locks of every call and of every uncommitted row are held, and what a
   call has checked stays true until it writes.                              *)
THEOREM SelectionInvariance == SelectionSpec => []SelectionInv
<1>1. SelectionInit => SelectionInv
  BY SelectionStarts
<1>2. SelectionInv /\ [SelectionNext]_selectionVars => SelectionInv'
  BY SelectionStep, SelectionAssumption
<1> QED
  BY <1>1, <1>2, PTL DEF SelectionSpec

(* Only two steps change the models. *)
LEMMA ModelsWritten ==
    ASSUME SelectionInv, SelectionNext, activeConfig' # activeConfig
    PROVE  \E o \in Operator : WriteSelection(o) \/ ActivateWrite(o)
  BY DEF SelectionNext, InsertRun, LockOffice, CheckOffice, InsertChat, CommitWork, AbortWork,
     EndWork, ListConfigs, ListWork, ApplyTargets, ApplyOne, LockNext, CheckSelection,
     ActivateGeneral, ActivateChatbot, ActivateBegin, ActivateCount, SelectionFails

(* A selection changes the targets it names, whose offices are at rest. *)
LEMMA WriteAtRest ==
    ASSUME SelectionInv, SelectionAssumption, NEW o \in Operator, WriteSelection(o),
           NEW t \in Target, activeConfig'[t] # activeConfig[t], NEW w \in Work,
           workRow[w].state \in {"inserted", "pending"}
    PROVE  workRow[w].office # t[1]
<1>1. selection[o].pc = "write" /\ activeConfig' = SelectedConfigs(selection[o])
  BY DEF WriteSelection
<1>2. t \in selection[o].targets
  BY <1>1 DEF SelectedConfigs
<1>3. PendingWork(t[1]) = {}
  BY <1>1, <1>2 DEF SelectionInv, CheckedHolds
<1>4. workRow[w].state # "inserted"
  BY <1>1, TablesCover
<1> QED
  BY <1>3, <1>4 DEF PendingWork

(* An activation changes the capabilities of its own kind of work, of which
   its office has none.                                                      *)
LEMMA ActivateAtRest ==
    ASSUME SelectionInv, SelectionAssumption, NEW o \in Operator, ActivateWrite(o),
           NEW t \in Target, activeConfig'[t] # activeConfig[t], NEW w \in Work,
           workRow[w].state \in {"inserted", "pending"}
    PROVE  ~(workRow[w].office = t[1] /\ Serves(w, t[2]))
<1> DEFINE s == selection[o]
<1>1. /\ s.pc = "activate"
      /\ t \in ActivateTargets(s.office, s.chat)
  BY DEF ActivateWrite
<1>2. Activating(o) /\ s.chat \in BOOLEAN
  BY <1>1 DEF SelectionInv, CallHolds, Activating
<1>3. t[1] = s.office /\ (t[2] \in ChatOnly <=> s.chat)
  BY <1>1, <1>2 DEF ActivateTargets
<1>4. SUFFICES ASSUME workRow[w].office = s.office, Serves(w, t[2]) PROVE FALSE
  BY <1>3
<1>5. workRow[w].state = "pending"
  BY <1>2, <1>4, OfficeCovers
<1>6. w \in PendingWork(s.office) /\ (w \in ChatWork) = s.chat
  BY <1>2, <1>3, <1>4, <1>5 DEF PendingWork, Serves
<1> QED
  BY <1>1, <1>6 DEF SelectionInv, CheckedHolds

(* A confirmed selection leaves one model in every target. *)
LEMMA WriteLeavesOne ==
    ASSUME SelectionInv, NEW o \in Operator, WriteSelection(o), selection[o].kind = "targets",
           NEW t \in Target, NEW c \in activeConfig'[t]
    PROVE  c.model = selection[o].model
<1> DEFINE s == selection[o]
<1>1. activeConfig'[t] = IF t \in s.targets THEN NewConfig(t, s.model) ELSE activeConfig[t]
  BY DEF WriteSelection, SelectedConfigs
<1>2. t \notin s.targets => Compatible(t, s.model)
  BY DEF WriteSelection, SelectionInv, CheckedHolds
<1> QED
  BY <1>1, <1>2 DEF NewConfig, Compatible

(* The models of an office change only while nothing of it that they serve is
   filed, and a confirmed selection replaces what its operator saw.          *)
THEOREM ModelsAtRest == SelectionSpec => ModelsChangeAtRest
<1> DEFINE Rest ==
        \A t \in Target : activeConfig'[t] # activeConfig[t] =>
             \A w \in Work : workRow[w].state \in {"inserted", "pending"} =>
                 ~(workRow[w].office = t[1] /\ Serves(w, t[2]))
      Seen ==
        \A o \in Operator :
             selection[o].pc = "write" /\ selection[o].kind = "targets"
                 /\ activeConfig' # activeConfig /\ selection'[o] = EndedSelection =>
             /\ activeConfig = selection[o].snapshot[1]
             /\ \A t \in Target : \A c \in activeConfig'[t] : c.model = selection[o].model
<1>1. SelectionInv /\ SelectionNext => Rest
  BY ModelsWritten, WriteAtRest, ActivateAtRest, SelectionAssumption
<1>2. SelectionInv /\ SelectionNext => Seen
  <2> SUFFICES ASSUME SelectionInv, SelectionNext, NEW o \in Operator,
                      selection[o].pc = "write", selection[o].kind = "targets",
                      activeConfig' # activeConfig
               PROVE  /\ activeConfig = selection[o].snapshot[1]
                      /\ \A t \in Target : \A c \in activeConfig'[t] : c.model = selection[o].model
    OBVIOUS
  <2>1. PICK p \in Operator : WriteSelection(p) \/ ActivateWrite(p)
    BY ModelsWritten
  <2>2. p = o /\ WriteSelection(o)
    BY <2>1, OneWriter, SelectionAssumption DEF WriteSelection, ActivateWrite
  <2>3. activeConfig = selection[o].snapshot[1]
    BY DEF SelectionInv, CheckedHolds
  <2> QED
    BY <2>2, <2>3, WriteLeavesOne
<1>3. SelectionInv /\ [SelectionNext]_selectionVars => [Rest /\ Seen]_selectionVars
  BY <1>1, <1>2
<1> QED
  BY <1>3, SelectionInvariance, PTL DEF SelectionSpec, ModelsChangeAtRest

-----------------------------------------------------------------------------
(* The results of a run                                                      *)

(* The candidates that get a card are the first ones of the list. *)
Chosen(h) == {h.entries[i] : i \in {k \in 1..Len(h.entries) : k <= Selected}}

HeaderHolds(h) ==
    /\ \E entries, cards, kept :
          h = [entries |-> entries, cards |-> cards, stored |-> kept]
    /\ h.entries \in Seq(Answer) /\ IsInjective(h.entries)
    /\ h.cards = <<>> \/ (DOMAIN h.cards = Chosen(h) /\ IsInjective(h.cards))

(* What a run has stored by which stage. *)
RunHolds ==
    /\ \E status, synthetic, anchor, header :
          judgedRun = [status |-> status, synthetic |-> synthetic, anchor |-> anchor,
                       header |-> header]
    /\ HeaderHolds(judgedRun.header)
    /\ judgedRun.status \in {"QUEUED", "RUNNING", "ANCHOR_READY"} => ~judgedRun.header.stored
    /\ judgedRun.status \in InStage \ {"RUNNING"} => judgedRun.synthetic
    /\ judgedRun.status \in {"QUEUED", "RUNNING", "ANCHOR_READY", "CANDIDATES_READY"} =>
          judgedRun.header.cards = <<>>
    /\ judgedRun.status = "CANDIDATES_READY" => judgedRun.header.stored
    /\ \/ judgedRun.status \in {"CANDIDATE_CARDS_READY", "JUDGING"}
       \/ judgedRun.status = "COMPLETED" /\ judgedRun.synthetic
       => /\ judgedRun.header.stored
          /\ DOMAIN judgedRun.header.cards = Chosen(judgedRun.header)

(* Judgments are there for every card or for none, the former at the end, and
   each has a rank of its own among the candidates that were judged.         *)
JudgmentsHold ==
    /\ \A j \in judgments : j \in [card : AnswerCard, rank : 1..Selected]
    /\ \A j, k \in judgments : j.rank = k.rank => j = k
    /\ judgments # {} => judgedRun.status = "COMPLETED" /\ judgedRun.synthetic
    /\ judgedRun.status = "COMPLETED" /\ judgedRun.synthetic =>
          {j.card : j \in judgments} = Range(judgedRun.header.cards)

(* The header that the poll has read is the run's, or the run's before its
   candidates got their cards.                                               *)
HeaderRead ==
    /\ HeaderHolds(poll.header)
    /\ poll.header.stored =>
          /\ judgedRun.header.stored
          /\ poll.header.entries = judgedRun.header.entries
          /\ poll.header.cards \in {<<>>, judgedRun.header.cards}
    /\ poll.status = "COMPLETED" => poll.header = judgedRun.header

PollHolds ==
    /\ poll.at \in {"card", "judgments", "card only"} => \E at, status, offset, header :
          poll = [at |-> at, status |-> status, offset |-> offset, header |-> header]
    /\ poll.at \in {"asleep", "empty", "header", "card", "judgments", "card only"}
    /\ poll.at # "asleep" =>
          /\ poll.offset \in Nat
          /\ poll.status = "COMPLETED" => judgedRun.status = "COMPLETED"
    /\ poll.at \in {"header", "card", "judgments", "card only"} => judgedRun.synthetic
    /\ poll.at \in {"card", "judgments", "card only"} => HeaderRead
    /\ poll.at = "judgments" => poll.header.stored

ResultsInv == RunHolds /\ JudgmentsHold /\ PollHolds /\ PagesAreWhole

LEMMA LeastOfTwo ==
    ASSUME NEW a \in Int, NEW b \in Int
    PROVE  Min({a, b}) \in {a, b} /\ Min({a, b}) <= a /\ Min({a, b}) <= b
<1>1. \E x \in {a, b} : \A y \in {a, b} : x <= y
  OBVIOUS
<1> QED
  BY <1>1 DEF Min

LEMMA GreatestOfTwo ==
    ASSUME NEW a \in Int, NEW b \in Int
    PROVE  Max({a, b}) \in {a, b} /\ Max({a, b}) >= a /\ Max({a, b}) >= b
<1>1. \E x \in {a, b} : \A y \in {a, b} : x >= y
  OBVIOUS
<1> QED
  BY <1>1 DEF Max

(* record_candidate_cards takes the candidates from the top of the list. *)
LEMMA FirstAreChosen ==
    ASSUME ResultsAssumption, NEW h, h.entries \in Seq(Answer)
    PROVE  Range(First(Selected, h.entries)) = Chosen(h)
<1> DEFINE s == h.entries
           m == Min({Selected, Len(s)})
<1>1. Len(s) \in Nat /\ Selected \in Nat
  BY DEF ResultsAssumption
<1>2. m \in Int /\ m <= Selected /\ m <= Len(s) /\ m \in {Selected, Len(s)}
  <2>1. Selected \in Int /\ Len(s) \in Int
    BY <1>1
  <2> HIDE DEF s
  <2> QED
    BY <2>1, LeastOfTwo, Zenon
<1> HIDE DEF m
<1>3. First(Selected, s) = [i \in 1..m |-> s[i]]
  BY <1>1, <1>2 DEF First, m
<1>4. 1..m = {k \in 1..Len(s) : k <= Selected}
  BY <1>1, <1>2
<1> QED
  BY <1>3, <1>4 DEF Range, Chosen

(* A run that has not yet stored a judgment. *)
LEMMA NoJudgment ==
    ASSUME ResultsInv, judgedRun.status # "COMPLETED"
    PROVE  judgments = {}
  BY DEF ResultsInv, JudgmentsHold

(* A poll that is under way has not seen the end of a run that goes on. *)
LEMMA PollKept ==
    ASSUME ResultsInv, judgedRun.status # "COMPLETED", UNCHANGED <<poll, screen>>,
           judgedRun.synthetic => judgedRun'.synthetic,
           judgedRun.header.stored =>
              /\ judgedRun'.header.stored
              /\ judgedRun'.header.entries = judgedRun.header.entries
              /\ judgedRun.header.cards \in {<<>>, judgedRun'.header.cards}
    PROVE  PollHolds' /\ PagesAreWhole'
<1>1. PagesAreWhole'
  BY DEF ResultsInv, PagesAreWhole
<1>2. poll.at # "asleep" => poll.status # "COMPLETED"
  BY DEF ResultsInv, PollHolds
<1>3. poll.at \in {"card", "judgments", "card only"} => HeaderRead'
  <2> SUFFICES ASSUME poll.at \in {"card", "judgments", "card only"} PROVE HeaderRead'
    OBVIOUS
  <2>1. HeaderRead
    BY DEF ResultsInv, PollHolds
  <2>2. poll'.header = poll.header /\ poll'.status = poll.status
    OBVIOUS
  <2>3. HeaderHolds(poll.header)'
    BY <2>1, <2>2 DEF HeaderRead, HeaderHolds, Chosen
  <2> QED
    BY <1>2, <2>1, <2>2, <2>3 DEF HeaderRead
<1>4. PollHolds
  BY DEF ResultsInv
<1> QED
  BY <1>1, <1>2, <1>3, <1>4 DEF PollHolds

LEMMA RunGoesOn ==
    ASSUME ResultsInv, judgedRun.status \notin {"COMPLETED"},
           NEW status, status \in InStage \cup {"FAILED_TERMINAL", "SUPERSEDED"},
           judgedRun' = [judgedRun EXCEPT !.status = status],
           status \in {"RUNNING", "ANCHOR_READY"} => ~judgedRun.header.stored,
           status \in InStage \ {"RUNNING"} => judgedRun.synthetic,
           status \in {"RUNNING", "ANCHOR_READY", "CANDIDATES_READY"} =>
               judgedRun.header.cards = <<>>,
           status = "CANDIDATES_READY" => judgedRun.header.stored,
           status \in {"CANDIDATE_CARDS_READY", "JUDGING"} =>
               /\ judgedRun.header.stored
               /\ DOMAIN judgedRun.header.cards = Chosen(judgedRun.header),
           UNCHANGED <<judgments, poll, screen>>
    PROVE  ResultsInv'
<1>1. PICK old, synthetic, anchor, header :
        judgedRun = [status |-> old, synthetic |-> synthetic, anchor |-> anchor, header |-> header]
  BY DEF ResultsInv, RunHolds
<1>2. judgedRun' = [status |-> status, synthetic |-> synthetic, anchor |-> anchor, header |-> header]
  BY <1>1
<1>3. /\ judgedRun'.status = status /\ status \notin {"QUEUED", "COMPLETED"}
      /\ judgedRun'.synthetic = judgedRun.synthetic
      /\ judgedRun'.header = judgedRun.header
  BY <1>1, <1>2 DEF InStage
<1>4. HeaderHolds(judgedRun.header)
  BY DEF ResultsInv, RunHolds
<1>5. RunHolds'
  <2>1. Chosen(judgedRun.header)' = Chosen(judgedRun.header)
    BY <1>3 DEF Chosen
  <2>2. HeaderHolds(judgedRun.header)'
    BY <1>3, <1>4, <2>1 DEF HeaderHolds
  <2> QED
    BY <1>2, <1>3, <2>1, <2>2 DEF RunHolds, InStage
<1>6. JudgmentsHold'
  BY <1>3, NoJudgment DEF JudgmentsHold
<1>7. judgedRun.header.cards \in {<<>>, judgedRun'.header.cards}
  BY <1>3
<1>8. PollHolds' /\ PagesAreWhole'
  BY <1>3, <1>7, PollKept
<1> QED
  BY <1>5, <1>6, <1>8 DEF ResultsInv

LEMMA StartRunKeeps == ResultsInv /\ StartRun => ResultsInv'
<1> SUFFICES ASSUME ResultsInv, StartRun PROVE ResultsInv'
  OBVIOUS
<1>1. /\ judgedRun.status = "QUEUED" /\ judgedRun' = [judgedRun EXCEPT !.status = "RUNNING"]
      /\ UNCHANGED <<judgments, poll, screen>>
  BY DEF StartRun, Advance
<1>2. ~judgedRun.header.stored /\ judgedRun.header.cards = <<>>
  BY <1>1 DEF ResultsInv, RunHolds
<1> QED
  BY <1>1, <1>2, RunGoesOn DEF InStage

LEMMA StoreAnchorCardKeeps == ResultsInv /\ StoreAnchorCard => ResultsInv'
<1> SUFFICES ASSUME ResultsInv, StoreAnchorCard PROVE ResultsInv'
  OBVIOUS
<1>1. /\ judgedRun.status = "RUNNING"
      /\ judgedRun' = [judgedRun EXCEPT !.status = "ANCHOR_READY", !.synthetic = TRUE, !.anchor = TRUE]
      /\ UNCHANGED <<judgments, poll, screen>>
  BY DEF StoreAnchorCard, Advance
<1>2. PICK old, synthetic, anchor, header :
        judgedRun = [status |-> old, synthetic |-> synthetic, anchor |-> anchor, header |-> header]
  BY DEF ResultsInv, RunHolds
<1>3. judgedRun' = [status |-> "ANCHOR_READY", synthetic |-> TRUE, anchor |-> TRUE, header |-> header]
  BY <1>1, <1>2
<1>4. /\ judgedRun'.status = "ANCHOR_READY" /\ judgedRun'.synthetic
      /\ judgedRun'.header = judgedRun.header
  BY <1>2, <1>3
<1>5. HeaderHolds(judgedRun.header) /\ ~judgedRun.header.stored /\ judgedRun.header.cards = <<>>
  BY <1>1 DEF ResultsInv, RunHolds
<1>6. RunHolds'
  <2>1. HeaderHolds(judgedRun.header)'
    BY <1>4, <1>5 DEF HeaderHolds, Chosen
  <2> QED
    BY <1>3, <1>4, <1>5, <2>1 DEF RunHolds, InStage
<1>7. JudgmentsHold'
  BY <1>1, <1>4, NoJudgment DEF JudgmentsHold
<1>8. PollHolds' /\ PagesAreWhole'
  BY <1>1, <1>4, <1>5, PollKept
<1> QED
  BY <1>6, <1>7, <1>8 DEF ResultsInv

LEMMA StoreSelectionKeeps ==
    ASSUME ResultsInv, NEW entries \in Lists, StoreSelection(entries)
    PROVE  ResultsInv'
<1> DEFINE new == [entries |-> entries, cards |-> <<>>, stored |-> TRUE]
<1>1. /\ judgedRun.status = "ANCHOR_READY"
      /\ judgedRun' = [judgedRun EXCEPT !.status = "CANDIDATES_READY", !.header = new]
      /\ UNCHANGED <<judgments, poll, screen>>
  BY DEF StoreSelection, Advance
<1>2. PICK old, synthetic, anchor, header :
        judgedRun = [status |-> old, synthetic |-> synthetic, anchor |-> anchor, header |-> header]
  BY DEF ResultsInv, RunHolds
<1>3. judgedRun' = [status |-> "CANDIDATES_READY", synthetic |-> synthetic, anchor |-> anchor,
                    header |-> new]
  BY <1>1, <1>2
<1>4. /\ judgedRun'.status = "CANDIDATES_READY" /\ judgedRun'.synthetic = judgedRun.synthetic
      /\ judgedRun'.header = new
  BY <1>2, <1>3
<1>5. ~judgedRun.header.stored
  BY <1>1 DEF ResultsInv, RunHolds
<1>6. entries \in Seq(Answer) /\ IsInjective(entries)
  <2>1. PICK n \in 0..Cardinality(Answer) : entries \in [1..n -> Answer] /\ IsInjective(entries)
    BY DEF Lists
  <2> QED
    BY <2>1
<1>7. RunHolds'
  <2>1. HeaderHolds(new)
    BY <1>6 DEF HeaderHolds
  <2>2. HeaderHolds(judgedRun.header)'
    BY ZenonT(40), <1>4, <2>1 DEF HeaderHolds, Chosen
  <2>3. new.stored /\ new.cards = <<>>
    OBVIOUS
  <2>4. judgedRun.synthetic
    BY <1>1 DEF ResultsInv, RunHolds, InStage
  <2> HIDE DEF new
  <2> QED
    BY <1>3, <1>4, <2>2, <2>3, <2>4 DEF RunHolds, InStage
<1>8. JudgmentsHold'
  BY <1>1, <1>4, NoJudgment DEF JudgmentsHold
<1>9. PollHolds' /\ PagesAreWhole'
  BY <1>1, <1>4, <1>5, PollKept
<1> QED
  BY <1>7, <1>8, <1>9 DEF ResultsInv

LEMMA StoreCardsKeeps ==
    ASSUME ResultsAssumption, ResultsInv, NEW cards, StoreCards(cards)
    PROVE  ResultsInv'
<1>1. /\ judgedRun.status = "CANDIDATES_READY"
      /\ judgedRun' = [judgedRun EXCEPT !.status = "CANDIDATE_CARDS_READY", !.header.cards = cards]
      /\ UNCHANGED <<judgments, poll, screen>>
  BY DEF StoreCards, Advance
<1>2. PICK old, synthetic, anchor, header :
        judgedRun = [status |-> old, synthetic |-> synthetic, anchor |-> anchor, header |-> header]
  BY DEF ResultsInv, RunHolds
<1>3. /\ HeaderHolds(header) /\ header.stored /\ header.cards = <<>>
  BY <1>1, <1>2 DEF ResultsInv, RunHolds
<1>4. PICK entries, none, kept :
        header = [entries |-> entries, cards |-> none, stored |-> kept]
  BY <1>3 DEF HeaderHolds
<1> DEFINE new == [entries |-> entries, cards |-> cards, stored |-> kept]
<1>5. judgedRun' = [status |-> "CANDIDATE_CARDS_READY", synthetic |-> synthetic,
                    anchor |-> anchor, header |-> new]
  BY <1>1, <1>2, <1>4
<1>6. /\ judgedRun'.status = "CANDIDATE_CARDS_READY" /\ judgedRun'.synthetic = judgedRun.synthetic
      /\ judgedRun'.header = new /\ judgedRun.header = header
  BY <1>2, <1>5
<1>7. DOMAIN cards = Chosen(header) /\ IsInjective(cards)
  BY <1>3, <1>6, FirstAreChosen DEF StoreCards, HeaderHolds
<1>8. Chosen(new) = Chosen(header)
  BY <1>4 DEF Chosen
<1>9. RunHolds'
  <2>1. HeaderHolds(new)
    BY <1>3, <1>4, <1>7, <1>8 DEF HeaderHolds
  <2>2. HeaderHolds(judgedRun.header)' /\ Chosen(judgedRun.header)' = Chosen(new)
    BY ZenonT(40), <1>6, <2>1 DEF HeaderHolds, Chosen
  <2>3. new.stored /\ DOMAIN new.cards = Chosen(new)
    BY <1>3, <1>4, <1>7, <1>8
  <2>4. judgedRun.synthetic
    BY <1>1 DEF ResultsInv, RunHolds, InStage
  <2> HIDE DEF new
  <2> QED
    BY <1>5, <1>6, <2>2, <2>3, <2>4 DEF RunHolds, InStage
<1>10. JudgmentsHold'
  BY <1>1, <1>6, NoJudgment DEF JudgmentsHold
<1>11. PollHolds' /\ PagesAreWhole'
  BY <1>1, <1>3, <1>4, <1>6, PollKept
<1> QED
  BY <1>9, <1>10, <1>11 DEF ResultsInv

LEMMA StoreJudgmentsKeeps ==
    ASSUME ResultsAssumption, ResultsInv, NEW order \in CardLists, StoreJudgments(order)
    PROVE  ResultsInv'
<1>1. /\ judgedRun.status = "JUDGING"
      /\ judgedRun' = [judgedRun EXCEPT !.status = "COMPLETED"]
      /\ judgments' = {[card |-> order[i], rank |-> i] : i \in DOMAIN order}
      /\ Range(order) = Range(judgedRun.header.cards)
      /\ UNCHANGED <<poll, screen>>
  BY DEF StoreJudgments, Advance, Judged
<1>2. PICK old, synthetic, anchor, header :
        judgedRun = [status |-> old, synthetic |-> synthetic, anchor |-> anchor, header |-> header]
  BY DEF ResultsInv, RunHolds
<1>3. judgedRun' = [status |-> "COMPLETED", synthetic |-> synthetic, anchor |-> anchor, header |-> header]
  BY <1>1, <1>2
<1>4. /\ judgedRun'.status = "COMPLETED" /\ judgedRun'.synthetic = judgedRun.synthetic
      /\ judgedRun'.header = judgedRun.header
  BY <1>2, <1>3
<1>5. /\ HeaderHolds(judgedRun.header) /\ judgedRun.header.stored
      /\ DOMAIN judgedRun.header.cards = Chosen(judgedRun.header)
  BY <1>1 DEF ResultsInv, RunHolds
<1>6. RunHolds'
  <2>1. HeaderHolds(judgedRun.header)' /\ Chosen(judgedRun.header)' = Chosen(judgedRun.header)
    BY <1>4, <1>5 DEF HeaderHolds, Chosen
  <2> QED
    BY <1>3, <1>4, <1>5, <2>1 DEF RunHolds, InStage
<1>7. PICK n \in 0..Selected : order \in [1..n -> AnswerCard]
  BY DEF CardLists
<1>8. judgments' # {} => judgedRun'.synthetic
  BY <1>1, <1>4 DEF ResultsInv, RunHolds, InStage
<1>9. JudgmentsHold'
  <2>1. \A j \in judgments' : j \in [card : AnswerCard, rank : 1..Selected]
    BY <1>1, <1>7 DEF ResultsAssumption
  <2>2. \A j, k \in judgments' : j.rank = k.rank => j = k
    BY <1>1
  <2>3. {j.card : j \in judgments'} = Range(judgedRun'.header.cards)
    <3> DEFINE J(i) == [card |-> order[i], rank |-> i]
    <3>1. \A i \in DOMAIN order : J(i).card = order[i]
      OBVIOUS
    <3>2. judgments' = {J(i) : i \in DOMAIN order}
      BY <1>1
    <3> HIDE DEF J
    <3>3. {j.card : j \in judgments'} = {order[i] : i \in DOMAIN order}
      BY <3>1, <3>2
    <3> QED
      BY <1>1, <1>4, <3>3 DEF Range
  <2> QED
    BY <1>4, <1>8, <2>1, <2>2, <2>3 DEF JudgmentsHold
<1>10. judgedRun.header.cards \in {<<>>, judgedRun'.header.cards}
  BY <1>4
<1>11. PollHolds' /\ PagesAreWhole'
  BY <1>1, <1>4, <1>10, PollKept
<1> QED
  BY <1>6, <1>9, <1>11 DEF ResultsInv

LEMMA EndEarlyKeeps ==
    ASSUME ResultsInv, NEW status \in {"FAILED_TERMINAL", "SUPERSEDED"}, EndEarly(status)
    PROVE  ResultsInv'
<1>1. /\ judgedRun.status # "COMPLETED" /\ judgedRun' = [judgedRun EXCEPT !.status = status]
      /\ UNCHANGED <<judgments, poll, screen>>
  BY DEF EndEarly, Advance, InStage
<1> QED
  BY <1>1, RunGoesOn DEF InStage

LEMMA StartJudgingKeeps == ResultsInv /\ StartJudging => ResultsInv'
<1> SUFFICES ASSUME ResultsInv, StartJudging PROVE ResultsInv'
  OBVIOUS
<1>1. /\ judgedRun.status = "CANDIDATE_CARDS_READY"
      /\ judgedRun' = [judgedRun EXCEPT !.status = "JUDGING"]
      /\ UNCHANGED <<judgments, poll, screen>>
  BY DEF StartJudging, Advance
<1>2. /\ judgedRun.header.stored /\ judgedRun.synthetic
      /\ DOMAIN judgedRun.header.cards = Chosen(judgedRun.header)
  BY <1>1 DEF ResultsInv, RunHolds, InStage
<1> QED
  BY <1>1, <1>2, RunGoesOn DEF InStage

(* A step of the screen that ends neither in a page. *)
LEMMA ReadingKeeps ==
    ASSUME ResultsInv, PollHolds', UNCHANGED <<judgedRun, judgments, screen>>
    PROVE  ResultsInv'
<1>1. RunHolds'
  BY DEF ResultsInv, RunHolds, HeaderHolds, Chosen
<1>2. JudgmentsHold' /\ PagesAreWhole'
  BY DEF ResultsInv, JudgmentsHold, PagesAreWhole
<1> QED
  BY <1>1, <1>2 DEF ResultsInv

LEMMA ReadRunKeeps ==
    ASSUME ResultsInv, NEW offset \in Nat, ReadRun(offset)
    PROVE  ResultsInv'
<1> DEFINE at == IF judgedRun.synthetic THEN "header" ELSE "empty"
<1>1. /\ poll' = [at |-> at, status |-> judgedRun.status, offset |-> offset]
      /\ UNCHANGED <<judgedRun, judgments, screen>>
  BY DEF ReadRun, Reading
<1>2. at \in {"header", "empty"} /\ (at = "header" => judgedRun.synthetic)
  OBVIOUS
<1> HIDE DEF at
<1>3. poll'.at = at /\ poll'.status = judgedRun.status /\ poll'.offset = offset
  BY <1>1
<1>4. PollHolds'
  BY <1>1, <1>2, <1>3 DEF PollHolds
<1> QED
  BY <1>1, <1>4, ReadingKeeps

LEMMA ReadHeaderKeeps == ResultsInv /\ ReadHeader => ResultsInv'
<1> SUFFICES ASSUME ResultsInv, ReadHeader PROVE ResultsInv'
  OBVIOUS
<1>1. /\ poll.at = "header"
      /\ poll' = [at |-> "card", status |-> poll.status, offset |-> poll.offset,
                  header |-> judgedRun.header]
      /\ UNCHANGED <<judgedRun, judgments, screen>>
  BY DEF ReadHeader, Reading
<1>4. /\ poll'.at = "card" /\ poll'.status = poll.status /\ poll'.offset = poll.offset
      /\ poll'.header = judgedRun.header
  BY <1>1
<1>5. /\ judgedRun.synthetic /\ poll.offset \in Nat
      /\ poll.status = "COMPLETED" => judgedRun.status = "COMPLETED"
  BY <1>1 DEF ResultsInv, PollHolds
<1>6. HeaderRead'
  <2>1. HeaderHolds(judgedRun.header)
    BY DEF ResultsInv, RunHolds
  <2>2. HeaderHolds(poll.header)'
    BY <1>4, <2>1 DEF HeaderHolds, Chosen
  <2> QED
    BY <1>1, <1>4, <2>2 DEF HeaderRead
<1>7. PollHolds'
  BY <1>1, <1>4, <1>5, <1>6 DEF PollHolds
<1> QED
  BY <1>1, <1>7, ReadingKeeps

LEMMA ReadAnchorKeeps == ResultsInv /\ ReadAnchor => ResultsInv'
<1> SUFFICES ASSUME ResultsInv, ReadAnchor PROVE ResultsInv'
  OBVIOUS
<1>1. PICK place \in {"empty", "judgments", "card only"} :
        /\ poll.at = "card" /\ poll' = [poll EXCEPT !.at = place]
        /\ place = "judgments" => poll.header.stored
        /\ UNCHANGED <<judgedRun, judgments, screen>>
  BY DEF ReadAnchor, Reading
<1>2. PICK at, status, offset, header :
        poll = [at |-> at, status |-> status, offset |-> offset, header |-> header]
  BY <1>1 DEF ResultsInv, PollHolds
<1>3. poll' = [at |-> place, status |-> status, offset |-> offset, header |-> header]
  BY <1>1, <1>2
<1>4. /\ poll'.at = place /\ poll'.status = poll.status /\ poll'.offset = poll.offset
      /\ poll'.header = poll.header
  BY <1>2, <1>3
<1>5. /\ judgedRun.synthetic /\ poll.offset \in Nat /\ HeaderRead
      /\ poll.status = "COMPLETED" => judgedRun.status = "COMPLETED"
  BY <1>1 DEF ResultsInv, PollHolds
<1>6. HeaderRead'
  <2>1. HeaderHolds(poll.header)'
    <3>1. HeaderHolds(poll.header)
      BY <1>5 DEF HeaderRead
    <3> QED
      BY <1>4, <3>1 DEF HeaderHolds, Chosen
  <2> QED
    BY <1>1, <1>4, <1>5, <2>1 DEF HeaderRead
<1>7. PollHolds'
  BY <1>1, <1>3, <1>4, <1>5, <1>6 DEF PollHolds
<1> QED
  BY <1>1, <1>7, ReadingKeeps

LEMMA ShowsKeeps ==
    ASSUME ResultsInv, NEW result, Shows(result), PagesAreWhole'
    PROVE  ResultsInv'
<1>1. poll' = Asleep /\ UNCHANGED <<judgedRun, judgments>>
  BY DEF Shows
<1>2. RunHolds'
  BY <1>1 DEF ResultsInv, RunHolds, HeaderHolds, Chosen
<1>3. JudgmentsHold'
  BY <1>1 DEF ResultsInv, JudgmentsHold
<1>4. PollHolds'
  BY <1>1 DEF PollHolds, Asleep
<1> QED
  BY <1>2, <1>3, <1>4 DEF ResultsInv

LEMMA NothingKeeps == ResultsInv /\ (ShowEmpty \/ ShowCard) => ResultsInv'
<1> SUFFICES ASSUME ResultsInv, ShowEmpty \/ ShowCard PROVE ResultsInv'
  OBVIOUS
<1>1. PICK result : Shows(result) /\ result.items = <<>>
  <2>1. NothingShown.items = <<>> /\ [NothingShown EXCEPT !.card = TRUE].items = <<>>
    BY DEF NothingShown
  <2> QED
    BY <2>1 DEF ShowEmpty, ShowCard
<1>2. PagesAreWhole'
  BY <1>1 DEF Shows, PagesAreWhole
<1> QED
  BY <1>1, <1>2, ShowsKeeps

(* What the page says of the m-th candidate of the list. *)
LEMMA ItemIs ==
    ASSUME ResultsAssumption, ResultsInv, poll.at = "judgments",
           NEW m \in 1..Len(poll.header.entries)
    PROVE  /\ Item(m).selected = (m <= Selected)
           /\ poll.status = "COMPLETED" /\ m <= Selected => Item(m).judgment # NotThere
           /\ \/ Item(m).rank = m /\ (judgments # {} /\ poll.header.cards # <<>> => m > Selected)
              \/ /\ m <= Selected /\ poll.header.entries[m] \in DOMAIN poll.header.cards
                 /\ \E j \in judgments :
                       /\ j.card = poll.header.cards[poll.header.entries[m]]
                       /\ Item(m).rank = j.rank
<1> DEFINE h == poll.header
           c == h.entries[m]
<1>1. HeaderRead /\ h.stored /\ judgedRun.synthetic
  BY DEF ResultsInv, PollHolds
<1>2. HeaderHolds(h) /\ h.cards \in {<<>>, judgedRun.header.cards}
      /\ h.entries = judgedRun.header.entries
  BY <1>1 DEF HeaderRead
<1>3. /\ Item(m).selected = (m <= Selected) /\ Item(m).judgment = JudgmentOf(c)
      /\ Item(m).rank = IF JudgmentOf(c) = NotThere THEN m ELSE JudgmentOf(c).rank
  BY DEF Item
<1>4. c \in Chosen(h) <=> m <= Selected
  BY <1>2 DEF HeaderHolds, Chosen, IsInjective, ResultsAssumption
<1>5. \A j \in judgments : j # NotThere
  BY DEF ResultsInv, JudgmentsHold, ResultsAssumption
<1>6. judgments # {} => {j.card : j \in judgments} = Range(judgedRun.header.cards)
  BY DEF ResultsInv, JudgmentsHold
<1>7. JudgmentOf(c) # NotThere =>
        /\ c \in DOMAIN h.cards /\ JudgmentOf(c) \in judgments
        /\ JudgmentOf(c).card = h.cards[c]
  BY DEF JudgmentOf
<1>8. judgments # {} /\ c \in DOMAIN h.cards => JudgmentOf(c) \in judgments
  BY SMTT(20), <1>2, <1>6 DEF JudgmentOf, Range
<1>9. h.cards = <<>> \/ DOMAIN h.cards = Chosen(h)
  BY <1>2 DEF HeaderHolds
<1>10. poll.status = "COMPLETED" /\ m <= Selected => JudgmentOf(c) # NotThere
  <2> SUFFICES ASSUME poll.status = "COMPLETED", m <= Selected PROVE JudgmentOf(c) # NotThere
    OBVIOUS
  <2>1. h = judgedRun.header /\ judgedRun.status = "COMPLETED"
    BY <1>1 DEF HeaderRead, ResultsInv, PollHolds
  <2>2. DOMAIN h.cards = Chosen(h) /\ {j.card : j \in judgments} = Range(h.cards)
    BY <1>1, <2>1 DEF ResultsInv, RunHolds, JudgmentsHold
  <2>3. c \in DOMAIN h.cards /\ judgments # {}
    BY <1>4, <2>2 DEF Range
  <2> QED
    BY <1>5, <1>8, <2>3
<1> QED
  BY <1>3, <1>4, <1>5, <1>7, <1>8, <1>9, <1>10

LEMMA ShowCandidatesKeeps == ResultsAssumption /\ ResultsInv /\ ShowCandidates => ResultsInv'
<1> SUFFICES ASSUME ResultsAssumption, ResultsInv, ShowCandidates PROVE ResultsInv'
  OBVIOUS
<1> DEFINE total == Len(poll.header.entries)
           k == Max({0, Min({ResultLimit, total - poll.offset})})
           page == [i \in 1..k |-> Item(poll.offset + i)]
<1>1. /\ poll.at = "judgments"
      /\ Shows([NothingShown EXCEPT !.card = TRUE, !.total = total, !.items = page])
  BY DEF ShowCandidates
<1>2. screen'.status = poll.status /\ screen'.items = page
  <2> HIDE DEF total, page
  <2> QED
    BY <1>1 DEF Shows, NothingShown, StatusRead
<1>3. /\ poll.offset \in Nat /\ HeaderRead
  BY <1>1 DEF ResultsInv, PollHolds
<1>4. HeaderHolds(poll.header) /\ total \in Nat
  <2>1. HeaderHolds(poll.header)
    BY <1>3 DEF HeaderRead
  <2>2. poll.header.entries \in Seq(Answer)
    BY <2>1 DEF HeaderHolds
  <2> QED
    BY <2>1, <2>2
<1>5. k \in Nat /\ \A i \in 1..k : poll.offset + i \in 1..total
  <2> DEFINE l == Min({ResultLimit, total - poll.offset})
  <2>1. l \in Int /\ l <= total - poll.offset
    <3>1. ResultLimit \in Int /\ total - poll.offset \in Int
      BY <1>3, <1>4 DEF ResultsAssumption
    <3> HIDE DEF total
    <3> QED
      BY <3>1, LeastOfTwo, Zenon
  <2>2. k = Max({0, l})
    OBVIOUS
  <2> HIDE DEF l
  <2>3. k \in {0, l} /\ k >= 0
    <3>1. 0 \in Int
      OBVIOUS
    <3>2. Max({0, l}) \in {0, l} /\ Max({0, l}) >= 0
      BY <2>1, <3>1, GreatestOfTwo, Zenon
    <3> QED
      BY <2>2, <3>2
  <2> HIDE DEF k, total
  <2> QED
    BY <1>3, <1>4, <2>1, <2>3
<1> HIDE DEF k
<1>6. DOMAIN page = 1..k /\ \A i \in 1..k : page[i] = Item(poll.offset + i)
  OBVIOUS
<1> HIDE DEF page
<1>7. screen'.status = "COMPLETED" =>
        \A i \in DOMAIN page : page[i].selected => page[i].judgment # NotThere
  <2> SUFFICES ASSUME poll.status = "COMPLETED", NEW i \in 1..k, page[i].selected
               PROVE  page[i].judgment # NotThere
    BY <1>2, <1>6
  <2> DEFINE m == poll.offset + i
  <2>1. m \in 1..Len(poll.header.entries) /\ Item(m).selected
    BY <1>5, <1>6
  <2> HIDE DEF m
  <2>2. m <= Selected
    BY <1>1, <2>1, ItemIs
  <2>3. Item(m).judgment # NotThere
    BY <1>1, <2>1, <2>2, ItemIs
  <2> QED
    BY <1>6, <2>3 DEF m
<1>8. ASSUME NEW i \in 1..k, NEW j \in 1..k, page[i].rank = page[j].rank PROVE i = j
  <2> DEFINE m == poll.offset + i
             n == poll.offset + j
             h == poll.header
  <2>1. m \in 1..total /\ n \in 1..total /\ Item(m).rank = Item(n).rank
    BY <1>5, <1>6, <1>8
  <2>2. m = n => i = j
    BY <1>3
  <2> HIDE DEF m, n
  <2>3. CASE \E a \in judgments, b \in judgments :
               /\ h.entries[m] \in DOMAIN h.cards /\ h.entries[n] \in DOMAIN h.cards
               /\ a.card = h.cards[h.entries[m]] /\ b.card = h.cards[h.entries[n]]
               /\ a.rank = b.rank
    <3>1. h.cards[h.entries[m]] = h.cards[h.entries[n]]
      BY <2>3 DEF ResultsInv, JudgmentsHold
    <3>2. IsInjective(h.cards) /\ IsInjective(h.entries) /\ DOMAIN h.entries = 1..total
      BY <1>4, <2>3 DEF HeaderHolds
    <3> QED
      BY <2>1, <2>2, <2>3, <3>1, <3>2 DEF IsInjective
  <2>4. CASE Item(m).rank = m /\ Item(n).rank = n
    BY <2>1, <2>2, <2>4
  <2>5. ASSUME NEW x \in 1..total, NEW y \in 1..total, Item(x).rank = x,
               judgments # {} /\ h.cards # <<>> => x > Selected,
               h.entries[y] \in DOMAIN h.cards,
               \E b \in judgments : Item(y).rank = b.rank
        PROVE  Item(x).rank # Item(y).rank
    <3>1. \A b \in judgments : b.rank <= Selected /\ b.rank \in Nat
      BY DEF ResultsInv, JudgmentsHold, ResultsAssumption
    <3>2. x > Selected
      BY <2>5
    <3> QED
      BY <2>5, <3>1, <3>2 DEF ResultsAssumption
  <2> QED
    BY SMTT(20), <1>1, <2>1, <2>3, <2>4, <2>5, ItemIs
<1>9. PagesAreWhole'
  BY <1>2, <1>6, <1>7, <1>8 DEF PagesAreWhole
<1> QED
  BY <1>1, <1>9, ShowsKeeps

LEMMA ResultsStart == ResultsAssumption /\ ResultsInit => ResultsInv
<1> SUFFICES ASSUME ResultsAssumption, ResultsInit PROVE ResultsInv
  OBVIOUS
<1>1. /\ \E status, synthetic, anchor, header :
            judgedRun = [status |-> status, synthetic |-> synthetic, anchor |-> anchor,
                         header |-> header]
      /\ judgedRun.status \in {"QUEUED", "COMPLETED"} /\ ~judgedRun.synthetic
      /\ judgedRun.header = NoHeader
  <2>1. \E anchor, status : /\ status \in {"QUEUED", "COMPLETED"}
           /\ judgedRun = [status |-> status, synthetic |-> FALSE, anchor |-> anchor,
                           header |-> NoHeader]
    BY DEF ResultsInit, Fresh
  <2>2. PICK anchor, status : /\ status \in {"QUEUED", "COMPLETED"}
           /\ judgedRun = [status |-> status, synthetic |-> FALSE, anchor |-> anchor,
                           header |-> NoHeader]
    BY <2>1
  <2> QED
    BY <2>2
<1>2. NoHeader.cards = <<>> /\ ~NoHeader.stored /\ NoHeader.entries = <<>>
  BY DEF NoHeader
<1>3. HeaderHolds(NoHeader)
  <2>1. NoHeader.entries \in Seq(Answer) /\ IsInjective(NoHeader.entries)
    BY <1>2 DEF IsInjective
  <2> QED
    BY <1>2, <2>1 DEF HeaderHolds, NoHeader
<1>4. RunHolds
  BY <1>1, <1>2, <1>3 DEF RunHolds, InStage
<1>5. JudgmentsHold
  BY <1>1 DEF ResultsInit, JudgmentsHold
<1>6. PollHolds /\ PagesAreWhole
  BY DEF ResultsInit, PollHolds, PagesAreWhole, Asleep
<1> QED
  BY <1>4, <1>5, <1>6 DEF ResultsInv

LEMMA ResultsStep ==
    ResultsAssumption /\ ResultsInv /\ [ResultsNext]_resultVars => ResultsInv'
<1> SUFFICES ASSUME ResultsAssumption, ResultsInv, [ResultsNext]_resultVars PROVE ResultsInv'
  OBVIOUS
<1>1. CASE UNCHANGED <<judgedRun, judgments, poll, screen>>
  <2>1. PollHolds'
    BY ZenonT(40), <1>1 DEF ResultsInv, PollHolds, HeaderRead, HeaderHolds, Chosen
  <2> QED
    BY <1>1, <2>1, ReadingKeeps
<1>2. CASE \E target : GiveFeedback(target)
  BY <1>1, <1>2 DEF GiveFeedback
<1>3. CASE InvalidateAnchor
  BY <1>1, <1>3 DEF InvalidateAnchor
<1>4. ASSUME NEW offset \in 0..Cardinality(Answer), ReadRun(offset) PROVE ResultsInv'
  <2>1. offset \in Nat
    OBVIOUS
  <2> QED
    BY <1>4, <2>1, ReadRunKeeps
<1> QED
  BY <1>1, <1>2, <1>3, <1>4, StartRunKeeps, StoreAnchorCardKeeps, StartJudgingKeeps,
     StoreSelectionKeeps, StoreCardsKeeps, StoreJudgmentsKeeps, EndEarlyKeeps,
     ReadHeaderKeeps, ReadAnchorKeeps, NothingKeeps, ShowCandidatesKeeps
  DEF ResultsNext, resultVars

(* What a poll has read is the run's, or the run's at an earlier stage. *)
THEOREM ResultsInvariance == ResultsSpec => []ResultsInv
<1>1. ResultsInit => ResultsInv
  BY ResultsStart, ResultsAssumption
<1>2. ResultsInv /\ [ResultsNext]_resultVars => ResultsInv'
  BY ResultsStep, ResultsAssumption
<1> QED
  BY <1>1, <1>2, PTL DEF ResultsSpec

(* A page that says COMPLETED carries every judgment of its selected candidates,
   and no page shows one rank twice.  (load_run_result, list_candidate_judgments) *)
THEOREM PagesWhole == ResultsSpec => []PagesAreWhole
<1>1. ResultsInv => PagesAreWhole
  BY DEF ResultsInv
<1> QED
  BY <1>1, ResultsInvariance, PTL

-----------------------------------------------------------------------------
(* The scope of the consultation logs                                        *)

(* The scope under an identity: what _scope_conditions asks of a log, with the
   unit and the people that the digest is made of.                           *)
InScopeOf(scope, log) ==
    /\ ~log.voided
    /\ IF scope.target \in Wish
       THEN /\ log.on.wish = scope.target
            /\ log.on.person = Nil \/ log.on.person \in scope.allowed
       ELSE /\ log.on.wish = Nil
            /\ \/ /\ log.on.offer = scope.target
                  /\ log.on.person = Nil \/ log.on.person \in scope.allowed
               \/ /\ log.on.offer = Nil
                  /\ log.on.home = scope.home
                  /\ log.on.person \in scope.allowed

TalkTyped == talk \in Seq([on : Hanging, hour : Hours, voided : BOOLEAN])

(* What a stage has read: logs that hang on its target's own side, with their
   number and their last one in the source.                                  *)
ReadingNoted ==
    /\ \E target, rows, source :
          reading = [target |-> target, rows |-> rows, source |-> source]
    /\ \E scope, summary : reading.source = [scope |-> scope, summary |-> summary]
    /\ reading.target \in Offer \cup Wish
    /\ reading.rows \in SUBSET (1..Len(talk))
    /\ reading.rows = {} => reading.source.summary = <<0>>
    /\ reading.rows # {} =>
          \E hour : reading.source.summary =
                        <<Cardinality(reading.rows), hour, Max(reading.rows)>>
    /\ \A i \in reading.rows :
          talk[i].on.wish = IF reading.target \in Wish THEN reading.target ELSE Nil

(* Up to the last log it read, a stage has seen all that its scope has: logs
   are added at the end, and a voided one stays voided.                      *)
ReadingCovers ==
    reading.rows # {} =>
        \A i \in 1..Len(talk) :
            i <= Max(reading.rows) /\ InScopeOf(reading.source.scope, talk[i]) =>
                i \in reading.rows

ScopeInv ==
    /\ TalkTyped
    /\ reading # NotReading => ReadingNoted /\ ReadingCovers

-----------------------------------------------------------------------------

(* A set of natural numbers that is not empty has a least element, and a
   bounded one a greatest.                                                   *)
LEMMA LeastOfSet ==
    ASSUME NEW S, S \subseteq Nat, S # {}
    PROVE  \E x \in S : \A y \in S : x <= y
<1> DEFINE R == {ss \in Nat \X Nat : ss[1] < ss[2]}
<1>1. \E x \in S : \A y \in S : ~(<<y, x>> \in R)
  <2>1. IsWellFoundedOn(R, Nat)
    BY NatLessThanWellFounded DEF OpToRel
  <2> HIDE DEF R
  <2> QED
    BY <2>1, WFMin
<1>2. ASSUME NEW x \in Nat, NEW y \in Nat, y < x PROVE <<y, x>> \in R
  BY <1>2
<1>3. PICK x \in S : \A y \in S : ~(<<y, x>> \in R)
  BY <1>1
<1> HIDE DEF R
<1>4. \A y \in S : x <= y
  <2> TAKE y \in S
  <2>1. x \in Nat /\ y \in Nat
    OBVIOUS
  <2>2. ~(y < x)
    BY <1>2, <1>3, <2>1
  <2> QED
    BY <2>1, <2>2
<1> QED
  BY <1>4

LEMMA GreatestOfSet ==
    ASSUME NEW n \in Nat, NEW S \in SUBSET (1..n), S # {}
    PROVE  Max(S) \in S /\ \A y \in S : y <= Max(S)
<1> DEFINE T == {n - y : y \in S}
<1>1. T \subseteq Nat /\ T # {}
  <2>1. \A y \in S : y \in Int /\ y <= n
    OBVIOUS
  <2>2. \A y \in S : n - y \in Nat
    BY <2>1
  <2> QED
    BY <2>2
<1>2. PICK x \in T : \A y \in T : x <= y
  <2> HIDE DEF T
  <2> QED
    BY <1>1, LeastOfSet
<1>3. PICK z \in S : x = n - z
  OBVIOUS
<1>4. \A y \in S : z >= y
  <2> TAKE y \in S
  <2>1. x <= n - y
    BY <1>2
  <2> QED
    BY <2>1, <1>3
<1>5. Max(S) \in S /\ \A y \in S : Max(S) >= y
  BY <1>4, Zenon DEF Max
<1> QED
  BY <1>5

(* The digest tells which logs are in scope. *)
LEMMA ScopeByIdentity ==
    ASSUME NEW t \in Offer \cup Wish, NEW log
    PROVE  InScope(t, log) <=> InScopeOf(ScopeIdentity(t), log)
  BY DEF InScope, InScopeOf, ScopeIdentity, Allowed

LEMMA ReadingKept ==
    ASSUME ScopeInv, reading # NotReading, UNCHANGED reading, TalkTyped',
           Len(talk') >= Len(talk),
           \A i \in 1..Len(talk) :
               talk'[i].on = talk[i].on /\ (talk[i].voided => talk'[i].voided)
    PROVE  ReadingNoted' /\ ReadingCovers'
<1>1. Len(talk) \in Nat /\ Len(talk') \in Nat
  BY DEF ScopeInv, TalkTyped
<1>2. ReadingNoted /\ ReadingCovers
  BY DEF ScopeInv
<1>3. reading.rows \in SUBSET (1..Len(talk))
  BY <1>2 DEF ReadingNoted
<1>4. ReadingNoted'
  <2>1. \A i \in reading.rows : i \in 1..Len(talk) /\ talk'[i].on = talk[i].on
    BY <1>3
  <2>2. reading.rows \in SUBSET (1..Len(talk'))
    BY <1>1, <1>3
  <2>3. \A i \in reading.rows :
            talk[i].on.wish = IF reading.target \in Wish THEN reading.target ELSE Nil
    BY <1>2 DEF ReadingNoted
  <2>4. \A i \in reading.rows :
            talk'[i].on.wish = IF reading.target \in Wish THEN reading.target ELSE Nil
    BY <2>1, <2>3
  <2> QED
    BY <1>2, <2>2, <2>4 DEF ReadingNoted
<1>5. ReadingCovers'
  <2> SUFFICES ASSUME reading.rows # {}, NEW i \in 1..Len(talk'), i <= Max(reading.rows),
                      InScopeOf(reading.source.scope, talk'[i])
               PROVE  i \in reading.rows
    BY DEF ReadingCovers
  <2>1. Max(reading.rows) \in reading.rows
    BY <1>1, <1>3, GreatestOfSet
  <2>2. i \in 1..Len(talk)
    BY <1>1, <1>3, <2>1
  <2>3. InScopeOf(reading.source.scope, talk[i])
    BY <2>2 DEF InScopeOf
  <2> QED
    BY <1>2, <2>2, <2>3 DEF ReadingCovers
<1> QED
  BY <1>4, <1>5

LEMMA ScopeInitHolds == ScopeInit => ScopeInv
  BY DEF ScopeInit, ScopeInv, TalkTyped

LEMMA AddLogKeeps ==
    ASSUME ScopeInv, NEW on \in Hanging, NEW hour \in Hours, AddLog(on, hour)
    PROVE  ScopeInv'
<1>1. talk' = Append(talk, [on |-> on, hour |-> hour, voided |-> FALSE]) /\ UNCHANGED reading
  BY DEF AddLog
<1>2. TalkTyped /\ TalkTyped'
  BY <1>1 DEF ScopeInv, TalkTyped
<1>3. /\ Len(talk') >= Len(talk)
      /\ \A i \in 1..Len(talk) : talk'[i] = talk[i]
  BY <1>1, <1>2 DEF TalkTyped
<1> QED
  BY <1>1, <1>2, <1>3, ReadingKept DEF ScopeInv, NotReading

LEMMA VoidLogKeeps ==
    ASSUME ScopeInv, NEW i \in DOMAIN talk, VoidLog(i)
    PROVE  ScopeInv'
<1>1. talk' = [talk EXCEPT ![i].voided = TRUE] /\ UNCHANGED reading
  BY DEF VoidLog
<1>2. TalkTyped /\ TalkTyped'
  <2> DEFINE Log == [on : Hanging, hour : Hours, voided : BOOLEAN]
  <2>1. talk \in Seq(Log)
    BY DEF ScopeInv, TalkTyped
  <2>2. talk[i] \in Log
    <3> HIDE DEF Log
    <3> QED
      BY <2>1
  <2>3. [talk[i] EXCEPT !.voided = TRUE] \in Log
    BY <2>2
  <2>4. talk' = [talk EXCEPT ![i] = [talk[i] EXCEPT !.voided = TRUE]]
    BY <1>1
  <2>5. talk' \in Seq(Log)
    <3> HIDE DEF Log
    <3> QED
      BY <2>1, <2>3, <2>4
  <2> QED
    BY <2>1, <2>5 DEF TalkTyped
<1>3. /\ Len(talk') = Len(talk) /\ Len(talk) \in Nat
      /\ \A k \in 1..Len(talk) :
             talk'[k].on = talk[k].on /\ (talk[k].voided => talk'[k].voided)
  BY <1>1, <1>2 DEF TalkTyped
<1> QED
  BY <1>1, <1>2, <1>3, ReadingKept DEF ScopeInv, NotReading

LEMMA TalkUntouched ==
    ASSUME ScopeInv, UNCHANGED <<talk, reading>>
    PROVE  ScopeInv'
  BY DEF ScopeInv, TalkTyped, ReadingNoted, ReadingCovers, NotReading

LEMMA ReadInteractionsKeeps ==
    ASSUME ScopeInv, NEW t \in Offer \cup Wish, ReadInteractions(t)
    PROVE  ScopeInv'
<1> DEFINE rows == ScopedInteractions(t)
<1>1. /\ reading' = [target |-> t, rows |-> rows, source |-> SourceOf(t)]
      /\ UNCHANGED talk
  BY DEF ReadInteractions
<1>2. TalkTyped /\ TalkTyped' /\ DOMAIN talk = 1..Len(talk)
  BY <1>1 DEF ScopeInv, TalkTyped
<1>3. rows \in SUBSET (1..Len(talk))
  BY <1>2 DEF ScopedInteractions
<1>4. ReadingNoted'
  <2>1. \A i \in rows : talk[i].on.wish = IF t \in Wish THEN t ELSE Nil
    BY DEF ScopedInteractions, InScope
  <2>2. rows = {} => InteractionSummary(t) = <<0>>
    BY DEF InteractionSummary
  <2>3. rows # {} => \E hour : InteractionSummary(t) = <<Cardinality(rows), hour, Max(rows)>>
    BY DEF InteractionSummary
  <2> HIDE DEF rows
  <2> QED
    BY <1>1, <1>3, <2>1, <2>2, <2>3 DEF ReadingNoted, SourceOf
<1>5. ReadingCovers'
  <2>1. ASSUME NEW i \in 1..Len(talk), InScopeOf(ScopeIdentity(t), talk[i]) PROVE i \in rows
    BY <1>2, <2>1, ScopeByIdentity DEF ScopedInteractions
  <2> HIDE DEF rows
  <2> QED
    BY <1>1, <2>1 DEF ReadingCovers, SourceOf
<1> QED
  BY <1>2, <1>4, <1>5 DEF ScopeInv

LEMMA ScopeStep == ScopeInv /\ [ScopeNext]_scopeVars => ScopeInv'
<1> SUFFICES ASSUME ScopeInv, [ScopeNext]_scopeVars PROVE ScopeInv'
  OBVIOUS
<1>1. ASSUME NEW on \in Hanging, NEW hour \in Hours, AddLog(on, hour) PROVE ScopeInv'
  BY <1>1, AddLogKeeps
<1>2. ASSUME NEW i \in DOMAIN talk, VoidLog(i) PROVE ScopeInv'
  BY <1>2, VoidLogKeeps
<1>3. ASSUME NEW u \in Home, NEW p \in Person, RelateParty(u, p) PROVE ScopeInv'
  BY <1>3, TalkUntouched DEF RelateParty, ChangesTies
<1>4. ASSUME NEW o \in Offer, NEW p \in Person \cup {Nil}, ChangeClient(o, p) PROVE ScopeInv'
  BY <1>4, TalkUntouched DEF ChangeClient, ChangesTies
<1>5. ASSUME NEW r \in Wish, NEW p \in Person \cup {Nil}, ChangeCoBroker(r, p) PROVE ScopeInv'
  BY <1>5, TalkUntouched DEF ChangeCoBroker, ChangesTies
<1>6. ASSUME NEW t \in Offer \cup Wish, ReadInteractions(t) PROVE ScopeInv'
  BY <1>6, ReadInteractionsKeeps
<1>7. CASE EndReading
  BY <1>7 DEF EndReading, ScopeInv, TalkTyped, NotReading
<1>8. CASE UNCHANGED scopeVars
  BY <1>8, TalkUntouched DEF scopeVars
<1> QED
  BY <1>1, <1>2, <1>3, <1>4, <1>5, <1>6, <1>7, <1>8 DEF ScopeNext

-----------------------------------------------------------------------------

(* What a stage has read stays noted and complete while logs come, are voided,
   and people change sides: by the ids, whatever their hours.                *)
THEOREM ScopeInvariance == ScopeSpec => []ScopeInv
<1>1. ScopeInv /\ [ScopeNext]_scopeVars => ScopeInv'
  BY ScopeStep
<1> QED
  BY <1>1, ScopeInitHolds, PTL DEF ScopeSpec

LEMMA UnchangedMeansSame ==
    ASSUME ScopeInv, reading # NotReading, SourceUnchanged
    PROVE  reading.rows = ScopedInteractions(reading.target)
<1> DEFINE t == reading.target
           now == ScopedInteractions(t)
<1>1. ReadingNoted /\ ReadingCovers /\ TalkTyped
  BY DEF ScopeInv
<1>2. /\ t \in Offer \cup Wish
      /\ reading.source.scope = ScopeIdentity(t)
      /\ reading.source.summary = InteractionSummary(t)
  BY <1>1 DEF ReadingNoted, SourceUnchanged, SourceOf
<1>3. /\ Len(talk) \in Nat
      /\ reading.rows \in SUBSET (1..Len(talk))
      /\ now \in SUBSET (1..Len(talk))
  BY <1>1 DEF ReadingNoted, TalkTyped, ScopedInteractions
<1>4. now = {} => InteractionSummary(t) = <<0>>
  BY DEF InteractionSummary
<1>5. now # {} => \E hour : InteractionSummary(t) = <<Cardinality(now), hour, Max(now)>>
  BY DEF InteractionSummary
<1>6. \A i \in now : InScopeOf(ScopeIdentity(t), talk[i])
  BY <1>2, ScopeByIdentity DEF ScopedInteractions
<1> HIDE DEF now, t
<1>7. CASE reading.rows = {}
  <2>1. InteractionSummary(t) = <<0>>
    BY <1>1, <1>2, <1>7 DEF ReadingNoted
  <2> QED
    BY <1>5, <1>7, <2>1 DEF now, t
<1>8. CASE reading.rows # {}
  <2>1. PICK hour : InteractionSummary(t) =
                        <<Cardinality(reading.rows), hour, Max(reading.rows)>>
    BY <1>1, <1>2, <1>8 DEF ReadingNoted
  <2>2. now # {}
    BY <1>4, <2>1
  <2>3. Max(now) = Max(reading.rows) /\ Cardinality(now) = Cardinality(reading.rows)
    BY <1>5, <2>1, <2>2
  <2>4. \A i \in now : i <= Max(now)
    BY <1>3, <2>2, GreatestOfSet
  <2>5. now \subseteq reading.rows
    <3> SUFFICES ASSUME NEW i \in now PROVE i \in reading.rows
      OBVIOUS
    <3>1. i \in 1..Len(talk) /\ i <= Max(reading.rows)
      BY <1>3, <2>3, <2>4
    <3>2. InScopeOf(reading.source.scope, talk[i])
      BY <1>2, <1>6
    <3> QED
      BY <1>1, <1>8, <3>1, <3>2 DEF ReadingCovers
  <2>6. IsFiniteSet(reading.rows)
    <3>1. IsFiniteSet(1..Len(talk))
      BY <1>3, FS_Interval
    <3> QED
      BY <1>3, <3>1, FS_Subset
  <2>7. reading.rows = now
    BY <2>3, <2>5, <2>6, FS_Subset
  <2> QED
    BY <2>7 DEF now, t
<1> QED
  BY <1>7, <1>8

LEMMA SidesApart ==
    ASSUME ScopeInv, reading # NotReading, NEW t \in Offer \cup Wish,
           (t \in Offer) # (reading.target \in Offer)
    PROVE  reading.rows \cap ScopedInteractions(t) = {}
<1>1. \A i \in reading.rows :
          talk[i].on.wish = IF reading.target \in Wish THEN reading.target ELSE Nil
  BY DEF ScopeInv, ReadingNoted
<1>2. \A i \in ScopedInteractions(t) : talk[i].on.wish = IF t \in Wish THEN t ELSE Nil
  BY DEF ScopedInteractions, InScope
<1>3. reading.target \in Offer \cup Wish
  BY DEF ScopeInv, ReadingNoted
<1> QED
  BY <1>1, <1>2, <1>3, ScopeAssumption DEF ScopeAssumption

(* A stage that finds its source unchanged has shown the model the very logs
   that are in scope now, and never those of the other side.                 *)
THEOREM SameLogs == ScopeSpec => []SameSourceSameLogs
<1>1. ScopeInv => SameSourceSameLogs
  BY UnchangedMeansSame, SidesApart DEF SameSourceSameLogs
<1> QED
  BY <1>1, ScopeInvariance, PTL

-----------------------------------------------------------------------------
(* The cards and the judgment                                                *)

(* A call that has begun, while it waits and while it streams. *)
OpenCall == [pc : {"queued", "streaming"}, attempt : Nat,
             complaint : ErrorReplies \cup {"answer", NotSet}, left : Int]

GenerationTyped ==
    /\ generation \in [Calls -> OpenCall \cup [pc : {"idle", "done", "failed"}]]
    /\ analysisOf = [c \in Cards |-> analysisOf[c]]

(* A card quotes its own log, and says the deadline that the ledger knows. *)
CardGrounded(c, x) ==
    /\ x.deadline \in {NotSet, DeadlineSignal[c]}
    /\ \A e \in EvidenceIn(x) : IsQuote(e) => e.log = c /\ e.text \in Said[c]

(* An accepted card is final. *)
CardsFinal ==
    \A c \in Cards : analysisOf[c] # NotSet =>
        generation[c].pc = "done" /\ CardGrounded(c, analysisOf[c])

EachOnce(v) ==
    /\ \A c \in CandidateCards : Cardinality({x \in v : x.card = c}) = 1
    /\ \E f \in [v -> 1 .. Cardinality(CandidateCards)] :
          \A x, y \in v : f[x] = x.rank /\ (x # y => f[x] # f[y])

(* What is in a judgment is in the card it was taken from. *)
FromCards(v) ==
    \A x \in v :
        /\ x.card \in CandidateCards /\ (x.grade = "REJECTED") = x.reason
        /\ \A e \in x.evidence :
              /\ e.card \in {AnchorCard, x.card}
              /\ e.source \in EvidenceIn(analysisOf[e.card])

(* The judgment is over the final cards: once it has begun they are all there. *)
JudgmentHolds ==
    /\ generation[Judging].pc # "idle" => \A c \in Cards : analysisOf[c] # NotSet
    /\ generation[Judging].pc # "done" => verdict = NotSet /\ stored = {}
    /\ generation[Judging].pc = "done" =>
          EachOnce(verdict) /\ FromCards(verdict) /\ stored \in {{}, verdict}

GenerationInv == GenerationTyped /\ CardsFinal /\ JudgmentHolds

-----------------------------------------------------------------------------

LEMMA CardsAreCalls ==
    /\ Cards \subseteq Calls /\ Judging \in Calls /\ Judging \notin Cards
    /\ AnchorCard \notin CandidateCards
  BY GenerationAssumption DEF GenerationAssumption, Cards, Calls

LEMMA GenerationInitHolds == GenerationInit => GenerationInv
  BY CardsAreCalls DEF GenerationInit, GenerationInv, GenerationTyped, CardsFinal,
     JudgmentHolds, NotStarted

(* Calls that go on, or fail, accept nothing. *)
LEMMA CallsGoOn ==
    ASSUME GenerationInv, UNCHANGED <<analysisOf, verdict, stored>>,
           generation' \in [Calls -> OpenCall \cup [pc : {"idle", "done", "failed"}]],
           \A g \in Calls :
               \/ generation'[g].pc = generation[g].pc
               \/ /\ generation[g].pc \in {"queued", "streaming"}
                  /\ generation'[g].pc \notin {"idle", "done"}
               \/ generation[g].pc = "idle" /\ Ready(g) /\ generation'[g].pc # "done"
    PROVE  GenerationInv'
<1>1. GenerationTyped'
  BY DEF GenerationInv, GenerationTyped
<1>2. CardsFinal'
  BY CardsAreCalls DEF GenerationInv, CardsFinal, CardGrounded
<1>3. generation'[Judging].pc = "done" <=> generation[Judging].pc = "done"
  BY CardsAreCalls
<1>4. generation'[Judging].pc # "idle" => \A c \in Cards : analysisOf[c] # NotSet
  BY CardsAreCalls DEF GenerationInv, JudgmentHolds, Ready
<1>5. JudgmentHolds'
  BY <1>3, <1>4 DEF GenerationInv, JudgmentHolds, EachOnce, FromCards
<1> QED
  BY <1>1, <1>2, <1>5 DEF GenerationInv

LEMMA QueuedIsOpen ==
    ASSUME NEW n \in Nat, NEW m \in ErrorReplies \cup {"answer", NotSet}
    PROVE  Queued(n, m) \in OpenCall /\ Queued(n, m).pc = "queued"
  BY GenerationAssumption DEF GenerationAssumption, Queued, OpenCall

LEMMA BeginKeeps ==
    ASSUME GenerationInv, NEW g \in Calls, GenerateBegin(g)
    PROVE  GenerationInv'
<1>1. generation[g].pc = "idle" /\ Ready(g)
  BY DEF GenerateBegin, NotStarted
<1>2. PICK new : /\ generation' = [generation EXCEPT ![g] = new]
                 /\ new \in OpenCall \cup [pc : {"failed"}] /\ new.pc # "done"
  <2> DEFINE new == IF Usable THEN Queued(1, NotSet) ELSE EndedCall("failed")
  <2>1. new \in OpenCall \cup [pc : {"failed"}] /\ new.pc # "done"
    BY QueuedIsOpen DEF EndedCall
  <2>2. generation' = [generation EXCEPT ![g] = new]
    BY DEF GenerateBegin
  <2> HIDE DEF new
  <2> QED
    BY <2>1, <2>2
<1>3. generation' \in [Calls -> OpenCall \cup [pc : {"idle", "done", "failed"}]]
  BY <1>2 DEF GenerationInv, GenerationTyped
<1>4. \A k \in Calls : generation'[k] = IF k = g THEN new ELSE generation[k]
  BY <1>2 DEF GenerationInv, GenerationTyped
<1> QED
  BY <1>1, <1>2, <1>3, <1>4, CallsGoOn DEF GenerateBegin

LEMMA TakeSlotKeeps ==
    ASSUME GenerationInv, NEW g \in Calls, TakeSlot(g)
    PROVE  GenerationInv'
<1>1. generation[g].pc = "queued" /\ generation[g] \in OpenCall
  BY DEF TakeSlot, GenerationInv, GenerationTyped
<1>2. generation' = [generation EXCEPT ![g] = [generation[g] EXCEPT !.pc = "streaming"]]
  BY DEF TakeSlot
<1>3. /\ [generation[g] EXCEPT !.pc = "streaming"] \in OpenCall
      /\ [generation[g] EXCEPT !.pc = "streaming"].pc = "streaming"
  BY <1>1 DEF OpenCall
<1>4. generation' \in [Calls -> OpenCall \cup [pc : {"idle", "done", "failed"}]]
  BY <1>2, <1>3 DEF GenerationInv, GenerationTyped
<1>5. \A k \in Calls : generation'[k] =
          IF k = g THEN [generation[g] EXCEPT !.pc = "streaming"] ELSE generation[k]
  BY <1>2 DEF GenerationInv, GenerationTyped
<1> QED
  BY <1>1, <1>3, <1>4, <1>5, CallsGoOn DEF TakeSlot

LEMMA BudgetKeeps == GenerationInv /\ BudgetPasses => GenerationInv'
<1> SUFFICES ASSUME GenerationInv, BudgetPasses PROVE GenerationInv'
  OBVIOUS
<1>1. generation' = [g \in Calls |->
          IF generation[g].pc \in {"queued", "streaming"}
          THEN [generation[g] EXCEPT !.left = @ - 1] ELSE generation[g]]
  BY DEF BudgetPasses
<1>2. ASSUME NEW g \in Calls
      PROVE  /\ generation'[g].pc = generation[g].pc
             /\ generation'[g] \in OpenCall \cup [pc : {"idle", "done", "failed"}]
  <2>1. CASE generation[g].pc \in {"queued", "streaming"}
    <3>1. generation[g] \in OpenCall
      BY <2>1 DEF GenerationInv, GenerationTyped
    <3>2. generation'[g] = [generation[g] EXCEPT !.left = generation[g].left - 1]
      BY <1>1, <2>1
    <3>3. generation[g].left - 1 \in Int
      BY <3>1 DEF OpenCall
    <3> QED
      BY <3>1, <3>2, <3>3 DEF OpenCall
  <2>2. CASE generation[g].pc \notin {"queued", "streaming"}
    BY <1>1, <2>2 DEF GenerationInv, GenerationTyped
  <2> QED
    BY <2>1, <2>2
<1>3. generation' \in [Calls -> OpenCall \cup [pc : {"idle", "done", "failed"}]]
  BY <1>1, <1>2
<1> QED
  BY <1>2, <1>3, CallsGoOn DEF BudgetPasses

LEMMA AfterErrorKeeps ==
    ASSUME GenerationInv, NEW g \in Calls, NEW r \in ErrorReplies \cup {"answer"},
           generation[g].pc \in {"queued", "streaming"}, AfterError(g, r)
    PROVE  GenerationInv'
<1>1. generation[g].attempt + 1 \in Nat
  BY DEF GenerationInv, GenerationTyped, OpenCall
<1>2. PICK new : /\ generation' = [generation EXCEPT ![g] = new]
                 /\ new \in OpenCall \cup [pc : {"failed"}] /\ new.pc \notin {"idle", "done"}
  <2> DEFINE new == IF Repairable(r) /\ generation[g].attempt < RepairAttempts
                    THEN Queued(generation[g].attempt + 1, r) ELSE EndedCall("failed")
  <2>1. new \in OpenCall \cup [pc : {"failed"}] /\ new.pc \notin {"idle", "done"}
    BY <1>1, QueuedIsOpen DEF EndedCall
  <2>2. generation' = [generation EXCEPT ![g] = new]
    BY DEF AfterError
  <2> HIDE DEF new
  <2> QED
    BY <2>1, <2>2
<1>3. generation' \in [Calls -> OpenCall \cup [pc : {"idle", "done", "failed"}]]
  BY <1>2 DEF GenerationInv, GenerationTyped
<1>4. \A k \in Calls : generation'[k] = IF k = g THEN new ELSE generation[k]
  BY <1>2 DEF GenerationInv, GenerationTyped
<1> QED
  BY <1>2, <1>3, <1>4, CallsGoOn DEF AfterError

LEMMA CardAcceptedKeeps ==
    ASSUME GenerationInv, NEW c \in Cards, NEW a, ReplyAccepted(c, a)
    PROVE  GenerationInv'
<1>1. c \in Calls /\ c # Judging /\ generation[c].pc = "streaming"
  BY CardsAreCalls DEF ReplyAccepted
<1>2. /\ generation' = [generation EXCEPT ![c] = EndedCall("done")]
      /\ analysisOf' = [analysisOf EXCEPT ![c] = Analysis(c, a)]
      /\ UNCHANGED <<verdict, stored>>
  BY <1>1 DEF ReplyAccepted
<1>3. GenerationTyped'
  BY <1>1, <1>2 DEF GenerationInv, GenerationTyped, EndedCall
<1>4. /\ \A k \in Calls : generation'[k] = IF k = c THEN EndedCall("done") ELSE generation[k]
      /\ \A d \in Cards : analysisOf'[d] = IF d = c THEN Analysis(c, a) ELSE analysisOf[d]
  BY <1>2 DEF GenerationInv, GenerationTyped
<1>5. CardGrounded(c, Analysis(c, a))
  BY <1>1 DEF ReplyAccepted, Passes, CardMatches, QuoteInLog, CardGrounded
<1>6. CardsFinal'
  BY <1>4, <1>5, CardsAreCalls DEF GenerationInv, CardsFinal, EndedCall, CardGrounded
<1>7. analysisOf[c] = NotSet
  BY <1>1 DEF GenerationInv, CardsFinal
<1>8. generation[Judging].pc = "idle" /\ generation'[Judging] = generation[Judging]
  BY <1>1, <1>4, <1>7, CardsAreCalls DEF GenerationInv, JudgmentHolds
<1>9. JudgmentHolds'
  BY <1>2, <1>8 DEF GenerationInv, JudgmentHolds
<1> QED
  BY <1>3, <1>6, <1>9 DEF GenerationInv

(* The candidates of an answer that passes, counted. *)
LEMMA AnswerCounts ==
    ASSUME NEW a \in JudgmentAnswers, JudgmentAnswerParses(a), CandidateSetExact(a),
           RanksExact(a)
    PROVE  EachOnce(JudgedCandidates(a))
<1> DEFINE n == Len(a)
           v == JudgedCandidates(a)
           cardAt == [i \in 1..n |-> a[i].card]
           rankAt == [i \in 1..n |-> a[i].rank]
<1>1. n \in Nat /\ DOMAIN a = 1..n
  <2>1. a \in Seq(ToSet(a))
    BY GenerationAssumption DEF GenerationAssumption
  <2> QED
    BY <2>1
<1>2. v = {Candidate(a[i]) : i \in 1..n}
  BY <1>1 DEF JudgedCandidates
<1>3. \A i \in 1..n : Candidate(a[i]).card = a[i].card /\ Candidate(a[i]).rank = a[i].rank
  BY DEF Candidate
<1>4. \A i, j \in 1..n : a[i].card = a[j].card => i = j
  BY <1>1 DEF JudgmentAnswerParses
<1>5. CandidateCards = {a[i].card : i \in 1..n}
  <2>1. {x.card : x \in v} = CandidateCards
    BY DEF CandidateSetExact
  <2> HIDE DEF v, n
  <2> QED
    BY ONLY <1>2, <1>3, <2>1
<1>6. {a[i].rank : i \in 1..n} = 1..n
  <2>1. {x.rank : x \in v} = 1..n
    BY DEF RanksExact
  <2> HIDE DEF v, n
  <2> QED
    BY ONLY <1>2, <1>3, <2>1
<1> HIDE DEF v, n
<1>7. Cardinality(CandidateCards) = n
  <2>1. cardAt \in Bijection(1..n, CandidateCards)
    BY <1>4, <1>5 DEF Bijection, Injection, Surjection, IsInjective
  <2>2. ExistsBijection(1..n, CandidateCards)
    BY <2>1 DEF ExistsBijection
  <2> QED
    BY <1>1, <2>2, FS_CountingElements
<1>8. \A i, j \in 1..n : a[i].rank = a[j].rank => i = j
  <2>1. IsFiniteSet(1..n)
    BY <1>1, FS_Interval
  <2>2. rankAt \in Surjection(1..n, 1..n)
    BY <1>6 DEF Surjection
  <2>3. rankAt \in Injection(1..n, 1..n)
    <3> HIDE DEF rankAt
    <3> QED
      BY <2>1, <2>2, FS_SurjSameCardinalityImpliesInj
  <2> QED
    BY <2>3 DEF Injection, IsInjective
<1>9. ASSUME NEW c \in CandidateCards PROVE Cardinality({x \in v : x.card = c}) = 1
  <2>1. PICK i \in 1..n : a[i].card = c
    BY <1>5
  <2>2. {x \in v : x.card = c} = {Candidate(a[i])}
    BY <1>2, <1>3, <1>4, <2>1
  <2> QED
    BY <2>2, FS_Singleton
<1>10. \E f \in [v -> 1 .. Cardinality(CandidateCards)] :
           \A x, y \in v : f[x] = x.rank /\ (x # y => f[x] # f[y])
  <2> DEFINE f == [x \in v |-> x.rank]
  <2>1. \A x \in v : x.rank \in 1..n
    BY <1>2, <1>3, <1>6
  <2>2. \A x, y \in v : x # y => x.rank # y.rank
    BY <1>2, <1>3, <1>8
  <2>3. f \in [v -> 1..Cardinality(CandidateCards)]
    BY <1>7, <2>1
  <2>4. \A x, y \in v : f[x] = x.rank /\ (x # y => f[x] # f[y])
    BY <2>2
  <2> HIDE DEF f
  <2> QED
    BY <2>3, <2>4
<1> QED
  BY <1>9, <1>10 DEF EachOnce, v

LEMMA AnswerFromCards ==
    ASSUME NEW a, JudgmentMatches(a)
    PROVE  FromCards(JudgedCandidates(a))
<1> SUFFICES ASSUME NEW i \in DOMAIN a
             PROVE  /\ a[i].card \in CandidateCards /\ (a[i].grade = "REJECTED") = a[i].reason
                    /\ \A e \in a[i].refs :
                          /\ e.card \in {AnchorCard, a[i].card}
                          /\ e.source \in EvidenceIn(analysisOf[e.card])
  BY DEF FromCards, JudgedCandidates, Candidate
<1>1. Candidate(a[i]).card \in CandidateCards
  BY DEF JudgmentMatches, CandidateSetExact, JudgedCandidates
<1>2. a[i].card \in CandidateCards
  BY <1>1 DEF Candidate
<1>3. (a[i].grade = "REJECTED") = a[i].reason
  BY DEF JudgmentMatches, RejectionExplained, Candidate
<1>4. ASSUME NEW e \in a[i].refs
      PROVE  e.card \in {AnchorCard, a[i].card} /\ e.source \in EvidenceIn(analysisOf[e.card])
  <2>1. e \in EvidenceCatalog /\ ~ForeignRef(e, a[i])
    BY DEF JudgmentMatches, RefsResolve
  <2>2. PICK c \in Cards : \E s \in EvidenceIn(analysisOf[c]) : e = [card |-> c, source |-> s]
    BY <2>1 DEF EvidenceCatalog
  <2> QED
    BY <2>1, <2>2 DEF ForeignRef
<1> QED
  BY <1>2, <1>3, <1>4

LEMMA JudgmentAcceptedKeeps ==
    ASSUME GenerationInv, NEW a \in JudgmentAnswers, ReplyAccepted(Judging, a)
    PROVE  GenerationInv'
<1>1. /\ generation[Judging].pc = "streaming"
      /\ generation' = [generation EXCEPT ![Judging] = EndedCall("done")]
      /\ verdict' = JudgedCandidates(a) /\ UNCHANGED <<analysisOf, stored>>
  BY DEF ReplyAccepted
<1>2. GenerationTyped'
  BY <1>1, CardsAreCalls DEF GenerationInv, GenerationTyped, EndedCall
<1>3. \A k \in Calls : generation'[k] = IF k = Judging THEN EndedCall("done") ELSE generation[k]
  BY <1>1 DEF GenerationInv, GenerationTyped
<1>4. CardsFinal'
  BY <1>1, <1>3, CardsAreCalls DEF GenerationInv, CardsFinal, CardGrounded
<1>5. JudgmentAnswerParses(a) /\ JudgmentMatches(a)
  BY DEF ReplyAccepted, Passes
<1>6. EachOnce(verdict')
  BY <1>1, <1>5, AnswerCounts DEF JudgmentMatches
<1>7. FromCards(JudgedCandidates(a))
  BY <1>5, AnswerFromCards
<1>8. FromCards(verdict)'
  BY <1>1, <1>7 DEF FromCards
<1>9. stored' = {} /\ \A c \in Cards : analysisOf'[c] # NotSet
  BY <1>1 DEF GenerationInv, JudgmentHolds
<1>10. generation'[Judging].pc = "done"
  BY <1>3, CardsAreCalls DEF EndedCall
<1>11. JudgmentHolds'
  BY <1>6, <1>8, <1>9, <1>10 DEF JudgmentHolds, EachOnce
<1> QED
  BY <1>2, <1>4, <1>11 DEF GenerationInv

(* The offsets of a quotation are looked up on a side, and found. *)
LEMMA QuotesFound ==
    ASSUME GenerationInv, FromCards(verdict), NEW x \in verdict, NEW e \in x.evidence,
           IsQuote(e.source)
    PROVE  [log |-> e.source.log, text |-> e.source.text] \in QuotesOfSide(e.card)
<1>1. /\ x.card \in CandidateCards /\ e.card \in {AnchorCard, x.card}
      /\ e.source \in EvidenceIn(analysisOf[e.card])
  BY DEF FromCards
<1>2. [log |-> e.source.log, text |-> e.source.text] \in QuoteRows(e.card)
  BY <1>1 DEF QuoteRows
<1> QED
  BY <1>1, <1>2 DEF QuotesOfSide

LEMMA StoreVerdictKeeps == GenerationInv /\ StoreVerdict => GenerationInv'
<1> SUFFICES ASSUME GenerationInv, StoreVerdict PROVE GenerationInv'
  OBVIOUS
<1>1. /\ UNCHANGED <<route, generation, streaming, analysisOf, verdict>>
      /\ verdict # NotSet
  BY DEF StoreVerdict
<1>2. generation[Judging].pc = "done" /\ FromCards(verdict)
  BY <1>1 DEF GenerationInv, JudgmentHolds
<1>3. stored' = verdict
  BY <1>2, QuotesFound DEF StoreVerdict
<1> QED
  BY <1>1, <1>2, <1>3 DEF GenerationInv, GenerationTyped, CardsFinal, CardGrounded,
     JudgmentHolds, EachOnce, FromCards

LEMMA GenerationStep == GenerationInv /\ [GenerationNext]_generationVars => GenerationInv'
<1> SUFFICES ASSUME GenerationInv, [GenerationNext]_generationVars PROVE GenerationInv'
  OBVIOUS
<1>1. CASE BudgetPasses
  BY <1>1, BudgetKeeps
<1>2. CASE StoreVerdict
  BY <1>2, StoreVerdictKeeps
<1>3. ASSUME NEW g \in Calls, GenerateBegin(g) PROVE GenerationInv'
  BY <1>3, BeginKeeps
<1>4. ASSUME NEW g \in Calls, TakeSlot(g) PROVE GenerationInv'
  BY <1>4, TakeSlotKeeps
<1>5. ASSUME NEW g \in Calls, BudgetEnds(g) PROVE GenerationInv'
  BY <1>5, AfterErrorKeeps DEF BudgetEnds, ErrorReplies
<1>6. ASSUME NEW g \in Calls, NEW r \in ErrorReplies, ReplyError(g, r) PROVE GenerationInv'
  BY <1>6, AfterErrorKeeps DEF ReplyError
<1>7. ASSUME NEW g \in Calls, ReplyRejected(g) PROVE GenerationInv'
  BY <1>7, AfterErrorKeeps DEF ReplyRejected
<1>8. ASSUME NEW g \in Calls, NEW a \in AnswersTo(g), ReplyAccepted(g, a) PROVE GenerationInv'
  <2>1. CASE g = Judging
    BY <1>8, <2>1, JudgmentAcceptedKeeps DEF AnswersTo
  <2>2. CASE g \in Cards
    BY <1>8, <2>2, CardAcceptedKeeps
  <2> QED
    BY <2>1, <2>2 DEF Calls
<1>9. CASE UNCHANGED generationVars
  BY <1>9 DEF generationVars, GenerationInv, GenerationTyped, CardsFinal, CardGrounded,
     JudgmentHolds, EachOnce, FromCards
<1> QED
  BY <1>1, <1>2, <1>3, <1>4, <1>5, <1>6, <1>7, <1>8, <1>9 DEF GenerationNext

-----------------------------------------------------------------------------

(* Accepted cards are final and grounded, and the judgment over them counts
   every candidate once.                                                     *)
THEOREM GenerationInvariance == GenerationSpec => []GenerationInv
<1>1. GenerationInv /\ [GenerationNext]_generationVars => GenerationInv'
  BY GenerationStep
<1> QED
  BY <1>1, GenerationInitHolds, PTL DEF GenerationSpec

LEMMA GroundedByCards == GenerationInv => StoredIsGrounded
<1> SUFFICES ASSUME GenerationInv PROVE StoredIsGrounded
  OBVIOUS
<1>1. \A c \in Cards : analysisOf[c] # NotSet => CardGrounded(c, analysisOf[c])
  BY DEF GenerationInv, CardsFinal
<1>2. ASSUME stored # {}
      PROVE  /\ stored = verdict /\ EachOnce(stored) /\ FromCards(stored)
             /\ \A c \in Cards : analysisOf[c] # NotSet
  BY <1>2 DEF GenerationInv, JudgmentHolds
<1>3. ASSUME stored # {}, NEW x \in stored, NEW e \in x.evidence, IsQuote(e.source)
      PROVE  e.source.text \in Said[e.card]
  <2>1. e.card \in Cards /\ e.source \in EvidenceIn(analysisOf[e.card])
    BY <1>2, <1>3 DEF FromCards, Cards
  <2> QED
    BY <1>1, <1>2, <1>3, <2>1 DEF CardGrounded
<1>4. \A c \in Cards : analysisOf[c] # NotSet =>
          /\ analysisOf[c].deadline \in {NotSet, DeadlineSignal[c]}
          /\ \A e \in EvidenceIn(analysisOf[c]) : IsQuote(e) => e.log = c /\ e.text \in Said[c]
  BY <1>1 DEF CardGrounded
<1>5. stored # {} =>
          /\ stored = verdict
          /\ \A c \in CandidateCards : Cardinality({x \in stored : x.card = c}) = 1
          /\ \E f \in [stored -> 1 .. Cardinality(CandidateCards)] :
                \A x, y \in stored : f[x] = x.rank /\ (x # y => f[x] # f[y])
  BY <1>2 DEF EachOnce
<1>6. stored # {} => \A x \in stored :
          /\ x.card \in CandidateCards /\ (x.grade = "REJECTED") = x.reason
          /\ \A e \in x.evidence : e.card \in {AnchorCard, x.card}
                /\ (IsQuote(e.source) => e.source.text \in Said[e.card])
  BY <1>2, <1>3 DEF FromCards
<1> QED
  BY <1>4, <1>5, <1>6 DEF StoredIsGrounded

(* What is stored is grounded: a quotation leads through the card it was taken
   from into a log of the anchor or of the candidate it speaks of.           *)
THEOREM Grounded == GenerationSpec => []StoredIsGrounded
  BY GroundedByCards, GenerationInvariance, PTL

-----------------------------------------------------------------------------
(* The union *)

\* A behaviour of the union, seen by any of its components, is one of that
\* component: what TLC checks of the union it checks of each of them, and what
\* is proved of a component holds in the union.
THEOREM UnionOfComponents ==
    BrokerageSpec =>
        /\ SelectionSpec
        /\ GenerationSpec
        /\ ChatQuerySpec
        /\ ScopeSpec
        /\ SearchSpec
        /\ ResultsSpec
<1>1. BrokerageInit =>
          /\ SelectionInit
          /\ GenerationInit
          /\ ChatQueryInit
          /\ ScopeInit
          /\ SearchInit
          /\ ResultsInit
    BY DEF BrokerageInit
<1>2. ASSUME [BrokerageNext]_<<focus, selectionVars, generationVars, chatQueryVars, scopeVars,
                               searchVars, resultVars>>
      PROVE  /\ [SelectionNext]_selectionVars
             /\ [GenerationNext]_generationVars
             /\ [ChatQueryNext]_chatQueryVars
             /\ [ScopeNext]_scopeVars
             /\ [SearchNext]_searchVars
             /\ [ResultsNext]_resultVars
    BY <1>2 DEF BrokerageNext, Only
<1>3. BrokerageSpec => SelectionSpec
    BY <1>1, <1>2, PTL DEF BrokerageSpec, SelectionSpec
<1>4. BrokerageSpec => GenerationSpec
    BY <1>1, <1>2, PTL DEF BrokerageSpec, GenerationSpec
<1>5. BrokerageSpec => ChatQuerySpec
    BY <1>1, <1>2, PTL DEF BrokerageSpec, ChatQuerySpec
<1>6. BrokerageSpec => ScopeSpec
    BY <1>1, <1>2, PTL DEF BrokerageSpec, ScopeSpec
<1>7. BrokerageSpec => SearchSpec
    BY <1>1, <1>2, PTL DEF BrokerageSpec, SearchSpec
<1>8. BrokerageSpec => ResultsSpec
    BY <1>1, <1>2, PTL DEF BrokerageSpec, ResultsSpec
<1> QED
    BY <1>3, <1>4, <1>5, <1>6, <1>7, <1>8

=============================================================================
