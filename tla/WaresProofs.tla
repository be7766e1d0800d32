---------------------------- MODULE WaresProofs -----------------------------
(***************************************************************************)
(* Proofs about the messages, the reports and the outside services of      *)
(* Wares: for any requests, gateways, keys, parcels, rows, readers, orders *)
(* and bounds.  Only the part at work takes a step, so each part has an    *)
(* invariant of its own:                                                   *)
(*                                                                         *)
(*   TombInv      who deleted a row has its word kept, and what is stored  *)
(*                names transactions that were                             *)
(*   CourierInv   each parcel of the order is the shipment, one about to be*)
(*                stored, or has an excuse                                 *)
(*   LoginInv     a call under way has the account's credentials unless    *)
(*                they changed, and a write was not carried out yet        *)
(*   KeysInv      what is about to be told of a key has happened, and is   *)
(*                not told of yet                                          *)
(*   SecretsInv   what the script has read is what was entered, but for the*)
(*                rows saved since                                         *)
(*   NoticeInv    one worker fans an event out, what it has yet to send was*)
(*                not sent, and it rang the bell first                     *)
(*   NewsInv      the dispatch has passed whom it gave a row, and has whom *)
(*                it did not in front of it                                *)
(*   AlertInv     one more alert is due only while the stock it is about is*)
(*                there                                                    *)
(*   FigureInv    what was answered is what would be, but for what happened*)
(*                since                                                    *)
(***************************************************************************)
EXTENDS Wares, FiniteSetTheorems, TLAPS

\* Only the part at work takes a step.
LEMMA OneAtWork ==
  ASSUME [WaresNext]_waresVars
  PROVE  /\ [GatewayNext \/ MailNext]_secretsVars
         /\ [CourierNext]_courierVars /\ [LoginNext]_loginVars
         /\ [KeyNext]_keyVars /\ [TombNext]_tombVars /\ UNCHANGED focus
         /\ [NoticeNext]_noticeVars /\ [NewsletterNext]_newsletterVars
         /\ [AlertNext]_alertVars /\ [FigureNext]_figureVars
<1>1. CASE UNCHANGED waresVars
  BY <1>1 DEF waresVars
<1>2. CASE WaresNext
  BY <1>2 DEF WaresNext, Apart
<1> QED BY <1>1, <1>2

-----------------------------------------------------------------------------
(***************************************************************************)
(* The rows of a table whose deletes are soft.                             *)
(***************************************************************************)
\* Who deleted a row has its word kept: the row is deleted, or the transaction made it itself.
Deleted(t, row) == row.is \in {"dead", "gone"} \/ (filtering /\ row.maker = t)
Known(t) == t = 0 \/ t = unit.id \/ fates[t] # "none"
ByBase(row) == filtering /\ row.means = "base"
UnitFits ==
  /\ unit.id # 0 => fates[unit.id] = "none"
  /\ unit.id = 0 => \A r \in Records : ~Held(r)
  /\ rewrite = NotSent \/ /\ filtering /\ rewrite.of # 0 /\ rewrite.rows # {}
                          /\ rewrite.of = unit.id \/ fates[rewrite.of] = "rolled back"
\* What is stored of a row, and what the transaction under way has made of it.
StoredFits(r) ==
  /\ record[r].is # "same" /\ (filtering => record[r].is # "gone")
  /\ record[r].is = "unborn" => record[r].by = 0
  /\ Known(record[r].by)
  /\ record[r].is = "gone" /\ record[r].by # 0 => fates[record[r].by] = "committed"
  /\ record[r].by # 0 /\ (record[r].by = unit.id \/ fates[record[r].by] = "rolled back") => ByBase(record[r])
OwnFits(r) ==
  Held(r) =>
    /\ unit.own[r].is \in {"live", "dead", "gone"} /\ (filtering => unit.own[r].is # "gone")
    /\ filtering /\ ~Stored(record[r]) => unit.own[r].maker = unit.id
    /\ Known(unit.own[r].by)
    /\ unit.own[r].is = "gone" => unit.own[r].by = unit.id
    /\ unit.own[r].by # 0 /\ fates[unit.own[r].by] = "rolled back" => ByBase(unit.own[r])
OwedFits(r) ==
  LET t == owed[r] IN
  /\ Known(t)
  /\ t # 0 /\ fates[t] = "committed" => Deleted(t, record[r]) /\ Deleted(t, Overlaid[r])
  /\ t # 0 /\ t = unit.id => \/ Deleted(t, Overlaid[r])
                             \/ /\ rewrite.of = t /\ r \in rewrite.rows
                                /\ Stored(record[r]) \/ (filtering /\ Overlaid[r].maker = t)
TxIds   == 1 .. MaxTxs
TxNames == 0 .. MaxTxs
Fates   == {"none", "committed", "rolled back"}
TombTyped ==
  /\ filtering \in BOOLEAN /\ record \in [Records -> RecordRows] /\ strokes \in 0 .. MaxStrokes
  /\ unit \in [id : TxNames, own : [Records -> RecordRows]]
  /\ rewrite \in [of : TxNames, rows : SUBSET Records, many : BOOLEAN]
  /\ fates \in [TxIds -> Fates]
  /\ owed \in [Records -> TxNames]
TombInv == /\ TombTyped /\ UnitFits
           /\ \A r \in Records : StoredFits(r) /\ OwnFits(r) /\ OwedFits(r)

\* Transaction 0 stands for none.
LEMMA ZeroTx == 0 \in TxNames /\ 0 \in 0 .. MaxStrokes /\ MaxStrokes \in Nat /\ TxNames \subseteq Nat
BY TombstoneConstantsOK DEF TxNames
LEMMA TxNamed == TxNames = TxIds \cup {0}
BY TombstoneConstantsOK DEF TxNames, TxIds
LEMMA RowsTyped == TombTypeOK <=> TombTyped
BY DEF TombTypeOK, TombTyped, TxIds, TxNames, Fates
LEMMA RowKinds == RecordRows = [is : {"unborn", "live", "dead", "gone", "same"}, maker : TxNames, by : TxNames,
          means : {"none", "own", "base"}]
BY DEF RecordRows, TxNames

\* The rows of the table before there are any.
LEMMA RowsStart == TombInit => TombInv
<1> SUFFICES ASSUME TombInit PROVE TombInv
  OBVIOUS
<1> USE ZeroTx
<1>1. Unborn \in RecordRows /\ Same \in RecordRows /\ 0 \in TxNames /\ 0 \in 0 .. MaxStrokes
  BY RowKinds DEF Unborn, Same
<1>2. unit \in [id : TxNames, own : [Records -> RecordRows]]
  BY <1>1 DEF TombInit, NoUnit
<1>3. rewrite \in [of : TxNames, rows : SUBSET Records, many : BOOLEAN]
  BY <1>1 DEF TombInit, NotSent
<1>4. TombTyped
  BY <1>1, <1>2, <1>3 DEF TombInit, TombTyped, Outside, TxIds, Fates
<1>5. UnitFits
  BY DEF TombInit, UnitFits, NoUnit, Held
<1>6. \A r \in Records : StoredFits(r) /\ OwnFits(r) /\ OwedFits(r)
  BY DEF TombInit, StoredFits, OwnFits, OwedFits, NoUnit, Held, Unborn, Known, Outside
<1> QED BY <1>4, <1>5, <1>6 DEF TombInv

\* A row that is marked, removed or given another state is a row.
MarkedAs(new, row, t, means) ==
  /\ new = Marked(row, t, means)
  /\ new.is = "dead" /\ new.by = t /\ new.means = means /\ new.maker = row.maker
RemovedAs(new, row, t) ==
  /\ new = Removed(row, t)
  /\ new.is = "gone" /\ new.by = t /\ new.means = "own" /\ new.maker = row.maker
LEMMA RowMarked ==
  \A row \in RecordRows, t \in TxNames, means \in {"own", "base"} : \E new \in RecordRows : MarkedAs(new, row, t, means)
<1> SUFFICES ASSUME NEW row \in RecordRows, NEW t \in TxNames, NEW means \in {"own", "base"}
             PROVE  \E new \in RecordRows : MarkedAs(new, row, t, means)
  OBVIOUS
<1> DEFINE new == Marked(row, t, means)
<1>1. new \in RecordRows
  BY RowKinds DEF Marked
<1>2. MarkedAs(new, row, t, means)
  BY RowKinds DEF Marked, MarkedAs
<1> HIDE DEF new
<1> QED BY <1>1, <1>2
LEMMA RowRemoved ==
  \A row \in RecordRows, t \in TxNames : \E new \in RecordRows : RemovedAs(new, row, t)
<1> SUFFICES ASSUME NEW row \in RecordRows, NEW t \in TxNames PROVE \E new \in RecordRows : RemovedAs(new, row, t)
  OBVIOUS
<1> DEFINE new == Removed(row, t)
<1>1. new \in RecordRows
  BY RowKinds DEF Removed
<1>2. RemovedAs(new, row, t)
  BY RowKinds DEF Removed, RemovedAs
<1> HIDE DEF new
<1> QED BY <1>1, <1>2
LEMMA RowTurned ==
  ASSUME NEW row \in RecordRows, NEW is \in {"live", "dead"}
  PROVE  \E new \in RecordRows : /\ new = [row EXCEPT !.is = is]
                                /\ new.is = is /\ new.by = row.by
                                /\ new.means = row.means /\ new.maker = row.maker
<1> DEFINE new == [is |-> is, maker |-> row.maker, by |-> row.by, means |-> row.means]
<1>1. new \in RecordRows
  BY RowKinds
<1>2. new = [row EXCEPT !.is = is]
  BY RowKinds
<1> QED BY <1>1, <1>2

\* What a row becomes by hand, within a transaction or outside of one.
ByHand(row, t, is) == IF is = "dead" THEN Marked(row, t, "own") ELSE [row EXCEPT !.is = is]
HandMade(new, row, t, is) ==
  /\ new = ByHand(row, t, is) /\ new.is = is /\ new.maker = row.maker
  /\ \/ is = "dead" /\ new.by = t
     \/ is = "live" /\ new.by = row.by /\ new.means = row.means
LEMMA RowByHand ==
  \A row \in RecordRows, t \in TxNames, is \in {"live", "dead"} : \E new \in RecordRows : HandMade(new, row, t, is)
<1> SUFFICES ASSUME NEW row \in RecordRows, NEW t \in TxNames, NEW is \in {"live", "dead"}
             PROVE  \E new \in RecordRows : HandMade(new, row, t, is)
  OBVIOUS
<1>1. CASE is = "dead"
  BY <1>1, RowMarked DEF ByHand, HandMade, MarkedAs
<1>2. CASE is = "live"
  BY <1>2, RowTurned DEF ByHand, HandMade
<1> QED BY <1>1, <1>2

\* What a transaction sees of a row.
LEMMA Sights ==
  ASSUME TombTyped
  PROVE  \A r \in Records : /\ Overlaid[r] = IF Held(r) THEN unit.own[r] ELSE record[r]
                            /\ Overlaid[r] \in RecordRows
BY DEF TombTyped, Overlaid, Held

\* Statements outside of a transaction touch rows it has not written.
LEMMA StrokesFit ==
  ASSUME TombInv, NEW rows \in SUBSET Records, Stroke(rows),
         record' \in [Records -> RecordRows],
         \A r \in rows : \/ record'[r] = record[r]
                         \/ /\ ~Held(r) /\ StoredFits(r)'
         , \A r \in Records \ rows : record'[r] = record[r]
  PROVE  TombInv'
<1> USE ZeroTx
<1>1. TombTyped'
  <2>1. 0 \in TxNames
    OBVIOUS
  <2>2. owed' \in [Records -> TxNames]
    BY <2>1 DEF TombInv, TombTyped, Stroke, Outside
  <2>3. strokes' \in 0 .. MaxStrokes
    BY DEF TombInv, TombTyped, Stroke
  <2> QED BY <2>2, <2>3 DEF TombInv, TombTyped, Stroke
<1>2. UnitFits'
  BY DEF TombInv, UnitFits, Stroke, Held, NotSent
<1>3. ASSUME NEW r \in Records PROVE (StoredFits(r) /\ OwnFits(r) /\ OwedFits(r))'
  <2>1. StoredFits(r)'
    BY DEF TombInv, StoredFits, Stroke, Known, ByBase
  <2>2. OwnFits(r)'
    BY DEF TombInv, OwnFits, Stroke, Held, Known, Stored, ByBase
  <2>3. CASE r \in rows
    BY <2>1, <2>2, <2>3 DEF OwedFits, Stroke, Outside, Known
  <2>4. CASE r \notin rows
    <3>1. record'[r] = record[r] /\ owed'[r] = owed[r] /\ Overlaid'[r] = Overlaid[r]
      BY <2>4 DEF Stroke, Overlaid, Held, TombInv, TombTyped
    <3>2. OwedFits(r)'
      BY <3>1 DEF TombInv, OwedFits, Stroke, Known, Deleted, Stored
    <3> QED BY <2>1, <2>2, <3>2
  <2> QED BY <2>3, <2>4
<1> QED BY <1>1, <1>2, <1>3 DEF TombInv

\* A row is created, or its deletion set by hand.
LEMMA RecordsChange ==
  ASSUME TombInv, NEW r \in Records,
         CreateRecord(r) \/ \E is \in {"live", "dead"} : UpdateRecord(r, is)
  PROVE  TombInv'
<1> USE ZeroTx DEF TombInv, TombTyped
<1>1. CASE CreateRecord(r)
  <2>0. 0 \in TxNames
    OBVIOUS
  <2>1. /\ Unborn \in RecordRows /\ [Unborn EXCEPT !.is = "live"] \in RecordRows
        /\ Unborn.by = 0
    BY <2>0, RowKinds DEF Unborn
  <2>2. Stroke({r}) /\ ~Held(r) /\ record' = [record EXCEPT ![r] = [Unborn EXCEPT !.is = "live"]]
    BY <1>1 DEF CreateRecord
  <2>3. StoredFits(r)'
    BY <2>1, <2>2 DEF StoredFits, Stroke, Known, Unborn
  <2>4. record' \in [Records -> RecordRows]
    BY <2>1, <2>2
  <2> QED BY <2>2, <2>3, <2>4, StrokesFit
<1>2. ASSUME NEW is \in {"live", "dead"}, UpdateRecord(r, is) PROVE TombInv'
  <2>0. 0 \in TxNames /\ record[r] \in RecordRows
    OBVIOUS
  <2>1. PICK new \in RecordRows : HandMade(new, record[r], 0, is)
    BY <2>0, RowByHand
  <2>2. Stroke({r}) /\ ~Held(r) /\ Stored(record[r]) /\ record' = [record EXCEPT ![r] = new]
    BY <1>2, <2>1 DEF UpdateRecord, ByHand, HandMade, Outside
  <2>3. record' \in [Records -> RecordRows] /\ record'[r] = new
    BY <2>2
  <2>4. StoredFits(r)'
    BY <2>1, <2>2, <2>3 DEF StoredFits, Stroke, Known, ByBase, HandMade
  <2> QED BY <2>2, <2>3, <2>4, StrokesFit
<1> QED BY <1>1, <1>2

\* Rows are deleted outside of a transaction.
LEMMA RecordsGo ==
  ASSUME TombInv, NEW rows \in SUBSET Records, NEW many \in BOOLEAN, DeleteRecords(rows, many)
  PROVE  TombInv'
<1> USE ZeroTx DEF TombInv, TombTyped
<1>1. Stroke(rows) /\ \A r \in rows : ~Held(r)
  BY DEF DeleteRecords, Unlocked
<1>2. \A r \in Records :
        \/ record'[r] = record[r]
        \/ r \in rows /\ filtering /\ record'[r] = Marked(record[r], Outside, "base")
        \/ r \in rows /\ ~filtering /\ record'[r] = Removed(record[r], Outside)
  BY DEF DeleteRecords, Rewritten
<1>3. record' = [r \in Records |-> record'[r]]
  BY DEF DeleteRecords, Rewritten
<1>0. 0 \in TxNames
  OBVIOUS
<1>7. ASSUME NEW r \in Records
      PROVE  /\ record'[r] \in RecordRows
             /\ record'[r] # record[r] => record'[r].by = 0 /\ record'[r].is \in {"dead", "gone"}
             /\ record'[r] # record[r] /\ filtering => record'[r].is = "dead"
  <2>1. record[r] \in RecordRows
    OBVIOUS
  <2>2. CASE record'[r] = Marked(record[r], 0, "base") /\ filtering
    <3>1. PICK new \in RecordRows : MarkedAs(new, record[r], 0, "base")
      BY <2>1, <1>0, RowMarked
    <3> QED BY <2>2, <3>1 DEF MarkedAs
  <2>3. CASE record'[r] = Removed(record[r], 0) /\ ~filtering
    <3>1. PICK new \in RecordRows : RemovedAs(new, record[r], 0)
      BY <2>1, <1>0, RowRemoved
    <3> QED BY <2>3, <3>1 DEF RemovedAs
  <2> QED BY <2>1, <2>2, <2>3, <1>2 DEF Outside
<1>4. record' \in [Records -> RecordRows]
  BY <1>7, <1>3
<1>5. ASSUME NEW r \in rows, record'[r] # record[r] PROVE StoredFits(r)'
  <2>1. record'[r].by = 0 /\ record'[r].is \in {"dead", "gone"} /\ (filtering => record'[r].is = "dead")
    BY <1>5, <1>7
  <2> QED BY <2>1, <1>1 DEF StoredFits, Stroke, Known
<1> QED BY <1>1, <1>2, <1>4, <1>5, StrokesFit

\* A transaction is opened, or rolled back.
LEMMA UnitOpens ==
  ASSUME TombInv, OpenUnit
  PROVE  TombInv'
<1> USE ZeroTx DEF TombInv
<1>1. PICK t \in TxIds : fates[t] = "none" /\ unit' = [NoUnit EXCEPT !.id = t]
  BY DEF OpenUnit, TxIds
<1>2. t # 0 /\ t \in TxNames
  BY <1>1, TombstoneConstantsOK DEF TxIds, TxNames
<1>3. /\ unit'.id = t /\ \A r \in Records : unit'.own[r] = Same
      /\ unit' \in [id : TxNames, own : [Records -> RecordRows]]
  <2>1. Same \in RecordRows
    BY RowKinds DEF Same
  <2> QED BY <1>1, <1>2, <2>1 DEF NoUnit
<1>4. TombTyped'
  BY <1>3 DEF TombTyped, OpenUnit
<1>5. unit.id = 0 /\ UNCHANGED <<filtering, record, rewrite, fates, owed, strokes>>
  BY DEF OpenUnit
<1>6. UnitFits'
  BY <1>1, <1>2, <1>3, <1>5 DEF UnitFits, Held, NotSent
<1>7. ASSUME NEW r \in Records PROVE (StoredFits(r) /\ OwnFits(r) /\ OwedFits(r))'
  <2>1. ~Held(r)' /\ ~Held(r) /\ Overlaid[r] = record[r] /\ Overlaid'[r] = record[r]
    BY <1>3, <1>5 DEF UnitFits, Held, Overlaid
  <2>2. StoredFits(r)' /\ OwnFits(r)'
    BY <1>1, <1>2, <1>3, <1>5, <2>1 DEF StoredFits, OwnFits, Known, ByBase
  <2>3. OwedFits(r)'
    BY <1>1, <1>2, <1>3, <1>5, <2>1 DEF OwedFits, Known, Deleted
  <2> QED BY <2>2, <2>3
<1> QED BY <1>4, <1>6, <1>7

\* A transaction that ends without effect leaves what others have stored.
LEMMA UnitAborts ==
  ASSUME TombInv, unit.id # 0, Abort, UNCHANGED <<filtering, record, owed, strokes>>,
         rewrite' = rewrite \/ rewrite' = NotSent
  PROVE  TombInv'
<1> USE ZeroTx DEF TombInv
<1>1. /\ unit'.id = 0 /\ \A r \in Records : unit'.own[r] = Same
      /\ unit' \in [id : TxNames, own : [Records -> RecordRows]]
  <2>1. Same \in RecordRows
    BY RowKinds DEF Same
  <2> QED BY <2>1 DEF Abort, NoUnit
<1>2. unit.id \in TxIds /\ fates' = [fates EXCEPT ![unit.id] = "rolled back"] /\ "rolled back" \in Fates
  BY TxNamed DEF TombTyped, Abort, Fates
<1>7. NotSent \in [of : TxNames, rows : SUBSET Records, many : BOOLEAN]
  BY DEF NotSent
<1>3. TombTyped'
  BY <1>1, <1>2, <1>7 DEF TombTyped
<1>4. \A t \in TxNames : /\ t # 0 /\ t = unit.id => fates'[t] = "rolled back"
                         /\ t # 0 /\ t # unit.id => fates'[t] = fates[t]
  BY <1>2, TxNamed DEF TombTyped
<1>5. UnitFits'
  <2>1. CASE rewrite' = NotSent
    BY <2>1, <1>1 DEF UnitFits, Held, NotSent
  <2>2. CASE rewrite' # NotSent
    BY <2>2, <1>1, <1>4 DEF UnitFits, Held, NotSent, TombTyped
  <2> QED BY <2>1, <2>2
<1>6. ASSUME NEW r \in Records PROVE (StoredFits(r) /\ OwnFits(r) /\ OwedFits(r))'
  <2>1. ~Held(r)' /\ Overlaid'[r] = record[r]
    BY <1>1 DEF Held, Overlaid
  <2>0. record[r].by \in TxNames /\ owed[r] \in TxNames
    BY RowKinds DEF TombTyped
  <2>2. StoredFits(r)' /\ OwnFits(r)'
    BY <1>1, <1>4, <2>1, <2>0 DEF StoredFits, OwnFits, Known, ByBase
  <2>3. OwedFits(r)'
    BY <1>1, <1>4, <2>1, <2>0 DEF OwedFits, Known, Deleted
  <2> QED BY <2>2, <2>3
<1> QED BY <1>3, <1>5, <1>6

\* A transaction that commits has done what it owes.
LEMMA UnitCommits ==
  ASSUME TombInv, CommitUnit
  PROVE  TombInv'
<1> USE ZeroTx DEF TombInv
<1>0. unit.id # 0 /\ UNCHANGED <<filtering, rewrite, owed, strokes>>
  BY DEF CommitUnit, Works
<1>1. /\ unit'.id = 0 /\ \A r \in Records : unit'.own[r] = Same
      /\ unit' \in [id : TxNames, own : [Records -> RecordRows]]
  <2>1. Same \in RecordRows
    BY RowKinds DEF Same
  <2> QED BY <2>1 DEF CommitUnit, NoUnit
<1>2. unit.id \in TxIds /\ fates' = [fates EXCEPT ![unit.id] = "committed"] /\ "committed" \in Fates
  BY <1>0, TxNamed DEF TombTyped, CommitUnit, Fates
<1>3. record' \in [Records -> RecordRows] /\ \A r \in Records : record'[r] = Overlaid[r]
  <2>1. record' = Overlaid
    BY DEF CommitUnit
  <2> QED BY <2>1, Sights, ZeroTx DEF Overlaid
<1>8. TombTyped'
  BY <1>0, <1>1, <1>2, <1>3 DEF TombTyped
<1>4. \A t \in TxNames : /\ t # 0 /\ t = unit.id => fates'[t] = "committed"
                         /\ t # 0 /\ t # unit.id => fates'[t] = fates[t]
  BY <1>2, TxNamed DEF TombTyped
<1>9. rewrite # NotSent => rewrite.of # unit.id
  BY DEF CommitUnit, Works, Awaits, UnitFits
<1>5. UnitFits'
  <2>1. CASE rewrite = NotSent
    BY <2>1, <1>0, <1>1 DEF UnitFits, Held, NotSent
  <2>2. CASE rewrite # NotSent
    BY <2>2, <1>0, <1>1, <1>4, <1>9 DEF UnitFits, Held, NotSent, TombTyped
  <2> QED BY <2>1, <2>2
<1>6. ASSUME NEW r \in Records PROVE (StoredFits(r) /\ OwnFits(r) /\ OwedFits(r))'
  <2>1. /\ ~Held(r)' /\ Overlaid'[r] = Overlaid[r] /\ record'[r] = Overlaid[r]
        /\ Overlaid[r] = IF Held(r) THEN unit.own[r] ELSE record[r]
    BY <1>1, <1>3 DEF Held, Overlaid
  <2>0. /\ record[r].by \in TxNames /\ owed[r] \in TxNames /\ unit.own[r].by \in TxNames
        /\ record[r] \in RecordRows /\ unit.own[r] \in RecordRows
    BY RowKinds DEF TombTyped
  <2>5. OwnFits(r)'
    BY <2>1 DEF OwnFits
  <2>2. StoredFits(r)'
    <3>0. unit.id \in TxNames /\ fates'[unit.id] = "committed"
      BY <1>0, <1>4 DEF TombTyped
    <3>1. CASE Held(r)
      <4>1. record'[r] = unit.own[r] /\ OwnFits(r)
        BY <2>1, <3>1
      <4>2. /\ record'[r].is # "same" /\ (filtering' => record'[r].is # "gone")
            /\ record'[r].is # "unborn"
        BY <1>0, <4>1, <3>1 DEF OwnFits
      <4>3. /\ Known(record[r].by)'
            /\ record'[r].is = "gone" => fates'[record'[r].by] = "committed"
        BY <1>1, <1>4, <2>0, <3>0, <4>1, <3>1 DEF OwnFits, Known
      <4>4. record'[r].by # 0 /\ fates'[record'[r].by] = "rolled back" => ByBase(record[r])'
        BY <1>0, <1>4, <2>0, <3>0, <4>1, <3>1 DEF OwnFits, ByBase
      <4> QED BY <1>1, <4>2, <4>3, <4>4 DEF StoredFits
    <3>2. CASE ~Held(r)
      <4>1. record'[r] = record[r] /\ StoredFits(r)
        BY <2>1, <3>2
      <4>2. /\ record'[r].is # "same" /\ (filtering' => record'[r].is # "gone")
            /\ record'[r].is = "unborn" => record'[r].by = 0
        BY <1>0, <4>1 DEF StoredFits
      <4>3. /\ Known(record[r].by)'
            /\ record'[r].is = "gone" /\ record'[r].by # 0 => fates'[record'[r].by] = "committed"
        BY <1>1, <1>4, <2>0, <3>0, <4>1 DEF StoredFits, Known
      <4>4. record'[r].by # 0 /\ fates'[record'[r].by] = "rolled back" => ByBase(record[r])'
        BY <1>0, <1>4, <2>0, <3>0, <4>1 DEF StoredFits, ByBase
      <4> QED BY <1>1, <4>2, <4>3, <4>4 DEF StoredFits
    <3> QED BY <3>1, <3>2
  <2>4. owed[r] = unit.id => Deleted(unit.id, Overlaid[r])
    BY <1>0 DEF OwedFits, CommitUnit, Works, Awaits
  <2>3. OwedFits(r)'
    BY <1>0, <1>1, <1>4, <2>1, <2>0, <2>4 DEF OwedFits, Known, Deleted
  <2> QED BY <2>2, <2>3, <2>5
<1> QED BY <1>8, <1>5, <1>6

LEMMA RowsDiffer == \A row \in RecordRows : row.is \in {"live", "dead", "gone"} => row # Same
BY RowKinds DEF Same

\* A transaction writes a row.
LEMMA UnitWrites ==
  ASSUME TombInv, NEW r \in Records, Works, NEW new \in RecordRows, NEW t \in TxNames,
         unit' = [unit EXCEPT !.own[r] = new], owed' = [owed EXCEPT ![r] = t],
         UNCHANGED <<filtering, record, rewrite, fates, strokes>>,
         new.is \in {"live", "dead"}, Known(new.by),
         filtering /\ ~Stored(record[r]) => new.maker = unit.id,
         new.by # 0 /\ fates[new.by] = "rolled back" => ByBase(new),
         \/ t = unit.id /\ new.is = "dead"
         \/ t = 0
         \/ /\ t = owed[r] /\ Overlaid[r].is = "unborn" /\ Overlaid[r].maker = 0
  PROVE  TombInv'
<1> USE ZeroTx DEF TombInv
<1>1. /\ unit'.id = unit.id /\ unit'.own[r] = new /\ \A s \in Records \ {r} : unit'.own[s] = unit.own[s]
      /\ unit' \in [id : TxNames, own : [Records -> RecordRows]]
  BY DEF TombTyped
<1>2. TombTyped'
  BY <1>1 DEF TombTyped
<1>3. UnitFits'
  BY <1>1 DEF UnitFits, Works, NotSent
<1>4. ASSUME NEW s \in Records \ {r} PROVE (StoredFits(s) /\ OwnFits(s) /\ OwedFits(s))'
  <2>1. owed'[s] = owed[s] /\ (Held(s)' <=> Held(s)) /\ Overlaid'[s] = Overlaid[s]
    BY <1>1 DEF Held, Overlaid, TombTyped
  <2>2. StoredFits(s)'
    BY <1>1 DEF StoredFits, Known, ByBase
  <2>3. OwnFits(s)'
    BY <1>1, <2>1 DEF OwnFits, Known, Stored, ByBase
  <2>4. OwedFits(s)'
    <3> DEFINE o == owed[s]  sight == Overlaid[s]
    <3>1. OwedFits(s)
      OBVIOUS
    <3>2. Known(owed[s])'
      BY <3>1, <1>1, <2>1 DEF OwedFits, Known
    <3>3. o # 0 /\ fates[o] = "committed" => Deleted(owed[s], record[s])' /\ Deleted(owed[s], Overlaid[s])'
      BY <3>1, <1>1, <2>1 DEF OwedFits, Deleted
    <3>4. o # 0 /\ o = unit.id => \/ Deleted(owed[s], Overlaid[s])'
                                 \/ /\ rewrite.of = o /\ s \in rewrite.rows
                                    /\ Stored(record[s])' \/ (filtering /\ sight.maker = o)
      BY <3>1, <1>1, <2>1 DEF OwedFits, Deleted, Stored
    <3> QED BY <3>2, <3>3, <3>4, <1>1, <2>1 DEF OwedFits
  <2> QED BY <2>2, <2>3, <2>4
<1>5. StoredFits(r)'
  BY <1>1 DEF StoredFits, Known, ByBase
<1>6. Held(r)' /\ Overlaid'[r] = new
  <2>1. new # Same
    BY RowsDiffer
  <2> QED BY <1>1, <2>1 DEF Held, Overlaid
<1>7. OwnFits(r)'
  BY <1>1 DEF OwnFits, Known, Stored, ByBase
<1>8. OwedFits(r)'
  <2>1. owed'[r] = t /\ owed[r] \in TxNames
    BY DEF TombTyped
  <2>2. CASE t = unit.id /\ new.is = "dead"
    BY <1>1, <1>6, <2>1, <2>2 DEF OwedFits, Known, Deleted, UnitFits, Works
  <2>3. CASE t = 0
    BY <2>1, <2>3 DEF OwedFits, Known
  <2>4. CASE t = owed[r] /\ Overlaid[r].is = "unborn" /\ Overlaid[r].maker = 0 /\ t # 0
    <3>1. ~Deleted(t, Overlaid[r])
      BY <2>4 DEF Deleted
    <3>2. fates[t] # "committed" /\ t # unit.id
      BY <2>4, <3>1 DEF OwedFits, Works, Awaits
    <3> QED BY <1>1, <2>1, <2>4, <3>2 DEF OwedFits, Known
  <2> QED BY <2>2, <2>3, <2>4
<1> QED BY <1>2, <1>3, <1>4, <1>5, <1>7, <1>8

\* A transaction creates a row.
LEMMA UnitCreates ==
  ASSUME TombInv, NEW r \in Records, CreateInUnit(r)
  PROVE  TombInv'
<1> USE ZeroTx
<1> DEFINE new == [Unborn EXCEPT !.is = "live", !.maker = unit.id]
<1>1. unit.id \in TxNames /\ owed[r] \in TxNames /\ owed' = [owed EXCEPT ![r] = owed[r]]
  BY DEF TombInv, TombTyped, CreateInUnit
<1>2. new \in RecordRows
  BY <1>1, RowKinds DEF Unborn
<1>3. new.is = "live" /\ new.by = 0 /\ new.maker = unit.id
  BY DEF Unborn
<1>4. Overlaid[r].is = "unborn" /\ Overlaid[r].maker = 0
  BY DEF CreateInUnit, Unborn
<1>5. /\ Works /\ unit' = [unit EXCEPT !.own[r] = new]
      /\ UNCHANGED <<filtering, record, rewrite, fates, strokes>>
  BY DEF CreateInUnit, Overlays
<1> HIDE DEF new
<1>6. Known(new.by)
  BY <1>3 DEF Known
<1> QED BY <1>1, <1>2, <1>3, <1>4, <1>5, <1>6, UnitWrites

\* A transaction sets or lifts the deletion of a row.
LEMMA UnitUpdates ==
  ASSUME TombInv, NEW r \in Records, NEW is \in {"live", "dead"}, UpdateInUnit(r, is)
  PROVE  TombInv'
<1>1. unit.id \in TxNames /\ Overlaid[r] \in RecordRows /\ unit.id # 0
  BY Sights DEF TombInv, TombTyped, UpdateInUnit, Works
<1>0. PICK new \in RecordRows : HandMade(new, Overlaid[r], unit.id, is)
  BY <1>1, RowByHand
<1>2. /\ new = ByHand(Overlaid[r], unit.id, is) /\ new.is = is /\ new.maker = Overlaid[r].maker
      /\ \/ is = "dead" /\ new.by = unit.id
         \/ is = "live" /\ new.by = Overlaid[r].by /\ new.means = Overlaid[r].means
  BY <1>0 DEF HandMade
<1> DEFINE t == IF is = "dead" THEN unit.id ELSE Outside
<1>3. /\ Works /\ unit' = [unit EXCEPT !.own[r] = new] /\ owed' = [owed EXCEPT ![r] = t]
      /\ UNCHANGED <<filtering, record, rewrite, fates, strokes>>
  BY <1>2 DEF UpdateInUnit, Overlays, ByHand
<1>4. t \in TxNames /\ ((t = unit.id /\ new.is = "dead") \/ t = 0)
  BY <1>1, <1>2, ZeroTx DEF Outside
<1>5. Stored(Overlaid[r]) /\ Overlaid[r] = IF Held(r) THEN unit.own[r] ELSE record[r]
  BY Sights DEF UpdateInUnit, TombInv
<1>6. Known(Overlaid[r].by) /\ (filtering /\ ~Stored(record[r]) => Overlaid[r].maker = unit.id)
  BY <1>5 DEF TombInv, StoredFits, OwnFits, Stored
<1>7. Overlaid[r].by # 0 /\ fates[Overlaid[r].by] = "rolled back" => ByBase(Overlaid[r])
  BY <1>5 DEF TombInv, StoredFits, OwnFits
<1>8. fates[unit.id] = "none"
  BY <1>1 DEF TombInv, UnitFits
<1> HIDE DEF t
<1>9. Known(new.by) /\ (new.by # 0 /\ fates[new.by] = "rolled back" => ByBase(new))
  BY <1>2, <1>6, <1>7, <1>8 DEF Known, ByBase
<1> QED BY <1>2, <1>3, <1>4, <1>6, <1>9, UnitWrites

\* A delete that is sent to the base client is owed until it is answered.
LEMMA UnitSends ==
  ASSUME TombInv, NEW rows \in SUBSET Records, NEW many \in BOOLEAN, DeleteInUnit(rows, many), filtering
  PROVE  TombInv'
<1> USE ZeroTx DEF TombInv
<1>1. /\ unit.id # 0 /\ unit.id \in TxNames /\ fates[unit.id] = "none" /\ rows # {} /\ rewrite = NotSent
      /\ rewrite' = [of |-> unit.id, rows |-> rows, many |-> many]
      /\ UNCHANGED <<unit, filtering, record, fates, strokes>>
  BY DEF DeleteInUnit, Works, TombTyped, UnitFits
<1>2. \A r \in Records : owed'[r] = IF r \in rows /\ Overlaid[r].is = "live" THEN unit.id ELSE owed[r]
  BY DEF DeleteInUnit
<1>3. owed' = [r \in Records |-> owed'[r]]
  BY DEF DeleteInUnit
<1>4. TombTyped'
  <2>1. owed' \in [Records -> TxNames]
    BY <1>1, <1>2, <1>3 DEF TombTyped
  <2>2. rewrite' \in [of : TxNames, rows : SUBSET Records, many : BOOLEAN]
    BY <1>1
  <2> QED BY <1>1, <2>1, <2>2 DEF TombTyped
<1>5. UnitFits'
  BY <1>1 DEF UnitFits
<1>6. ASSUME NEW r \in Records PROVE (StoredFits(r) /\ OwnFits(r) /\ OwedFits(r))'
  <2>1. StoredFits(r)' /\ OwnFits(r)'
    BY <1>1 DEF StoredFits, OwnFits, Known, ByBase, Held, Stored
  <2>2. Overlaid'[r] = Overlaid[r] /\ Overlaid[r] = IF Held(r) THEN unit.own[r] ELSE record[r]
    BY <1>1, Sights DEF Overlaid, Held
  <2>3. CASE r \in rows /\ Overlaid[r].is = "live"
    <3>1. owed'[r] = unit.id
      BY <1>2, <2>3
    <3>2. Stored(record[r]) \/ Overlaid[r].maker = unit.id
      BY <2>2, <2>3 DEF OwnFits, Stored
    <3>3. rewrite'.of = unit.id /\ r \in rewrite'.rows /\ Known(unit.id)'
      BY <1>1, <2>3 DEF Known
    <3>4. OwedFits(r)'
      BY <1>1, <2>2, <3>1, <3>2, <3>3 DEF OwedFits, Stored, Deleted
    <3> QED BY <2>1, <3>4
  <2>4. CASE ~(r \in rows /\ Overlaid[r].is = "live")
    <3>1. owed'[r] = owed[r]
      BY <1>2, <2>4
    <3>2. owed[r] # 0 /\ owed[r] = unit.id => Deleted(owed[r], Overlaid[r])
      BY <1>1 DEF OwedFits, NotSent
    <3>3. Known(owed[r]) /\ (owed[r] # 0 /\ fates[owed[r]] = "committed" =>
             Deleted(owed[r], record[r]) /\ Deleted(owed[r], Overlaid[r]))
      BY DEF OwedFits
    <3>4. OwedFits(r)'
      BY <1>1, <2>2, <3>1, <3>2, <3>3 DEF OwedFits, Known, Deleted
    <3> QED BY <2>1, <3>4
  <2> QED BY <2>1, <2>3, <2>4
<1> QED BY <1>4, <1>5, <1>6

\* A delete that is not rewritten removes what the transaction sees.
LEMMA UnitRemoves ==
  ASSUME TombInv, NEW rows \in SUBSET Records, NEW many \in BOOLEAN, DeleteInUnit(rows, many), ~filtering
  PROVE  TombInv'
<1> USE ZeroTx DEF TombInv
<1>1. /\ unit.id # 0 /\ unit.id \in TxNames /\ fates[unit.id] = "none" /\ rewrite = NotSent
      /\ UNCHANGED <<rewrite, filtering, record, fates, strokes>>
  BY DEF DeleteInUnit, Works, TombTyped, UnitFits
<1>2. \A r \in Records : owed'[r] = IF r \in rows /\ Overlaid[r].is = "live" THEN unit.id ELSE owed[r]
  BY DEF DeleteInUnit
<1>3. owed' = [r \in Records |-> owed'[r]]
  BY DEF DeleteInUnit
<1> DEFINE hit(r) == r \in rows /\ Stored(Overlaid[r])
<1>4. /\ unit'.id = unit.id /\ unit'.own = [r \in Records |-> unit'.own[r]]
      /\ unit' = [unit EXCEPT !.own = unit'.own]
      /\ \A r \in Records : unit'.own[r] = IF hit(r) THEN Removed(Overlaid[r], unit.id) ELSE unit.own[r]
  BY DEF DeleteInUnit, TombTyped
<1> HIDE DEF hit
<1>5. ASSUME NEW r \in Records
      PROVE  /\ unit'.own[r] \in RecordRows
             /\ hit(r) => unit'.own[r].is = "gone" /\ unit'.own[r].by = unit.id /\ unit'.own[r] # Same
             /\ ~hit(r) => unit'.own[r] = unit.own[r]
  <2>1. Overlaid[r] \in RecordRows /\ unit.own[r] \in RecordRows
    BY Sights DEF TombTyped
  <2>2. CASE hit(r)
    <3>1. PICK new \in RecordRows : RemovedAs(new, Overlaid[r], unit.id)
      BY <2>1, <1>1, RowRemoved
    <3>2. new # Same
      BY <3>1, RowsDiffer DEF RemovedAs
    <3> QED BY <2>2, <3>1, <3>2, <1>4 DEF RemovedAs
  <2>3. CASE ~hit(r)
    BY <2>1, <2>3, <1>4
  <2> QED BY <2>2, <2>3
<1>6. TombTyped'
  <2>1. owed' \in [Records -> TxNames]
    BY <1>1, <1>2, <1>3 DEF TombTyped
  <2>2. unit'.own \in [Records -> RecordRows]
    BY <1>4, <1>5
  <2>3. unit' \in [id : TxNames, own : [Records -> RecordRows]]
    BY <1>4, <2>2 DEF TombTyped
  <2> QED BY <1>1, <2>1, <2>3 DEF TombTyped
<1>7. UnitFits'
  BY <1>1, <1>4 DEF UnitFits, NotSent
<1>8. ASSUME NEW r \in Records PROVE (StoredFits(r) /\ OwnFits(r) /\ OwedFits(r))'
  <2>1. StoredFits(r)'
    BY <1>1, <1>4 DEF StoredFits, Known, ByBase
  <2>2. Overlaid[r] = IF Held(r) THEN unit.own[r] ELSE record[r]
    BY Sights
  <2>3. CASE hit(r)
    <3>1. Held(r)' /\ Overlaid'[r] = unit'.own[r] /\ Overlaid'[r].is = "gone"
      BY <1>5, <2>3 DEF Overlaid, Held
    <3>2. OwnFits(r)'
      BY <1>1, <1>4, <1>5, <2>3 DEF OwnFits, Known
    <3>3. Known(owed[r]) /\ (owed[r] # 0 /\ fates[owed[r]] = "committed" => Deleted(owed[r], record[r]))
      BY DEF OwedFits
    <3>4. owed'[r] = unit.id \/ owed'[r] = owed[r]
      BY <1>2
    <3>5. OwedFits(r)'
      BY <1>1, <1>4, <3>1, <3>3, <3>4 DEF OwedFits, Known, Deleted
    <3> QED BY <2>1, <3>2, <3>5
  <2>4. CASE ~hit(r)
    <3>1. (Held(r)' <=> Held(r)) /\ Overlaid'[r] = Overlaid[r] /\ owed'[r] = owed[r]
      BY <1>1, <1>2, <1>5, <2>2, <2>4 DEF Overlaid, Held, hit, Stored
    <3>2. OwnFits(r)'
      BY <1>1, <1>4, <1>5, <2>4, <3>1 DEF OwnFits, Known, ByBase
    <3>3. Known(owed[r]) /\ (owed[r] # 0 /\ fates[owed[r]] = "committed" =>
             Deleted(owed[r], record[r]) /\ Deleted(owed[r], Overlaid[r]))
      BY DEF OwedFits
    <3>4. owed[r] # 0 /\ owed[r] = unit.id => Deleted(owed[r], Overlaid[r])
      BY <1>1 DEF OwedFits, NotSent
    <3>5. OwedFits(r)'
      BY <1>1, <1>4, <3>1, <3>3, <3>4 DEF OwedFits, Known, Deleted
    <3> QED BY <2>1, <3>2, <3>5
  <2> QED BY <2>3, <2>4
<1> QED BY <1>6, <1>7, <1>8

\* The base client answers a rewritten delete, and marks the rows it finds, which no one has written.
LEMMA BaseAnswers ==
  ASSUME TombInv, BaseWrites
  PROVE  TombInv'
<1> USE ZeroTx DEF TombInv
<1> DEFINE known == {r \in rewrite.rows : Stored(record[r])}  t == rewrite.of
           hit(r) == r \in known /\ (rewrite.many => record[r].is = "live")
<1>1. /\ filtering /\ t # 0 /\ t \in TxNames /\ known \subseteq Records
      /\ t = unit.id \/ fates[t] = "rolled back"
      /\ unit.id # 0 => fates[unit.id] = "none"
  BY DEF BaseWrites, UnitFits, TombTyped
<1>2. /\ \A r \in known : ~Held(r)
      /\ rewrite' = NotSent /\ UNCHANGED <<filtering, strokes>>
      /\ \/ UNCHANGED <<unit, fates>>
         \/ known = {} /\ unit.id = rewrite.of /\ Abort
  BY DEF BaseWrites, Unlocked, Awaits
<1>3. /\ \A r \in Records : record'[r] = IF hit(r) THEN Marked(record[r], t, "base") ELSE record[r]
      /\ record' = [r \in Records |-> record'[r]]
  BY DEF BaseWrites, Rewritten
<1>4. /\ \A r \in Records : owed'[r] = IF r \in known /\ owed[r] # t THEN 0 ELSE owed[r]
      /\ owed' = [r \in Records |-> owed'[r]]
  BY DEF BaseWrites, Outside
<1>5. CASE known = {} /\ unit.id = rewrite.of /\ Abort
  <2>1. record' = record
    BY <1>3, <1>5 DEF TombTyped
  <2>2. owed' = owed
    BY <1>4, <1>5 DEF TombTyped
  <2> QED BY <1>1, <1>2, <1>5, <2>1, <2>2, UnitAborts
<1>6. CASE UNCHANGED <<unit, fates>>
  <2> HIDE DEF hit, known
  <2>1. ASSUME NEW r \in Records
        PROVE  /\ record'[r] \in RecordRows
               /\ hit(r) => /\ record'[r].is = "dead" /\ record'[r].by = t
                            /\ record'[r].means = "base" /\ record'[r].maker = record[r].maker
               /\ ~hit(r) => record'[r] = record[r]
    <3>1. record[r] \in RecordRows
      BY DEF TombTyped
    <3>2. CASE hit(r)
      <4>1. PICK new \in RecordRows : MarkedAs(new, record[r], t, "base")
        BY <3>1, <1>1, RowMarked
      <4> QED BY <3>2, <4>1, <1>3 DEF MarkedAs
    <3>3. CASE ~hit(r)
      BY <3>1, <3>3, <1>3
    <3> QED BY <3>2, <3>3
  <2>2. TombTyped'
    <3>1. record' \in [Records -> RecordRows]
      BY <1>3, <2>1
    <3>2. owed' \in [Records -> TxNames]
      BY <1>4 DEF TombTyped
    <3>3. NotSent \in [of : TxNames, rows : SUBSET Records, many : BOOLEAN]
      BY DEF NotSent
    <3> QED BY <1>2, <1>6, <3>1, <3>2, <3>3 DEF TombTyped
  <2>3. UnitFits'
    BY <1>2, <1>6 DEF UnitFits, Held
  <2>4. ASSUME NEW r \in Records PROVE (StoredFits(r) /\ OwnFits(r) /\ OwedFits(r))'
    <3>0. Overlaid[r] = IF Held(r) THEN unit.own[r] ELSE record[r]
      BY Sights
    <3>1. (Held(r)' <=> Held(r)) /\ Overlaid'[r] = IF Held(r) THEN unit.own[r] ELSE record'[r]
      BY <1>6 DEF Overlaid, Held
    <3>2. hit(r) => r \in known /\ Stored(record[r])
      BY DEF hit, known
    <3>3. StoredFits(r)'
      <4>1. CASE hit(r)
        BY <1>1, <1>2, <1>6, <2>1, <4>1 DEF StoredFits, Known, ByBase
      <4>2. CASE ~hit(r)
        BY <1>2, <1>6, <2>1, <4>2 DEF StoredFits, Known, ByBase
      <4> QED BY <4>1, <4>2
    <3>4. OwnFits(r)'
      <4>1. Held(r) => record'[r] = record[r]
        BY <1>2, <2>1, <3>2
      <4> QED BY <1>2, <1>6, <3>1, <4>1 DEF OwnFits, Known, Stored, ByBase
    <3>5. OwedFits(r)'
      <4>1. CASE r \in known
        <5>1. owed'[r] = t \/ owed'[r] = 0
          BY <1>4, <4>1
        <5>2. ~Held(r) /\ Overlaid'[r] = record'[r]
          BY <1>2, <3>1, <4>1
        <5>3. record'[r].is = "dead"
          <6>1. CASE hit(r)
            BY <6>1, <2>1
          <6>2. CASE ~hit(r)
            BY <6>2, <2>1, <4>1 DEF hit, known, Stored
          <6> QED BY <6>1, <6>2
        <5> QED BY <1>1, <1>2, <1>6, <5>1, <5>2, <5>3 DEF OwedFits, Known, Deleted
      <4>2. CASE r \notin known
        <5>1. owed'[r] = owed[r] /\ record'[r] = record[r] /\ Overlaid'[r] = Overlaid[r]
          BY <1>4, <2>1, <3>0, <3>1, <3>2, <4>2
        <5>2. Known(owed[r]) /\ (owed[r] # 0 /\ fates[owed[r]] = "committed" =>
                 Deleted(owed[r], record[r]) /\ Deleted(owed[r], Overlaid[r]))
          BY DEF OwedFits
        <5>3. owed[r] # 0 /\ owed[r] = unit.id => Deleted(owed[r], Overlaid[r])
          BY <1>1, <4>2 DEF OwedFits, known, Deleted
        <5> QED BY <1>2, <1>6, <5>1, <5>2, <5>3 DEF OwedFits, Known, Deleted
      <4> QED BY <4>1, <4>2
    <3> QED BY <3>3, <3>4, <3>5
  <2> QED BY <2>2, <2>3, <2>4
<1> QED BY <1>2, <1>5, <1>6

LEMMA NamedRows == \A n \in Named : n.rows \in SUBSET Records /\ n.many \in BOOLEAN
<1> SUFFICES ASSUME NEW n \in Named PROVE n.rows \in SUBSET Records /\ n.many \in BOOLEAN
  OBVIOUS
<1>1. CASE \E r \in Records : n = [rows |-> {r}, many |-> FALSE]
  BY <1>1
<1>2. CASE \E S \in (SUBSET Records) \ {{}} : n = [rows |-> S, many |-> TRUE]
  BY <1>2
<1> QED BY <1>1, <1>2 DEF Named

LEMMA RowsStep == TombInv /\ (TombNext \/ UNCHANGED tombVars) => TombInv'
<1> SUFFICES ASSUME TombInv, TombNext \/ UNCHANGED tombVars PROVE TombInv'
  OBVIOUS
<1>1. ASSUME NEW r \in Records, CreateRecord(r) \/ CreateInUnit(r) PROVE TombInv'
  BY <1>1, RecordsChange, UnitCreates
<1>2. ASSUME NEW r \in Records, NEW is \in {"live", "dead"}, UpdateRecord(r, is) \/ UpdateInUnit(r, is)
      PROVE  TombInv'
  BY <1>2, RecordsChange, UnitUpdates
<1>3. ASSUME NEW n \in Named, DeleteRecords(n.rows, n.many) \/ DeleteInUnit(n.rows, n.many) PROVE TombInv'
  <2>1. n.rows \in SUBSET Records /\ n.many \in BOOLEAN
    BY NamedRows
  <2> QED BY <1>3, <2>1, RecordsGo, UnitSends, UnitRemoves
<1>4. CASE RollBackUnit
  BY <1>4, UnitAborts DEF RollBackUnit
<1>5. CASE UNCHANGED tombVars
  <2>1. /\ filtering' = filtering /\ record' = record /\ unit' = unit /\ rewrite' = rewrite
        /\ fates' = fates /\ owed' = owed /\ strokes' = strokes
    BY <1>5 DEF tombVars
  <2>2. TombTyped'
    BY <2>1 DEF TombInv, TombTyped
  <2>3. UnitFits'
    BY <2>1 DEF TombInv, UnitFits, Held
  <2>4. ASSUME NEW r \in Records PROVE (StoredFits(r) /\ OwnFits(r) /\ OwedFits(r))'
    <3>1. StoredFits(r) /\ OwnFits(r) /\ OwedFits(r) /\ Overlaid' = Overlaid
      BY <2>1 DEF TombInv, Overlaid, Held
    <3>2. StoredFits(r)'
      BY <2>1, <3>1 DEF StoredFits, Known, ByBase
    <3>3. OwnFits(r)'
      BY <2>1, <3>1 DEF OwnFits, Known, Held, Stored, ByBase
    <3>4. OwedFits(r)'
      BY <2>1, <3>1 DEF OwedFits, Known, Deleted, Stored
    <3> QED BY <3>2, <3>3, <3>4
  <2> QED BY <2>2, <2>3, <2>4 DEF TombInv
<1>6. CASE OpenUnit \/ BaseWrites \/ CommitUnit
  BY <1>6, UnitOpens, UnitCommits, BaseAnswers
<1>7. CASE \E r \in Records : CreateRecord(r) \/ CreateInUnit(r)
  BY <1>7, <1>1
<1>8. CASE \E r \in Records, is \in {"live", "dead"} : UpdateRecord(r, is) \/ UpdateInUnit(r, is)
  BY <1>8, <1>2
<1>9. CASE \E n \in Named : DeleteRecords(n.rows, n.many) \/ DeleteInUnit(n.rows, n.many)
  BY <1>9, <1>3
<1> QED BY <1>4, <1>5, <1>6, <1>7, <1>8, <1>9 DEF TombNext

\* What is known of the rows is what deletions promise.
LEMMA SightsAgree ==
  ASSUME NEW sight, filtering \in BOOLEAN
  PROVE  ReadsAgree(sight)
<1>1. FindMany(TRUE, "null", sight) = FindMany(FALSE, "null", sight)
  BY DEF FindMany
<1>2. ASSUME NEW select \in {"all", "without"}
      PROVE  FindUnique(filtering, select, sight) = FindMany(filtering, "unscoped", sight)
  BY <1>2 DEF FindMany, FindUnique
<1>3. FindMany(FALSE, "unscoped", sight)
        = FindMany(filtering, "null", sight) \union FindMany(filtering, "notNull", sight)
  BY DEF FindMany, Stored
<1> QED BY <1>1, <1>2, <1>3 DEF ReadsAgree

LEMMA RowsKeep == TombInv => TombTypeOK /\ TombstonesKept
<1> SUFFICES ASSUME TombInv PROVE TombTypeOK /\ TombstonesKept
  OBVIOUS
<1>1. TombTypeOK /\ filtering \in BOOLEAN
  BY RowsTyped DEF TombInv, TombTyped
<1>2. ReadsAgree(record) /\ ReadsAgree(Overlaid)
  BY <1>1, SightsAgree
<1>3. filtering => \A r \in Records : "gone" \notin {record[r].is, Overlaid[r].is}
  BY Sights DEF TombInv, StoredFits, OwnFits
<1>4. ASSUME NEW r \in Records, NEW t \in 1 .. MaxTxs
      PROVE  /\ owed[r] = t /\ fates[t] = "committed" =>
                  record[r].is \in {"dead", "gone"} \/ (filtering /\ record[r].maker = t)
             /\ record[r].by = t /\ ~Stored(record[r]) => ~filtering /\ fates[t] = "committed"
             /\ record[r].by = t /\ fates[t] = "rolled back" => filtering /\ record[r].means = "base"
  <2>1. t # 0
    BY TombstoneConstantsOK
  <2>2. owed[r] = t /\ fates[t] = "committed" =>
          record[r].is \in {"dead", "gone"} \/ (filtering /\ record[r].maker = t)
    BY <2>1 DEF TombInv, OwedFits, Deleted
  <2>3. record[r].is \in {"unborn", "live", "dead", "gone", "same"}
    BY RowKinds DEF TombInv, TombTyped
  <2>4. record[r].by = t /\ ~Stored(record[r]) => ~filtering /\ fates[t] = "committed"
    BY <2>1, <2>3 DEF TombInv, StoredFits, Stored
  <2>5. record[r].by = t /\ fates[t] = "rolled back" => filtering /\ record[r].means = "base"
    BY <2>1 DEF TombInv, StoredFits, ByBase
  <2> QED BY <2>2, <2>4, <2>5
<1> QED BY <1>1, <1>2, <1>3, <1>4 DEF TombstonesKept

-----------------------------------------------------------------------------
(***************************************************************************)
(* The parcels at the courier.                                             *)
(***************************************************************************)
\* The parcels opened for the order, and the calls about to open another.
OrderParcels == {n \in Parcels : parcel[n].for = "order"}
Creating     == {w \in Couriers : ctask[w].do = "create"}
\* Until a shipment is stored or a call is at it, each parcel there is has an excuse.
Slack == IF booked = 0 /\ Opening = {} THEN 0 ELSE 1
ParcelsCounted == Cardinality(OrderParcels) + Cardinality(Creating) =< excused + Slack
TaskFits(w) ==
  /\ ctask[w].do \in {"store", "assign", "ship", "stamp"} => ctask[w].parcel # 0
  /\ ctask[w].do = "write" => ctask[w].status \in Stages
ParcelRows == [for : {"none", "order", "return"}, awb : BOOLEAN, at : Scan \cup {"new"}]
ParcelNos  == 0 .. MaxParcels
CourierRest ==
  /\ stage \in Stages /\ booked \in ParcelNos /\ awb \in ParcelNos
  /\ pickup \in {"APPROVED", "PICKUP_SCHEDULED", "IN_TRANSIT", "RECEIVED"}
  /\ backAwb \in ParcelNos
  /\ parcel \in [Parcels -> ParcelRows]
  /\ scans \subseteq Parcels \X Scan /\ scanLog \subseteq scans
  /\ flagged \in BOOLEAN /\ account \in BOOLEAN /\ mishaps \in Nat
CourierFits == CourierRest /\ ctask \in [Couriers -> CourierTask] /\ excused \in Nat
CourierInv == CourierFits /\ (\A w \in Couriers : TaskFits(w)) /\ ParcelsCounted

\* Tasks and parcels, made and read.
TaskDos   == {"idle", "push", "read", "create", "store", "book", "assign", "ship", "stamp",
              "write", "alarm", "collect", "return", "login"}
TaskWords == Scan \cup Stages \cup {"none"}
LEMMA TaskKinds == CourierTask = [do : TaskDos, parcel : ParcelNos, status : TaskWords]
BY DEF CourierTask, TaskDos, TaskWords, ParcelNos
LEMMA TaskRead == \A t \in CourierTask : t.do \in TaskDos /\ t.parcel \in ParcelNos /\ t.status \in TaskWords
BY TaskKinds
LEMMA TaskMade ==
  \A d \in TaskDos, n \in ParcelNos, s \in TaskWords : [do |-> d, parcel |-> n, status |-> s] \in CourierTask
BY TaskKinds
LEMMA Numbers == 0 \in ParcelNos /\ Parcels \subseteq ParcelNos /\ 0 \notin Parcels /\ \A n \in ParcelNos : n # 0 => n \in Parcels
BY CourierConstantsOK DEF ParcelNos, Parcels
LEMMA StageNames == {"SHIPPED", "DELIVERED", "CANCELLED", "PACKED", "CONFIRMED"} \subseteq Stages
BY DEF Stages
LEMMA TaskTerms == "none" \in TaskWords /\ Stages \subseteq TaskWords /\ Scan \subseteq TaskWords
BY DEF TaskWords
LEMMA ParcelMade ==
  /\ NoParcel \in ParcelRows /\ NoParcel.for = "none"
  /\ \A ok \in BOOLEAN : [for |-> "return", awb |-> ok, at |-> "new"] \in ParcelRows
  /\ \A p \in ParcelRows, to \in Scan : [p EXCEPT !.at = to] \in ParcelRows /\ [p EXCEPT !.at = to].for = p.for
  /\ \A p \in ParcelRows : [p EXCEPT !.awb = TRUE] \in ParcelRows /\ [p EXCEPT !.awb = TRUE].for = p.for
  /\ \A p \in ParcelRows : [p EXCEPT !.for = "order"] \in ParcelRows /\ [p EXCEPT !.for = "order"].for = "order"
BY DEF ParcelRows, NoParcel
LEMMA CourierTyped == CourierTypeOK <=> CourierFits
BY DEF CourierTypeOK, CourierRest, CourierFits, ParcelRows, ParcelNos

\* The sets that are counted are finite.
LEMMA Countable ==
  /\ IsFiniteSet(Parcels)
  /\ \A S \in SUBSET Parcels : IsFiniteSet(S) /\ Cardinality(S) \in Nat
  /\ \A S \in SUBSET Couriers : IsFiniteSet(S) /\ Cardinality(S) \in Nat
<1>1. IsFiniteSet(Parcels)
  BY CourierConstantsOK, FS_Interval DEF Parcels
<1> QED BY <1>1, CourierConstantsOK, FS_Subset, FS_CardinalityType
LEMMA OneMore ==
  ASSUME NEW S, NEW T \in SUBSET S, IsFiniteSet(S), NEW x \in S
  PROVE  /\ x \notin T => Cardinality(T \cup {x}) = Cardinality(T) + 1
         /\ x \in T => Cardinality(T \ {x}) = Cardinality(T) - 1
<1>1. IsFiniteSet(T)
  BY FS_Subset
<1> QED BY <1>1, FS_AddElement, FS_RemoveElement

LEMMA CourierStarts == CourierInit => CourierInv
<1> SUFFICES ASSUME CourierInit PROVE CourierInv
  OBVIOUS
<1>1. Resting \in CourierTask /\ Resting.do = "idle"
  BY Numbers, TaskKinds DEF Resting, TaskDos, TaskWords
<1>2. CourierFits
  BY <1>1, Numbers, ParcelMade DEF CourierInit, CourierRest, CourierFits, Stages
<1>3. \A w \in Couriers : TaskFits(w)
  BY <1>1 DEF CourierInit, TaskFits
<1>4. OrderParcels = {} /\ Creating = {}
  BY <1>1, ParcelMade DEF CourierInit, OrderParcels, Creating
<1>5. ParcelsCounted
  BY <1>4, FS_EmptySet DEF CourierInit, ParcelsCounted, Slack
<1> QED BY <1>2, <1>3, <1>5 DEF CourierInv

\* A step of one handler, and what else it may change.
Turn(w, d, n, s) ==
  /\ w \in Couriers /\ d \in TaskDos /\ n \in ParcelNos /\ s \in TaskWords
  /\ ctask' = [ctask EXCEPT ![w] = [do |-> d, parcel |-> n, status |-> s]]
  /\ d \in {"store", "assign", "ship", "stamp"} => n # 0
  /\ d = "write" => s \in Stages
LEMMA Turned ==
  ASSUME CourierInv, NEW w, NEW d, NEW n, NEW s, Turn(w, d, n, s)
  PROVE  /\ ctask' \in [Couriers -> CourierTask] /\ ctask'[w].do = d
         /\ \A v \in Couriers : v # w => ctask'[v] = ctask[v]
         /\ \A v \in Couriers : TaskFits(v)'
<1> USE DEF Turn
<1> DEFINE task == [do |-> d, parcel |-> n, status |-> s]
<1>1. task \in CourierTask /\ task.do = d /\ task.parcel = n /\ task.status = s
  BY TaskMade
<1> HIDE DEF task
<1>2. ctask' = [ctask EXCEPT ![w] = task]
  BY DEF task
<1>3. ctask' \in [Couriers -> CourierTask] /\ ctask'[w] = task /\ \A v \in Couriers : v # w => ctask'[v] = ctask[v]
  BY <1>1, <1>2 DEF CourierInv, CourierFits
<1>4. ASSUME NEW v \in Couriers PROVE TaskFits(v)'
  <2>1. CASE v = w
    BY <2>1, <1>1, <1>3 DEF TaskFits
  <2>2. CASE v # w
    BY <2>2, <1>3 DEF TaskFits, CourierInv
  <2> QED BY <2>1, <2>2
<1> QED BY <1>1, <1>3, <1>4

\* Neither a parcel for the order nor a call that opens one comes or goes.
LEMMA CountStays ==
  ASSUME CourierInv, excused' = excused, OrderParcels' = OrderParcels,
         Creating' = Creating, Opening' = Opening, booked' = booked \/ booked' # 0
  PROVE  ParcelsCounted'
<1>1. Slack \in {0, 1} /\ (Slack' = Slack \/ Slack' = 1)
  BY DEF Slack
<1>2. Cardinality(OrderParcels) \in Nat /\ Cardinality(Creating) \in Nat /\ excused \in Nat
  BY Countable DEF OrderParcels, Creating, CourierInv, CourierFits
<1>3. Cardinality(OrderParcels)' = Cardinality(OrderParcels) /\ Cardinality(Creating)' = Cardinality(Creating)
  OBVIOUS
<1>4. Cardinality(OrderParcels) + Cardinality(Creating) =< excused + Slack
  BY DEF CourierInv, ParcelsCounted
<1> HIDE DEF Slack
<1>5. Cardinality(OrderParcels)' + Cardinality(Creating)' =< excused' + Slack'
  BY <1>1, <1>2, <1>3, <1>4
<1> QED BY <1>5 DEF ParcelsCounted
LEMMA TurnElsewhere ==
  ASSUME CourierInv, NEW w, NEW d, NEW n, NEW s, Turn(w, d, n, s),
         ctask[w].do \notin {"create", "store"}, d \notin {"create", "store"}
  PROVE  Creating' = Creating /\ Opening' = Opening
BY Turned DEF Turn, Creating, Opening
LEMMA OrdersStay ==
  ASSUME CourierInv, parcel' \in [Parcels -> ParcelRows],
         \A n \in Parcels : parcel'[n].for = "order" <=> parcel[n].for = "order"
  PROVE  OrderParcels' = OrderParcels
BY DEF OrderParcels

LEMMA Outweighed ==
  \A a, b, c, d, e \in Nat : a + b =< c + d /\ e + 1 >= c + d + 1 => a + (b + 1) =< e + 1
OBVIOUS

\* A shipment is looked for, and none found, or one.
LEMMA OpeningBegins ==
  ASSUME CourierInv, NEW w, NEW s, Turn(w, "create", 0, s), ctask[w].do \notin {"create", "store"},
         booked = 0, booked' = booked, Overlap(w), OrderParcels' = OrderParcels
  PROVE  ParcelsCounted'
<1>1. w \in Couriers /\ w \notin Creating /\ w \notin Opening
  BY DEF Creating, Opening, Turn
<1>2. Creating' = Creating \cup {w} /\ Opening' = Opening \cup {w}
  <2>1. ctask'[w].do = "create" /\ \A v \in Couriers : v # w => ctask'[v] = ctask[v]
    BY Turned DEF Turn
  <2>2. Creating' = Creating \cup {w}
    BY <2>1, <1>1 DEF Creating
  <2>3. Opening' = Opening \cup {w}
    BY <2>1, <1>1 DEF Opening
  <2> QED BY <2>2, <2>3
<1>3. /\ Cardinality(OrderParcels) \in Nat /\ Cardinality(Creating) \in Nat /\ excused \in Nat
      /\ Cardinality(Creating \cup {w}) = Cardinality(Creating) + 1
  BY <1>1, CourierConstantsOK, Countable, OneMore DEF OrderParcels, Creating, CourierInv, CourierFits
<1>4. Slack' = 1
  BY <1>1, <1>2 DEF Slack
<1>5. excused' + 1 >= excused + Slack + 1
  <2>1. CASE Opening = {}
    BY <2>1, <1>1, <1>3 DEF Overlap, Slack
  <2>2. CASE Opening # {}
    <3>1. Opening \ {w} # {}
      BY <2>2, <1>1
    <3> QED BY <3>1, <1>3 DEF Overlap, Slack
  <2> QED BY <2>1, <2>2
<1>6. Cardinality(OrderParcels) + Cardinality(Creating) =< excused + Slack
  BY DEF CourierInv, ParcelsCounted
<1>7. excused' \in Nat /\ Slack \in Nat
  BY <1>3 DEF Overlap, Slack
<1>9. Cardinality(OrderParcels)' = Cardinality(OrderParcels) /\ Cardinality(Creating)' = Cardinality(Creating) + 1
  BY <1>2, <1>3
<1>8. Cardinality(OrderParcels) + (Cardinality(Creating) + 1) =< excused' + 1
  BY <1>3, <1>5, <1>6, <1>7, Outweighed
<1> QED BY <1>4, <1>8, <1>9 DEF ParcelsCounted

LEMMA OverlapTyped == CourierInv => \A w : Overlap(w) => excused' \in Nat
BY DEF CourierInv, CourierFits, Overlap

LEMMA Lookings ==
  ASSUME CourierInv, NEW w \in Couriers, PushRead(w) \/ ShipRead(w)
  PROVE  CourierInv'
<1> USE Numbers, TaskTerms, StageNames
<1>1. /\ UNCHANGED <<sliceVars, returnBack, providerVars, scanLog, flagged, account, mishaps>>
      /\ ctask[w].do \notin {"create", "store"}
  BY DEF PushRead, ShipRead, Doing
<1>2. OrderParcels' = OrderParcels /\ booked' = booked
  BY <1>1 DEF OrderParcels, providerVars, sliceVars
<1>3. \/ \E s \in {"none", "PACKED"} : Turn(w, "create", 0, s) /\ booked = 0 /\ Overlap(w)
      \/ excused' = excused /\ Turn(w, "idle", 0, "none")
      \/ excused' = excused /\ Turn(w, "assign", booked, "PACKED")
  <2>1. {"create", "idle", "assign"} \subseteq TaskDos /\ booked \in ParcelNos
    BY DEF TaskDos, CourierInv, CourierRest, CourierFits
  <2>2. CASE PushRead(w)
    BY <2>1, <2>2 DEF PushRead, Turn, Do, Rest, Resting, NotOpened
  <2>3. CASE ShipRead(w)
    BY <2>1, <2>3 DEF ShipRead, Turn, Do, Rest, Resting, NotOpened
  <2> QED BY <2>2, <2>3
<1>4. ASSUME NEW d, NEW n, NEW s, Turn(w, d, n, s), excused' \in Nat, ParcelsCounted' PROVE CourierInv'
  <2>1. ctask' \in [Couriers -> CourierTask] /\ \A v \in Couriers : TaskFits(v)'
    BY <1>4, Turned
  <2>2. CourierFits'
    BY <1>1, <1>4, <2>1 DEF CourierInv, CourierRest, CourierFits, sliceVars, returnBack, providerVars
  <2> QED BY <1>4, <2>1, <2>2 DEF CourierInv
<1>5. CASE \E s \in {"none", "PACKED"} : Turn(w, "create", 0, s) /\ booked = 0 /\ Overlap(w)
  BY <1>1, <1>2, <1>4, <1>5, OpeningBegins, OverlapTyped
<1>6. ASSUME NEW d \in {"idle", "assign"}, NEW n, NEW s, excused' = excused, Turn(w, d, n, s) PROVE CourierInv'
  <2>1. Creating' = Creating /\ Opening' = Opening
    BY <1>1, <1>6, TurnElsewhere
  <2>2. ParcelsCounted'
    BY <1>2, <1>6, <2>1, CountStays
  <2>3. excused' \in Nat
    BY <1>6 DEF CourierInv, CourierFits
  <2> QED BY <1>4, <1>6, <2>2, <2>3
<1> QED BY <1>3, <1>5, <1>6

LEMMA Evened == \A a, c, e, f, s \in Nat :
  /\ a + c =< e + 1 /\ f + s >= e + 1 => (a + 1) + (c - 1) =< f + s
  /\ a + c =< e + 1 /\ f = e => a + (c - 1) =< f + s
OBVIOUS

\* A step of a handler that opens no parcel for the order.
LEMMA QuietTurn ==
  ASSUME CourierInv, NEW w, NEW d, NEW n, NEW s, Turn(w, d, n, s),
         ctask[w].do \notin {"create", "store"}, d \notin {"create", "store"},
         excused' = excused, booked' = booked \/ booked' # 0, CourierRest',
         \A p \in Parcels : parcel'[p].for = "order" <=> parcel[p].for = "order"
  PROVE  CourierInv'
<1>1. OrderParcels' = OrderParcels
  BY DEF OrderParcels
<1>2. Creating' = Creating /\ Opening' = Opening
  BY TurnElsewhere
<1>3. ParcelsCounted'
  BY <1>1, <1>2, CountStays
<1>4. ctask' \in [Couriers -> CourierTask] /\ \A v \in Couriers : TaskFits(v)'
  BY Turned
<1>5. excused' \in Nat
  BY DEF CourierInv, CourierFits
<1> QED BY <1>3, <1>4, <1>5 DEF CourierInv, CourierFits

\* A parcel is opened for the order.
LEMMA ParcelOpens ==
  ASSUME CourierInv, NEW w \in Couriers, CreateShipment(w)
  PROVE  CourierInv'
<1> USE Numbers, TaskTerms
<1>1. /\ ctask[w].do = "create" /\ UNCHANGED <<sliceVars, returnBack, scans, scanLog, flagged, account>>
      /\ ctask[w].status \in TaskWords
  BY TaskRead DEF CreateShipment, Doing, CourierInv, CourierFits
<1>2. PICK n \in Parcels : OpenParcel(w, n, "order") /\ (Answered(w, "store", n) \/ Lost(w))
  BY DEF CreateShipment
<1>3. parcel[n].for = "none" /\ parcel' = [parcel EXCEPT ![n].for = "order"]
  BY <1>2, ParcelMade DEF OpenParcel, Fresh
<1>4. parcel' \in [Parcels -> ParcelRows] /\ OrderParcels' = OrderParcels \cup {n} /\ n \notin OrderParcels
  <2>1. parcel \in [Parcels -> ParcelRows] /\ parcel[n] \in ParcelRows
    BY DEF CourierInv, CourierFits, CourierRest
  <2> DEFINE new == [parcel[n] EXCEPT !.for = "order"]
  <2>2. new \in ParcelRows /\ new.for = "order"
    BY <2>1, ParcelMade
  <2>3. parcel' = [parcel EXCEPT ![n] = new]
    BY <1>3
  <2> HIDE DEF new
  <2>4. parcel' \in [Parcels -> ParcelRows] /\ parcel'[n] = new /\ \A p \in Parcels : p # n => parcel'[p] = parcel[p]
    BY <2>1, <2>2, <2>3
  <2> QED BY <1>3, <2>2, <2>4 DEF OrderParcels
<1>5. \/ Turn(w, "store", n, ctask[w].status) /\ excused' = excused /\ mishaps' = mishaps
      \/ Turn(w, "idle", 0, "none") /\ excused' = excused + 1 /\ mishaps' = mishaps + 1
  <2>1. {"store", "idle"} \subseteq TaskDos
    BY DEF TaskDos
  <2>2. CASE Answered(w, "store", n)
    BY <1>1, <2>1, <2>2 DEF Answered, Do, Turn
  <2>3. CASE Lost(w)
    BY <1>1, <2>1, <2>3 DEF Lost, Rest, Resting, Turn
  <2> QED BY <1>2, <2>2, <2>3
<1>6. /\ ctask' \in [Couriers -> CourierTask] /\ (\A v \in Couriers : TaskFits(v)')
      /\ ctask'[w].do \in {"store", "idle"} /\ (\A v \in Couriers : v # w => ctask'[v] = ctask[v])
  BY <1>5, Turned
<1>7. CourierFits'
  <2>1. excused' \in Nat /\ mishaps' \in Nat
    BY <1>5 DEF CourierInv, CourierFits, CourierRest
  <2>2. CourierRest'
    BY <1>1, <1>4, <2>1 DEF CourierInv, CourierFits, CourierRest, sliceVars, returnBack
  <2> QED BY <1>6, <2>1, <2>2 DEF CourierFits
<1>8. Creating' = Creating \ {w} /\ w \in Creating /\ w \in Opening
  BY <1>1, <1>6 DEF Creating, Opening
<1>9. /\ Cardinality(OrderParcels \cup {n}) = Cardinality(OrderParcels) + 1
      /\ Cardinality(Creating \ {w}) = Cardinality(Creating) - 1
      /\ Cardinality(OrderParcels) \in Nat /\ Cardinality(Creating) \in Nat /\ excused \in Nat
  <2>1. Cardinality(OrderParcels \cup {n}) = Cardinality(OrderParcels) + 1 /\ Cardinality(OrderParcels) \in Nat
    <3>1. OrderParcels \in SUBSET Parcels
      BY DEF OrderParcels
    <3> QED BY <1>4, <3>1, Countable, OneMore
  <2>2. Cardinality(Creating \ {w}) = Cardinality(Creating) - 1 /\ Cardinality(Creating) \in Nat
    <3>1. Creating \in SUBSET Couriers
      BY DEF Creating
    <3> QED BY <1>8, <3>1, CourierConstantsOK, Countable, OneMore
  <2> QED BY <2>1, <2>2 DEF CourierInv, CourierFits
<1>10. excused' + Slack' >= excused + 1 /\ excused' \in Nat /\ Slack' \in Nat
  <2>1. CASE Turn(w, "store", n, ctask[w].status) /\ excused' = excused
    <3>1. ctask'[w].do = "store"
      BY <2>1, Turned
    <3>2. Slack' = 1
      BY <3>1 DEF Slack, Opening
    <3> QED BY <2>1, <3>2, <1>9
  <2>2. CASE excused' = excused + 1
    BY <2>2, <1>9 DEF Slack
  <2> QED BY <1>5, <2>1, <2>2
<1>11. Cardinality(OrderParcels) + Cardinality(Creating) =< excused + 1
  <2>1. Slack = 1
    BY <1>8 DEF Slack
  <2> QED BY <2>1 DEF CourierInv, ParcelsCounted
<1>12. (Cardinality(OrderParcels) + 1) + (Cardinality(Creating) - 1) =< excused' + Slack'
  BY <1>9, <1>10, <1>11, Evened
<1>13. ParcelsCounted'
  BY <1>4, <1>8, <1>9, <1>12 DEF ParcelsCounted
<1> QED BY <1>6, <1>7, <1>13 DEF CourierInv

\* Its number is stored, after which no other call opens one.
LEMMA ParcelStored ==
  ASSUME CourierInv, NEW w \in Couriers, StoreShipment(w)
  PROVE  CourierInv'
<1> USE Numbers, TaskTerms, StageNames
<1>1. /\ ctask[w].do = "store" /\ ctask[w].parcel \in ParcelNos /\ ctask[w].parcel # 0
      /\ booked' = ctask[w].parcel
      /\ UNCHANGED <<stage, awb, returnBack, providerVars, scanLog, flagged, account, excused, mishaps>>
  BY TaskRead DEF StoreShipment, Doing, CourierInv, CourierFits, TaskFits
<1>2. \/ Turn(w, "assign", ctask[w].parcel, "PACKED") \/ Turn(w, "idle", 0, "none")
  <2>1. {"assign", "idle"} \subseteq TaskDos
    BY DEF TaskDos
  <2> QED BY <1>1, <2>1 DEF StoreShipment, Do, Rest, Resting, Turn
<1>3. /\ ctask' \in [Couriers -> CourierTask] /\ (\A v \in Couriers : TaskFits(v)')
      /\ ctask'[w].do \in {"assign", "idle"} /\ (\A v \in Couriers : v # w => ctask'[v] = ctask[v])
  BY <1>2, Turned
<1>4. CourierFits'
  BY <1>1, <1>3 DEF CourierInv, CourierFits, CourierRest, returnBack, providerVars
<1>5. Creating' = Creating /\ OrderParcels' = OrderParcels
  BY <1>1, <1>3 DEF Creating, OrderParcels, providerVars
<1>6. Slack = 1 /\ Slack' = 1
  BY <1>1 DEF Slack, Opening
<1>7. ParcelsCounted'
  BY <1>1, <1>5, <1>6 DEF CourierInv, ParcelsCounted
<1> QED BY <1>3, <1>4, <1>7 DEF CourierInv

\* A crash of a call that opens a parcel is an excuse, if it opened one.
LEMMA CourierFails ==
  ASSUME CourierInv, NEW w \in Couriers, CourierCrash(w)
  PROVE  CourierInv'
<1> USE Numbers, TaskTerms
<1>1. /\ UNCHANGED <<sliceVars, returnBack, providerVars, scanLog, flagged, account>>
      /\ mishaps' = mishaps + 1 /\ excused' = IF ctask[w].do = "store" THEN excused + 1 ELSE excused
  BY DEF CourierCrash, Doing
<1>2. Turn(w, "idle", 0, "none")
  <2>1. "idle" \in TaskDos
    BY DEF TaskDos
  <2> QED BY <2>1 DEF CourierCrash, Rest, Resting, Turn
<1>3. /\ ctask' \in [Couriers -> CourierTask] /\ (\A v \in Couriers : TaskFits(v)')
      /\ ctask'[w].do = "idle" /\ (\A v \in Couriers : v # w => ctask'[v] = ctask[v])
  BY <1>2, Turned
<1>4. CourierRest' /\ excused \in Nat /\ excused' \in Nat
  BY <1>1 DEF CourierInv, CourierFits, CourierRest, sliceVars, returnBack, providerVars
<1>5. OrderParcels' = OrderParcels /\ booked' = booked
  BY <1>1 DEF OrderParcels, providerVars, sliceVars
<1>6. CASE ctask[w].do \notin {"create", "store"}
  BY <1>1, <1>2, <1>4, <1>6, QuietTurn DEF sliceVars, providerVars
<1>7. CASE ctask[w].do \in {"create", "store"}
  <2>1. Creating' = Creating \ {w} /\ w \in Opening
    BY <1>3, <1>7 DEF Creating, Opening
  <2>2. /\ Cardinality(OrderParcels) \in Nat /\ Cardinality(Creating) \in Nat
        /\ ctask[w].do = "create" => Cardinality(Creating \ {w}) = Cardinality(Creating) - 1
    BY CourierConstantsOK, Countable, OneMore DEF OrderParcels, Creating
  <2>3. Slack = 1 /\ Slack' \in Nat
    BY <2>1 DEF Slack
  <2>4. Cardinality(OrderParcels) + Cardinality(Creating) =< excused + 1
    BY <2>3 DEF CourierInv, ParcelsCounted
  <2>5. Cardinality(OrderParcels) + Cardinality(Creating \ {w}) =< excused' + Slack'
    <3>1. CASE ctask[w].do = "create"
      <4>1. excused' = excused
        BY <1>1, <3>1
      <4>2. Cardinality(OrderParcels) + (Cardinality(Creating) - 1) =< excused' + Slack'
        BY <1>4, <2>2, <2>3, <2>4, <4>1, Evened
      <4> QED BY <2>2, <3>1, <4>2
    <3>2. CASE ctask[w].do = "store"
      <4>1. Creating \ {w} = Creating
        BY <3>2 DEF Creating
      <4>2. excused' = excused + 1
        BY <1>1, <3>2
      <4>3. Cardinality(OrderParcels) + Cardinality(Creating) =< excused' + Slack'
        BY <4>2, <1>4, <2>2, <2>3, <2>4
      <4> QED BY <4>1, <4>3
    <3> QED BY <1>7, <3>1, <3>2
  <2>6. ParcelsCounted'
    BY <1>5, <2>1, <2>5 DEF ParcelsCounted
  <2> QED BY <1>3, <1>4, <2>6 DEF CourierInv, CourierFits
<1> QED BY <1>6, <1>7

\* The steps of a handler that open no parcel for the order, each by what it changes.
LEMMA ShippingOn ==
  ASSUME CourierInv, NEW w \in Couriers, AssignAwb(w) \/ MarkShipped(w) \/ StampAwb(w)
  PROVE  CourierInv'
<1> USE Numbers, TaskTerms, StageNames
<1>0. {"idle", "ship", "stamp"} \subseteq TaskDos
  BY DEF TaskDos
<1>1. ctask[w].parcel \in ParcelNos /\ parcel \in [Parcels -> ParcelRows]
  BY TaskRead DEF CourierInv, CourierFits, CourierRest
<1>2. CASE AssignAwb(w)
  <2>1. /\ ctask[w].do = "assign" /\ ctask[w].parcel \in Parcels
        /\ parcel' = [parcel EXCEPT ![ctask[w].parcel].awb = TRUE]
        /\ UNCHANGED <<sliceVars, returnBack, scans, scanLog, flagged, account, excused, mishaps>>
    BY <1>1, <1>2 DEF AssignAwb, Doing, CourierInv, TaskFits
  <2>2. Turn(w, "ship", ctask[w].parcel, "PACKED")
    BY <1>0, <1>2, <2>1 DEF AssignAwb, Do, Turn
  <2>3. parcel' \in [Parcels -> ParcelRows] /\ \A p \in Parcels : parcel'[p].for = parcel[p].for
    <3> DEFINE n == ctask[w].parcel  new == [parcel[n] EXCEPT !.awb = TRUE]
    <3>1. new \in ParcelRows /\ new.for = parcel[n].for
      BY <1>1, <2>1, ParcelMade
    <3>2. parcel' = [parcel EXCEPT ![n] = new] /\ n \in Parcels
      BY <2>1
    <3> HIDE DEF n, new
    <3> QED BY <1>1, <3>1, <3>2
  <2>4. CourierRest' /\ booked' = booked
    BY <2>1, <2>3 DEF CourierInv, CourierFits, CourierRest, sliceVars, returnBack
  <2> QED BY <2>1, <2>2, <2>3, <2>4, QuietTurn
<1>3. CASE MarkShipped(w)
  <2>1. /\ ctask[w].do = "ship" /\ ctask[w].parcel # 0 /\ stage' \in {stage, "SHIPPED"}
        /\ UNCHANGED <<booked, awb, returnBack, providerVars, scanLog, flagged, account, excused, mishaps>>
    BY <1>3 DEF MarkShipped, Doing, CourierInv, TaskFits
  <2>2. Turn(w, "stamp", ctask[w].parcel, "none") \/ Turn(w, "idle", 0, "none")
    BY <1>0, <1>1, <1>3, <2>1 DEF MarkShipped, Do, Rest, Resting, Turn
  <2>3. CourierRest' /\ parcel' = parcel
    BY <2>1 DEF CourierInv, CourierFits, CourierRest, returnBack, providerVars
  <2> QED BY <2>1, <2>2, <2>3, QuietTurn
<1>4. CASE StampAwb(w)
  <2>1. /\ ctask[w].do = "stamp" /\ ctask[w].parcel # 0 /\ booked' = ctask[w].parcel /\ awb' = ctask[w].parcel
        /\ UNCHANGED <<stage, returnBack, providerVars, scanLog, flagged, account, excused, mishaps>>
    BY <1>4 DEF StampAwb, Doing, CourierInv, TaskFits
  <2>2. Turn(w, "idle", 0, "none")
    BY <1>0, <1>4 DEF StampAwb, Rest, Resting, Turn
  <2>3. CourierRest' /\ parcel' = parcel
    BY <1>1, <2>1 DEF CourierInv, CourierFits, CourierRest, returnBack, providerVars
  <2> QED BY <2>1, <2>2, <2>3, QuietTurn
<1> QED BY <1>2, <1>3, <1>4

LEMMA ReturnsCollected ==
  ASSUME CourierInv, NEW w \in Couriers, CollectRead(w) \/ CreateReturn(w) \/ SchedulePickupBack(w)
  PROVE  CourierInv'
<1> USE Numbers, TaskTerms
<1>0. {"idle", "collect", "return"} \subseteq TaskDos
  BY DEF TaskDos
<1>1. ctask[w].parcel \in ParcelNos /\ parcel \in [Parcels -> ParcelRows]
  BY TaskRead DEF CourierInv, CourierFits, CourierRest
<1>2. CASE CollectRead(w)
  <2>1. /\ ctask[w].do = "idle"
        /\ UNCHANGED <<sliceVars, returnBack, providerVars, scanLog, flagged, account, excused, mishaps>>
    BY <1>2 DEF CollectRead, Doing
  <2>2. Turn(w, "collect", 0, "none") \/ Turn(w, "return", 0, "none")
    BY <1>0, <1>2 DEF CollectRead, Do, Turn
  <2>3. CourierRest' /\ parcel' = parcel /\ booked' = booked
    BY <2>1 DEF CourierInv, CourierFits, CourierRest, sliceVars, returnBack, providerVars
  <2> QED BY <2>1, <2>2, <2>3, QuietTurn
<1>3. CASE CreateReturn(w)
  <2>1. /\ ctask[w].do = "collect"
        /\ UNCHANGED <<sliceVars, returnBack, scans, scanLog, flagged, account, excused, mishaps>>
    BY <1>3 DEF CreateReturn, Doing
  <2>2. PICK n \in Parcels, ok \in BOOLEAN :
          /\ Fresh(n) /\ parcel' = [parcel EXCEPT ![n] = [for |-> "return", awb |-> ok, at |-> "new"]]
          /\ Do(w, "return", IF ok THEN n ELSE 0, "none")
    BY <1>3 DEF CreateReturn
  <2>3. Turn(w, "return", IF ok THEN n ELSE 0, "none")
    BY <1>0, <2>2 DEF Do, Turn
  <2>4. parcel' \in [Parcels -> ParcelRows] /\ \A p \in Parcels : parcel'[p].for = "order" <=> parcel[p].for = "order"
    <3> DEFINE new == [for |-> "return", awb |-> ok, at |-> "new"]
    <3>1. new \in ParcelRows /\ new.for = "return" /\ parcel[n].for = "none"
      BY <2>2, ParcelMade DEF Fresh
    <3>2. parcel' = [parcel EXCEPT ![n] = new]
      BY <2>2
    <3> HIDE DEF new
    <3> QED BY <1>1, <3>1, <3>2
  <2>5. CourierRest' /\ booked' = booked
    BY <2>1, <2>4 DEF CourierInv, CourierFits, CourierRest, sliceVars, returnBack
  <2> QED BY <2>1, <2>3, <2>4, <2>5, QuietTurn
<1>4. CASE SchedulePickupBack(w)
  <2>1. /\ ctask[w].do = "return"
        /\ \/ pickup' = "PICKUP_SCHEDULED" /\ backAwb' = ctask[w].parcel
           \/ UNCHANGED returnBack
        /\ UNCHANGED <<sliceVars, providerVars, scanLog, flagged, account, excused, mishaps>>
    BY <1>4 DEF SchedulePickupBack, Doing
  <2>2. Turn(w, "idle", 0, "none")
    BY <1>0, <1>4 DEF SchedulePickupBack, Rest, Resting, Turn
  <2>3. CourierRest' /\ parcel' = parcel /\ booked' = booked
    BY <1>1, <2>1 DEF CourierInv, CourierFits, CourierRest, sliceVars, returnBack, providerVars
  <2> QED BY <2>1, <2>2, <2>3, QuietTurn
<1> QED BY <1>2, <1>3, <1>4

LEMMA ScansTracked ==
  ASSUME CourierInv, NEW w \in Couriers, Tracking(w)
  PROVE  CourierInv'
<1> USE Numbers, TaskTerms, StageNames
<1>0. {"idle", "alarm", "write", "book"} \subseteq TaskDos
  BY DEF TaskDos
<1>1. parcel \in [Parcels -> ParcelRows] /\ awb \in ParcelNos
  BY DEF CourierInv, CourierFits, CourierRest
<1>2. ASSUME NEW n \in Parcels, NEW s \in Scan, ApplyStatus(w, n, s)
      PROVE  \E d \in {"idle", "alarm", "write"}, p \in ParcelNos, t \in TaskWords : Turn(w, d, p, t)
  <2>1. s # "NDR" => Target(s) \in Stages
    BY DEF Target, Scan, Stages
  <2>2. Turn(w, "alarm", n, s) \/ (s # "NDR" /\ Turn(w, "write", n, Target(s))) \/ Turn(w, "idle", 0, "none")
    <3>1. CASE s = "NDR" /\ ~flagged
      BY <1>0, <1>2, <3>1 DEF ApplyStatus, Do, Turn
    <3>2. CASE s # "NDR" /\ Target(s) \in NextStage(stage)
      BY <1>0, <1>2, <2>1, <3>2 DEF ApplyStatus, Do, Turn
    <3>3. CASE ~(s = "NDR" /\ ~flagged) /\ ~(s # "NDR" /\ Target(s) \in NextStage(stage))
      BY <1>0, <1>2, <3>3 DEF ApplyStatus, Rest, Resting, Turn
    <3> QED BY <3>1, <3>2, <3>3
  <2> QED BY <2>2 DEF Turn
<1>3. ASSUME NEW n \in Parcels, NEW s \in Scan, Webhook(w, n, s) PROVE CourierInv'
  <2>1. /\ ctask[w].do = "idle" /\ scanLog' \subseteq scans
        /\ UNCHANGED <<sliceVars, returnBack, providerVars, flagged, account, excused, mishaps>>
    BY <1>3 DEF Webhook, Doing, CourierInv, CourierFits, CourierRest
  <2>2. \E d \in {"idle", "alarm", "write", "book"}, p \in ParcelNos, t \in TaskWords : Turn(w, d, p, t)
    <3>1. CASE ApplyStatus(w, n, s)
      BY <3>1, <1>2
    <3>2. CASE Do(w, "book", n, s)
      <4>1. Turn(w, "book", n, s)
        BY <1>0, <3>2 DEF Do, Turn
      <4> QED BY <4>1 DEF Turn
    <3> QED BY <1>3, <3>1, <3>2 DEF Webhook
  <2>3. CourierRest' /\ parcel' = parcel /\ booked' = booked
    BY <2>1 DEF CourierInv, CourierFits, CourierRest, sliceVars, returnBack, providerVars
  <2> QED BY <2>1, <2>2, <2>3, QuietTurn
<1>4. CASE ApplyReverse(w)
  <2>1. /\ ctask[w].do = "book" /\ pickup' \in {pickup, "IN_TRANSIT", "RECEIVED"}
        /\ UNCHANGED <<sliceVars, backAwb, providerVars, scanLog, flagged, account, excused, mishaps>>
    BY <1>4 DEF ApplyReverse, Doing
  <2>2. Turn(w, "idle", 0, "none")
    BY <1>0, <1>4 DEF ApplyReverse, Rest, Resting, Turn
  <2>3. CourierRest' /\ parcel' = parcel /\ booked' = booked
    BY <2>1 DEF CourierInv, CourierFits, CourierRest, sliceVars, providerVars
  <2> QED BY <2>1, <2>2, <2>3, QuietTurn
<1>5. CASE Poll(w)
  <2>1. /\ ctask[w].do = "idle"
        /\ UNCHANGED <<sliceVars, returnBack, providerVars, scanLog, flagged, account, excused, mishaps>>
    BY <1>5 DEF Poll, Doing
  <2>2. awb \in Parcels /\ parcel[awb].at \in Scan
    <3>1. awb \in Parcels /\ parcel[awb] \in ParcelRows /\ parcel[awb].at # "new"
      BY <1>1, <1>5 DEF Poll
    <3> QED BY <3>1 DEF ParcelRows
  <2>3. \E d \in {"idle", "alarm", "write"}, p \in ParcelNos, t \in TaskWords : Turn(w, d, p, t)
    BY <1>2, <1>5, <2>2 DEF Poll
  <2>4. CourierRest' /\ parcel' = parcel /\ booked' = booked
    BY <2>1 DEF CourierInv, CourierFits, CourierRest, sliceVars, returnBack, providerVars
  <2> QED BY <2>1, <2>3, <2>4, QuietTurn
<1>6. CASE ApplyWrite(w)
  <2>1. /\ ctask[w].do = "write" /\ stage' \in Stages
        /\ UNCHANGED <<booked, awb, returnBack, providerVars, scanLog, flagged, account, excused, mishaps>>
    BY <1>6 DEF ApplyWrite, Doing, CourierInv, TaskFits
  <2>2. Turn(w, "idle", 0, "none")
    BY <1>0, <1>6 DEF ApplyWrite, Rest, Resting, Turn
  <2>3. CourierRest' /\ parcel' = parcel
    BY <2>1 DEF CourierInv, CourierFits, CourierRest, returnBack, providerVars
  <2> QED BY <2>1, <2>2, <2>3, QuietTurn
<1>7. CASE FlagException(w)
  <2>1. /\ ctask[w].do = "alarm" /\ flagged' = TRUE
        /\ UNCHANGED <<sliceVars, returnBack, providerVars, scanLog, account, excused, mishaps>>
    BY <1>7 DEF FlagException, Doing
  <2>2. Turn(w, "idle", 0, "none")
    BY <1>0, <1>7 DEF FlagException, Rest, Resting, Turn
  <2>3. CourierRest' /\ parcel' = parcel /\ booked' = booked
    BY <2>1 DEF CourierInv, CourierFits, CourierRest, sliceVars, returnBack, providerVars
  <2> QED BY <2>1, <2>2, <2>3, QuietTurn
<1> QED BY <1>3, <1>4, <1>5, <1>6, <1>7 DEF Tracking

\* Who has no parcel in hand: the seller, the account, the provider, the counter of returns.
LEMMA CourierAside ==
  ASSUME CourierInv, UNCHANGED <<booked, ctask, excused>>, CourierRest',
         \A p \in Parcels : parcel'[p].for = parcel[p].for
  PROVE  CourierInv'
<1>1. OrderParcels' = OrderParcels /\ Creating' = Creating /\ Opening' = Opening
  BY DEF OrderParcels, Creating, Opening
<1>2. ParcelsCounted'
  BY <1>1, CountStays
<1> QED BY <1>2 DEF CourierInv, CourierFits, TaskFits

LEMMA OthersMove ==
  ASSUME CourierInv,
         \/ \E w \in Couriers, to \in Stages : SellerMoves(w, to)
         \/ \E w \in Couriers : Connecting(w)
         \/ ReceiveByHand \/ Settings
         \/ \E n \in Parcels, to \in Scan : ParcelMoves(n, to)
  PROVE  CourierInv'
<1> USE Numbers, TaskTerms, StageNames
<1>0. {"idle", "push", "login"} \subseteq TaskDos
  BY DEF TaskDos
<1>1. ASSUME NEW w \in Couriers, NEW to \in Stages, SellerMoves(w, to) PROVE CourierInv'
  <2>1. stage' = to /\ UNCHANGED <<booked, awb, returnBack, providerVars, scanLog, flagged, account, excused, mishaps>>
    BY <1>1 DEF SellerMoves
  <2>2. CourierRest' /\ parcel' = parcel
    BY <2>1 DEF CourierInv, CourierFits, CourierRest, returnBack, providerVars
  <2>3. CASE to = "CONFIRMED"
    <3>1. ctask[w].do = "idle" /\ Turn(w, "push", 0, "none")
      BY <1>0, <1>1, <2>3 DEF SellerMoves, Doing, Do, Turn
    <3> QED BY <2>1, <2>2, <3>1, QuietTurn
  <2>4. CASE to # "CONFIRMED"
    BY <1>1, <2>1, <2>2, <2>4, CourierAside DEF SellerMoves
  <2> QED BY <2>3, <2>4
<1>2. ASSUME NEW w \in Couriers, Connecting(w) PROVE CourierInv'
  <2>1. PICK a \in BOOLEAN : SetAccount(a)
    BY <1>2 DEF Connecting, ConnectReset, ConnectLogin
  <2>2. CourierRest' /\ parcel' = parcel /\ booked' = booked /\ excused' = excused
    BY <2>1 DEF SetAccount, CourierInv, CourierFits, CourierRest, sliceVars, returnBack, providerVars
  <2>3. ctask[w].do \in {"idle", "login"} /\ (Turn(w, "login", 0, "none") \/ Turn(w, "idle", 0, "none"))
    BY <1>0, <1>2 DEF Connecting, ConnectReset, ConnectLogin, Doing, Do, Rest, Resting, Turn
  <2> QED BY <2>2, <2>3, QuietTurn
<1>3. CASE ReceiveByHand
  <2>1. CourierRest' /\ UNCHANGED <<booked, ctask, excused, parcel>>
    BY <1>3 DEF ReceiveByHand, CourierInv, CourierFits, CourierRest, sliceVars, providerVars
  <2> QED BY <2>1, CourierAside
<1>4. CASE Settings
  <2>1. CourierRest' /\ UNCHANGED <<booked, ctask, excused, parcel>>
    BY <1>4 DEF Settings, SetEnabled, SetAccount, CourierInv, CourierFits, CourierRest, sliceVars, returnBack, providerVars
  <2> QED BY <2>1, CourierAside
<1>5. ASSUME NEW n \in Parcels, NEW to \in Scan, ParcelMoves(n, to) PROVE CourierInv'
  <2>1. /\ parcel' = [parcel EXCEPT ![n].at = to] /\ scans' = scans \cup {<<n, to>>}
        /\ UNCHANGED <<sliceVars, returnBack, scanLog, flagged, account, ctask, excused, mishaps>>
    BY <1>5 DEF ParcelMoves
  <2>2. parcel' \in [Parcels -> ParcelRows] /\ \A p \in Parcels : parcel'[p].for = parcel[p].for
    <3> DEFINE new == [parcel[n] EXCEPT !.at = to]
    <3>0. parcel \in [Parcels -> ParcelRows]
      BY DEF CourierInv, CourierFits, CourierRest
    <3>1. new \in ParcelRows /\ new.for = parcel[n].for
      BY <3>0, ParcelMade
    <3>2. parcel' = [parcel EXCEPT ![n] = new]
      BY <2>1
    <3> HIDE DEF new
    <3> QED BY <3>0, <3>1, <3>2
  <2>3. scans' \subseteq Parcels \X Scan /\ scanLog' \subseteq scans'
    BY <2>1 DEF CourierInv, CourierFits, CourierRest
  <2>4. CourierRest' /\ UNCHANGED <<booked, ctask, excused>>
    BY <2>1, <2>2, <2>3 DEF CourierInv, CourierFits, CourierRest, sliceVars, returnBack
  <2> QED BY <2>2, <2>4, CourierAside
<1> QED BY <1>1, <1>2, <1>3, <1>4, <1>5

LEMMA CourierStep == CourierInv /\ [CourierNext]_courierVars => CourierInv'
<1> SUFFICES ASSUME CourierInv, [CourierNext]_courierVars PROVE CourierInv'
  OBVIOUS
<1>1. CASE UNCHANGED courierVars
  <2>1. CourierRest' /\ UNCHANGED <<booked, ctask, excused, parcel>>
    BY <1>1 DEF courierVars, CourierInv, CourierFits, CourierRest, sliceVars, returnBack, providerVars
  <2> QED BY <2>1, CourierAside
<1>2. ASSUME NEW w \in Couriers, Shipping(w) PROVE CourierInv'
  <2>1. CASE \E to \in Stages : SellerMoves(w, to)
    BY <2>1, OthersMove
  <2>2. CASE PushRead(w) \/ ShipRead(w)
    BY <2>2, Lookings
  <2>3. CASE CreateShipment(w) \/ StoreShipment(w)
    BY <2>3, ParcelOpens, ParcelStored
  <2>4. CASE AssignAwb(w) \/ MarkShipped(w) \/ StampAwb(w)
    BY <2>4, ShippingOn
  <2> QED BY <1>2, <2>1, <2>2, <2>3, <2>4 DEF Shipping
<1>3. ASSUME NEW w \in Couriers, Collecting(w) \/ Tracking(w) \/ Connecting(w) \/ CourierCrash(w) PROVE CourierInv'
  BY <1>3, ReturnsCollected, ScansTracked, OthersMove, CourierFails DEF Collecting
<1>4. CASE ReceiveByHand \/ Settings \/ \E n \in Parcels, to \in Scan : ParcelMoves(n, to)
  BY <1>4, OthersMove
<1> QED BY <1>1, <1>2, <1>3, <1>4 DEF CourierNext

LEMMA ParcelsKeep == CourierInv => CourierTypeOK /\ ParcelsExplained
<1> SUFFICES ASSUME CourierInv PROVE CourierTypeOK /\ ParcelsExplained
  OBVIOUS
<1>1. Cardinality(OrderParcels) \in Nat /\ Cardinality(Creating) \in Nat /\ excused \in Nat /\ Slack \in {0, 1}
  BY Countable DEF OrderParcels, Creating, CourierInv, CourierFits, Slack
<1>2. Cardinality(OrderParcels) + Cardinality(Creating) =< excused + Slack
  BY DEF CourierInv, ParcelsCounted
<1>3. Cardinality(OrderParcels) =< 1 + excused
  BY <1>1, <1>2
<1> QED BY <1>3, CourierTyped DEF CourierInv, ParcelsExplained, OrderParcels

-----------------------------------------------------------------------------
(***************************************************************************)
(* The courier's account and its logins.                                   *)
(***************************************************************************)
\* The account and the calls, by their fields.
CallDos     == {"idle", "login", "store", "wait", "call"}
CallOps     == Operations \cup {"none"}
CallWhys    == {"none", "connect", "test", "refresh"}
TryNos      == 0 .. 2
CallRows    == [do : CallDos, op : CallOps, why : CallWhys, given : Given, token : Given, tries : TryNos, ran : TryNos]
AccountWords == {"NONE", "PENDING", "CONNECTED", "ERROR", "DISABLED"}
AccountRows == [status : AccountWords, enabled : BOOLEAN, given : Given, token : Given, fresh : BOOLEAN]
LoginFits == courierAccount \in AccountRows /\ leading \subseteq Callers /\ call \in [Callers -> CallRows] /\ mixed \in BOOLEAN

\* The one request that logs in for all, and those that wait for it.
Leads(c) == c.why = "refresh" /\ c.do \in {"login", "store"}
LeadFits ==
  /\ {w \in Callers : Leads(call[w])} = leading
  /\ \A v, w \in leading : v = w
\* A request that is under way has credentials, and they are those of the account.
AccountFits ==
  /\ courierAccount.enabled => courierAccount.given # 0
  /\ ~mixed => courierAccount.token \in {0, courierAccount.given}
CallFits(c) ==
  /\ c.do # "idle" => c.given # 0 /\ courierAccount.given # 0
  /\ c.do = "wait" => leading # {} /\ c.why = "refresh"
  /\ c.ran =< c.tries /\ (c.op \in WriteOps => c.ran = 0)
  /\ ~mixed => c.given \in {0, courierAccount.given} /\ c.token \in {0, c.given}
LoginInv == LoginFits /\ LeadFits /\ AccountFits /\ \A w \in Callers : CallFits(call[w])

\* A call with the fields named, and an account.
IsCall(c, do, op, why, given, token, tries, ran) ==
  /\ c \in CallRows
  /\ c.do = do /\ c.op = op /\ c.why = why /\ c.given = given /\ c.token = token /\ c.tries = tries /\ c.ran = ran
IsAccount(a, enabled, given, token) ==
  a \in AccountRows /\ a.enabled = enabled /\ a.given = given /\ a.token = token
LEMMA GivenZero == 0 \in Given /\ 0 \in TryNos /\ "none" \in CallOps /\ Operations \subseteq CallOps
BY LoginConstantsOK DEF Given, TryNos, CallOps
LEMMA LoginTyped == LoginFits /\ LeadFits => LoginTypeOK
<1> SUFFICES ASSUME LoginFits, LeadFits PROVE LoginTypeOK
  OBVIOUS
<1>1. Cardinality(leading) =< 1
  <2>1. CASE leading = {}
    BY <2>1, FS_EmptySet
  <2>2. CASE leading # {}
    <3>1. PICK w : leading = {w}
      BY <2>2 DEF LeadFits
    <3> QED BY <3>1, FS_Singleton
  <2> QED BY <2>1, <2>2
<1>2. /\ courierAccount \in [status : {"NONE", "PENDING", "CONNECTED", "ERROR", "DISABLED"},
                         enabled : BOOLEAN, given : Given, token : Given, fresh : BOOLEAN]
      /\ leading \subseteq Callers /\ mixed \in BOOLEAN
  BY DEF LoginFits, AccountRows, AccountWords
<1>3. call \in [Callers -> [do : {"idle", "login", "store", "wait", "call"},
                           op : Operations \cup {"none"},
                           why : {"none", "connect", "test", "refresh"}, given : Given,
                           token : Given, tries : 0 .. 2, ran : 0 .. 2]]
  BY DEF LoginFits, CallRows, CallDos, CallOps, CallWhys, TryNos
<1> QED BY <1>1, <1>2, <1>3 DEF LoginTypeOK

LEMMA CallHung == IsCall(Hung, "idle", "none", "none", 0, 0, 0, 0)
BY GivenZero DEF IsCall, Hung, CallRows, CallDos, CallWhys
LEMMA CallConnect ==
  \A n \in Given : IsCall([Hung EXCEPT !.do = "login", !.why = "connect", !.given = n], "login", "none", "connect", n, 0, 0, 0)
BY GivenZero DEF IsCall, Hung, CallRows, CallDos, CallWhys
LEMMA CallTest ==
  \A n \in Given : IsCall([Hung EXCEPT !.do = "login", !.why = "test", !.given = n], "login", "none", "test", n, 0, 0, 0)
BY GivenZero DEF IsCall, Hung, CallRows, CallDos, CallWhys
CallFor(op, n) == [Hung EXCEPT !.op = op, !.given = n, !.why = "refresh"]
LEMMA CallNew == \A op \in CallOps, n \in Given : IsCall(CallFor(op, n), "idle", op, "refresh", n, 0, 0, 0)
BY GivenZero DEF IsCall, CallFor, Hung, CallRows, CallDos, CallWhys
LEMMA CallOn ==
  \A c \in CallRows, do \in CallDos :
    IsCall([c EXCEPT !.do = do], do, c.op, c.why, c.given, c.token, c.tries, c.ran)
BY DEF IsCall, CallRows
LEMMA CallToken ==
  \A c \in CallRows, do \in CallDos, n \in Given :
    IsCall([c EXCEPT !.do = do, !.token = n], do, c.op, c.why, c.given, n, c.tries, c.ran)
BY DEF IsCall, CallRows
LEMMA CallTried ==
  \A c \in CallRows, n \in {0, 1} : c.tries < 2 /\ c.ran =< c.tries =>
    IsCall([c EXCEPT !.tries = @ + 1, !.ran = @ + n], c.do, c.op, c.why, c.given, c.token, c.tries + 1, c.ran + n)
<1> SUFFICES ASSUME NEW c \in CallRows, NEW n \in {0, 1}, c.tries < 2, c.ran =< c.tries
             PROVE  IsCall([c EXCEPT !.tries = @ + 1, !.ran = @ + n], c.do, c.op, c.why, c.given, c.token, c.tries + 1, c.ran + n)
  OBVIOUS
<1>1. c.tries \in 0 .. 2 /\ c.ran \in 0 .. 2
  BY DEF CallRows, TryNos
<1>2. c.tries + 1 \in TryNos /\ c.ran + n \in TryNos
  BY <1>1 DEF TryNos
<1>3. \A a, b \in TryNos : IsCall([c EXCEPT !.tries = a, !.ran = b], c.do, c.op, c.why, c.given, c.token, a, b)
  BY DEF IsCall, CallRows
<1> QED BY <1>2, <1>3
LEMMA AccountNew == \A n \in Given :
  IsAccount([status |-> "PENDING", enabled |-> FALSE, given |-> n, token |-> 0, fresh |-> FALSE], FALSE, n, 0)
BY GivenZero DEF IsAccount, AccountRows, AccountWords

LEMMA LoginStarts == LoginInit => LoginInv
<1> SUFFICES ASSUME LoginInit PROVE LoginInv
  OBVIOUS
<1>1. IsCall(Hung, "idle", "none", "none", 0, 0, 0, 0)
  BY CallHung
<1>2. courierAccount \in AccountRows
  BY GivenZero DEF LoginInit, AccountRows, AccountWords
<1>3. LoginFits /\ \A w \in Callers : call[w] = Hung
  BY <1>1, <1>2 DEF LoginInit, LoginFits, IsCall
<1>4. LeadFits
  BY <1>1, <1>3 DEF LoginInit, LeadFits, Leads, IsCall
<1>5. AccountFits
  BY DEF LoginInit, AccountFits
<1>6. CallFits(Hung)
  BY <1>1 DEF IsCall, CallFits
<1> QED BY <1>3, <1>4, <1>5, <1>6 DEF LoginInv

\* One call goes on, while who leads stays.
LEMMA CallGoesOn ==
  ASSUME LoginInv, NEW w \in Callers, NEW new \in CallRows, call' = [call EXCEPT ![w] = new],
         courierAccount' \in AccountRows, courierAccount'.given = courierAccount.given, AccountFits',
         UNCHANGED <<leading, mixed>>, Leads(new) <=> Leads(call[w]), CallFits(new)'
  PROVE  LoginInv'
<1>1. /\ call' \in [Callers -> CallRows] /\ call'[w] = new
      /\ \A v \in Callers : v # w => call'[v] = call[v]
  BY DEF LoginInv, LoginFits
<1>2. LoginFits'
  BY <1>1 DEF LoginInv, LoginFits
<1>3. \A v \in Callers : Leads(call[v])' <=> Leads(call[v])
  BY <1>1 DEF Leads
<1>4. LeadFits'
  BY <1>3 DEF LoginInv, LeadFits
<1>5. ASSUME NEW v \in Callers PROVE CallFits(call[v])'
  <2>1. CASE v = w
    BY <2>1, <1>1 DEF CallFits
  <2>2. CASE v # w
    BY <2>2, <1>1 DEF CallFits, LoginInv
  <2> QED BY <2>1, <2>2
<1> QED BY <1>2, <1>4, <1>5 DEF LoginInv

\* The account changes, and no credentials of it.
LEMMA AccountTurns ==
  ASSUME LoginInv, courierAccount' \in AccountRows, courierAccount'.given = courierAccount.given, AccountFits',
         UNCHANGED <<leading, call, mixed>>
  PROVE  LoginInv'
<1>1. LoginFits' /\ LeadFits'
  BY DEF LoginInv, LoginFits, LeadFits, Leads
<1>2. \A v \in Callers : CallFits(call[v])'
  BY DEF LoginInv, CallFits
<1> QED BY <1>1, <1>2 DEF LoginInv

LEMMA CourierConnects ==
  ASSUME LoginInv, NEW w \in Callers, ConnectCourier(w)
  PROVE  LoginInv'
<1> DEFINE n == courierAccount.given + 1  new == [Hung EXCEPT !.do = "login", !.why = "connect", !.given = n]
<1>0. courierAccount.given \in Nat /\ n \in Given /\ n # 0
  BY LoginConstantsOK DEF LoginInv, LoginFits, AccountRows, Given, ConnectCourier
<1>1. IsAccount(courierAccount', FALSE, n, 0)
  BY <1>0, AccountNew DEF ConnectCourier
<1>2. IsCall(new, "login", "none", "connect", n, 0, 0, 0)
  BY <1>0, CallConnect
<1>3. /\ call' = [call EXCEPT ![w] = new] /\ leading' = leading /\ call[w].do = "idle"
      /\ mixed' = (mixed \/ \E v \in Callers \ {w} : Using(v))
  BY DEF ConnectCourier, Calling
<1> HIDE DEF n, new
<1>4. /\ call' \in [Callers -> CallRows] /\ call'[w] = new
      /\ \A v \in Callers : v # w => call'[v] = call[v]
  BY <1>2, <1>3 DEF LoginInv, LoginFits, IsCall
<1>5. LoginFits'
  BY <1>1, <1>3, <1>4 DEF LoginInv, LoginFits, IsAccount
<1>6. \A v \in Callers : Leads(call[v])' <=> Leads(call[v])
  BY <1>2, <1>3, <1>4 DEF Leads, IsCall
<1>7. LeadFits'
  BY <1>3, <1>6 DEF LoginInv, LeadFits
<1>8. AccountFits'
  BY <1>1, <1>0 DEF AccountFits, IsAccount
<1>9. CallFits(call[w])'
  BY <1>0, <1>1, <1>2, <1>4 DEF CallFits, IsCall, IsAccount
<1>10. ASSUME NEW v \in Callers \ {w} PROVE CallFits(call[v])'
  <2>1. call'[v] = call[v] /\ CallFits(call[v]) /\ courierAccount'.given = n
    BY <1>1, <1>4 DEF LoginInv, IsAccount
  <2>2. ~mixed' => ~mixed /\ call[v].given = 0
    BY <1>3 DEF Using
  <2> QED BY <2>1, <2>2, <1>0, <1>3 DEF CallFits
<1> QED BY <1>5, <1>7, <1>8, <1>9, <1>10 DEF LoginInv

LEMMA CourierTested ==
  ASSUME LoginInv, NEW w \in Callers, TestCourier(w)
  PROVE  LoginInv'
<1> DEFINE n == courierAccount.given
<1>1. n \in Given /\ n # 0
  BY DEF LoginInv, LoginFits, AccountRows, TestCourier
<1>2. PICK new : new = [Hung EXCEPT !.do = "login", !.why = "test", !.given = n]
                 /\ IsCall(new, "login", "none", "test", n, 0, 0, 0)
  BY <1>1, CallTest
<1>3. /\ call' = [call EXCEPT ![w] = new] /\ call[w].do = "idle" /\ UNCHANGED <<courierAccount, leading, mixed>>
  BY <1>2 DEF TestCourier, Calling
<1>4. CallFits(new)' /\ (Leads(new) <=> Leads(call[w]))
  BY <1>1, <1>2, <1>3 DEF CallFits, Leads, IsCall
<1>5. courierAccount' \in AccountRows /\ AccountFits'
  BY <1>3 DEF LoginInv, LoginFits, AccountFits
<1> QED BY <1>2, <1>3, <1>4, <1>5, CallGoesOn DEF IsCall

LEMMA LoginAnswered ==
  ASSUME LoginInv, NEW w \in Callers, LogIn(w)
  PROVE  LoginInv'
<1>1. PICK n \in {0, call[w].given} : call' = [call EXCEPT ![w].do = "store", ![w].token = n]
  BY DEF LogIn
<1> DEFINE c == call[w]
<1>2. c \in CallRows /\ c.do = "login" /\ n \in Given /\ c.given \in Given /\ CallFits(c)
      /\ UNCHANGED <<courierAccount, leading, mixed>>
  BY GivenZero DEF LoginInv, LoginFits, LogIn, Calling, CallRows
<1>3. "store" \in CallDos
  BY DEF CallDos
<1>4. PICK new : new = [c EXCEPT !.do = "store", !.token = n] /\ IsCall(new, "store", c.op, c.why, c.given, n, c.tries, c.ran)
  BY <1>2, <1>3, CallToken
<1>5. call' = [call EXCEPT ![w] = new]
  BY <1>1, <1>4 DEF LoginInv, LoginFits
<1>6. CallFits(new)' /\ (Leads(new) <=> Leads(call[w]))
  BY <1>2, <1>4 DEF CallFits, Leads, IsCall
<1>7. courierAccount' \in AccountRows /\ AccountFits'
  BY <1>2 DEF LoginInv, LoginFits, AccountFits
<1> QED BY <1>2, <1>4, <1>5, <1>6, <1>7, CallGoesOn DEF IsCall

\* A call that ends or is tried again.
LEMMA CallHangsUp ==
  ASSUME LoginInv, NEW w \in Callers, HangUp(w), ~Leads(call[w]), courierAccount' \in AccountRows,
         courierAccount'.given = courierAccount.given, AccountFits', UNCHANGED <<leading, mixed>>
  PROVE  LoginInv'
<1>1. IsCall(Hung, "idle", "none", "none", 0, 0, 0, 0) /\ call' = [call EXCEPT ![w] = Hung]
  BY CallHung DEF HangUp
<1>2. CallFits(Hung)' /\ ~Leads(Hung)
  BY <1>1 DEF CallFits, Leads, IsCall
<1> QED BY <1>1, <1>2, CallGoesOn DEF IsCall

LEMMA LoginStored ==
  ASSUME LoginInv, NEW w \in Callers, StoreLogin(w)
  PROVE  LoginInv'
<1> DEFINE c == call[w]  a == courierAccount
<1>1. /\ c \in CallRows /\ c.do = "store" /\ c.why \in {"connect", "test"} /\ c.token \in Given /\ CallFits(c)
      /\ a \in AccountRows /\ AccountFits /\ HangUp(w) /\ UNCHANGED <<leading, mixed>>
  BY DEF LoginInv, LoginFits, StoreLogin, Calling, CallRows
<1>2. a.given # 0
  BY <1>1 DEF CallFits
<1>3. \E on \in BOOLEAN :
        \/ c.token # 0 /\ a' = [a EXCEPT !.status = "CONNECTED", !.token = c.token, !.fresh = TRUE, !.enabled = on]
        \/ a' = [a EXCEPT !.status = "ERROR", !.enabled = on]
  BY <1>1 DEF StoreLogin, AccountRows
<1>4. /\ a' \in AccountRows /\ a'.given = a.given /\ a'.token \in {a.token, c.token}
      /\ a'.token = c.token => c.token # 0 \/ a'.token = a.token
  BY <1>1, <1>3 DEF AccountRows, AccountWords
<1>5. AccountFits'
  BY <1>1, <1>2, <1>4 DEF AccountFits, CallFits
<1>6. ~Leads(c)
  BY <1>1 DEF Leads
<1> QED BY <1>1, <1>4, <1>5, <1>6, CallHangsUp

LEMMA AccountSwitched ==
  ASSUME LoginInv, TokenAges \/ \E on \in BOOLEAN : SwitchCourier(on)
  PROVE  LoginInv'
<1> DEFINE a == courierAccount
<1>1. /\ a \in AccountRows /\ AccountFits /\ UNCHANGED <<leading, call, mixed>>
  BY DEF LoginInv, LoginFits, TokenAges, SwitchCourier
<1>2. \/ a' = [a EXCEPT !.fresh = FALSE]
      \/ a.given # 0 /\ \E on \in BOOLEAN, s \in AccountWords : a' = [a EXCEPT !.enabled = on, !.status = s]
  BY DEF TokenAges, SwitchCourier, AccountWords
<1>3. /\ a' \in AccountRows /\ a'.given = a.given /\ a'.token = a.token
      /\ a'.enabled => a.enabled \/ a.given # 0
  BY <1>1, <1>2 DEF AccountRows
<1>4. AccountFits'
  BY <1>1, <1>3 DEF AccountFits
<1> QED BY <1>1, <1>3, <1>4, AccountTurns

\* A call is tried again only if it reads.
LEMMA CallOver ==
  ASSUME LoginInv, NEW w \in Callers, CallReturns(w) \/ CallAgain(w)
  PROVE  LoginInv'
<1> DEFINE c == call[w]
<1>1. /\ c \in CallRows /\ c.do = "call" /\ CallFits(c) /\ c.op \in CallOps
      /\ UNCHANGED <<courierAccount, leading, mixed>>
  BY DEF LoginInv, LoginFits, CallReturns, CallAgain, Calling, CallRows
<1>2. courierAccount' \in AccountRows /\ AccountFits' /\ ~Leads(c)
  BY <1>1 DEF LoginInv, LoginFits, AccountFits, Leads
<1>3. CASE CallReturns(w)
  BY <1>1, <1>2, <1>3, CallHangsUp DEF CallReturns
<1>4. CASE CallAgain(w)
  <2>1. c.tries \in TryNos /\ c.ran \in TryNos
    BY <1>1 DEF CallRows
  <2>2. c.op \notin WriteOps /\ c.tries < 2
    BY <2>1, <1>4 DEF CallAgain, Retries, ReadOps, WriteOps, TryNos
  <2>3. PICK n \in {0, 1} : call' = [call EXCEPT ![w].tries = @ + 1, ![w].ran = @ + n]
    BY <1>4 DEF CallAgain, Carried
  <2>4. PICK new : new = [c EXCEPT !.tries = @ + 1, !.ran = @ + n] /\ IsCall(new, c.do, c.op, c.why, c.given, c.token, c.tries + 1, c.ran + n)
    BY <1>1, <2>2, CallTried DEF CallFits
  <2>5. call' = [call EXCEPT ![w] = new]
    BY <2>3, <2>4 DEF LoginInv, LoginFits
  <2>6. c.ran + n =< c.tries + 1
    BY <1>1, <2>1 DEF CallFits, TryNos
  <2>7. CallFits(new)' /\ (Leads(new) <=> Leads(c))
    BY <1>1, <2>2, <2>4, <2>6 DEF CallFits, Leads, IsCall
  <2>8. new \in CallRows /\ courierAccount'.given = courierAccount.given /\ UNCHANGED <<leading, mixed>>
    BY <1>1, <2>4 DEF IsCall
  <2> QED BY <1>2, <2>5, <2>7, <2>8, CallGoesOn
<1> QED BY <1>3, <1>4

\* A request asks for a context: it has a fresh token, waits for who logs in, or logs in itself.
LEMMA ContextAsked ==
  ASSUME LoginInv, NEW w \in Callers, NEW op \in Operations, GetContext(w, op)
  PROVE  LoginInv'
<1> DEFINE a == courierAccount
<1>0. /\ a \in AccountRows /\ a.given \in Given /\ a.token \in Given /\ op \in CallOps /\ AccountFits /\ a.given # 0
      /\ call[w].do = "idle" /\ UNCHANGED <<courierAccount, mixed>>
  BY GivenZero DEF LoginInv, LoginFits, AccountFits, AccountRows, GetContext, Calling
<1>1. PICK c : c = CallFor(op, a.given) /\ IsCall(c, "idle", op, "refresh", a.given, 0, 0, 0)
  BY <1>0, CallNew
<1>a. c \in CallRows /\ c.op = op /\ c.why = "refresh" /\ c.given = a.given /\ c.token = 0 /\ c.tries = 0 /\ c.ran = 0
  BY <1>1 DEF IsCall
<1>b. "call" \in CallDos /\ "wait" \in CallDos /\ "login" \in CallDos
  BY DEF CallDos
<1>c. \A n \in Given : IsCall([c EXCEPT !.do = "call", !.token = n], "call", c.op, c.why, c.given, n, c.tries, c.ran)
  BY <1>a, <1>b, CallToken
<1>d. \A do \in CallDos : IsCall([c EXCEPT !.do = do], do, c.op, c.why, c.given, c.token, c.tries, c.ran)
  BY <1>a, CallOn
<1>2. {"call", "wait", "login"} \subseteq CallDos /\ courierAccount' \in AccountRows /\ AccountFits'
  BY <1>0 DEF CallDos, AccountFits
<1>3. CASE /\ leading' = leading /\ call' = [call EXCEPT ![w] = [c EXCEPT !.do = "call", !.token = a.token]]
  <2>1. PICK new : /\ new = [c EXCEPT !.do = "call", !.token = a.token]
                   /\ IsCall(new, "call", op, "refresh", a.given, a.token, 0, 0)
    BY <1>0, <1>a, <1>c
  <2>2. CallFits(new)' /\ (Leads(new) <=> Leads(call[w]))
    BY <1>0, <2>1 DEF CallFits, Leads, IsCall, AccountFits
  <2> QED BY <1>0, <1>2, <1>3, <2>1, <2>2, CallGoesOn DEF IsCall
<1>4. CASE /\ leading # {} /\ leading' = leading /\ call' = [call EXCEPT ![w] = [c EXCEPT !.do = "wait"]]
  <2>1. PICK new : new = [c EXCEPT !.do = "wait"] /\ IsCall(new, "wait", op, "refresh", a.given, 0, 0, 0)
    BY <1>a, <1>b, <1>d
  <2>2. CallFits(new)' /\ (Leads(new) <=> Leads(call[w]))
    BY <1>0, <1>4, <2>1 DEF CallFits, Leads, IsCall
  <2> QED BY <1>0, <1>2, <1>4, <2>1, <2>2, CallGoesOn DEF IsCall
<1>5. CASE /\ leading = {} /\ leading' = leading \cup {w} /\ call' = [call EXCEPT ![w] = [c EXCEPT !.do = "login"]]
  <2>1. PICK new : new = [c EXCEPT !.do = "login"] /\ IsCall(new, "login", op, "refresh", a.given, 0, 0, 0)
    BY <1>a, <1>b, <1>d
  <2>2. /\ call' \in [Callers -> CallRows] /\ call'[w] = new
        /\ \A v \in Callers : v # w => call'[v] = call[v]
    BY <1>5, <2>1 DEF LoginInv, LoginFits, IsCall
  <2>3. LoginFits'
    BY <1>0, <1>5, <2>2 DEF LoginInv, LoginFits
  <2>4. Leads(call[w])' /\ \A v \in Callers : v # w => (Leads(call[v])' <=> Leads(call[v]))
    BY <2>1, <2>2 DEF Leads, IsCall
  <2>5. LeadFits'
    <3>1. \A v \in Callers : ~Leads(call[v])
      BY <1>5 DEF LoginInv, LeadFits
    <3> QED BY <1>5, <2>4, <3>1 DEF LeadFits
  <2>6. ASSUME NEW v \in Callers PROVE CallFits(call[v])'
    <3>1. CASE v = w
      <4>1. CallFits(new)'
        BY <1>0, <2>1 DEF CallFits, IsCall
      <4> QED BY <2>2, <3>1, <4>1 DEF CallFits
    <3>2. CASE v # w
      <4>1. call'[v] = call[v] /\ CallFits(call[v]) /\ leading' # {}
        BY <1>5, <2>2, <3>2 DEF LoginInv
      <4> QED BY <1>0, <4>1 DEF CallFits
    <3> QED BY <3>1, <3>2
  <2> QED BY <1>2, <2>3, <2>5, <2>6 DEF LoginInv
<1> QED BY <1>1, <1>3, <1>4, <1>5 DEF GetContext, CallFor, MayLead

\* The login of the leader ends, for all who wait.
LEMMA ContextShared ==
  ASSUME LoginInv, NEW w \in Callers, Refreshed(w)
  PROVE  LoginInv'
<1> DEFINE a == courierAccount  n == call[w].token
           all == {w} \cup {v \in Callers : Calling(v, "wait")}
<1>1. /\ call[w] \in CallRows /\ n \in Given /\ Leads(call[w]) /\ CallFits(call[w])
      /\ a \in AccountRows /\ AccountFits /\ leading' = {} /\ mixed' = mixed
      /\ call[w].do = "store" /\ call[w].given # 0 /\ a.given # 0
  BY DEF LoginInv, LoginFits, Refreshed, Calling, CallRows, Leads, CallFits
<1>2. /\ a' \in AccountRows /\ a'.given = a.given /\ AccountFits'
  <2>1. a' = a \/ a' = [a EXCEPT !.token = n, !.fresh = TRUE]
    BY DEF Refreshed
  <2>2. a' \in AccountRows /\ a'.given = a.given /\ a'.enabled = a.enabled /\ a'.token \in {a.token, n}
    BY <1>1, <2>1 DEF AccountRows
  <2> QED BY <1>1, <2>2 DEF AccountFits, CallFits
<1>3. \A v \in Callers : call'[v] = IF v \notin all THEN call[v]
                                    ELSE IF n = 0 THEN Hung ELSE [call[v] EXCEPT !.do = "call", !.token = n]
  BY DEF Refreshed
<1>4. call' = [v \in Callers |-> call'[v]]
  BY DEF Refreshed
<1>5. w \in leading /\ \A v \in Callers : Leads(call[v]) => v = w
  BY <1>1 DEF LoginInv, LeadFits
<1>0. "call" \in CallDos /\ call \in [Callers -> CallRows]
  BY DEF CallDos, LoginInv, LoginFits
<1>6. ASSUME NEW v \in Callers PROVE call'[v] \in CallRows /\ ~Leads(call'[v]) /\ CallFits(call[v])'
  <2>1. call[v] \in CallRows /\ CallFits(call[v])
    BY <1>0 DEF LoginInv
  <2>2. CASE v \notin all
    <3>1. call'[v] = call[v] /\ v # w /\ call[v].do # "wait"
      BY <1>3, <2>2 DEF Calling
    <3>2. CallFits(call[v])'
      BY <1>1, <1>2, <2>1, <3>1 DEF CallFits
    <3> QED BY <1>5, <2>1, <3>1, <3>2
  <2>3. CASE v \in all /\ n = 0
    <3>1. call'[v] = Hung /\ IsCall(Hung, "idle", "none", "none", 0, 0, 0, 0)
      BY <1>3, <2>3, CallHung
    <3>2. CallFits(call[v])'
      BY <3>1 DEF CallFits, IsCall
    <3> QED BY <3>1, <3>2 DEF Leads, IsCall
  <2>4. CASE v \in all /\ n # 0
    <3>1. call'[v] = [call[v] EXCEPT !.do = "call", !.token = n]
      BY <1>3, <2>4
    <3> DEFINE c == call[v]
    <3>0. c \in CallRows /\ "call" \in CallDos /\ n \in Given
      BY <1>0, <1>1, <2>1
    <3>a. IsCall([c EXCEPT !.do = "call", !.token = n], "call", c.op, c.why, c.given, n, c.tries, c.ran)
      BY <3>0, CallToken
    <3>2. IsCall(call'[v], "call", c.op, c.why, c.given, n, c.tries, c.ran)
      BY <3>1, <3>a
    <3>3. call[v].do # "idle" /\ call[v].given # 0
      BY <1>1, <2>1, <2>4 DEF CallFits, Calling
    <3>4. ~mixed => call[v].given = a.given /\ n = a.given
      BY <1>1, <2>1, <2>4, <3>3 DEF CallFits
    <3>5. CallFits(call[v])'
      BY <1>1, <1>2, <2>1, <3>2, <3>3, <3>4 DEF CallFits, IsCall
    <3> QED BY <3>2, <3>5 DEF Leads, IsCall
  <2> QED BY <2>2, <2>3, <2>4
<1>7. LoginFits'
  BY <1>1, <1>2, <1>4, <1>6 DEF LoginInv, LoginFits
<1>8. LeadFits'
  BY <1>1, <1>6 DEF LeadFits, Leads
<1> QED BY <1>2, <1>6, <1>7, <1>8 DEF LoginInv

LEMMA LoginStep == LoginInv /\ [LoginNext]_loginVars => LoginInv'
<1> SUFFICES ASSUME LoginInv, [LoginNext]_loginVars PROVE LoginInv'
  OBVIOUS
<1>1. CASE UNCHANGED loginVars
  <2>1. UNCHANGED <<courierAccount, leading, call, mixed>>
    BY <1>1 DEF loginVars
  <2>2. courierAccount' \in AccountRows /\ AccountFits'
    BY <2>1 DEF LoginInv, LoginFits, AccountFits
  <2> QED BY <2>1, <2>2, AccountTurns
<1>2. ASSUME NEW w \in Callers, ConnectCourier(w) \/ TestCourier(w) \/ LogIn(w) \/ StoreLogin(w) PROVE LoginInv'
  BY <1>2, CourierConnects, CourierTested, LoginAnswered, LoginStored
<1>3. ASSUME NEW w \in Callers, \E op \in Operations : GetContext(w, op) PROVE LoginInv'
  BY <1>3, ContextAsked
<1>4. ASSUME NEW w \in Callers, Refreshed(w) \/ CallReturns(w) \/ CallAgain(w) PROVE LoginInv'
  BY <1>4, ContextShared, CallOver
<1> QED BY <1>1, <1>2, <1>3, <1>4, AccountSwitched DEF LoginNext

LEMMA LoginsHold == LoginInv => LoginTypeOK /\ LoginsKept
<1> SUFFICES ASSUME LoginInv PROVE LoginTypeOK /\ LoginsKept
  OBVIOUS
<1>1. LoginTypeOK
  BY LoginTyped DEF LoginInv
<1>2. ~mixed => courierAccount.token \in {0, courierAccount.given}
  BY DEF LoginInv, AccountFits
<1>3. {w \in Callers : call[w].why = "refresh" /\ call[w].do \in {"login", "store"}} = leading
  BY DEF LoginInv, LeadFits, Leads
<1>4. (\E w \in Callers : Calling(w, "wait")) => leading # {}
  BY DEF LoginInv, CallFits, Calling
<1>5. \A w \in Callers : call[w].op \in WriteOps => call[w].ran = 0
  BY DEF LoginInv, CallFits
<1> QED BY <1>1, <1>2, <1>3, <1>4, <1>5 DEF LoginsKept

-----------------------------------------------------------------------------
(***************************************************************************)
(* The API keys and their trail.                                           *)
(***************************************************************************)
\* The keys, the requests and the rows of the trail, by their fields.
KeyStates  == {"none", "live", "revoked"}
KeyRecords == [is : KeyStates, expires : Nat, used : BOOLEAN]
MachineDos == {"idle", "create", "revoke", "look", "stamp"}
KeyNames   == ApiKeys \cup {"none"}
MachineTasks == [do : MachineDos, key : KeyNames, genuine : BOOLEAN, dead : BOOLEAN]
TrailActs  == {"create", "revoke"}
TrailRows  == [of : ApiKeys, act : TrailActs]
TrailPlaces == 0 .. MaxTrail
TrailIndex  == 1 .. MaxTrail
Days        == 1 .. MaxDays
Auditors   == [page : Nat, seen : SUBSET TrailIndex, since : TrailPlaces]
KeyRest ==
  /\ apiKey \in [ApiKeys -> KeyRecords] /\ today \in Days /\ revokers \in [ApiKeys -> Nat]
  /\ trail \in Seq(TrailRows) /\ Len(trail) =< MaxTrail /\ auditor \in Auditors
KeyFits == KeyRest /\ mreq \in [Machines -> MachineTasks]

\* What the trail may say of a key, and whether it says it.
Happened(k, act) == IF act = "create" THEN apiKey[k].is # "none" ELSE apiKey[k].is = "revoked"
InTrail(k, act)  == \E i \in DOMAIN trail : trail[i].of = k /\ trail[i].act = act
TrailFits == /\ \A i, j \in DOMAIN trail : trail[i].of = trail[j].of /\ trail[i].act = trail[j].act => i = j
             /\ \A i \in DOMAIN trail : Happened(trail[i].of, trail[i].act)
RevokersFit == \A k \in ApiKeys : revokers[k] = IF apiKey[k].is = "revoked" THEN 1 ELSE 0

\* A request that is to be told of has happened, is not told of, and has no other of its kind.
Telling(q) == q.do \in {"create", "revoke"}
MachineFits(q) ==
  /\ q.do # "idle" => q.key \in ApiKeys
  /\ Telling(q) => Happened(q.key, q.do) /\ ~InTrail(q.key, q.do)
  /\ q.do = "look" /\ q.genuine =>
       /\ apiKey[q.key].is # "none"
       /\ q.dead => apiKey[q.key].is = "revoked" \/ Lapsed(apiKey[q.key])
  /\ q.do = "stamp" => q.genuine /\ ~q.dead
OneTells == \A m, n \in Machines : /\ Telling(mreq[m]) /\ mreq[m].do = mreq[n].do /\ mreq[m].key = mreq[n].key
                                   => m = n
\* The auditor has seen the rows of the pages turned, but for those that were not there.
Unturned == Len(trail) - (auditor.page - 1) * PageSize
AuditorFits ==
  IF auditor.page = 0 THEN auditor.since = 0
  ELSE /\ auditor.since =< Len(trail)
       /\ \A i \in 1 .. auditor.since : i > Unturned => i \in auditor.seen
KeysInv == /\ KeyFits /\ TrailFits /\ RevokersFit /\ OneTells /\ AuditorFits
           /\ \A m \in Machines : MachineFits(mreq[m])

LEMMA KeyTyped == KeyFits <=> KeyTypeOK
BY DEF KeyFits, KeyRest, KeyTypeOK, KeyRecords, KeyStates, Days, MachineTasks, MachineDos, KeyNames, TrailRows, TrailActs,
       Auditors, TrailIndex, TrailPlaces

\* A task with the fields named, and a key.
IsTask(q, do, key, genuine, dead) ==
  q \in MachineTasks /\ q.do = do /\ q.key = key /\ q.genuine = genuine /\ q.dead = dead
LEMMA TaskNone == IsTask(NoMreq, "idle", "none", FALSE, FALSE)
BY DEF IsTask, NoMreq, MachineTasks, MachineDos, KeyNames
LEMMA TaskTell == \A do \in {"create", "revoke"}, k \in ApiKeys :
                    IsTask([NoMreq EXCEPT !.do = do, !.key = k], do, k, FALSE, FALSE)
BY DEF IsTask, NoMreq, MachineTasks, MachineDos, KeyNames
LEMMA TaskLook == \A k \in ApiKeys, genuine, dead \in BOOLEAN :
                    IsTask([do |-> "look", key |-> k, genuine |-> genuine, dead |-> dead], "look", k, genuine, dead)
BY DEF IsTask, MachineTasks, MachineDos, KeyNames
LEMMA TaskStamp == \A q \in MachineTasks : IsTask([q EXCEPT !.do = "stamp"], "stamp", q.key, q.genuine, q.dead)
BY DEF IsTask, MachineTasks, MachineDos
IsKey(row, is, expires) == row \in KeyRecords /\ row.is = is /\ row.expires = expires
LEMMA KeyMinted == \A until \in Nat : IsKey([Unminted EXCEPT !.is = "live", !.expires = until], "live", until)
BY DEF IsKey, Unminted, KeyRecords, KeyStates
LEMMA KeyRevoked == \A row \in KeyRecords : IsKey([row EXCEPT !.is = "revoked"], "revoked", row.expires)
BY DEF IsKey, KeyRecords, KeyStates
LEMMA KeyUsed == \A row \in KeyRecords : IsKey([row EXCEPT !.used = TRUE], row.is, row.expires)
BY DEF IsKey, KeyRecords
LEMMA KeyUnminted == IsKey(Unminted, "none", 0)
BY DEF IsKey, Unminted, Never, KeyRecords, KeyStates
LEMMA DayOne == 1 \in Days /\ 0 \in TrailPlaces /\ MaxTrail \in Nat /\ TrailPlaces \subseteq Nat
BY KeyConstantsOK DEF Days, TrailPlaces

\* Who has turned as many pages as there are has turned to the end.
LEMMA PagesTurned ==
  \A total, p \in Nat, page \in Nat \ {0} : p # 0 /\ page > (total + p - 1) \div p => total - (page - 1) * p =< 0
<1> SUFFICES ASSUME NEW total \in Nat, NEW p \in Nat, NEW page \in Nat \ {0}, p # 0, page > (total + p - 1) \div p
             PROVE  total - (page - 1) * p =< 0
  OBVIOUS
<1> DEFINE last == (total + p - 1) \div p
<1>1. last \in Nat /\ total + p - 1 < (last + 1) * p
  OBVIOUS
<1>2. page - 1 >= last /\ page - 1 \in Nat
  BY <1>1
<1>3. (page - 1) * p >= last * p
  BY <1>1, <1>2
<1>4. (last + 1) * p = last * p + p
  BY <1>1
<1> QED BY <1>1, <1>3, <1>4

LEMMA KeysStart == KeyInit => KeysInv
<1> SUFFICES ASSUME KeyInit PROVE KeysInv
  OBVIOUS
<1>1. IsTask(NoMreq, "idle", "none", FALSE, FALSE) /\ IsKey(Unminted, "none", 0)
  BY TaskNone, KeyUnminted
<1>2. Away \in Auditors /\ Away.page = 0 /\ Away.since = 0
  BY DayOne DEF Away, Auditors
<1>3. trail \in Seq(TrailRows) /\ Len(trail) = 0 /\ DOMAIN trail = {}
  BY DEF KeyInit
<1>4. KeyFits
  BY <1>1, <1>2, <1>3, DayOne DEF KeyInit, KeyFits, KeyRest, IsTask, IsKey
<1>5. TrailFits
  BY <1>3 DEF TrailFits
<1>6. RevokersFit
  BY <1>1 DEF KeyInit, RevokersFit, IsKey
<1>7. \A m \in Machines : mreq[m] = NoMreq
  BY DEF KeyInit
<1>8. OneTells /\ \A m \in Machines : MachineFits(mreq[m])
  BY <1>1, <1>7 DEF OneTells, MachineFits, Telling, IsTask
<1>9. AuditorFits
  BY <1>2 DEF KeyInit, AuditorFits
<1> QED BY <1>4, <1>5, <1>6, <1>8, <1>9 DEF KeysInv

\* One request goes on.
LEMMA MachineTurns ==
  ASSUME KeysInv, NEW m \in Machines, NEW q \in MachineTasks, mreq' = [mreq EXCEPT ![m] = q],
         KeyRest', TrailFits', RevokersFit', AuditorFits', MachineFits(q)',
         \A n \in Machines : n # m /\ Telling(q) => ~(mreq[n].do = q.do /\ mreq[n].key = q.key),
         \A r \in MachineTasks : (\E n \in Machines : n # m /\ r = mreq[n]) => MachineFits(r)'
  PROVE  KeysInv'
<1>1. /\ mreq' \in [Machines -> MachineTasks] /\ mreq'[m] = q
      /\ \A n \in Machines : n # m => mreq'[n] = mreq[n] /\ mreq[n] \in MachineTasks
  BY DEF KeysInv, KeyFits
<1>2. KeyFits'
  BY <1>1 DEF KeyFits
<1>3. OneTells'
  <2> SUFFICES ASSUME NEW a \in Machines, NEW b \in Machines, Telling(mreq'[a]),
                      mreq'[a].do = mreq'[b].do, mreq'[a].key = mreq'[b].key
               PROVE  a = b
    BY DEF OneTells, Telling
  <2>1. CASE a = m
    BY <2>1, <1>1
  <2>2. CASE b = m
    BY <2>2, <1>1 DEF Telling
  <2>3. CASE a # m /\ b # m
    BY <2>3, <1>1 DEF KeysInv, OneTells
  <2> QED BY <2>1, <2>2, <2>3
<1>4. ASSUME NEW n \in Machines PROVE MachineFits(mreq[n])'
  <2>1. CASE n = m
    BY <2>1, <1>1 DEF MachineFits
  <2>2. CASE n # m
    <3>1. PICK r \in MachineTasks : r = mreq[n]
      BY <2>2, <1>1
    <3>2. MachineFits(r)'
      BY <2>2, <3>1
    <3>3. mreq'[n] = r
      BY <2>2, <1>1, <3>1
    <3> QED BY <3>2, <3>3 DEF MachineFits, Telling
  <2> QED BY <2>1, <2>2
<1> QED BY <1>2, <1>3, <1>4 DEF KeysInv

\* What is so of a request stays so while keys get older, are used, minted or revoked.
LEMMA FitsStay ==
  ASSUME KeysInv, NEW r \in MachineTasks, MachineFits(r), trail' = trail, today' \in Days, today' >= today,
         \A k \in ApiKeys : /\ apiKey[k].is # "none" => apiKey'[k].is # "none" /\ apiKey'[k].expires = apiKey[k].expires
                            /\ apiKey[k].is = "revoked" => apiKey'[k].is = "revoked",
         apiKey' \in [ApiKeys -> KeyRecords]
  PROVE  MachineFits(r)'
<1>1. r.do # "idle" => r.key \in ApiKeys
  BY DEF MachineFits
<1>2. Telling(r) => r.do \in {"create", "revoke"} /\ r.key \in ApiKeys /\ Happened(r.key, r.do) /\ ~InTrail(r.key, r.do)
  BY DEF MachineFits, Telling
<1>3. (Telling(r) => Happened(r.key, r.do) /\ ~InTrail(r.key, r.do))'
  <2>1. Telling(r) => Happened(r.key, r.do)'
    BY <1>2 DEF Happened
  <2>2. Telling(r) => ~InTrail(r.key, r.do)'
    BY <1>2 DEF InTrail
  <2>3. Telling(r)' <=> Telling(r)
    BY DEF Telling
  <2> QED BY <2>1, <2>2, <2>3
<1>4. ASSUME r.do = "look", r.genuine
      PROVE  /\ apiKey'[r.key].is # "none"
             /\ r.dead => apiKey'[r.key].is = "revoked" \/ Lapsed(apiKey[r.key])'
  <2>1. /\ r.key \in ApiKeys /\ apiKey[r.key].is # "none"
        /\ r.dead => apiKey[r.key].is = "revoked" \/ Lapsed(apiKey[r.key])
    BY <1>1, <1>4 DEF MachineFits
  <2>2. /\ apiKey'[r.key].is # "none" /\ apiKey'[r.key].expires = apiKey[r.key].expires
        /\ apiKey[r.key].is = "revoked" => apiKey'[r.key].is = "revoked"
    BY <2>1
  <2>3. today \in Nat /\ today' \in Nat /\ apiKey[r.key].expires \in Nat
    BY <2>1 DEF KeysInv, KeyFits, KeyRest, KeyRecords, Days
  <2>4. apiKey[r.key].expires # 0 /\ apiKey[r.key].expires =< today => apiKey'[r.key].expires # 0 /\ apiKey'[r.key].expires =< today'
    BY <2>2, <2>3
  <2> QED BY <2>1, <2>2, <2>4 DEF Lapsed, Never
<1>5. r.do = "stamp" => r.genuine /\ ~r.dead
  BY DEF MachineFits
<1> QED BY <1>1, <1>3, <1>4, <1>5 DEF MachineFits

\* What the trail says stays so, and where the auditor is.
LEMMA TrailStays ==
  ASSUME KeysInv, trail' = trail,
         \A k \in ApiKeys : /\ apiKey[k].is # "none" => apiKey'[k].is # "none"
                            /\ apiKey[k].is = "revoked" => apiKey'[k].is = "revoked"
  PROVE  TrailFits'
<1>1. \A i \in DOMAIN trail : trail[i] \in TrailRows
  BY DEF KeysInv, KeyFits, KeyRest
<1>2. \A i \in DOMAIN trail : trail[i].of \in ApiKeys
  BY <1>1 DEF TrailRows
<1>3. \A i \in DOMAIN trail : Happened(trail[i].of, trail[i].act) => Happened(trail[i].of, trail[i].act)'
  BY <1>2 DEF Happened
<1> QED BY <1>3 DEF KeysInv, TrailFits
LEMMA AuditorWaits == KeysInv /\ trail' = trail /\ auditor' = auditor => AuditorFits'
BY DEF KeysInv, AuditorFits, Unturned

\* A key is minted or revoked; of either the trail has no row, and no other request tells.
LEMMA KeyTurns ==
  ASSUME KeysInv, NEW m \in Machines, NEW k \in ApiKeys, NEW do \in {"create", "revoke"}, NEW row \in KeyRecords,
         apiKey' = [apiKey EXCEPT ![k] = row], mreq' = [mreq EXCEPT ![m] = [NoMreq EXCEPT !.do = do, !.key = k]],
         UNCHANGED <<today, trail, auditor>>, revokers' \in [ApiKeys -> Nat], RevokersFit',
         do = "create" => apiKey[k].is = "none" /\ row.is = "live",
         do = "revoke" => apiKey[k].is = "live" /\ row.is = "revoked" /\ row.expires = apiKey[k].expires
  PROVE  KeysInv'
<1>1. PICK q : q = [NoMreq EXCEPT !.do = do, !.key = k] /\ IsTask(q, do, k, FALSE, FALSE)
  BY TaskTell
<1>2. /\ apiKey' \in [ApiKeys -> KeyRecords] /\ apiKey'[k] = row
      /\ \A j \in ApiKeys : j # k => apiKey'[j] = apiKey[j]
  BY DEF KeysInv, KeyFits, KeyRest
<1>3. KeyRest'
  BY <1>2 DEF KeysInv, KeyFits, KeyRest
<1>4. \A j \in ApiKeys : /\ apiKey[j].is # "none" => apiKey'[j].is # "none" /\ apiKey'[j].expires = apiKey[j].expires
                         /\ apiKey[j].is = "revoked" => apiKey'[j].is = "revoked"
  BY <1>2
<1>5. TrailFits' /\ AuditorFits'
  BY <1>4, TrailStays, AuditorWaits
<1>6. ~Happened(k, do) /\ Happened(k, do)'
  BY <1>2 DEF Happened
<1>7. ~InTrail(k, do)'
  BY <1>6 DEF InTrail, KeysInv, TrailFits
<1>8. MachineFits(q)'
  <2>1. q.do = do /\ q.key = k /\ q.do # "look" /\ q.do # "stamp"
    BY <1>1 DEF IsTask
  <2>2. (Telling(q) => Happened(q.key, q.do) /\ ~InTrail(q.key, q.do))'
    BY <1>6, <1>7, <2>1
  <2> QED BY <2>1, <2>2 DEF MachineFits
<1>9. \A n \in Machines : ~(mreq[n].do = do /\ mreq[n].key = k)
  BY <1>6 DEF KeysInv, MachineFits, Telling
<1>10. \A r \in MachineTasks : (\E n \in Machines : n # m /\ r = mreq[n]) => MachineFits(r)'
  <2> SUFFICES ASSUME NEW n \in Machines, NEW r \in MachineTasks, r = mreq[n] PROVE MachineFits(r)'
    OBVIOUS
  <2>1. MachineFits(r)
    BY DEF KeysInv
  <2>2. today \in Days /\ today' = today /\ today >= today
    BY DEF KeysInv, KeyFits, KeyRest, Days
  <2> QED BY <2>1, <2>2, <1>2, <1>4, FitsStay
<1>11. q \in MachineTasks /\ mreq' = [mreq EXCEPT ![m] = q] /\ q.do = do /\ q.key = k
  BY <1>1 DEF IsTask
<1> QED BY <1>3, <1>5, <1>8, <1>9, <1>10, <1>11, MachineTurns

LEMMA KeysTurn ==
  ASSUME KeysInv, NEW m \in Machines, NEW k \in ApiKeys, RevokeKey(m, k) \/ \E until \in {Never, 2} : MintKey(m, k, until)
  PROVE  KeysInv'
<1>0. apiKey \in [ApiKeys -> KeyRecords] /\ revokers \in [ApiKeys -> Nat] /\ RevokersFit
  BY DEF KeysInv, KeyFits, KeyRest
<1>1. CASE RevokeKey(m, k)
  <2>1. PICK row : row = [apiKey[k] EXCEPT !.is = "revoked"] /\ IsKey(row, "revoked", apiKey[k].expires)
    BY <1>0, KeyRevoked
  <2>2. /\ apiKey' = [apiKey EXCEPT ![k] = row] /\ row \in KeyRecords /\ row.is = "revoked"
        /\ row.expires = apiKey[k].expires /\ apiKey[k].is = "live"
    BY <1>0, <1>1, <2>1 DEF RevokeKey, Revocable, IsKey
  <2>3. revokers' = [revokers EXCEPT ![k] = @ + 1] /\ revokers[k] = 0
    BY <1>0, <1>1, <2>2 DEF RevokeKey, RevokersFit
  <2>4. revokers' \in [ApiKeys -> Nat] /\ RevokersFit'
    BY <1>0, <2>2, <2>3 DEF RevokersFit
  <2>5. UNCHANGED <<today, trail, auditor>> /\ mreq' = [mreq EXCEPT ![m] = [NoMreq EXCEPT !.do = "revoke", !.key = k]]
    BY <1>1 DEF RevokeKey
  <2> QED BY <2>2, <2>4, <2>5, KeyTurns
<1>2. ASSUME NEW until \in {Never, 2}, MintKey(m, k, until) PROVE KeysInv'
  <2>0. until \in Nat
    BY DEF Never
  <2>1. PICK row : row = [Unminted EXCEPT !.is = "live", !.expires = until] /\ IsKey(row, "live", until)
    BY <2>0, KeyMinted
  <2>2. apiKey' = [apiKey EXCEPT ![k] = row] /\ row \in KeyRecords /\ row.is = "live" /\ apiKey[k].is = "none"
    BY <1>2, <2>1 DEF MintKey, IsKey
  <2>3. revokers' \in [ApiKeys -> Nat] /\ RevokersFit'
    BY <1>0, <1>2, <2>2 DEF MintKey, RevokersFit
  <2>4. UNCHANGED <<today, trail, auditor>> /\ mreq' = [mreq EXCEPT ![m] = [NoMreq EXCEPT !.do = "create", !.key = k]]
    BY <1>2 DEF MintKey
  <2> QED BY <2>2, <2>3, <2>4, KeyTurns
<1> QED BY <1>1, <1>2

\* A request that has nothing to tell goes on.
LEMMA MachineGoesOn ==
  ASSUME KeysInv, NEW m \in Machines, NEW q \in MachineTasks, mreq' = [mreq EXCEPT ![m] = q], ~Telling(q),
         UNCHANGED <<today, trail, auditor, revokers>>, MachineFits(q)', apiKey' \in [ApiKeys -> KeyRecords],
         \A k \in ApiKeys : apiKey'[k].is = apiKey[k].is /\ apiKey'[k].expires = apiKey[k].expires
  PROVE  KeysInv'
<1>1. KeyRest' /\ RevokersFit'
  BY DEF KeysInv, KeyFits, KeyRest, RevokersFit
<1>2. TrailFits' /\ AuditorFits'
  BY TrailStays, AuditorWaits
<1>3. \A r \in MachineTasks : (\E n \in Machines : n # m /\ r = mreq[n]) => MachineFits(r)'
  <2> SUFFICES ASSUME NEW n \in Machines, NEW r \in MachineTasks, r = mreq[n] PROVE MachineFits(r)'
    OBVIOUS
  <2>1. MachineFits(r)
    BY DEF KeysInv
  <2>2. today \in Days /\ today' = today /\ today >= today
    BY DEF KeysInv, KeyFits, KeyRest, Days
  <2> QED BY <2>1, <2>2, FitsStay
<1> QED BY <1>1, <1>2, <1>3, MachineTurns

\* A request that is over.
LEMMA MachineRests ==
  ASSUME KeysInv, NEW m \in Machines, mreq' = [mreq EXCEPT ![m] = NoMreq], UNCHANGED <<today, trail, auditor, revokers>>,
         apiKey' \in [ApiKeys -> KeyRecords],
         \A k \in ApiKeys : apiKey'[k].is = apiKey[k].is /\ apiKey'[k].expires = apiKey[k].expires
  PROVE  KeysInv'
<1>1. IsTask(NoMreq, "idle", "none", FALSE, FALSE)
  BY TaskNone
<1>2. NoMreq \in MachineTasks /\ ~Telling(NoMreq) /\ MachineFits(NoMreq)'
  BY <1>1 DEF IsTask, Telling, MachineFits
<1> QED BY <1>2, MachineGoesOn

LEMMA KeyPresented ==
  ASSUME KeysInv, NEW m \in Machines, NEW k \in ApiKeys, NEW genuine \in BOOLEAN, PresentKey(m, k, genuine)
  PROVE  KeysInv'
<1> DEFINE late == apiKey[k].is # "live" \/ Lapsed(apiKey[k])
<1>1. PICK dead \in BOOLEAN : dead = late
  BY DEF Lapsed
<1>2. PICK q : q = [do |-> "look", key |-> k, genuine |-> genuine, dead |-> dead] /\ IsTask(q, "look", k, genuine, dead)
  BY TaskLook
<1>3. /\ mreq' = [mreq EXCEPT ![m] = q] /\ UNCHANGED <<apiKey, today, trail, auditor, revokers>>
      /\ genuine => apiKey[k].is # "none"
  BY <1>1, <1>2 DEF PresentKey
<1>4. apiKey[k].is \in {"none", "live", "revoked"} /\ apiKey \in [ApiKeys -> KeyRecords]
  BY DEF KeysInv, KeyFits, KeyRest, KeyRecords, KeyStates
<1>5. MachineFits(q)' /\ ~Telling(q)
  BY <1>1, <1>2, <1>3, <1>4 DEF MachineFits, Telling, IsTask, Lapsed
<1> QED BY <1>2, <1>3, <1>4, <1>5, MachineGoesOn DEF IsTask

LEMMA KeyLookedUp ==
  ASSUME KeysInv, NEW m \in Machines, LookUpKey(m)
  PROVE  KeysInv'
<1> DEFINE r == mreq[m]
<1>1. /\ r \in MachineTasks /\ r.do = "look" /\ MachineFits(r) /\ apiKey \in [ApiKeys -> KeyRecords] /\ r.key \in ApiKeys
      /\ UNCHANGED <<apiKey, today, trail, auditor, revokers>>
  BY DEF KeysInv, KeyFits, KeyRest, LookUpKey, Machine, MachineFits
<1>2. CASE Accepts(apiKey[r.key], r.genuine)
  <2>1. PICK q : q = [r EXCEPT !.do = "stamp"] /\ IsTask(q, "stamp", r.key, r.genuine, r.dead)
    BY <1>1, TaskStamp
  <2>2. mreq' = [mreq EXCEPT ![m] = q]
    BY <1>2, <2>1 DEF LookUpKey, KeysInv, KeyFits
  <2>3. r.genuine /\ ~r.dead
    BY <1>1, <1>2 DEF Accepts, MachineFits
  <2>4. MachineFits(q)' /\ ~Telling(q)
    BY <1>1, <2>1, <2>3 DEF MachineFits, Telling, IsTask
  <2> QED BY <1>1, <2>1, <2>2, <2>4, MachineGoesOn DEF IsTask
<1>3. CASE ~Accepts(apiKey[r.key], r.genuine)
  <2>1. mreq' = [mreq EXCEPT ![m] = NoMreq]
    BY <1>3 DEF LookUpKey, KeysInv, KeyFits
  <2> QED BY <1>1, <2>1, MachineRests
<1> QED BY <1>2, <1>3

LEMMA KeyStamped ==
  ASSUME KeysInv, NEW m \in Machines, StampKey(m) \/ KillMachine(m)
  PROVE  KeysInv'
<1>1. /\ mreq' = [mreq EXCEPT ![m] = NoMreq] /\ UNCHANGED <<today, trail, auditor, revokers>>
      /\ apiKey \in [ApiKeys -> KeyRecords]
  BY DEF StampKey, KillMachine, KeysInv, KeyFits, KeyRest
<1>2. CASE apiKey' = apiKey
  BY <1>1, <1>2, MachineRests
<1>3. CASE StampKey(m) /\ apiKey' = [apiKey EXCEPT ![mreq[m].key].used = TRUE]
  <2>1. mreq[m].key \in ApiKeys
    BY <1>3 DEF StampKey, Machine, KeysInv, MachineFits
  <2>2. PICK k \in ApiKeys : k = mreq[m].key
    BY <2>1
  <2>3. PICK row : row = [apiKey[k] EXCEPT !.used = TRUE] /\ IsKey(row, apiKey[k].is, apiKey[k].expires)
    BY <1>1, KeyUsed
  <2>4. apiKey' = [apiKey EXCEPT ![k] = row]
    BY <1>1, <1>3, <2>2, <2>3
  <2>5. apiKey' \in [ApiKeys -> KeyRecords] /\
        \A j \in ApiKeys : apiKey'[j].is = apiKey[j].is /\ apiKey'[j].expires = apiKey[j].expires
    BY <1>1, <2>3, <2>4 DEF IsKey
  <2> QED BY <1>1, <2>5, MachineRests
<1> QED BY <1>2, <1>3 DEF StampKey, KillMachine

LEMMA TrailCounted == \A S : \A s \in Seq(S) : Len(s) \in Nat
OBVIOUS
LEMMA TrailAppended ==
  \A S : \A s \in Seq(S), e \in S :
    /\ Append(s, e) \in Seq(S) /\ Len(s) \in Nat /\ Len(Append(s, e)) = Len(s) + 1
    /\ Append(s, e)[Len(s) + 1] = e /\ (\A i \in 1 .. Len(s) : Append(s, e)[i] = s[i])
    /\ DOMAIN s = 1 .. Len(s) /\ DOMAIN Append(s, e) = 1 .. Len(s) + 1
OBVIOUS

\* What a request tells is put on the trail, which had no row of it, or is lost.
LEMMA KeyTold ==
  ASSUME KeysInv, NEW m \in Machines, RecordAudit(m)
  PROVE  KeysInv'
<1> DEFINE q == mreq[m]
<1>1. /\ q \in MachineTasks /\ Telling(q) /\ q.do \in {"create", "revoke"} /\ q.key \in ApiKeys /\ MachineFits(q)
      /\ mreq' = [mreq EXCEPT ![m] = NoMreq] /\ UNCHANGED <<apiKey, today, auditor, revokers>>
      /\ apiKey \in [ApiKeys -> KeyRecords]
  BY DEF RecordAudit, Telling, KeysInv, KeyFits, KeyRest, MachineFits
<1>2. CASE trail' = trail
  BY <1>1, <1>2, MachineRests
<1>3. CASE Len(trail) < MaxTrail /\ trail' = Append(trail, [of |-> q.key, act |-> q.do])
  <2>1. PICK e \in TrailRows : e = [of |-> q.key, act |-> q.do] /\ e.of = q.key /\ e.act = q.do
    <3>1. \A k \in ApiKeys, act \in {"create", "revoke"} : [of |-> k, act |-> act] \in TrailRows
      BY DEF TrailRows, TrailActs
    <3>2. [of |-> q.key, act |-> q.do] \in TrailRows
      BY <1>1, <3>1
    <3> QED BY <3>2
  <2>2. trail \in Seq(TrailRows) /\ trail' = Append(trail, e)
    BY <1>3, <2>1 DEF KeysInv, KeyFits, KeyRest
  <2>3. /\ trail' \in Seq(TrailRows) /\ Len(trail) \in Nat /\ Len(trail') = Len(trail) + 1 /\ trail'[Len(trail) + 1] = e
        /\ \A i \in 1 .. Len(trail) : trail'[i] = trail[i]
        /\ DOMAIN trail = 1 .. Len(trail) /\ DOMAIN trail' = 1 .. Len(trail) + 1
    BY <2>1, <2>2, TrailAppended
  <2>4. Happened(e.of, e.act) /\ ~InTrail(e.of, e.act)
    BY <1>1, <2>1 DEF MachineFits
  <2>5. \A k, act : Happened(k, act)' <=> Happened(k, act)
    BY <1>1 DEF Happened
  <2>6. TrailFits'
    <3> SUFFICES ASSUME NEW i \in DOMAIN trail'
                 PROVE  /\ (Happened(trail[i].of, trail[i].act))'
                        /\ \A j \in DOMAIN trail' :
                             trail'[i].of = trail'[j].of /\ trail'[i].act = trail'[j].act => i = j
      BY DEF TrailFits
    <3>1. CASE i = Len(trail) + 1
      <4>1. Happened(trail'[i].of, trail'[i].act)
        BY <2>3, <2>4, <3>1
      <4>2. \A j \in DOMAIN trail' : trail'[i].of = trail'[j].of /\ trail'[i].act = trail'[j].act => i = j
        BY <2>3, <2>4, <3>1 DEF InTrail
      <4> QED BY <1>1, <4>1, <4>2 DEF Happened
    <3>2. CASE i \in 1 .. Len(trail)
      <4>1. Happened(trail'[i].of, trail'[i].act)
        BY <2>3, <3>2 DEF KeysInv, TrailFits
      <4>2. \A j \in DOMAIN trail' : trail'[i].of = trail'[j].of /\ trail'[i].act = trail'[j].act => i = j
        BY <2>3, <2>4, <3>2 DEF InTrail, KeysInv, TrailFits
      <4> QED BY <1>1, <4>1, <4>2 DEF Happened
    <3> QED BY <2>3, <3>1, <3>2
  <2>7. AuditorFits'
    <3>1. auditor \in Auditors /\ auditor' = auditor /\ AuditorFits
      BY <1>1 DEF KeysInv, KeyFits, KeyRest
    <3>2. auditor.page \in Nat /\ auditor.since \in TrailPlaces /\ auditor.since \in Nat
      BY <3>1, DayOne DEF Auditors
    <3>3. CASE auditor.page = 0
      BY <3>1, <3>3 DEF AuditorFits
    <3>4. CASE auditor.page # 0
      <4>1. PICK turned \in Int : turned = (auditor.page - 1) * PageSize
        BY <3>2, KeyConstantsOK
      <4>2. /\ auditor.since =< Len(trail) + 1
            /\ \A i \in 1 .. auditor.since : i > Len(trail) - turned => i \in auditor.seen
        BY <2>3, <3>1, <3>2, <3>4, <4>1 DEF AuditorFits, Unturned
      <4>3. \A i \in 1 .. auditor.since : i > Len(trail) + 1 - turned => i \in auditor.seen
        BY <2>3, <3>2, <4>2
      <4> QED BY <2>3, <3>1, <3>4, <4>1, <4>2, <4>3 DEF AuditorFits, Unturned
    <3> QED BY <3>3, <3>4
  <2>8. KeyRest' /\ RevokersFit'
    <3>1. Len(trail') =< MaxTrail
      BY <1>3, <2>3, DayOne
    <3> QED BY <1>1, <2>3, <3>1 DEF KeysInv, KeyFits, KeyRest, RevokersFit
  <2>9. IsTask(NoMreq, "idle", "none", FALSE, FALSE)
    BY TaskNone
  <2>10. NoMreq \in MachineTasks /\ ~Telling(NoMreq) /\ MachineFits(NoMreq)'
    BY <2>9 DEF IsTask, Telling, MachineFits
  <2>11. \A r \in MachineTasks : (\E n \in Machines : n # m /\ r = mreq[n]) => MachineFits(r)'
    <3> SUFFICES ASSUME NEW n \in Machines, n # m, NEW r \in MachineTasks, r = mreq[n] PROVE MachineFits(r)'
      OBVIOUS
    <3>1. MachineFits(r)
      BY DEF KeysInv
    <3>2. Telling(r) => r.do # e.act \/ r.key # e.of
      BY <1>1, <2>1 DEF KeysInv, OneTells
    <3>3. Telling(r) => ~InTrail(r.key, r.do)'
      BY <2>3, <3>1, <3>2 DEF MachineFits, InTrail
    <3> QED BY <1>1, <3>1, <3>3 DEF MachineFits, Telling, Happened, Lapsed
  <2> QED BY <1>1, <2>6, <2>7, <2>8, <2>10, <2>11, MachineTurns
<1> QED BY <1>2, <1>3 DEF RecordAudit

\* The auditor of the next page.
IsAuditor(a, page, seen, since) == a \in Auditors /\ a.page = page /\ a.seen = seen /\ a.since = since
LEMMA PageTurned ==
  \A a \in Auditors, p \in Nat, s \in SUBSET TrailIndex :
    IsAuditor([a EXCEPT !.page = p, !.seen = s], p, s, a.since)
BY DEF IsAuditor, Auditors

\* The days pass and the auditor turns pages, while the requests rest.
LEMMA KeysRest ==
  ASSUME KeysInv, DayPasses \/ OpenTrail \/ TurnPage \/ UNCHANGED keyVars
  PROVE  KeysInv'
<1>1. /\ UNCHANGED <<apiKey, mreq, trail, revokers>> /\ today \in Days /\ today' \in Days /\ today' >= today
      /\ apiKey \in [ApiKeys -> KeyRecords]
  BY KeyConstantsOK DEF DayPasses, OpenTrail, TurnPage, keyVars, KeysInv, KeyFits, KeyRest, Days
<1>2. TrailFits' /\ RevokersFit' /\ OneTells'
  BY <1>1, TrailStays DEF KeysInv, RevokersFit, OneTells, Telling
<1>3. ASSUME NEW m \in Machines PROVE MachineFits(mreq[m])'
  <2>1. PICK r \in MachineTasks : r = mreq[m]
    BY DEF KeysInv, KeyFits
  <2>2. MachineFits(r)'
    BY <1>1, <2>1, FitsStay DEF KeysInv
  <2> QED BY <1>1, <2>1, <2>2 DEF MachineFits, Telling
<1>4. Len(trail) \in Nat /\ Len(trail) =< MaxTrail /\ auditor \in Auditors /\ AuditorFits
  BY TrailCounted DEF KeysInv, KeyFits, KeyRest
<1>5. auditor' \in Auditors /\ AuditorFits'
  <2>1. CASE auditor' = auditor
    BY <1>1, <1>4, <2>1, AuditorWaits DEF KeysInv
  <2>2. CASE OpenTrail
    <3>1. auditor' = [page |-> 1, seen |-> {}, since |-> Len(trail)] /\ Len(trail) \in TrailPlaces
      BY <1>4, <2>2, DayOne DEF OpenTrail, TrailPlaces
    <3>2. auditor' \in Auditors /\ auditor'.page = 1 /\ auditor'.since = Len(trail)
      BY <3>1 DEF Auditors
    <3>3. (auditor'.page - 1) * PageSize = 0
      BY <3>2, KeyConstantsOK
    <3> QED BY <1>1, <1>4, <3>2, <3>3 DEF AuditorFits, Unturned
  <2>3. CASE TurnPage
    <3>1. PICK p \in Nat \ {0} : p = auditor.page
      BY <1>4, <2>3 DEF TurnPage, Auditors
    <3>2. PICK s \in SUBSET TrailIndex, n \in TrailPlaces : s = auditor.seen /\ n = auditor.since
      BY <1>4 DEF Auditors
    <3>3. auditor' = [auditor EXCEPT !.page = p + 1, !.seen = s \union PageOf(p)]
      BY <2>3, <3>1, <3>2 DEF TurnPage
    <3>4. PageOf(p) \subseteq TrailIndex
      BY <1>4, DayOne DEF PageOf, TrailIndex
    <3>5. /\ auditor' \in Auditors /\ auditor'.page = p + 1 /\ auditor'.seen = s \union PageOf(p)
          /\ auditor'.since = n
      <4>1. p + 1 \in Nat /\ s \union PageOf(p) \in SUBSET TrailIndex
        BY <3>4
      <4>2. IsAuditor(auditor', p + 1, s \union PageOf(p), auditor.since)
        BY <1>4, <3>3, <4>1, PageTurned
      <4> QED BY <3>2, <4>2 DEF IsAuditor
    <3>6. PICK turned \in Int : turned = (p - 1) * PageSize
      BY KeyConstantsOK
    <3>7. p * PageSize = turned + PageSize
      BY <3>6, KeyConstantsOK
    <3>8. n \in Nat /\ n =< Len(trail) /\ \A i \in 1 .. n : i > Len(trail) - turned => i \in s
      BY <1>4, <3>1, <3>2, <3>6, DayOne DEF AuditorFits, Unturned
    <3>9. \A i \in 1 .. n : i > Len(trail) - (turned + PageSize) => i \in s \union PageOf(p)
      <4> SUFFICES ASSUME NEW i \in 1 .. n, i > Len(trail) - (turned + PageSize), i \notin s PROVE i \in PageOf(p)
        OBVIOUS
      <4>1. i =< Len(trail) - turned
        BY <1>4, <3>8
      <4>2. i \in 1 .. Len(trail)
        BY <1>4, <3>8
      <4> QED BY <3>6, <3>7, <4>1, <4>2 DEF PageOf
    <3>10. Unturned' = Len(trail) - (turned + PageSize)
      <4>1. p + 1 - 1 = p
        OBVIOUS
      <4> QED BY <1>1, <3>5, <3>7, <4>1 DEF Unturned
    <3> QED BY <1>1, <3>1, <3>5, <3>8, <3>9, <3>10 DEF AuditorFits
  <2> QED BY <2>1, <2>2, <2>3 DEF DayPasses, keyVars
<1>6. KeyFits'
  BY <1>1, <1>5 DEF KeysInv, KeyFits, KeyRest
<1> QED BY <1>2, <1>3, <1>5, <1>6 DEF KeysInv

LEMMA KeysStep == KeysInv /\ [KeyNext]_keyVars => KeysInv'
<1> SUFFICES ASSUME KeysInv, [KeyNext]_keyVars PROVE KeysInv'
  OBVIOUS
<1>1. CASE DayPasses \/ OpenTrail \/ TurnPage \/ UNCHANGED keyVars
  BY <1>1, KeysRest
<1>2. ASSUME NEW m \in Machines, RecordAudit(m) \/ LookUpKey(m) \/ StampKey(m) \/ KillMachine(m) PROVE KeysInv'
  BY <1>2, KeyTold, KeyLookedUp, KeyStamped
<1>3. ASSUME NEW m \in Machines, NEW k \in ApiKeys,
             RevokeKey(m, k) \/ \E until \in {Never, 2} : MintKey(m, k, until)
      PROVE  KeysInv'
  BY <1>3, KeysTurn
<1>4. ASSUME NEW m \in Machines, NEW k \in ApiKeys, \E genuine \in BOOLEAN : PresentKey(m, k, genuine) PROVE KeysInv'
  BY <1>4, KeyPresented
<1> QED BY <1>1, <1>2, <1>3, <1>4 DEF KeyNext

\* The trail has at most one row of a kind, and none of what did not happen.
LEMMA RowsOnce ==
  ASSUME KeysInv, NEW k \in ApiKeys, NEW act \in {"create", "revoke"}
  PROVE  Audited(k, act) =< IF Happened(k, act) THEN 1 ELSE 0
<1> DEFINE S == {i \in DOMAIN trail : trail[i] = [of |-> k, act |-> act]}
<1>1. \A i \in S : trail[i].of = k /\ trail[i].act = act
  OBVIOUS
<1>2. CASE S = {}
  <2>1. Audited(k, act) = 0
    BY <1>2, FS_EmptySet DEF Audited
  <2> QED BY <2>1
<1>3. CASE S # {}
  <2>1. PICK i \in S : TRUE
    BY <1>3
  <2>2. S = {i}
    BY <1>1, <2>1 DEF KeysInv, TrailFits
  <2>3. Happened(k, act)
    BY <1>1, <2>1 DEF KeysInv, TrailFits
  <2>4. Audited(k, act) = 1
    BY <2>2, FS_Singleton DEF Audited
  <2> QED BY <2>3, <2>4
<1> HIDE DEF S
<1> QED BY <1>2, <1>3

LEMMA KeysKeep == KeysInv => KeyTypeOK /\ KeysHold
<1> SUFFICES ASSUME KeysInv PROVE KeyTypeOK /\ KeysHold
  OBVIOUS
<1>1. KeyTypeOK
  BY KeyTyped DEF KeysInv
<1>2. \A m \in Machines : Machine(m, "stamp") => mreq[m].genuine /\ ~mreq[m].dead
  BY DEF KeysInv, MachineFits, Machine
<1>3. ASSUME NEW k \in ApiKeys
      PROVE  /\ revokers[k] =< 1 /\ (revokers[k] = 1 <=> apiKey[k].is = "revoked")
             /\ Audited(k, "revoke") =< revokers[k]
             /\ Audited(k, "create") =< IF apiKey[k].is = "none" THEN 0 ELSE 1
  <2>1. revokers[k] = IF apiKey[k].is = "revoked" THEN 1 ELSE 0
    BY DEF KeysInv, RevokersFit
  <2>2. Audited(k, "revoke") =< IF apiKey[k].is = "revoked" THEN 1 ELSE 0
    BY RowsOnce DEF Happened
  <2>3. Audited(k, "create") =< IF apiKey[k].is # "none" THEN 1 ELSE 0
    BY RowsOnce DEF Happened
  <2> QED BY <2>1, <2>2, <2>3
<1>4. ASSUME auditor.page > LastPage(Len(trail)) PROVE 1 .. auditor.since \subseteq auditor.seen
  <2>1. Len(trail) \in Nat /\ auditor.page \in Nat /\ auditor.since \in Nat /\ AuditorFits
    BY TrailCounted, DayOne DEF KeysInv, KeyFits, KeyRest, Auditors
  <2>2. auditor.page # 0
    <3>1. LastPage(Len(trail)) >= 0
      BY <2>1, KeyConstantsOK DEF LastPage
    <3>2. LastPage(Len(trail)) \in Int
      BY <2>1, KeyConstantsOK DEF LastPage
    <3> QED BY <1>4, <2>1, <3>1, <3>2
  <2>3. Len(trail) - (auditor.page - 1) * PageSize =< 0
    BY <1>4, <2>1, <2>2, KeyConstantsOK, PagesTurned DEF LastPage
  <2>4. Unturned =< 0 /\ Unturned \in Int
    BY <2>1, <2>3, KeyConstantsOK DEF Unturned
  <2>5. \A i \in 1 .. auditor.since : i > Unturned => i \in auditor.seen
    BY <2>1, <2>2 DEF AuditorFits
  <2> QED BY <2>1, <2>4, <2>5
<1> QED BY <1>1, <1>2, <1>3, <1>4 DEF KeysHold

-----------------------------------------------------------------------------
(***************************************************************************)
(* What is kept encrypted.                                                 *)
(***************************************************************************)
\* The rows, the tasks and the script's copy, by their fields.
GatewayRows == [exists : BOOLEAN, default : BOOLEAN, credentials : Ciphers]
MailRows    == [named : BOOLEAN, password : Ciphers, configured : BOOLEAN]
Reads       == [Gateways -> Ciphers]
Rotations   == [at : {"waiting", "prepared", "committed"}, read : Reads]
SecretNumbers == 0 .. MaxSecrets
SecretsFit ==
  /\ gatewayRow \in [Gateways -> GatewayRows] /\ mailRow \in MailRows /\ keyInUse \in Keys
  /\ rotation \in Rotations /\ vtask \in [Wardens -> VTasks]
  /\ entered \in [Gateways -> SecretNumbers] /\ lastSecret \in SecretNumbers
  /\ sealedLate \subseteq Gateways /\ defaultRaced \in BOOLEAN /\ mailRaced \in BOOLEAN

\* What a row holds, against what was entered for its gateway.
SealedWith(g, key) == gatewayRow[g].credentials.key = key \/ gatewayRow[g].credentials.secret = 0
HoldsEntered(g)    == gatewayRow[g].credentials.secret = entered[g]

\* The server changes its key after the script has committed; until then every row is
\* on the old key.  What the script read is what was entered, but for the rows saved
\* since, and so is what it wrote.
RotationFits ==
  /\ keyInUse = "new" => rotation.at = "committed"
  /\ rotation.at = "waiting" => sealedLate = {}
  /\ rotation.at # "committed" => \A g \in Gateways : SealedWith(g, "old") /\ HoldsEntered(g)
  /\ rotation.at = "prepared" => \A g \in Gateways \ sealedLate : rotation.read[g].secret = entered[g]
  /\ rotation.at = "committed" =>
       \A g \in Gateways \ sealedLate : SealedWith(g, "new") /\ HoldsEntered(g)

OneDefault == ~defaultRaced =>
  \A g, h \in Gateways : gatewayRow[g].default /\ gatewayRow[h].default => g = h

\* An update of the mail settings has worked out "configured" for the row it will write.
WritesGateway(t) == t.do \in {"clear", "write"} => t.gateway \in Gateways
WillHold(t) == t.do = "mail" =>
  (t.configured <=> t.named /\ (t.secret \/ mailRow.password.secret # 0))
MailFits == ~mailRaced =>
  /\ mailRow.configured <=> mailRow.named /\ mailRow.password.secret # 0
  /\ \A w \in Wardens : WillHold(vtask[w])

SecretsInv == /\ SecretsFit /\ RotationFits /\ OneDefault /\ MailFits
              /\ \A w \in Wardens : WritesGateway(vtask[w])

LEMMA SecretsTyped == SecretsFit <=> SecretsTypeOK
BY DEF SecretsFit, SecretsTypeOK, GatewayRows, MailRows, Reads, Rotations, SecretNumbers

\* A row, a ciphertext, a task and a state of the script with the fields named.
IsGatewayRow(r, exists, default, cipher) ==
  r \in GatewayRows /\ r.exists = exists /\ r.default = default /\ r.credentials = cipher
LEMMA GatewayRowMade ==
  \A exists, default \in BOOLEAN, c \in Ciphers :
    IsGatewayRow([exists |-> exists, default |-> default, credentials |-> c], exists, default, c)
BY DEF IsGatewayRow, GatewayRows
LEMMA GatewayRowCleared ==
  \A r \in GatewayRows : IsGatewayRow([r EXCEPT !.default = FALSE], r.exists, FALSE, r.credentials)
BY DEF IsGatewayRow, GatewayRows
LEMMA GatewayRowResealed ==
  \A r \in GatewayRows, c \in Ciphers : IsGatewayRow([r EXCEPT !.credentials = c], r.exists, r.default, c)
BY DEF IsGatewayRow, GatewayRows
LEMMA GatewayRowParts ==
  \A r \in GatewayRows : r.exists \in BOOLEAN /\ r.default \in BOOLEAN /\ r.credentials \in Ciphers
BY DEF GatewayRows

IsCipher(c, key, secret) == c \in Ciphers /\ c.key = key /\ c.secret = secret
LEMMA CipherMade ==
  \A key \in Keys, n \in SecretNumbers : IsCipher([key |-> key, secret |-> n], key, n)
BY DEF IsCipher, Ciphers, SecretNumbers
LEMMA CipherMoved == \A c \in Ciphers : IsCipher(Reencrypt(c), "new", c.secret)
BY DEF IsCipher, Ciphers, Reencrypt, Keys
LEMMA CipherParts == \A c \in Ciphers : c.key \in Keys /\ c.secret \in SecretNumbers
BY DEF Ciphers, SecretNumbers
LEMMA EmptyCipher == IsCipher(Empty, "old", 0) /\ 0 \in SecretNumbers
BY SecretsConstantsOK DEF IsCipher, Empty, Ciphers, Keys, SecretNumbers

IsVTask(t, do, gateway, default, secret) ==
  t \in VTasks /\ t.do = do /\ t.gateway = gateway /\ t.default = default /\ t.secret = secret
IsMailTask(t, named, secret, configured) ==
  t \in VTasks /\ t.do = "mail" /\ t.named = named /\ t.secret = secret /\ t.configured = configured
LEMMA VTaskNone == IsVTask(Unasked, "idle", "none", "leave", FALSE)
BY DEF IsVTask, Unasked, VTasks
VDos      == {"idle", "clear", "write", "mail"}
VOps      == {"none", "create", "update", "default"}
VGateways == Gateways \cup {"none"}
VDefaults == {"yes", "no", "leave"}
LEMMA VTasksAre ==
  VTasks = [do : VDos, op : VOps, gateway : VGateways, default : VDefaults, secret : BOOLEAN,
            named : BOOLEAN, configured : BOOLEAN]
BY DEF VTasks, VDos, VOps, VGateways, VDefaults
LEMMA VTaskCleared ==
  \A t \in VTasks : IsVTask([t EXCEPT !.do = "write"], "write", t.gateway, t.default, t.secret)
BY DEF IsVTask, VTasks
LEMMA VTaskMail ==
  \A t \in VTasks, named, secret, configured \in BOOLEAN :
    IsMailTask([t EXCEPT !.do = "mail", !.named = named, !.secret = secret, !.configured = configured],
               named, secret, configured)
<1> SUFFICES ASSUME NEW t \in VTasks, NEW named \in BOOLEAN, NEW secret \in BOOLEAN, NEW configured \in BOOLEAN
             PROVE  IsMailTask([t EXCEPT !.do = "mail", !.named = named, !.secret = secret,
                                         !.configured = configured], named, secret, configured)
  OBVIOUS
<1>1. PICK do \in VDos : do = "mail"
  BY DEF VDos
<1> DEFINE u == [t EXCEPT !.do = do, !.named = named, !.secret = secret, !.configured = configured]
<1>2. u \in VTasks
  BY VTasksAre
<1>3. u.do = do /\ u.named = named
  BY VTasksAre
<1>4. u.secret = secret
  BY VTasksAre
<1>5. u.configured = configured
  BY VTasksAre
<1> QED BY <1>1, <1>2, <1>3, <1>4, <1>5 DEF IsMailTask
LEMMA VTaskParts ==
  \A t \in VTasks : t.secret \in BOOLEAN /\ t.named \in BOOLEAN /\ t.configured \in BOOLEAN
BY DEF VTasks

IsRotation(r, at, read) == r \in Rotations /\ r.at = at /\ r.read = read
LEMMA RotationRead ==
  \A read \in Reads : IsRotation([at |-> "prepared", read |-> read], "prepared", read)
BY DEF IsRotation, Rotations
LEMMA RotationAt ==
  \A r \in Rotations, at \in {"waiting", "committed"} : IsRotation([r EXCEPT !.at = at], at, r.read)
BY DEF IsRotation, Rotations
LEMMA RotationParts ==
  \A r \in Rotations : r.at \in {"waiting", "prepared", "committed"} /\ r.read \in Reads
BY DEF Rotations

LEMMA SecretsStarts == SecretsInit => SecretsInv
<1> SUFFICES ASSUME SecretsInit PROVE SecretsInv
  OBVIOUS
<1>1. PICK empty \in Ciphers : empty = Empty /\ empty.key = "old" /\ empty.secret = 0
  BY EmptyCipher DEF IsCipher
<1>2. IsGatewayRow(Row0, FALSE, FALSE, empty)
  BY <1>1, GatewayRowMade DEF Row0
<1>3. NoMail \in MailRows /\ NoMail.configured = FALSE /\ NoMail.named = FALSE
  BY <1>1 DEF NoMail, MailRows
<1>4. rotation \in Rotations /\ rotation.at = "waiting"
  <2>1. [g \in Gateways |-> Empty] \in Reads
    BY <1>1 DEF Reads
  <2> QED BY <2>1 DEF SecretsInit, Rotations
<1>5. \A g \in Gateways : gatewayRow[g] \in GatewayRows /\ gatewayRow[g].default = FALSE
                          /\ gatewayRow[g].credentials = empty /\ entered[g] = 0
  BY <1>2 DEF SecretsInit, IsGatewayRow
<1>6. \A w \in Wardens : vtask[w] \in VTasks /\ vtask[w].do = "idle"
  BY VTaskNone DEF SecretsInit, IsVTask
<1>7. SecretsFit
  <2>1. gatewayRow \in [Gateways -> GatewayRows] /\ entered \in [Gateways -> SecretNumbers]
    BY <1>2, EmptyCipher DEF SecretsInit, IsGatewayRow
  <2>2. vtask \in [Wardens -> VTasks]
    BY VTaskNone DEF SecretsInit, IsVTask
  <2> QED BY <1>3, <1>4, <2>1, <2>2, EmptyCipher DEF SecretsInit, SecretsFit, Keys
<1>8. RotationFits
  BY <1>1, <1>4, <1>5 DEF SecretsInit, RotationFits, SealedWith, HoldsEntered
<1>9. OneDefault /\ MailFits
  BY <1>3, <1>5, <1>6 DEF SecretsInit, OneDefault, MailFits, WillHold
<1>10. \A w \in Wardens : WritesGateway(vtask[w])
  BY <1>6 DEF WritesGateway
<1> QED BY <1>7, <1>8, <1>9, <1>10 DEF SecretsInv

\* A task is taken or dropped, and nothing else changes.
LEMMA TasksTurn ==
  ASSUME SecretsInv, NEW w \in Wardens, NEW t \in VTasks, WritesGateway(t), WillHold(t),
         vtask' = [vtask EXCEPT ![w] = t],
         UNCHANGED <<gatewayRow, mailVars, rotationVars, entered, lastSecret, sealedLate, defaultRaced>>
  PROVE  SecretsInv'
<1>1. UNCHANGED <<gatewayRow, mailRow, mailRaced, keyInUse, rotation, entered, lastSecret, sealedLate, defaultRaced>>
  BY DEF mailVars, rotationVars
<1>2. SecretsFit'
  BY <1>1 DEF SecretsInv, SecretsFit
<1>3. RotationFits' /\ OneDefault'
  BY <1>1 DEF SecretsInv, RotationFits, SealedWith, HoldsEntered, OneDefault
<1>4. \A v \in Wardens : vtask'[v] = t \/ vtask'[v] = vtask[v]
  BY DEF SecretsInv, SecretsFit
<1>5. MailFits'
  BY <1>1, <1>4 DEF SecretsInv, MailFits, WillHold
<1>6. \A v \in Wardens : WritesGateway(vtask[v])'
  BY <1>4 DEF SecretsInv, WritesGateway
<1> QED BY <1>2, <1>3, <1>5, <1>6 DEF SecretsInv

LEMMA SecretsAsked ==
  ASSUME SecretsInv, NEW w \in Wardens, NEW op \in {"create", "update", "default"}, NEW g \in Gateways,
         NEW default \in VDefaults, NEW secret \in BOOLEAN, Asked(w, op, g, default, secret)
  PROVE  SecretsInv'
<1>1. PICK do \in {"clear", "write"} : do = IF default = "yes" THEN "clear" ELSE "write"
  OBVIOUS
<1>2. PICK t : t = [Unasked EXCEPT !.do = do, !.op = op, !.gateway = g, !.default = default, !.secret = secret]
  OBVIOUS
<1>5. t \in VTasks /\ t.do = do /\ t.gateway = g
  <2>1. PICK none \in VTasks : none = Unasked
    BY VTaskNone DEF IsVTask
  <2>2. do \in VDos /\ op \in VOps /\ g \in VGateways
    BY DEF VDos, VOps, VGateways
  <2>3. t = [none EXCEPT !.do = do, !.op = op, !.gateway = g, !.default = default, !.secret = secret]
    BY <1>2, <2>1
  <2>4. t \in VTasks
    BY <2>2, <2>3, VTasksAre
  <2> QED BY <2>2, <2>3, <2>4, VTasksAre
<1>3. vtask' = [vtask EXCEPT ![w] = t]
  BY <1>1, <1>2 DEF Asked
<1>4. t \in VTasks /\ WritesGateway(t) /\ WillHold(t)
  BY <1>5 DEF WritesGateway, WillHold
<1> QED BY <1>3, <1>4, TasksTurn DEF Asked

LEMMA SecretsAnswered ==
  ASSUME SecretsInv, NEW w \in Wardens, RowRefused(w) \/ DropRequest(w)
  PROVE  SecretsInv'
<1>1. Unasked \in VTasks /\ WritesGateway(Unasked) /\ WillHold(Unasked)
  BY VTaskNone DEF IsVTask, WritesGateway, WillHold
<1> QED BY <1>1, TasksTurn DEF RowRefused, DropRequest, Answer1

LEMMA MailAsked ==
  ASSUME SecretsInv, NEW w \in Wardens, NEW named \in BOOLEAN, NEW secret \in BOOLEAN, UpdateMail(w, named, secret)
  PROVE  SecretsInv'
<1>1. PICK configured \in BOOLEAN :
         configured = Configured(named, IF secret THEN Seal ELSE mailRow.password)
  BY DEF Configured
<1>2. configured <=> named /\ (secret \/ mailRow.password.secret # 0)
  <2>1. lastSecret + 1 # 0
    BY SecretsConstantsOK DEF SecretsInv, SecretsFit, SecretNumbers
  <2> QED BY <1>1, <2>1 DEF Configured, Seal
<1>3. PICK t : t = [Unasked EXCEPT !.do = "mail", !.named = named, !.secret = secret, !.configured = configured]
               /\ IsMailTask(t, named, secret, configured)
  <2>1. Unasked \in VTasks
    BY VTaskNone DEF IsVTask
  <2> QED BY <2>1, VTaskMail
<1>4. vtask' = [vtask EXCEPT ![w] = t]
  BY <1>1, <1>3 DEF UpdateMail
<1>5. t \in VTasks /\ WritesGateway(t) /\ WillHold(t)
  BY <1>2, <1>3 DEF IsMailTask, WritesGateway, WillHold
<1> QED BY <1>4, <1>5, TasksTurn DEF UpdateMail

\* The tasks of the others stay; the one answered is over.
LEMMA MailRests ==
  ASSUME SecretsInv, NEW w \in Wardens, UNCHANGED <<mailRow, mailRaced>>,
         \/ vtask' = [vtask EXCEPT ![w] = Unasked]
         \/ vtask' = [vtask EXCEPT ![w].do = "write"] /\ WritesGateway([vtask[w] EXCEPT !.do = "write"])
  PROVE  MailFits' /\ (\A v \in Wardens : WritesGateway(vtask[v])') /\ vtask' \in [Wardens -> VTasks]
<1>1. PICK none \in VTasks : none = Unasked /\ none.do = "idle"
  BY VTaskNone DEF IsVTask
<1>2. PICK t \in VTasks : t = vtask[w]
  BY DEF SecretsInv, SecretsFit
<1>3. PICK u : u = [t EXCEPT !.do = "write"]
  OBVIOUS
<1>4. u \in VTasks /\ u.do = "write"
  BY <1>3, VTaskCleared DEF IsVTask
<1>5. vtask' \in [Wardens -> VTasks]
  BY <1>1, <1>2, <1>3, <1>4 DEF SecretsInv, SecretsFit
<1>6. \A v \in Wardens : \/ vtask'[v] = vtask[v]
                         \/ vtask'[v] = none
                         \/ vtask'[v] = u /\ WritesGateway(u)
  BY <1>1, <1>2, <1>3 DEF SecretsInv, SecretsFit
<1>7. MailFits'
  BY <1>1, <1>4, <1>6 DEF SecretsInv, MailFits, WillHold
<1>8. \A v \in Wardens : WritesGateway(vtask[v])'
  BY <1>1, <1>6 DEF SecretsInv, WritesGateway
<1> QED BY <1>5, <1>7, <1>8

LEMMA DefaultsCleared ==
  ASSUME SecretsInv, NEW w \in Wardens, ClearDefaults(w)
  PROVE  SecretsInv'
<1>1. UNCHANGED <<mailRow, mailRaced, keyInUse, rotation, entered, lastSecret, sealedLate, defaultRaced>>
  BY DEF ClearDefaults, mailVars, rotationVars
<1>2. \A g \in Gateways : /\ gatewayRow'[g] \in GatewayRows
                          /\ gatewayRow'[g].credentials = gatewayRow[g].credentials
                          /\ gatewayRow'[g].default => gatewayRow[g].default
  <2> SUFFICES ASSUME NEW g \in Gateways
               PROVE  /\ gatewayRow'[g] \in GatewayRows
                      /\ gatewayRow'[g].credentials = gatewayRow[g].credentials
                      /\ gatewayRow'[g].default => gatewayRow[g].default
    OBVIOUS
  <2>1. PICK r \in GatewayRows : r = gatewayRow[g]
    BY DEF SecretsInv, SecretsFit
  <2>2. PICK q : q = [r EXCEPT !.default = FALSE]
    OBVIOUS
  <2>3. q \in GatewayRows /\ q.credentials = r.credentials /\ q.default = FALSE
    BY <2>2, GatewayRowCleared DEF IsGatewayRow
  <2>4. gatewayRow'[g] = r \/ gatewayRow'[g] = q
    BY <2>1, <2>2 DEF ClearDefaults, ClearedOthers
  <2> QED BY <2>1, <2>3, <2>4
<1>3. gatewayRow' \in [Gateways -> GatewayRows]
  BY <1>2 DEF ClearDefaults, ClearedOthers
<1>4. MailFits' /\ (\A v \in Wardens : WritesGateway(vtask[v])') /\ vtask' \in [Wardens -> VTasks]
  <2>1. PICK t \in VTasks : t = vtask[w]
    BY DEF SecretsInv, SecretsFit
  <2>2. PICK u : u = [t EXCEPT !.do = "write"]
    OBVIOUS
  <2>3. u.gateway = t.gateway
    BY <2>2, VTaskCleared DEF IsVTask
  <2>4. WritesGateway(u)
    BY <2>1, <2>3 DEF ClearDefaults, SecretsInv, WritesGateway
  <2>5. vtask' = [vtask EXCEPT ![w].do = "write"]
    BY DEF ClearDefaults
  <2> QED BY <1>1, <2>1, <2>2, <2>4, <2>5, MailRests
<1>5. SecretsFit'
  BY <1>1, <1>3, <1>4 DEF SecretsInv, SecretsFit
<1>6. RotationFits'
  BY <1>1, <1>2 DEF SecretsInv, RotationFits, SealedWith, HoldsEntered
<1>7. OneDefault'
  BY <1>1, <1>2 DEF SecretsInv, OneDefault
<1> QED BY <1>4, <1>5, <1>6, <1>7 DEF SecretsInv

LEMMA RowSaved ==
  ASSUME SecretsInv, NEW w \in Wardens, RowWritten(w)
  PROVE  SecretsInv'
<1>1. UNCHANGED <<mailRow, mailRaced, keyInUse, rotation>> /\ vtask' = [vtask EXCEPT ![w] = Unasked]
  BY DEF RowWritten, mailVars, rotationVars, Answer1
<1>2. PICK t \in VTasks : t = vtask[w] /\ t.secret \in BOOLEAN
  BY VTaskParts DEF SecretsInv, SecretsFit
<1>3. PICK g \in Gateways : g = t.gateway
  BY <1>2 DEF RowWritten, SecretsInv, WritesGateway
<1>4. PICK r \in GatewayRows : r = gatewayRow[g] /\ r.default \in BOOLEAN /\ r.credentials \in Ciphers
  BY GatewayRowParts DEF SecretsInv, SecretsFit
<1>5. PICK d \in BOOLEAN : d = IF t.default = "leave" THEN r.default ELSE t.default = "yes"
  BY <1>4
<1>6. lastSecret \in SecretNumbers /\ (t.secret => lastSecret + 1 \in SecretNumbers)
  BY <1>2, <1>3, SecretsConstantsOK DEF RowWritten, SavedSecret, SecretsInv, SecretsFit, SecretNumbers
<1>7. t.secret => IsCipher(Seal, keyInUse, lastSecret + 1)
  BY <1>6, CipherMade DEF Seal, SecretsInv, SecretsFit
<1>8. PICK cipher \in Ciphers : cipher = IF t.secret THEN Seal ELSE r.credentials
  BY <1>4, <1>7 DEF IsCipher
<1>9. PICK q : q = [exists |-> TRUE, default |-> d, credentials |-> cipher]
  OBVIOUS
<1>10. q \in GatewayRows /\ q.default = d /\ q.credentials = cipher
  BY <1>9, GatewayRowMade DEF IsGatewayRow
<1>11. gatewayRow' = [gatewayRow EXCEPT ![g] = q]
  BY <1>2, <1>3, <1>4, <1>5, <1>8, <1>9 DEF RowWritten
<1>12. /\ gatewayRow' \in [Gateways -> GatewayRows] /\ gatewayRow'[g] = q
       /\ \A h \in Gateways : h # g => gatewayRow'[h] = gatewayRow[h]
  BY <1>10, <1>11 DEF SecretsInv, SecretsFit
<1>13. SavedSecret(g, t.secret) /\ defaultRaced' = (defaultRaced \/ (t.default = "yes" /\ Raced(w)))
  BY <1>2, <1>3 DEF RowWritten
<1>14. MailFits' /\ (\A v \in Wardens : WritesGateway(vtask[v])') /\ vtask' \in [Wardens -> VTasks]
  BY <1>1, MailRests
<1>15. OneDefault'
  <2> SUFFICES ASSUME ~defaultRaced', NEW h \in Gateways, NEW k \in Gateways, h # k,
                      gatewayRow'[h].default, gatewayRow'[k].default
               PROVE  FALSE
    BY DEF OneDefault
  <2>1. ~defaultRaced /\ ~(t.default = "yes" /\ Raced(w))
    BY <1>13
  <2>2. CASE t.default = "yes"
    BY <1>2, <1>3, <1>12, <2>1, <2>2 DEF Raced
  <2>3. CASE t.default # "yes"
    <3>1. q.default => r.default
      BY <1>5, <1>10, <2>3
    <3> QED BY <1>4, <1>12, <2>1, <3>1 DEF SecretsInv, OneDefault
  <2> QED BY <2>2, <2>3
<1>16. CASE t.secret
  <2>1. PICK n \in SecretNumbers : n = lastSecret + 1
    BY <1>6, <1>16
  <2>2. lastSecret' = n /\ entered' = [entered EXCEPT ![g] = n] /\ SealedNow(g)
    BY <1>13, <1>16, <2>1 DEF SavedSecret
  <2>3. cipher.key = keyInUse /\ cipher.secret = n
    BY <1>7, <1>8, <1>16, <2>1 DEF IsCipher
  <2>4. /\ entered' \in [Gateways -> SecretNumbers] /\ entered'[g] = n
        /\ \A h \in Gateways : h # g => entered'[h] = entered[h]
    BY <2>2 DEF SecretsInv, SecretsFit
  <2>5. sealedLate' \subseteq Gateways
    BY <2>2 DEF SealedNow, SecretsInv, SecretsFit
  <2>6. SecretsFit'
    BY <1>1, <1>12, <1>13, <1>14, <2>2, <2>4, <2>5 DEF SecretsInv, SecretsFit
  <2>7. \A h \in Gateways : IF h = g THEN /\ gatewayRow'[h].credentials.key = keyInUse
                                          /\ gatewayRow'[h].credentials.secret = entered'[h]
                            ELSE gatewayRow'[h] = gatewayRow[h] /\ entered'[h] = entered[h]
    BY <1>10, <1>12, <2>3, <2>4
  <2>8. RotationFits'
    BY <1>1, <2>2, <2>7 DEF SealedNow, SecretsInv, SecretsFit, Keys, RotationFits, SealedWith, HoldsEntered
  <2> QED BY <1>14, <1>15, <2>6, <2>8 DEF SecretsInv
<1>17. CASE ~t.secret
  <2>1. UNCHANGED <<entered, lastSecret, sealedLate>>
    BY <1>13, <1>17 DEF SavedSecret
  <2>2. \A h \in Gateways : gatewayRow'[h].credentials = gatewayRow[h].credentials
    BY <1>4, <1>8, <1>10, <1>12, <1>17
  <2>3. SecretsFit'
    BY <1>1, <1>12, <1>13, <1>14, <2>1 DEF SecretsInv, SecretsFit
  <2>4. RotationFits'
    BY <1>1, <2>1, <2>2 DEF SecretsInv, RotationFits, SealedWith, HoldsEntered
  <2> QED BY <1>14, <1>15, <2>3, <2>4 DEF SecretsInv
<1> QED BY <1>2, <1>16, <1>17

LEMMA MailWritten ==
  ASSUME SecretsInv, NEW w \in Wardens, WriteMail(w)
  PROVE  SecretsInv'
<1>1. PICK t \in VTasks : t = vtask[w] /\ t.secret \in BOOLEAN /\ t.named \in BOOLEAN /\ t.configured \in BOOLEAN
  BY VTaskParts DEF SecretsInv, SecretsFit
<1>2. lastSecret \in SecretNumbers /\ (t.secret => lastSecret + 1 \in SecretNumbers)
  BY <1>1, SecretsConstantsOK DEF WriteMail, SecretsInv, SecretsFit, SecretNumbers
<1>3. t.secret => IsCipher(Seal, keyInUse, lastSecret + 1)
  BY <1>2, CipherMade DEF Seal, SecretsInv, SecretsFit
<1>4. mailRow.password \in Ciphers
  BY DEF SecretsInv, SecretsFit, MailRows
<1>5. PICK password \in Ciphers : password = IF t.secret THEN Seal ELSE mailRow.password
  BY <1>3, <1>4 DEF IsCipher
<1>6. mailRow' = [named |-> t.named, password |-> password, configured |-> t.configured]
  BY <1>1, <1>5 DEF WriteMail
<1>7. mailRow' \in MailRows /\ mailRow'.password = password /\ mailRow'.named = t.named
  BY <1>1, <1>6 DEF MailRows
<1>8. mailRow'.configured = t.configured
  BY <1>6
<1>9. password.secret # 0 <=> t.secret \/ mailRow.password.secret # 0
  <2>1. lastSecret + 1 # 0
    BY <1>2, SecretsConstantsOK DEF SecretNumbers
  <2> QED BY <1>3, <1>5, <2>1 DEF IsCipher
<1>10. /\ vtask' = [vtask EXCEPT ![w] = Unasked] /\ t.do = "mail"
       /\ UNCHANGED <<gatewayRow, keyInUse, rotation, entered, sealedLate, defaultRaced>>
       /\ lastSecret' = IF t.secret THEN lastSecret + 1 ELSE lastSecret
       /\ mailRaced' = (mailRaced \/ \E v \in Wardens \ {w} : vtask[v].do = "mail")
  BY <1>1 DEF WriteMail, Answer1, rotationVars
<1>11. PICK none \in VTasks : none = Unasked /\ none.do = "idle"
  BY VTaskNone DEF IsVTask
<1>12. vtask' \in [Wardens -> VTasks] /\ vtask'[w] = none /\ \A v \in Wardens \ {w} : vtask'[v] = vtask[v]
  BY <1>10, <1>11 DEF SecretsInv, SecretsFit
<1>13. lastSecret' \in SecretNumbers
  BY <1>1, <1>2, <1>10
<1>14. SecretsFit'
  BY <1>7, <1>10, <1>12, <1>13 DEF SecretsInv, SecretsFit
<1>15. RotationFits' /\ OneDefault'
  BY <1>10 DEF SecretsInv, RotationFits, SealedWith, HoldsEntered, OneDefault
<1>16. MailFits'
  <2> SUFFICES ASSUME ~mailRaced'
               PROVE  /\ mailRow'.configured <=> mailRow'.named /\ mailRow'.password.secret # 0
                      /\ \A v \in Wardens : WillHold(vtask[v])'
    BY DEF MailFits
  <2>1. ~mailRaced /\ \A v \in Wardens \ {w} : vtask[v].do # "mail"
    BY <1>10
  <2>2. t.configured <=> t.named /\ (t.secret \/ mailRow.password.secret # 0)
    BY <1>1, <1>10, <2>1 DEF SecretsInv, MailFits, WillHold
  <2>3. mailRow'.configured <=> mailRow'.named /\ mailRow'.password.secret # 0
    BY <1>7, <1>8, <1>9, <2>2
  <2>4. \A v \in Wardens : vtask'[v].do # "mail"
    BY <1>11, <1>12, <2>1
  <2> QED BY <2>3, <2>4 DEF WillHold
<1>17. \A v \in Wardens : WritesGateway(vtask[v])'
  BY <1>11, <1>12 DEF SecretsInv, WritesGateway
<1> QED BY <1>14, <1>15, <1>16, <1>17 DEF SecretsInv

\* The script and the restart leave the mail settings alone, and the tasks or end them.
LEMMA MailApart ==
  ASSUME SecretsInv, UNCHANGED <<mailRow, mailRaced>>,
         vtask' = [v \in Wardens |-> Unasked] \/ UNCHANGED vtask
  PROVE  MailFits' /\ (\A v \in Wardens : WritesGateway(vtask[v])') /\ vtask' \in [Wardens -> VTasks]
<1>1. PICK none \in VTasks : none = Unasked /\ none.do = "idle"
  BY VTaskNone DEF IsVTask
<1>2. vtask' \in [Wardens -> VTasks]
  BY <1>1 DEF SecretsInv, SecretsFit
<1>3. \A v \in Wardens : vtask'[v] = vtask[v] \/ vtask'[v] = none
  BY <1>1 DEF SecretsInv, SecretsFit
<1>4. MailFits'
  BY <1>1, <1>3 DEF SecretsInv, MailFits, WillHold
<1>5. \A v \in Wardens : WritesGateway(vtask[v])'
  BY <1>1, <1>3 DEF SecretsInv, WritesGateway
<1> QED BY <1>2, <1>4, <1>5

LEMMA ScriptReads ==
  ASSUME SecretsInv, ReadRows
  PROVE  SecretsInv'
<1>1. UNCHANGED <<gatewayRow, mailRow, mailRaced, keyInUse, vtask, entered, lastSecret, sealedLate, defaultRaced>>
  BY DEF ReadRows, mailVars
<1>2. PICK empty \in Ciphers : empty = Empty /\ empty.secret = 0
  BY EmptyCipher DEF IsCipher
<1>3. PICK read : read = [g \in Gateways |-> IF g \in SealedRows THEN gatewayRow[g].credentials ELSE Empty]
  OBVIOUS
<1>4. \A g \in Gateways : gatewayRow[g].credentials \in Ciphers
  BY GatewayRowParts DEF SecretsInv, SecretsFit
<1>5. read \in Reads /\ \A g \in Gateways : read[g].secret = gatewayRow[g].credentials.secret
  BY <1>2, <1>3, <1>4 DEF Reads, SealedRows
<1>6. rotation' \in Rotations /\ rotation'.at = "prepared" /\ rotation'.read = read
  BY <1>3, <1>5, RotationRead DEF ReadRows, IsRotation
<1>7. SecretsFit'
  BY <1>1, <1>6 DEF SecretsInv, SecretsFit
<1>8. RotationFits'
  BY <1>1, <1>5, <1>6 DEF ReadRows, SecretsInv, SecretsFit, RotationFits, SealedWith, HoldsEntered
<1>9. OneDefault'
  BY <1>1 DEF SecretsInv, OneDefault
<1> QED BY <1>1, <1>7, <1>8, <1>9, MailApart DEF SecretsInv

LEMMA ScriptWrites ==
  ASSUME SecretsInv, WriteRows
  PROVE  SecretsInv'
<1>1. UNCHANGED <<mailRow, mailRaced, keyInUse, vtask, entered, lastSecret, sealedLate, defaultRaced>>
  BY DEF WriteRows, mailVars
<1>2. rotation' \in Rotations /\ rotation'.at = "committed" /\ rotation.at = "prepared" /\ rotation.read \in Reads
  BY RotationAt, RotationParts DEF WriteRows, SecretsInv, SecretsFit, IsRotation
<1>3. ASSUME NEW g \in Gateways
      PROVE  /\ gatewayRow'[g] \in GatewayRows /\ gatewayRow'[g].default = gatewayRow[g].default
             /\ IF rotation.read[g].secret # 0
                THEN gatewayRow'[g].credentials.key = "new" /\ gatewayRow'[g].credentials.secret = rotation.read[g].secret
                ELSE gatewayRow'[g].credentials = gatewayRow[g].credentials
  <2>1. PICK r \in GatewayRows, c \in Ciphers : r = gatewayRow[g] /\ c = rotation.read[g]
    BY <1>2 DEF Reads, SecretsInv, SecretsFit
  <2>2. PICK n \in Ciphers : n = Reencrypt(c) /\ n.key = "new" /\ n.secret = c.secret
    BY CipherMoved DEF IsCipher
  <2>3. PICK q : q = [r EXCEPT !.credentials = n]
    OBVIOUS
  <2>4. q \in GatewayRows /\ q.default = r.default /\ q.credentials = n
    BY <2>3, GatewayRowResealed DEF IsGatewayRow
  <2>5. gatewayRow'[g] = IF c.secret # 0 THEN q ELSE r
    BY <2>1, <2>2, <2>3 DEF WriteRows
  <2> QED BY <2>1, <2>2, <2>4, <2>5
<1>4. gatewayRow' \in [Gateways -> GatewayRows]
  BY <1>3 DEF WriteRows
<1>5. SecretsFit'
  BY <1>1, <1>2, <1>4 DEF SecretsInv, SecretsFit
<1>6. \A g \in Gateways \ sealedLate : HoldsEntered(g) /\ rotation.read[g].secret = entered[g]
  BY <1>2 DEF SecretsInv, RotationFits
<1>7. RotationFits'
  BY <1>1, <1>2, <1>3, <1>6 DEF RotationFits, SealedWith, HoldsEntered
<1>8. OneDefault'
  BY <1>1, <1>3 DEF SecretsInv, OneDefault
<1> QED BY <1>1, <1>5, <1>7, <1>8, MailApart DEF SecretsInv

LEMMA ScriptEnds ==
  ASSUME SecretsInv, StopScript \/ RestartServer \/ UNCHANGED secretsVars
  PROVE  SecretsInv'
<1>1. UNCHANGED <<gatewayRow, mailRow, mailRaced, entered, lastSecret, defaultRaced>>
  BY DEF StopScript, RestartServer, mailVars, secretsVars
<1>2. OneDefault'
  BY <1>1 DEF SecretsInv, OneDefault
<1>3. MailFits' /\ (\A v \in Wardens : WritesGateway(vtask[v])') /\ vtask' \in [Wardens -> VTasks]
  BY <1>1, MailApart DEF StopScript, RestartServer, secretsVars
<1>4. SecretsFit' /\ RotationFits'
  <2>1. CASE StopScript
    <3>1. /\ rotation' \in Rotations /\ rotation'.at = "waiting" /\ rotation.at = "prepared"
          /\ sealedLate' = {} /\ keyInUse' = keyInUse
      BY <2>1, RotationAt DEF StopScript, SecretsInv, SecretsFit, IsRotation
    <3>2. SecretsFit'
      BY <1>1, <1>3, <3>1 DEF SecretsInv, SecretsFit
    <3>3. RotationFits'
      BY <1>1, <3>1 DEF SecretsInv, RotationFits, SealedWith, HoldsEntered
    <3> QED BY <3>2, <3>3
  <2>2. CASE RestartServer
    <3>1. rotation' = rotation /\ rotation.at = "committed" /\ sealedLate' = sealedLate /\ keyInUse' = "new"
      BY <2>2 DEF RestartServer
    <3>2. SecretsFit'
      BY <1>1, <1>3, <3>1 DEF SecretsInv, SecretsFit, Keys
    <3>3. RotationFits'
      BY <1>1, <3>1 DEF SecretsInv, RotationFits, SealedWith, HoldsEntered
    <3> QED BY <3>2, <3>3
  <2>3. CASE UNCHANGED secretsVars
    <3>1. UNCHANGED <<rotation, sealedLate, keyInUse>>
      BY <2>3 DEF secretsVars, rotationVars
    <3>2. SecretsFit'
      BY <1>1, <1>3, <3>1 DEF SecretsInv, SecretsFit
    <3>3. RotationFits'
      BY <1>1, <3>1 DEF SecretsInv, RotationFits, SealedWith, HoldsEntered
    <3> QED BY <3>2, <3>3
  <2> QED BY <2>1, <2>2, <2>3
<1> QED BY <1>2, <1>3, <1>4 DEF SecretsInv

LEMMA SecretsStep == SecretsInv /\ [GatewayNext \/ MailNext]_secretsVars => SecretsInv'
<1> SUFFICES ASSUME SecretsInv, [GatewayNext \/ MailNext]_secretsVars PROVE SecretsInv'
  OBVIOUS
<1>1. ASSUME NEW w \in Wardens, NEW op \in {"create", "update", "default"}, NEW g \in Gateways,
             NEW default \in {"yes", "no", "leave"}, NEW secret \in BOOLEAN, Asked(w, op, g, default, secret)
      PROVE  SecretsInv'
  <2>1. default \in VDefaults
    BY DEF VDefaults
  <2> QED BY <1>1, <2>1, SecretsAsked
<1>2. ASSUME NEW w \in Wardens, ClearDefaults(w) \/ RowRefused(w) \/ RowWritten(w) \/ DropRequest(w)
      PROVE  SecretsInv'
  BY <1>2, DefaultsCleared, SecretsAnswered, RowSaved
<1>3. ASSUME NEW w \in Wardens, (\E named, secret \in BOOLEAN : UpdateMail(w, named, secret)) \/ WriteMail(w)
      PROVE  SecretsInv'
  BY <1>3, MailAsked, MailWritten
<1>4. CASE ReadRows \/ WriteRows \/ StopScript \/ RestartServer \/ UNCHANGED secretsVars
  BY <1>4, ScriptReads, ScriptWrites, ScriptEnds
<1> QED BY <1>1, <1>2, <1>3, <1>4 DEF GatewayNext, MailNext

LEMMA SecretsKeep == SecretsInv => SecretsTypeOK /\ SecretsKept
<1> SUFFICES ASSUME SecretsInv PROVE SecretsTypeOK /\ SecretsKept
  OBVIOUS
<1>1. SecretsTypeOK
  BY SecretsTyped DEF SecretsInv
<1>2. ASSUME keyInUse = "new", NEW g \in Gateways \ sealedLate
      PROVE  /\ Opens(gatewayRow[g].credentials, keyInUse)
             /\ gatewayRow[g].credentials.secret = entered[g]
  BY <1>2 DEF SecretsInv, RotationFits, SealedWith, HoldsEntered, Opens
<1>3. ASSUME ~defaultRaced PROVE Cardinality(Defaults) =< 1
  <2>1. CASE Defaults = {}
    BY <2>1, FS_EmptySet
  <2>2. CASE Defaults # {}
    <3>1. PICK g \in Defaults : TRUE
      BY <2>2
    <3>2. Defaults = {g}
      BY <1>3, <3>1 DEF SecretsInv, OneDefault, Defaults
    <3>3. Cardinality({g}) = 1
      BY FS_Singleton
    <3> QED BY <3>2, <3>3
  <2> QED BY <2>1, <2>2
<1>4. ~mailRaced => (mailRow.configured <=> mailRow.named /\ mailRow.password.secret # 0)
  BY DEF SecretsInv, MailFits
<1> QED BY <1>1, <1>2, <1>3, <1>4 DEF SecretsKept

-----------------------------------------------------------------------------
(***************************************************************************)
(* The messages about orders.                                              *)
(***************************************************************************)
\* The workers, by their fields.
CrierDos  == {"idle", "bell", "subs", "push", "consent", "text", "mail", "send", "done"}
EventNames == Events \cup {"none"}
SentMarks == {"none", "once", "more"}
CrierRows == [do : CrierDos, event : EventNames, to : SUBSET Devices, dead : SUBSET Devices, ok : BOOLEAN]
NoticeRest ==
  /\ handler \in Handlers /\ due \subseteq Events /\ bell \in [BellKeys -> EventNames]
  /\ devices \subseteq Devices /\ expired \subseteq Devices
  /\ consent \in BOOLEAN /\ choices \in 0 .. MaxChoices
  /\ pushes \in [BellKeys -> [Devices -> Nat]] /\ texts \in [BellKeys -> Nat]
  /\ mails \in [Events -> SentMarks] /\ remailed \subseteq Events
NoticeFits == NoticeRest /\ crier \in [Criers -> CrierRows]

\* A worker has an event, has rung for it, prunes what is gone, and has the consent it needs.
CrierFits(c) ==
  /\ c.do = "idle" <=> c.event = "none"
  /\ c.do \notin {"idle", "bell"} => bell[Key(c.event)] # "none"
  /\ c.dead \subseteq expired
  /\ consent /\ c.do # "idle" => c.ok
  /\ handler.marketing /\ c.do \in {"text", "send"} => c.ok

\* One worker fans a key's row out, and what it has yet to send was not sent.
Fanning(c) == c.do \in {"subs", "push", "consent", "text"}
FanFits(c) == Fanning(c) =>
  /\ texts[Key(c.event)] = 0
  /\ \A d \in Devices : c.do = "subs" \/ (c.do = "push" /\ d \in c.to) => pushes[Key(c.event)][d] = 0
OneFans == \A v, w \in Criers :
  Fanning(crier[v]) /\ Fanning(crier[w]) /\ Key(crier[v].event) = Key(crier[w].event) => v = w
BellFits == \A k \in BellKeys :
  /\ texts[k] =< 1 /\ \A d \in Devices : pushes[k][d] =< 1
  /\ bell[k] = "none" => texts[k] = 0 /\ \A d \in Devices : pushes[k][d] = 0
  /\ handler.key = "event" => bell[k] \in {"none", k}

\* An event one worker had is mailed once, by the worker that is about to settle it.
MailsFit == \A e \in Events \ remailed :
  /\ mails[e] # "more"
  /\ \A w \in Criers : crier[w].event = e => e \in due
  /\ \A v, w \in Criers : crier[v].event = e /\ crier[w].event = e => v = w
  /\ mails[e] = "once" /\ e \in due => \E w \in Criers : crier[w].event = e /\ crier[w].do = "done"
RungFor == \A e \in Acknowledged : bell[Key(e)] # "none"
NoticeInv == /\ NoticeFits /\ OneFans /\ BellFits /\ MailsFit /\ RungFor
             /\ \A w \in Criers : CrierFits(crier[w]) /\ FanFits(crier[w])
             /\ unwanted = FALSE /\ cutOff = {}

LEMMA NoticeTyped == NoticeFits /\ unwanted = FALSE /\ cutOff = {} => NoticeTypeOK
<1> SUFFICES ASSUME NoticeFits, unwanted = FALSE, cutOff = {} PROVE NoticeTypeOK
  BY DEF NoticeFits
<1>1. crier \in [Criers -> [do : {"idle", "bell", "subs", "push", "consent", "text", "mail", "send", "done"},
                             event : Events \cup {"none"}, to : SUBSET Devices,
                             dead : SUBSET Devices, ok : BOOLEAN]]
  BY DEF NoticeFits, CrierRows, CrierDos, EventNames
<1>2. bell \in [BellKeys -> Events \cup {"none"}] /\ mails \in [Events -> {"none", "once", "more"}]
  BY DEF NoticeFits, NoticeRest, EventNames, SentMarks
<1>3. cutOff \subseteq Devices /\ unwanted \in BOOLEAN
  OBVIOUS
<1> QED BY <1>1, <1>2, <1>3 DEF NoticeFits, NoticeRest, NoticeTypeOK

\* A worker with the fields named.
IsCrier(c, do, event, to, dead, ok) ==
  c \in CrierRows /\ c.do = do /\ c.event = event /\ c.to = to /\ c.dead = dead /\ c.ok = ok
LEMMA CrierSilent == IsCrier(Silent, "idle", "none", {}, {}, FALSE)
BY DEF IsCrier, Silent, CrierRows, CrierDos, EventNames
LEMMA CrierTaken ==
  \A e \in Events, ok \in BOOLEAN :
    IsCrier([do |-> "bell", event |-> e, to |-> {}, dead |-> {}, ok |-> ok], "bell", e, {}, {}, ok)
BY DEF IsCrier, CrierRows, CrierDos, EventNames
LEMMA CrierGoes ==
  \A c \in CrierRows, do \in CrierDos : IsCrier([c EXCEPT !.do = do], do, c.event, c.to, c.dead, c.ok)
BY DEF IsCrier, CrierRows
LEMMA CrierReads ==
  \A c \in CrierRows, to \in SUBSET Devices :
    IsCrier([c EXCEPT !.do = "push", !.to = to], "push", c.event, to, c.dead, c.ok)
BY DEF IsCrier, CrierRows, CrierDos
LEMMA CrierPushes ==
  \A c \in CrierRows, to \in SUBSET Devices, dead \in SUBSET Devices :
    IsCrier([c EXCEPT !.to = to, !.dead = dead], c.do, c.event, to, dead, c.ok)
BY DEF IsCrier, CrierRows
LEMMA CrierAgrees ==
  \A c \in CrierRows : IsCrier([c EXCEPT !.ok = TRUE], c.do, c.event, c.to, c.dead, TRUE)
BY DEF IsCrier, CrierRows
LEMMA CrierParts ==
  \A c \in CrierRows : /\ c.do \in CrierDos /\ c.event \in EventNames /\ c.ok \in BOOLEAN
                       /\ c.to \in SUBSET Devices /\ c.dead \in SUBSET Devices
BY DEF CrierRows
LEMMA KeyNamed == \A e \in Events : Key(e) \in BellKeys
BY DEF Key, BellKeys, Events
LEMMA EventNamed == Events \subseteq EventNames /\ "none" \in EventNames /\ "none" \notin Events
BY DEF EventNames, Events

LEMMA NoticeStarts == NoticeInit => NoticeInv
<1> SUFFICES ASSUME NoticeInit PROVE NoticeInv
  OBVIOUS
<1>1. \A w \in Criers : IsCrier(crier[w], "idle", "none", {}, {}, FALSE)
  BY CrierSilent DEF NoticeInit
<1>2. crier \in [Criers -> CrierRows]
  BY CrierSilent DEF NoticeInit, IsCrier
<1>3. NoticeRest
  <2>1. pushes \in [BellKeys -> [Devices -> Nat]] /\ texts \in [BellKeys -> Nat] /\ bell \in [BellKeys -> EventNames]
    BY EventNamed DEF NoticeInit
  <2>2. mails \in [Events -> SentMarks] /\ due \subseteq Events
    BY DEF NoticeInit, SentMarks, Events
  <2>3. handler \in Handlers /\ consent \in BOOLEAN /\ choices \in 0 .. MaxChoices
    <3>1. handler \in Handlers /\ consent = FALSE /\ choices = 0
      BY DEF NoticeInit
    <3>2. 0 \in 0 .. MaxChoices
      BY NoticeConstantsOK
    <3> QED BY <3>1, <3>2
  <2>4. devices \subseteq Devices /\ expired \subseteq Devices /\ remailed \subseteq Events
    BY DEF NoticeInit
  <2> QED BY <2>1, <2>2, <2>3, <2>4 DEF NoticeRest
<1>4. OneFans
  BY <1>1 DEF OneFans, Fanning, IsCrier
<1>5. BellFits
  BY DEF NoticeInit, BellFits
<1>6. MailsFit
  BY <1>1, EventNamed DEF NoticeInit, MailsFit, IsCrier
<1>7. RungFor
  BY DEF NoticeInit, RungFor, Acknowledged, Events
<1>8. \A w \in Criers : CrierFits(crier[w]) /\ FanFits(crier[w])
  BY <1>1 DEF NoticeInit, CrierFits, FanFits, Fanning, IsCrier
<1> QED BY <1>2, <1>3, <1>4, <1>5, <1>6, <1>7, <1>8 DEF NoticeInit, NoticeInv, NoticeFits

\* A worker goes on, or is over, and nothing was sent.
LEMMA CrierTurns ==
  ASSUME NoticeInv, NEW w \in Criers, NEW n \in CrierRows, crier' = [crier EXCEPT ![w] = n],
         UNCHANGED <<handler, due, bell, expired, consent, sentVars, choices>>,
         devices' \subseteq Devices, cutOff' = {}, remailed \subseteq remailed', remailed' \subseteq Events,
         CrierFits(n), FanFits(n), Fanning(n) => Fanning(crier[w]) /\ n.event = crier[w].event,
         \A e \in Events \ remailed' :
           /\ n.event = e => e \in due /\ (crier[w].event = e \/ \A v \in Criers : crier[v].event # e)
           /\ crier[w].event = e /\ crier[w].do = "done" => n.event = e /\ n.do = "done"
  PROVE  NoticeInv'
<1>1. UNCHANGED <<handler, due, bell, expired, consent, pushes, texts, mails, unwanted, choices>>
  BY DEF sentVars
<1>2. /\ crier' \in [Criers -> CrierRows] /\ crier'[w] = n
      /\ \A v \in Criers : v # w => crier'[v] = crier[v]
  BY DEF NoticeInv, NoticeFits
<1>3. NoticeFits'
  BY <1>1, <1>2 DEF NoticeInv, NoticeFits, NoticeRest
<1>4. OneFans'
  BY <1>1, <1>2 DEF NoticeInv, OneFans, Fanning, Key
<1>5. BellFits'
  BY <1>1 DEF NoticeInv, BellFits
<1>6. RungFor'
  BY <1>1 DEF NoticeInv, RungFor, Acknowledged, Key
<1>7. MailsFit'
  <2> SUFFICES ASSUME NEW e \in Events \ remailed'
               PROVE  /\ mails'[e] # "more"
                      /\ \A v \in Criers : crier'[v].event = e => e \in due'
                      /\ \A u, v \in Criers : crier'[u].event = e /\ crier'[v].event = e => u = v
                      /\ mails'[e] = "once" /\ e \in due' => \E v \in Criers : crier'[v].event = e /\ crier'[v].do = "done"
    BY DEF MailsFit
  <2>1. /\ mails[e] # "more"
        /\ \A v \in Criers : crier[v].event = e => e \in due
        /\ \A u, v \in Criers : crier[u].event = e /\ crier[v].event = e => u = v
        /\ mails[e] = "once" /\ e \in due => \E v \in Criers : crier[v].event = e /\ crier[v].do = "done"
    BY DEF NoticeInv, MailsFit
  <2>2. mails'[e] = "once" /\ e \in due' => \E v \in Criers : crier'[v].event = e /\ crier'[v].do = "done"
    BY <1>1, <1>2, <2>1
  <2> QED BY <1>1, <1>2, <2>1, <2>2
<1>8. \A v \in Criers : CrierFits(crier[v])' /\ FanFits(crier[v])'
  <2>1. CrierFits(n)' /\ FanFits(n)'
    BY <1>1 DEF CrierFits, FanFits, Key
  <2>2. ASSUME NEW v \in Criers, v # w PROVE CrierFits(crier[v])' /\ FanFits(crier[v])'
    <3>1. PICK c \in CrierRows : c = crier[v] /\ c = crier'[v]
      BY <1>2, <2>2 DEF NoticeInv, NoticeFits
    <3>2. CrierFits(c) /\ FanFits(c)
      BY <3>1 DEF NoticeInv
    <3>3. CrierFits(c)' /\ FanFits(c)'
      BY <1>1, <3>2 DEF CrierFits, FanFits, Key
    <3> QED BY <3>1, <3>3 DEF CrierFits, FanFits, Fanning
  <2> QED BY <1>2, <2>1, <2>2 DEF CrierFits, FanFits, Fanning
<1> QED BY <1>1, <1>3, <1>4, <1>5, <1>6, <1>7, <1>8 DEF NoticeInv

\* The event is taken, or let go: by an end, a failure, or a death.
LEMMA EventTaken ==
  ASSUME NoticeInv, NEW w \in Criers, NEW e \in Events, TakeEvent(w, e)
  PROVE  NoticeInv'
<1>1. PICK c \in CrierRows : c = crier[w] /\ c.do = "idle" /\ c.event = "none"
  BY DEF NoticeInv, NoticeFits, CrierFits, TakeEvent, At
<1>2. consent \in BOOLEAN
  BY DEF NoticeInv, NoticeFits, NoticeRest
<1>3. PICK n : n = [do |-> "bell", event |-> e, to |-> {}, dead |-> {}, ok |-> consent]
               /\ IsCrier(n, "bell", e, {}, {}, consent)
  BY <1>2, CrierTaken
<1>4. n \in CrierRows /\ n.do = "bell" /\ n.event = e /\ n.dead = {} /\ n.ok = consent
  BY <1>3 DEF IsCrier
<1>5. crier' = [crier EXCEPT ![w] = n]
  BY <1>3 DEF TakeEvent
<1>6. CrierFits(n) /\ FanFits(n) /\ ~Fanning(n)
  BY <1>4, EventNamed DEF CrierFits, FanFits, Fanning
<1>7. remailed \subseteq remailed' /\ remailed' \subseteq Events /\ e \in due
      /\ (e \in remailed' \/ \A v \in Criers : crier[v].event # e)
  BY DEF TakeEvent, NoticeInv, NoticeFits, NoticeRest
<1>8. /\ UNCHANGED <<handler, due, bell, devices, expired, cutOff, consent, sentVars, choices>>
      /\ devices' \subseteq Devices /\ cutOff' = {}
  BY DEF TakeEvent, deviceVars, NoticeInv, NoticeFits, NoticeRest
<1>9. \A f \in Events \ remailed' :
        /\ n.event = f => f \in due /\ (crier[w].event = f \/ \A v \in Criers : crier[v].event # f)
        /\ crier[w].event = f /\ crier[w].do = "done" => n.event = f /\ n.do = "done"
  BY <1>1, <1>4, <1>7
<1> QED BY <1>4, <1>5, <1>6, <1>7, <1>8, <1>9, CrierTurns

LEMMA EventLetGo ==
  ASSUME NoticeInv, NEW w \in Criers, MailFails(w) \/ CrierDies(w)
  PROVE  NoticeInv'
<1>1. PICK n \in CrierRows : n = Silent /\ n.do = "idle" /\ n.event = "none" /\ n.dead = {}
  BY CrierSilent DEF IsCrier
<1>2. crier' = [crier EXCEPT ![w] = n]
  BY <1>1 DEF MailFails, CrierDies
<1>3. CrierFits(n) /\ FanFits(n) /\ ~Fanning(n)
  BY <1>1 DEF CrierFits, FanFits, Fanning
<1>4. crier[w].event \in EventNames /\ (crier[w].do = "idle" <=> crier[w].event = "none")
  BY CrierParts DEF NoticeInv, NoticeFits, CrierFits
<1>5. remailed \subseteq remailed' /\ remailed' \subseteq Events
      /\ (crier[w].do = "done" => crier[w].event \in remailed')
  BY <1>4, EventNamed DEF MailFails, CrierDies, At, NoticeInv, NoticeFits, NoticeRest, EventNames
<1>6. /\ UNCHANGED <<handler, due, bell, devices, expired, cutOff, consent, sentVars, choices>>
      /\ devices' \subseteq Devices /\ cutOff' = {}
  BY DEF MailFails, CrierDies, deviceVars, NoticeInv, NoticeFits, NoticeRest
<1>7. \A f \in Events \ remailed' :
        /\ n.event = f => f \in due /\ (crier[w].event = f \/ \A v \in Criers : crier[v].event # f)
        /\ crier[w].event = f /\ crier[w].do = "done" => n.event = f /\ n.do = "done"
  BY <1>1, <1>5, EventNamed
<1> QED BY <1>1, <1>2, <1>3, <1>5, <1>6, <1>7, CrierTurns

\* A worker goes on with its event.
LEMMA CrierGoesOn ==
  ASSUME NoticeInv, NEW w \in Criers, NEW n \in CrierRows, crier' = [crier EXCEPT ![w] = n],
         UNCHANGED <<handler, due, bell, expired, consent, sentVars, choices, remailed>>,
         devices' \subseteq Devices, cutOff' = {},
         n.event = crier[w].event, crier[w].do # "done",
         CrierFits(n), FanFits(n), Fanning(n) => Fanning(crier[w])
  PROVE  NoticeInv'
<1>1. remailed \subseteq remailed' /\ remailed' \subseteq Events
  BY DEF NoticeInv, NoticeFits, NoticeRest
<1>2. \A f \in Events \ remailed' :
        /\ n.event = f => f \in due /\ (crier[w].event = f \/ \A v \in Criers : crier[v].event # f)
        /\ crier[w].event = f /\ crier[w].do = "done" => n.event = f /\ n.do = "done"
  BY <1>1 DEF NoticeInv, MailsFit
<1> QED BY <1>1, <1>2, CrierTurns

LEMMA SubscriptionsRead ==
  ASSUME NoticeInv, NEW w \in Criers, ReadSubscriptions(w)
  PROVE  NoticeInv'
<1>1. PICK c \in CrierRows : c = crier[w] /\ c.do = "subs" /\ CrierFits(c) /\ FanFits(c)
  BY DEF NoticeInv, NoticeFits, ReadSubscriptions, At
<1>2. devices \in SUBSET Devices
  BY DEF NoticeInv, NoticeFits, NoticeRest
<1>3. PICK n : n = [c EXCEPT !.do = "push", !.to = devices]
  OBVIOUS
<1>4. n \in CrierRows /\ n.do = "push" /\ n.event = c.event /\ n.dead = c.dead /\ n.ok = c.ok
  BY <1>2, <1>3, CrierReads DEF IsCrier
<1>5. crier' = [crier EXCEPT ![w] = n]
  BY <1>1, <1>3 DEF ReadSubscriptions
<1>6. CrierFits(n) /\ FanFits(n)
  BY <1>1, <1>4 DEF CrierFits, FanFits, Fanning
<1> QED BY <1>1, <1>2, <1>4, <1>5, <1>6, CrierGoesOn DEF ReadSubscriptions, deviceVars, Fanning, NoticeInv

LEMMA DevicesPruned ==
  ASSUME NoticeInv, NEW w \in Criers, PruneDevices(w)
  PROVE  NoticeInv'
<1>1. PICK c \in CrierRows : c = crier[w] /\ c.do = "push" /\ CrierFits(c) /\ FanFits(c)
  BY DEF NoticeInv, NoticeFits, PruneDevices, At
<1>2. PICK n : n = [c EXCEPT !.do = "consent"]
  OBVIOUS
<1>3. n \in CrierRows /\ n.do = "consent" /\ n.event = c.event /\ n.dead = c.dead /\ n.ok = c.ok
  <2>1. "consent" \in CrierDos
    BY DEF CrierDos
  <2> QED BY <1>2, <2>1, CrierGoes DEF IsCrier
<1>4. crier' = [crier EXCEPT ![w] = n]
  BY <1>1, <1>2 DEF PruneDevices, Goes
<1>5. CrierFits(n) /\ FanFits(n)
  BY <1>1, <1>3 DEF CrierFits, FanFits, Fanning
<1>6. cutOff' = {} /\ devices' \subseteq Devices
  BY <1>1 DEF PruneDevices, CrierFits, NoticeInv, NoticeFits, NoticeRest
<1> QED BY <1>1, <1>3, <1>4, <1>5, <1>6, CrierGoesOn DEF PruneDevices, Fanning

LEMMA ConsentChecked ==
  ASSUME NoticeInv, NEW w \in Criers, CheckText(w) \/ CheckMail(w)
  PROVE  NoticeInv'
<1>1. PICK c \in CrierRows : c = crier[w] /\ c.do \in {"consent", "mail"} /\ CrierFits(c) /\ FanFits(c)
  BY DEF NoticeInv, NoticeFits, CheckText, CheckMail, At
<1>2. PICK do \in CrierDos : /\ crier' = [crier EXCEPT ![w].do = do]
                             /\ do \in {"text", "send", "mail", "done"}
                             /\ do = "text" => c.do = "consent"
                             /\ handler.marketing /\ do \in {"text", "send"} => consent
  <2>1. CASE CheckText(w)
    BY <1>1, <2>1 DEF CheckText, At, Goes, MayText, CrierDos
  <2>2. CASE CheckMail(w)
    BY <1>1, <2>2 DEF CheckMail, At, Goes, MayMail, CrierDos
  <2> QED BY <2>1, <2>2
<1>3. PICK n : n = [c EXCEPT !.do = do]
  OBVIOUS
<1>4. n \in CrierRows /\ n.do = do /\ n.event = c.event /\ n.dead = c.dead /\ n.ok = c.ok
  BY <1>3, CrierGoes DEF IsCrier
<1>5. crier' = [crier EXCEPT ![w] = n]
  BY <1>1, <1>2, <1>3
<1>6. CrierFits(n) /\ FanFits(n) /\ (Fanning(n) => Fanning(c))
  BY <1>1, <1>2, <1>4 DEF CrierFits, FanFits, Fanning
<1>7. /\ UNCHANGED <<handler, due, bell, devices, expired, cutOff, consent, sentVars, choices, remailed>>
      /\ devices' \subseteq Devices /\ cutOff' = {}
  BY DEF CheckText, CheckMail, deviceVars, NoticeInv, NoticeFits, NoticeRest
<1> QED BY <1>1, <1>4, <1>5, <1>6, <1>7, CrierGoesOn

\* A worker whose predicates speak of what did not change is as it was.
LEMMA CriersStay ==
  ASSUME NoticeInv, NEW w \in Criers, NEW n \in CrierRows, crier' = [crier EXCEPT ![w] = n],
         UNCHANGED <<handler, consent>>, expired \subseteq expired',
         \A k \in BellKeys : bell[k] # "none" => bell'[k] # "none"
  PROVE  /\ crier' \in [Criers -> CrierRows] /\ crier'[w] = n
         /\ \A v \in Criers : v # w => crier'[v] = crier[v] /\ CrierFits(crier[v])'
<1>1. /\ crier' \in [Criers -> CrierRows] /\ crier'[w] = n
      /\ \A v \in Criers : v # w => crier'[v] = crier[v]
  BY DEF NoticeInv, NoticeFits
<1>2. ASSUME NEW v \in Criers, v # w PROVE CrierFits(crier[v])'
  <2>1. PICK c \in CrierRows : c = crier[v] /\ c = crier'[v] /\ CrierFits(c)
    BY <1>1, <1>2 DEF NoticeInv, NoticeFits
  <2>2. c.do \notin {"idle", "bell"} => c.event \in Events
    BY <2>1, CrierParts, EventNamed DEF CrierFits, EventNames
  <2>3. CrierFits(c)'
    BY <2>1, <2>2, KeyNamed DEF CrierFits, Key
  <2> QED BY <2>1, <2>3 DEF CrierFits
<1> QED BY <1>1, <1>2

\* Mail and acknowledgements, seen from the events of the others.
LEMMA MailsStay ==
  ASSUME NoticeInv, NEW w \in Criers, NEW n \in CrierRows, crier' = [crier EXCEPT ![w] = n],
         n.event = crier[w].event, crier[w].do # "done", UNCHANGED <<due, mails, remailed>>
  PROVE  MailsFit'
<1>1. /\ crier' \in [Criers -> CrierRows] /\ crier'[w] = n
      /\ \A v \in Criers : v # w => crier'[v] = crier[v]
  BY DEF NoticeInv, NoticeFits
<1> SUFFICES ASSUME NEW e \in Events \ remailed
             PROVE  /\ mails'[e] # "more"
                    /\ \A v \in Criers : crier'[v].event = e => e \in due'
                    /\ \A u, v \in Criers : crier'[u].event = e /\ crier'[v].event = e => u = v
                    /\ mails'[e] = "once" /\ e \in due' => \E v \in Criers : crier'[v].event = e /\ crier'[v].do = "done"
  BY DEF MailsFit
<1>2. /\ mails[e] # "more"
      /\ \A v \in Criers : crier[v].event = e => e \in due
      /\ \A u, v \in Criers : crier[u].event = e /\ crier[v].event = e => u = v
      /\ mails[e] = "once" /\ e \in due => \E v \in Criers : crier[v].event = e /\ crier[v].do = "done"
  BY DEF NoticeInv, MailsFit
<1>3. mails'[e] = "once" /\ e \in due' => \E v \in Criers : crier'[v].event = e /\ crier'[v].do = "done"
  BY <1>1, <1>2
<1> QED BY <1>1, <1>2, <1>3

LEMMA BellRung ==
  ASSUME NoticeInv, NEW w \in Criers, RingBell(w)
  PROVE  NoticeInv'
<1>1. PICK c \in CrierRows : c = crier[w] /\ c.do = "bell" /\ CrierFits(c) /\ FanFits(c)
  BY DEF NoticeInv, NoticeFits, RingBell, At
<1>2. PICK e \in Events : e = c.event
  BY <1>1, CrierParts, EventNamed DEF CrierFits, EventNames
<1>3. PICK k \in BellKeys : k = Key(e)
  BY KeyNamed
<1>4. PICK do \in CrierDos : do = IF bell[k] = "none" THEN "subs" ELSE "mail"
  BY DEF CrierDos
<1>5. PICK n : n = [c EXCEPT !.do = do]
  OBVIOUS
<1>6. n \in CrierRows /\ n.do = do /\ n.event = e /\ n.dead = c.dead /\ n.ok = c.ok
  BY <1>2, <1>5, CrierGoes DEF IsCrier
<1>7. crier' = [crier EXCEPT ![w] = n]
  BY <1>1, <1>2, <1>3, <1>4, <1>5 DEF RingBell, Goes, Inserted
<1>8. UNCHANGED <<handler, due, devices, expired, cutOff, consent, pushes, texts, mails, unwanted, choices, remailed>>
  BY DEF RingBell, deviceVars, sentVars
<1>9. /\ bell' \in [BellKeys -> EventNames] /\ bell'[k] # "none"
      /\ \A j \in BellKeys : bell[j] # "none" => bell'[j] = bell[j]
      /\ \A j \in BellKeys : j # k => bell'[j] = bell[j]
      /\ bell'[k] \in {bell[k], e}
  BY <1>1, <1>2, <1>3, EventNamed DEF RingBell, NoticeInv, NoticeFits, NoticeRest
<1>10. handler.key = "event" => k = e
  BY <1>3 DEF Key
<1>11. /\ crier' \in [Criers -> CrierRows] /\ crier'[w] = n
       /\ \A v \in Criers : v # w => crier'[v] = crier[v] /\ CrierFits(crier[v])'
  BY <1>6, <1>7, <1>8, <1>9, CriersStay
<1>12. NoticeFits'
  BY <1>8, <1>9, <1>11 DEF NoticeInv, NoticeFits, NoticeRest
<1>13. MailsFit'
  BY <1>1, <1>2, <1>6, <1>7, <1>8, MailsStay
<1>14. RungFor'
  BY <1>8, <1>9, KeyNamed DEF NoticeInv, RungFor, Acknowledged, Key
<1>15. BellFits'
  BY <1>8, <1>9, <1>10 DEF NoticeInv, BellFits
<1>16. OneFans'
  <2>1. ASSUME Fanning(n), NEW v \in Criers, v # w, Fanning(crier[v]) PROVE Key(crier[v].event) # k
    <3>1. bell[k] = "none"
      BY <1>4, <1>6, <2>1 DEF Fanning
    <3>2. CrierFits(crier[v])
      BY DEF NoticeInv
    <3> QED BY <2>1, <3>1, <3>2 DEF CrierFits, Fanning
  <2>2. \A u, v \in Criers : /\ Fanning(crier'[u]) /\ Fanning(crier'[v])
                             /\ Key(crier'[u].event) = Key(crier'[v].event)
                             => u = v
    BY <1>3, <1>6, <1>11, <2>1 DEF NoticeInv, OneFans
  <2> QED BY <1>8, <2>2 DEF OneFans, Fanning, Key
<1>17. CrierFits(n)'
  BY <1>1, <1>2, <1>3, <1>4, <1>6, <1>8, <1>9 DEF CrierFits, Key
<1>18. FanFits(n)'
  <2>1. Fanning(n) => texts[k] = 0 /\ \A d \in Devices : pushes[k][d] = 0
    BY <1>4, <1>6 DEF Fanning, NoticeInv, BellFits
  <2> QED BY <1>3, <1>6, <1>8, <2>1 DEF FanFits, Fanning, Key
<1>19. \A v \in Criers : FanFits(crier[v])'
  <2>1. ASSUME NEW v \in Criers, v # w PROVE FanFits(crier[v])'
    <3>1. PICK x \in CrierRows : x = crier[v] /\ x = crier'[v] /\ FanFits(x)
      BY <1>11, <2>1 DEF NoticeInv, NoticeFits
    <3>2. FanFits(x)'
      BY <1>8, <3>1 DEF FanFits, Fanning, Key
    <3> QED BY <3>1, <3>2 DEF FanFits, Fanning
  <2> QED BY <1>11, <1>18, <2>1 DEF FanFits, Fanning
<1>20. \A v \in Criers : CrierFits(crier[v])'
  BY <1>11, <1>17 DEF CrierFits
<1> QED BY <1>8, <1>12, <1>13, <1>14, <1>15, <1>16, <1>19, <1>20 DEF NoticeInv

\* What a worker sends for its key, no other worker that fans out has a say in.
LEMMA SentForKey ==
  ASSUME NoticeInv, NEW w \in Criers, Fanning(crier[w]), NEW n \in CrierRows, crier' = [crier EXCEPT ![w] = n],
         n.event = crier[w].event, UNCHANGED <<handler, due, bell, expired, consent, mails, remailed>>,
         NEW k \in BellKeys, k = Key(n.event),
         \A j \in BellKeys : j # k => texts'[j] = texts[j] /\ pushes'[j] = pushes[j],
         texts'[k] =< 1, \A d \in Devices : pushes'[k][d] =< 1
  PROVE  /\ OneFans' /\ BellFits' /\ MailsFit' /\ RungFor'
         /\ \A v \in Criers : v # w => CrierFits(crier[v])' /\ FanFits(crier[v])'
<1>1. \A j \in BellKeys : bell[j] # "none" => bell'[j] # "none"
  OBVIOUS
<1>2. expired \subseteq expired'
  OBVIOUS
<1>3. /\ crier' \in [Criers -> CrierRows] /\ crier'[w] = n
      /\ \A v \in Criers : v # w => crier'[v] = crier[v] /\ CrierFits(crier[v])'
  BY <1>1, <1>2, CriersStay
<1>4. OneFans'
  BY <1>3 DEF NoticeInv, OneFans, Fanning, Key
<1>5. bell[k] # "none"
  BY DEF NoticeInv, CrierFits, Fanning
<1>6. BellFits'
  BY <1>5 DEF NoticeInv, BellFits
<1>7. MailsFit'
  BY MailsStay DEF Fanning
<1>8. RungFor'
  BY DEF NoticeInv, RungFor, Acknowledged, Key
<1>9. ASSUME NEW v \in Criers, v # w PROVE FanFits(crier[v])'
  <2>1. PICK x \in CrierRows : x = crier[v] /\ x = crier'[v] /\ FanFits(x) /\ CrierFits(x)
    BY <1>3, <1>9 DEF NoticeInv, NoticeFits
  <2>2. CASE ~Fanning(x)
    BY <2>1, <2>2 DEF FanFits, Fanning
  <2>3. CASE Fanning(x)
    <3>1. PICK j \in BellKeys : j = Key(x.event)
      <4>1. x.event \in Events
        BY <2>1, <2>3, CrierParts, EventNamed DEF CrierFits, EventNames, Fanning
      <4> QED BY <4>1, KeyNamed
    <3>2. j # k
      BY <1>9, <2>1, <2>3, <3>1 DEF NoticeInv, OneFans
    <3>3. texts'[j] = texts[j] /\ pushes'[j] = pushes[j]
      BY <3>2
    <3>4. FanFits(x)'
      BY <2>1, <3>1, <3>3 DEF FanFits, Fanning, Key
    <3> QED BY <2>1, <3>4 DEF FanFits, Fanning
  <2> QED BY <2>2, <2>3
<1> QED BY <1>3, <1>4, <1>6, <1>7, <1>8, <1>9

LEMMA DevicePushed ==
  ASSUME NoticeInv, NEW w \in Criers, NEW d \in Devices, PushTo(w, d)
  PROVE  NoticeInv'
<1>1. PICK c \in CrierRows : c = crier[w] /\ c.do = "push" /\ CrierFits(c) /\ FanFits(c) /\ d \in c.to
  BY DEF NoticeInv, NoticeFits, PushTo, At
<1>2. PICK e \in Events : e = c.event
  BY <1>1, CrierParts, EventNamed DEF CrierFits, EventNames
<1>3. PICK k \in BellKeys : k = Key(e)
  BY KeyNamed
<1>4. PICK sent \in BOOLEAN :
        /\ sent => d \notin expired
        /\ pushes' = IF sent THEN [pushes EXCEPT ![k][d] = @ + 1] ELSE pushes
        /\ crier' = [crier EXCEPT ![w].to = @ \ {d},
                                  ![w].dead = IF ~sent /\ d \in expired THEN @ \cup {d} ELSE @]
  BY <1>1, <1>2, <1>3 DEF PushTo
<1>5. PICK to \in SUBSET Devices : to = c.to \ {d}
  BY CrierParts
<1>6. PICK dead \in SUBSET Devices : dead = IF ~sent /\ d \in expired THEN c.dead \cup {d} ELSE c.dead
  BY CrierParts
<1>7. PICK n : n = [c EXCEPT !.to = to, !.dead = dead]
  OBVIOUS
<1>8. n \in CrierRows /\ n.do = "push" /\ n.event = e /\ n.to = to /\ n.dead = dead /\ n.ok = c.ok
  <2>1. IsCrier(n, c.do, c.event, to, dead, c.ok)
    BY <1>7, CrierPushes
  <2> QED BY <1>1, <1>2, <2>1 DEF IsCrier
<1>9. crier' = [crier EXCEPT ![w] = n]
  <2>1. crier \in [Criers -> CrierRows]
    BY DEF NoticeInv, NoticeFits
  <2> QED BY <1>1, <1>4, <1>5, <1>6, <1>7, <2>1
<1>10. UNCHANGED <<handler, due, bell, devices, expired, cutOff, consent, texts, mails, unwanted, choices, remailed>>
  BY DEF PushTo, deviceVars
<1>11. pushes \in [BellKeys -> [Devices -> Nat]] /\ pushes[k][d] = 0
  BY <1>1, <1>2, <1>3 DEF FanFits, Fanning, NoticeInv, NoticeFits, NoticeRest
<1>12. /\ pushes' \in [BellKeys -> [Devices -> Nat]]
       /\ \A j \in BellKeys : j # k => pushes'[j] = pushes[j]
       /\ \A x \in Devices : x # d => pushes'[k][x] = pushes[k][x]
       /\ pushes'[k][d] \in {0, 1}
  BY <1>4, <1>11
<1>13. \A x \in Devices : pushes'[k][x] =< 1
  BY <1>12 DEF NoticeInv, BellFits
<1>14. /\ OneFans' /\ BellFits' /\ MailsFit' /\ RungFor'
       /\ \A v \in Criers : v # w => CrierFits(crier[v])' /\ FanFits(crier[v])'
  <2>1. Fanning(crier[w]) /\ n.event = crier[w].event /\ k = Key(n.event)
    BY <1>1, <1>2, <1>3, <1>8 DEF Fanning
  <2>2. texts'[k] =< 1 /\ \A j \in BellKeys : j # k => texts'[j] = texts[j] /\ pushes'[j] = pushes[j]
    BY <1>10, <1>12 DEF NoticeInv, BellFits
  <2> QED BY <1>8, <1>9, <1>10, <1>13, <2>1, <2>2, SentForKey
<1>15. /\ crier' \in [Criers -> CrierRows] /\ crier'[w] = n
  BY <1>8, <1>9 DEF NoticeInv, NoticeFits
<1>16. NoticeFits'
  BY <1>10, <1>12, <1>15 DEF NoticeInv, NoticeFits, NoticeRest
<1>17. CrierFits(n)'
  BY <1>1, <1>2, <1>6, <1>8, <1>10 DEF CrierFits, Key
<1>18. FanFits(n)'
  <2>1. texts[k] = 0 /\ \A x \in c.to : pushes[k][x] = 0
    BY <1>1, <1>2, <1>3, CrierParts DEF FanFits, Fanning
  <2>2. \A x \in Devices : x \in to => pushes'[k][x] = 0
    BY <1>5, <1>12, <2>1
  <2> QED BY <1>3, <1>8, <1>10, <2>1, <2>2 DEF FanFits, Fanning, Key
<1>19. \A v \in Criers : CrierFits(crier[v])' /\ FanFits(crier[v])'
  BY <1>14, <1>15, <1>17, <1>18 DEF CrierFits, FanFits, Fanning
<1> QED BY <1>10, <1>14, <1>16, <1>19 DEF NoticeInv

LEMMA TextSent ==
  ASSUME NoticeInv, NEW w \in Criers, SendText(w)
  PROVE  NoticeInv'
<1>1. PICK c \in CrierRows : c = crier[w] /\ c.do = "text" /\ CrierFits(c) /\ FanFits(c)
  BY DEF NoticeInv, NoticeFits, SendText, At
<1>2. PICK e \in Events : e = c.event
  BY <1>1, CrierParts, EventNamed DEF CrierFits, EventNames
<1>3. PICK k \in BellKeys : k = Key(e)
  BY KeyNamed
<1>4. PICK n : n = [c EXCEPT !.do = "mail"]
  OBVIOUS
<1>5. n \in CrierRows /\ n.do = "mail" /\ n.event = e /\ n.dead = c.dead /\ n.ok = c.ok
  <2>1. "mail" \in CrierDos
    BY DEF CrierDos
  <2> QED BY <1>2, <1>4, <2>1, CrierGoes DEF IsCrier
<1>6. crier' = [crier EXCEPT ![w] = n]
  BY <1>1, <1>4 DEF SendText, Goes
<1>7. UNCHANGED <<handler, due, bell, devices, expired, cutOff, consent, pushes, mails, choices, remailed>>
  BY DEF SendText, deviceVars
<1>8. unwanted' = FALSE
  BY <1>1 DEF SendText, Unwanted, CrierFits, NoticeInv
<1>9. texts' = texts \/ texts' = [texts EXCEPT ![k] = @ + 1]
  BY <1>1, <1>2, <1>3 DEF SendText
<1>10. texts \in [BellKeys -> Nat] /\ texts[k] = 0
  BY <1>1, <1>2, <1>3 DEF FanFits, Fanning, NoticeInv, NoticeFits, NoticeRest
<1>11. texts' \in [BellKeys -> Nat] /\ texts'[k] =< 1 /\ \A j \in BellKeys : j # k => texts'[j] = texts[j]
  BY <1>9, <1>10
<1>12. /\ OneFans' /\ BellFits' /\ MailsFit' /\ RungFor'
       /\ \A v \in Criers : v # w => CrierFits(crier[v])' /\ FanFits(crier[v])'
  <2>1. Fanning(crier[w]) /\ n.event = crier[w].event /\ k = Key(n.event)
    BY <1>1, <1>2, <1>3, <1>5 DEF Fanning
  <2>2. /\ \A j \in BellKeys : j # k => texts'[j] = texts[j] /\ pushes'[j] = pushes[j]
        /\ \A x \in Devices : pushes'[k][x] =< 1
    BY <1>7, <1>11 DEF NoticeInv, BellFits
  <2> QED BY <1>5, <1>6, <1>7, <1>11, <2>1, <2>2, SentForKey
<1>13. /\ crier' \in [Criers -> CrierRows] /\ crier'[w] = n
  BY <1>5, <1>6 DEF NoticeInv, NoticeFits
<1>14. NoticeFits'
  BY <1>7, <1>11, <1>13 DEF NoticeInv, NoticeFits, NoticeRest
<1>15. CrierFits(n)' /\ FanFits(n)'
  BY <1>1, <1>2, <1>5, <1>7 DEF CrierFits, FanFits, Fanning, Key
<1>16. \A v \in Criers : CrierFits(crier[v])' /\ FanFits(crier[v])'
  BY <1>12, <1>13, <1>15 DEF CrierFits, FanFits, Fanning
<1> QED BY <1>7, <1>8, <1>12, <1>14, <1>16 DEF NoticeInv

\* A mail that is sent, or an event that is settled, concerns the others by that event only.
LEMMA CriersApart ==
  ASSUME NoticeInv, NEW w \in Criers, NEW n \in CrierRows, crier' = [crier EXCEPT ![w] = n],
         ~Fanning(n), CrierFits(n), UNCHANGED <<handler, bell, expired, consent, pushes, texts>>
  PROVE  /\ OneFans' /\ BellFits'
         /\ \A v \in Criers : CrierFits(crier[v])' /\ FanFits(crier[v])'
         /\ crier' \in [Criers -> CrierRows] /\ crier'[w] = n /\ \A v \in Criers : v # w => crier'[v] = crier[v]
<1>1. /\ crier' \in [Criers -> CrierRows] /\ crier'[w] = n
      /\ \A v \in Criers : v # w => crier'[v] = crier[v]
  BY DEF NoticeInv, NoticeFits
<1>2. OneFans'
  BY <1>1 DEF NoticeInv, OneFans, Fanning, Key
<1>3. BellFits'
  BY DEF NoticeInv, BellFits
<1>4. ASSUME NEW v \in Criers PROVE CrierFits(crier[v])' /\ FanFits(crier[v])'
  <2>1. PICK x \in CrierRows : x = crier'[v] /\ CrierFits(x) /\ FanFits(x)
    BY <1>1 DEF NoticeInv, NoticeFits, FanFits
  <2>2. CrierFits(x)' /\ FanFits(x)'
    BY <2>1 DEF CrierFits, FanFits, Fanning, Key
  <2> QED BY <2>1, <2>2 DEF CrierFits, FanFits, Fanning
<1> QED BY <1>1, <1>2, <1>3, <1>4

LEMMA MailSent ==
  ASSUME NoticeInv, NEW w \in Criers, SendMail(w)
  PROVE  NoticeInv'
<1>1. PICK c \in CrierRows : c = crier[w] /\ c.do = "send" /\ CrierFits(c)
  BY DEF NoticeInv, NoticeFits, SendMail, At
<1>2. PICK e \in Events : e = c.event
  BY <1>1, CrierParts, EventNamed DEF CrierFits, EventNames
<1>3. PICK n : n = [c EXCEPT !.do = "done"]
  OBVIOUS
<1>4. n \in CrierRows /\ n.do = "done" /\ n.event = e /\ n.dead = c.dead /\ n.ok = c.ok
  <2>1. "done" \in CrierDos
    BY DEF CrierDos
  <2> QED BY <1>2, <1>3, <2>1, CrierGoes DEF IsCrier
<1>5. crier' = [crier EXCEPT ![w] = n]
  BY <1>1, <1>3 DEF SendMail, Goes
<1>6. UNCHANGED <<handler, due, bell, devices, expired, cutOff, consent, pushes, texts, choices, remailed>>
  BY DEF SendMail, deviceVars
<1>7. unwanted' = FALSE
  BY <1>1 DEF SendMail, Unwanted, CrierFits, NoticeInv
<1>8. mails' = [mails EXCEPT ![e] = IF @ = "none" THEN "once" ELSE "more"] /\ mails \in [Events -> SentMarks]
  BY <1>1, <1>2 DEF SendMail, NoticeInv, NoticeFits, NoticeRest
<1>9. ~Fanning(n) /\ CrierFits(n)
  BY <1>1, <1>2, <1>4 DEF Fanning, CrierFits
<1>10. /\ OneFans' /\ BellFits'
       /\ \A v \in Criers : CrierFits(crier[v])' /\ FanFits(crier[v])'
       /\ crier' \in [Criers -> CrierRows] /\ crier'[w] = n /\ \A v \in Criers : v # w => crier'[v] = crier[v]
  BY <1>4, <1>5, <1>6, <1>9, CriersApart
<1>11. /\ mails' \in [Events -> SentMarks] /\ \A f \in Events : f # e => mails'[f] = mails[f]
       /\ mails[e] = "none" => mails'[e] = "once"
  BY <1>8 DEF SentMarks
<1>12. NoticeFits'
  BY <1>6, <1>10, <1>11 DEF NoticeInv, NoticeFits, NoticeRest
<1>13. RungFor'
  BY <1>6 DEF NoticeInv, RungFor, Acknowledged, Key
<1>14. MailsFit'
  <2> SUFFICES ASSUME NEW f \in Events \ remailed
               PROVE  /\ mails'[f] # "more"
                      /\ \A v \in Criers : crier'[v].event = f => f \in due
                      /\ \A u, v \in Criers : crier'[u].event = f /\ crier'[v].event = f => u = v
                      /\ mails'[f] = "once" /\ f \in due => \E v \in Criers : crier'[v].event = f /\ crier'[v].do = "done"
    BY <1>6 DEF MailsFit
  <2>1. /\ mails[f] # "more"
        /\ \A v \in Criers : crier[v].event = f => f \in due
        /\ \A u, v \in Criers : crier[u].event = f /\ crier[v].event = f => u = v
        /\ mails[f] = "once" /\ f \in due => \E v \in Criers : crier[v].event = f /\ crier[v].do = "done"
    BY DEF NoticeInv, MailsFit
  <2>2. f = e => mails[f] = "none"
    <3>1. f = e => \A v \in Criers : crier[v].event = f => crier[v].do # "done"
      BY <1>1, <1>2, <2>1
    <3> QED BY <1>1, <1>2, <1>8, <2>1, <3>1 DEF SentMarks
  <2>3. mails'[f] # "more"
    BY <1>11, <2>1, <2>2
  <2>4. mails'[f] = "once" /\ f \in due => \E v \in Criers : crier'[v].event = f /\ crier'[v].do = "done"
    <3>1. CASE f = e
      BY <1>4, <1>10, <3>1
    <3>2. CASE f # e
      BY <1>1, <1>2, <1>10, <1>11, <2>1, <3>2
    <3> QED BY <3>1, <3>2
  <2>5. \A v \in Criers : crier'[v].event = crier[v].event
    BY <1>1, <1>2, <1>4, <1>10
  <2> QED BY <2>1, <2>3, <2>4, <2>5
<1> QED BY <1>6, <1>7, <1>10, <1>12, <1>13, <1>14 DEF NoticeInv

LEMMA EventSettled ==
  ASSUME NoticeInv, NEW w \in Criers, Acknowledge(w)
  PROVE  NoticeInv'
<1>1. PICK c \in CrierRows : c = crier[w] /\ c.do = "done" /\ CrierFits(c)
  BY DEF NoticeInv, NoticeFits, Acknowledge, At
<1>2. PICK e \in Events : e = c.event
  BY <1>1, CrierParts, EventNamed DEF CrierFits, EventNames
<1>3. PICK n \in CrierRows : n = Silent /\ n.do = "idle" /\ n.event = "none" /\ n.dead = {}
  BY CrierSilent DEF IsCrier
<1>4. crier' = [crier EXCEPT ![w] = n] /\ due' = due \ {e}
  BY <1>1, <1>2, <1>3 DEF Acknowledge
<1>5. UNCHANGED <<handler, bell, devices, expired, cutOff, consent, pushes, texts, mails, unwanted, choices, remailed>>
  BY DEF Acknowledge, deviceVars, sentVars
<1>6. ~Fanning(n) /\ CrierFits(n)
  BY <1>3 DEF Fanning, CrierFits
<1>7. /\ OneFans' /\ BellFits'
      /\ \A v \in Criers : CrierFits(crier[v])' /\ FanFits(crier[v])'
      /\ crier' \in [Criers -> CrierRows] /\ crier'[w] = n /\ \A v \in Criers : v # w => crier'[v] = crier[v]
  BY <1>4, <1>5, <1>6, CriersApart
<1>8. NoticeFits'
  BY <1>4, <1>5, <1>7 DEF NoticeInv, NoticeFits, NoticeRest
<1>9. RungFor'
  <2>1. bell[Key(e)] # "none"
    BY <1>1, <1>2 DEF CrierFits
  <2> QED BY <1>4, <1>5, <2>1 DEF NoticeInv, RungFor, Acknowledged, Key
<1>10. MailsFit'
  <2> SUFFICES ASSUME NEW f \in Events \ remailed
               PROVE  /\ mails[f] # "more"
                      /\ \A v \in Criers : crier'[v].event = f => f \in due'
                      /\ \A u, v \in Criers : crier'[u].event = f /\ crier'[v].event = f => u = v
                      /\ mails[f] = "once" /\ f \in due' => \E v \in Criers : crier'[v].event = f /\ crier'[v].do = "done"
    BY <1>5 DEF MailsFit
  <2>1. /\ mails[f] # "more"
        /\ \A v \in Criers : crier[v].event = f => f \in due
        /\ \A u, v \in Criers : crier[u].event = f /\ crier[v].event = f => u = v
        /\ mails[f] = "once" /\ f \in due => \E v \in Criers : crier[v].event = f /\ crier[v].do = "done"
    BY DEF NoticeInv, MailsFit
  <2>2. \A v \in Criers : crier'[v].event = f => f \in due'
    BY <1>1, <1>2, <1>3, <1>4, <1>7, <2>1, EventNamed
  <2>3. mails[f] = "once" /\ f \in due' => \E v \in Criers : crier'[v].event = f /\ crier'[v].do = "done"
    BY <1>1, <1>2, <1>4, <1>7, <2>1
  <2>4. \A u, v \in Criers : crier'[u].event = f /\ crier'[v].event = f => u = v
    BY <1>3, <1>7, <2>1, EventNamed
  <2> QED BY <2>1, <2>2, <2>3, <2>4
<1> QED BY <1>5, <1>7, <1>8, <1>9, <1>10 DEF NoticeInv

\* The user's devices and consent, while the workers rest.
LEMMA DevicesTurn ==
  ASSUME NoticeInv, (\E d \in Devices : Register(d) \/ Unregister(d) \/ DeviceGone(d)) \/ UNCHANGED noticeVars
  PROVE  NoticeInv'
<1>1. /\ UNCHANGED <<handler, due, bell, cutOff, consent, crier, pushes, texts, mails, unwanted, remailed>>
      /\ expired \subseteq expired' /\ expired' \subseteq Devices /\ devices' \subseteq Devices
      /\ choices' \in 0 .. MaxChoices
  <2>1. /\ devices \subseteq Devices /\ expired \subseteq Devices /\ choices \in 0 .. MaxChoices
    BY DEF NoticeInv, NoticeFits, NoticeRest
  <2> QED BY <2>1, NoticeConstantsOK DEF Register, Unregister, DeviceGone, Chooses, noticeVars, sentVars, deviceVars
<1>2. NoticeFits'
  BY <1>1 DEF NoticeInv, NoticeFits, NoticeRest
<1>3. OneFans' /\ BellFits' /\ RungFor'
  BY <1>1 DEF NoticeInv, OneFans, BellFits, RungFor, Acknowledged, Fanning, Key
<1>4. MailsFit'
  BY <1>1 DEF NoticeInv, MailsFit
<1>5. ASSUME NEW v \in Criers PROVE CrierFits(crier[v])' /\ FanFits(crier[v])'
  <2>1. PICK x \in CrierRows : x = crier[v] /\ CrierFits(x) /\ FanFits(x)
    BY DEF NoticeInv, NoticeFits
  <2>2. CrierFits(x)' /\ FanFits(x)'
    BY <1>1, <2>1 DEF CrierFits, FanFits, Fanning, Key
  <2> QED BY <1>1, <2>1, <2>2 DEF CrierFits, FanFits, Fanning
<1> QED BY <1>1, <1>2, <1>3, <1>4, <1>5 DEF NoticeInv

LEMMA ConsentRecorded ==
  ASSUME NoticeInv, NEW granted \in BOOLEAN, RecordConsent(granted)
  PROVE  NoticeInv'
<1>1. /\ UNCHANGED <<handler, due, bell, devices, expired, cutOff, pushes, texts, mails, unwanted, remailed>>
      /\ consent' = granted
  BY DEF RecordConsent, sentVars, deviceVars
<1>2. choices' \in 0 .. MaxChoices
  BY NoticeConstantsOK DEF RecordConsent, Chooses, NoticeInv, NoticeFits, NoticeRest
<1>3. ASSUME NEW v \in Criers
      PROVE  \E c \in CrierRows, n \in CrierRows :
               /\ c = crier[v] /\ n = crier'[v] /\ CrierFits(c) /\ FanFits(c)
               /\ n.do = c.do /\ n.event = c.event /\ n.to = c.to /\ n.dead = c.dead
               /\ c.ok => n.ok
               /\ granted /\ n.do # "idle" => n.ok
  <2>1. PICK c \in CrierRows : c = crier[v] /\ CrierFits(c) /\ FanFits(c)
    BY DEF NoticeInv, NoticeFits
  <2>2. PICK n : n = [c EXCEPT !.ok = TRUE]
    OBVIOUS
  <2>3. n \in CrierRows /\ n.do = c.do /\ n.event = c.event /\ n.to = c.to /\ n.dead = c.dead /\ n.ok = TRUE
    BY <2>2, CrierAgrees DEF IsCrier
  <2>4. crier'[v] = IF granted /\ c.do # "idle" THEN n ELSE c
    BY <2>1, <2>2 DEF RecordConsent, At
  <2> QED BY <2>1, <2>3, <2>4
<1>4. crier' \in [Criers -> CrierRows]
  BY <1>3 DEF RecordConsent
<1>5. NoticeFits'
  BY <1>1, <1>2, <1>4 DEF NoticeInv, NoticeFits, NoticeRest
<1>6. \A v \in Criers : crier'[v].do = crier[v].do /\ crier'[v].event = crier[v].event
  BY <1>3
<1>7. OneFans'
  BY <1>1, <1>6 DEF NoticeInv, OneFans, Fanning, Key
<1>8. BellFits' /\ RungFor'
  BY <1>1 DEF NoticeInv, BellFits, RungFor, Acknowledged, Key
<1>9. MailsFit'
  BY <1>1, <1>6 DEF NoticeInv, MailsFit
<1>10. ASSUME NEW v \in Criers PROVE CrierFits(crier[v])' /\ FanFits(crier[v])'
  <2>1. PICK c \in CrierRows, n \in CrierRows :
          /\ c = crier[v] /\ n = crier'[v] /\ CrierFits(c) /\ FanFits(c)
          /\ n.do = c.do /\ n.event = c.event /\ n.to = c.to /\ n.dead = c.dead
          /\ c.ok => n.ok
          /\ granted /\ n.do # "idle" => n.ok
    BY <1>3
  <2>2. CrierFits(n)'
    BY <1>1, <2>1 DEF CrierFits, Key
  <2>3. FanFits(n)'
    BY <1>1, <2>1 DEF FanFits, Fanning, Key
  <2> QED BY <2>1, <2>2, <2>3 DEF CrierFits, FanFits, Fanning
<1> QED BY <1>1, <1>5, <1>7, <1>8, <1>9, <1>10 DEF NoticeInv

LEMMA NoticeStep == NoticeInv /\ [NoticeNext]_noticeVars => NoticeInv'
<1> SUFFICES ASSUME NoticeInv, [NoticeNext]_noticeVars PROVE NoticeInv'
  OBVIOUS
<1>1. ASSUME NEW w \in Criers, NEW e \in Events, TakeEvent(w, e) PROVE NoticeInv'
  BY <1>1, EventTaken
<1>2. ASSUME NEW w \in Criers, RingBell(w) \/ ReadSubscriptions(w) \/ PruneDevices(w) \/ CheckText(w)
      PROVE  NoticeInv'
  BY <1>2, BellRung, SubscriptionsRead, DevicesPruned, ConsentChecked
<1>3. ASSUME NEW w \in Criers, NEW d \in Devices, PushTo(w, d) PROVE NoticeInv'
  BY <1>3, DevicePushed
<1>4. ASSUME NEW w \in Criers,
             SendText(w) \/ CheckMail(w) \/ SendMail(w) \/ MailFails(w) \/ Acknowledge(w) \/ CrierDies(w)
      PROVE  NoticeInv'
  BY <1>4, TextSent, ConsentChecked, MailSent, EventLetGo, EventSettled
<1>5. ASSUME NEW granted \in BOOLEAN, RecordConsent(granted) PROVE NoticeInv'
  BY <1>5, ConsentRecorded
<1>6. CASE (\E d \in Devices : Register(d) \/ Unregister(d) \/ DeviceGone(d)) \/ UNCHANGED noticeVars
  BY <1>6, DevicesTurn
<1> QED BY <1>1, <1>2, <1>3, <1>4, <1>5, <1>6 DEF NoticeNext

LEMMA NoticesHold == NoticeInv => NoticeTypeOK /\ ToldOnce
<1> SUFFICES ASSUME NoticeInv PROVE NoticeTypeOK /\ ToldOnce
  OBVIOUS
<1>1. NoticeTypeOK
  BY NoticeTyped DEF NoticeInv
<1>2. \A k \in BellKeys : texts[k] =< 1 /\ \A d \in Devices : pushes[k][d] =< 1
  BY DEF NoticeInv, BellFits
<1>3. ASSUME NEW e \in Acknowledged
      PROVE  bell[Key(e)] # "none" /\ (handler.key = "event" => bell[e] = e)
  <2>1. bell[Key(e)] # "none"
    BY DEF NoticeInv, RungFor
  <2>2. handler.key = "event" => Key(e) = e /\ e \in BellKeys
    BY DEF Key, BellKeys, Acknowledged
  <2> QED BY <2>1, <2>2 DEF NoticeInv, BellFits
<1>4. \A e \in Events : mails[e] = "more" => e \in remailed
  BY DEF NoticeInv, MailsFit
<1> QED BY <1>1, <1>2, <1>3, <1>4 DEF NoticeInv, ToldOnce

-----------------------------------------------------------------------------
(***************************************************************************)
(* The campaign and its subscribers.                                       *)
(***************************************************************************)
\* The dispatch and the marks, by their fields.
SubStates   == {"none", "PENDING", "ACTIVE", "UNSUBSCRIBED"}
AskStates   == {"no", "create", "reset"}
ReaderMarks == {"none", "QUEUED", "SKIPPED", "SENT"}
DispatchAts == {"none", "queued", "page", "rows", "tally", "done"}
DeliveryAts == {"none", "queued", "sending", "sent", "marked", "done"}
Cursors     == Readers \cup {0}
Dispatches  == [at : DispatchAts, cursor : Cursors, page : SUBSET Readers, keep : SUBSET Readers]
NewsRest ==
  /\ subscribed \in [Readers -> SubStates] /\ asking \in [Readers -> AskStates] /\ agrees \in [Readers -> BOOLEAN]
  /\ campaign \in {"DRAFT", "SENDING", "SENT"} /\ dispatch \in Dispatches
  /\ steady \subseteq Readers /\ slipped \in BOOLEAN /\ turns \in 0 .. MaxTurns /\ drops \in 0 .. MaxDrops
MailRest ==
  /\ recipient \in [Readers -> ReaderMarks] /\ delivery \in [Readers -> DeliveryAts]
  /\ posted \in [Readers -> Nat] /\ missed \in [Readers -> Nat]

\* An e-mail goes out again only after a job died before it marked the last.
DeliveryFits(r) ==
  /\ missed[r] =< drops /\ posted[r] =< 1 + missed[r]
  /\ recipient[r] = "none" => delivery[r] = "none"
  /\ delivery[r] = "none" => posted[r] = 0
  /\ delivery[r] = "sending" => posted[r] =< missed[r]
  /\ delivery[r] = "queued" => recipient[r] = "SENT" \/ posted[r] =< missed[r]
  /\ delivery[r] = "marked" => recipient[r] = "SENT"
  /\ drops = 0 => /\ missed[r] = 0
                  /\ delivery[r] \in {"none", "queued", "sending"} => posted[r] = 0
                  /\ delivery[r] \in {"queued", "sending", "sent"} => recipient[r] = "QUEUED"
                  /\ recipient[r] = "SKIPPED" => posted[r] = 0
                  /\ recipient[r] # "none" => r =< dispatch.cursor
\* The dispatch goes through the subscribers in order, and misses nobody who stayed.
SteadyFits ==
  /\ \A r \in steady : ActiveIn(r)
  /\ dispatch.at \in {"page", "rows", "tally", "done"} /\ ~slipped =>
       \A r \in steady : \/ recipient[r] # "none"
                         \/ dispatch.at \in {"page", "rows"} /\ r > dispatch.cursor
                              /\ \A x \in dispatch.page : dispatch.at = "rows" => x =< r
DispatchFits ==
  /\ campaign = "DRAFT" <=> dispatch.at = "none"
  /\ campaign = "SENT" <=> dispatch.at = "done"
  /\ dispatch.at \in {"none", "queued"} /\ drops = 0 => dispatch.cursor = 0
  /\ dispatch.keep \subseteq dispatch.page
  /\ dispatch.at = "rows" => \E x \in Readers : dispatch.page = {x} /\ dispatch.cursor < x
NewsInv == /\ NewsRest /\ MailRest /\ SteadyFits /\ DispatchFits
           /\ \A r \in Readers : DeliveryFits(r)

LEMMA NewsTyped == NewsRest /\ MailRest /\ (\A r \in Readers : DeliveryFits(r)) => NewsletterTypeOK
<1> SUFFICES ASSUME NewsRest, MailRest, \A r \in Readers : DeliveryFits(r) PROVE NewsletterTypeOK
  OBVIOUS
<1>1. drops \in 0 .. MaxDrops
  BY DEF NewsRest
<1>2. \A r \in Readers : posted[r] \in 0 .. 1 + MaxDrops /\ missed[r] \in 0 .. MaxDrops
  BY <1>1, NewsletterConstantsOK DEF MailRest, DeliveryFits
<1>3. posted \in [Readers -> 0 .. 1 + MaxDrops] /\ missed \in [Readers -> 0 .. MaxDrops]
  BY <1>2 DEF MailRest
<1> QED BY <1>3 DEF NewsRest, MailRest, NewsletterTypeOK, Dispatches, DispatchAts, Cursors, SubStates, AskStates,
       ReaderMarks, DeliveryAts

\* The dispatch with the fields named.
IsDispatch(d, at, cursor, page, keep) ==
  d \in Dispatches /\ d.at = at /\ d.cursor = cursor /\ d.page = page /\ d.keep = keep
LEMMA DispatchMade == IsDispatch([at |-> "none", cursor |-> 0, page |-> {}, keep |-> {}], "none", 0, {}, {})
BY DEF IsDispatch, Dispatches, DispatchAts, Cursors
LEMMA DispatchGoes ==
  \A d \in Dispatches, at \in DispatchAts : IsDispatch([d EXCEPT !.at = at], at, d.cursor, d.page, d.keep)
BY DEF IsDispatch, Dispatches
LEMMA DispatchMoves ==
  \A d \in Dispatches, at \in DispatchAts, c \in Cursors :
    IsDispatch([d EXCEPT !.at = at, !.cursor = c], at, c, d.page, d.keep)
BY DEF IsDispatch, Dispatches
LEMMA DispatchReads ==
  \A d \in Dispatches, at \in DispatchAts, page \in SUBSET Readers, keep \in SUBSET Readers :
    IsDispatch([d EXCEPT !.at = at, !.page = page, !.keep = keep], at, d.cursor, page, keep)
<1> SUFFICES ASSUME NEW d \in Dispatches, NEW at \in DispatchAts, NEW page \in SUBSET Readers, NEW keep \in SUBSET Readers
             PROVE  IsDispatch([d EXCEPT !.at = at, !.page = page, !.keep = keep], at, d.cursor, page, keep)
  OBVIOUS
<1> DEFINE e == [d EXCEPT !.at = at, !.page = page, !.keep = keep]
<1>1. e \in Dispatches
  BY DEF Dispatches
<1>2. e.at = at /\ e.cursor = d.cursor
  BY DEF Dispatches
<1>3. e.page = page /\ e.keep = keep
  BY DEF Dispatches
<1> QED BY <1>1, <1>2, <1>3 DEF IsDispatch
LEMMA DispatchParts ==
  \A d \in Dispatches : /\ d.at \in DispatchAts /\ d.cursor \in Cursors
                        /\ d.page \in SUBSET Readers /\ d.keep \in SUBSET Readers
BY DEF Dispatches
LEMMA ReadersOrdered == Readers \subseteq Nat /\ Cursors \subseteq Nat /\ Readers \subseteq Cursors /\ 0 \in Cursors /\ 0 \notin Readers
BY DEF Readers, Cursors
LEMMA WordsOfNews ==
  /\ {"none", "queued", "page", "rows", "tally", "done"} = DispatchAts
  /\ {"none", "queued", "sending", "sent", "marked", "done"} = DeliveryAts
  /\ {"none", "QUEUED", "SKIPPED", "SENT"} = ReaderMarks
BY DEF DispatchAts, DeliveryAts, ReaderMarks

LEMMA NewsStarts == NewsletterInit => NewsInv
<1> SUFFICES ASSUME NewsletterInit PROVE NewsInv
  OBVIOUS
<1>1. IsDispatch(dispatch, "none", 0, {}, {})
  BY DispatchMade DEF NewsletterInit
<1>2. NewsRest
  <2>1. /\ subscribed \in [Readers -> SubStates] /\ asking \in [Readers -> AskStates] /\ agrees \in [Readers -> BOOLEAN]
    BY DEF NewsletterInit, SubStates, AskStates
  <2>2. turns \in 0 .. MaxTurns /\ drops \in 0 .. MaxDrops
    BY NewsletterConstantsOK DEF NewsletterInit
  <2> QED BY <1>1, <2>1, <2>2 DEF NewsletterInit, NewsRest, IsDispatch
<1>3. MailRest
  BY DEF NewsletterInit, MailRest, ReaderMarks, DeliveryAts
<1>4. SteadyFits
  BY <1>1 DEF NewsletterInit, SteadyFits
<1>5. DispatchFits
  BY <1>1 DEF NewsletterInit, DispatchFits, IsDispatch
<1>6. \A r \in Readers : DeliveryFits(r)
  BY NewsletterConstantsOK DEF NewsletterInit, DeliveryFits
<1> QED BY <1>2, <1>3, <1>4, <1>5, <1>6 DEF NewsInv

\* The subscribers change their minds; who leaves is no longer steady.
LEMMA ReadersTurn ==
  ASSUME NewsInv, NEW r \in Readers,
         AskSubscription(r) \/ Subscribe(r) \/ ConfirmNewsletter(r) \/ Unsubscribe(r) \/ SwayConsent(r)
  PROVE  NewsInv'
<1>1. UNCHANGED <<campaign, recipient, dispatch, delivery, posted, missed, slipped, drops>>
  BY DEF AskSubscription, Subscribe, ConfirmNewsletter, Unsubscribe, SwayConsent, sendVars
<1>2. /\ subscribed' \in [Readers -> SubStates] /\ asking' \in [Readers -> AskStates] /\ agrees' \in [Readers -> BOOLEAN]
      /\ steady' \subseteq steady
      /\ \A x \in steady' : subscribed'[x] = subscribed[x] \/ subscribed'[x] = "ACTIVE"
  <2>1. /\ subscribed \in [Readers -> SubStates] /\ asking \in [Readers -> AskStates] /\ agrees \in [Readers -> BOOLEAN]
        /\ steady \subseteq Readers
    BY DEF NewsInv, NewsRest
  <2>2. CASE AskSubscription(r)
    BY <2>1, <2>2 DEF AskSubscription, AskStates
  <2>3. CASE Subscribe(r)
    BY <2>1, <2>3 DEF Subscribe, AskStates, SubStates
  <2>4. CASE ConfirmNewsletter(r)
    BY <2>1, <2>4 DEF ConfirmNewsletter, SubStates
  <2>5. CASE Unsubscribe(r)
    BY <2>1, <2>5 DEF Unsubscribe, SubStates
  <2>6. CASE SwayConsent(r)
    BY <2>1, <2>6 DEF SwayConsent
  <2> QED BY <2>2, <2>3, <2>4, <2>5, <2>6
<1>3. turns' \in 0 .. MaxTurns
  BY NewsletterConstantsOK DEF AskSubscription, Subscribe, ConfirmNewsletter, Unsubscribe, SwayConsent, Turns, NewsInv, NewsRest
<1>4. NewsRest' /\ MailRest'
  BY <1>1, <1>2, <1>3 DEF NewsInv, NewsRest, MailRest
<1>5. SteadyFits'
  BY <1>1, <1>2 DEF NewsInv, SteadyFits, ActiveIn
<1>6. DispatchFits'
  BY <1>1 DEF NewsInv, DispatchFits
<1>7. \A x \in Readers : DeliveryFits(x)'
  BY <1>1 DEF NewsInv, DeliveryFits
<1> QED BY <1>4, <1>5, <1>6, <1>7 DEF NewsInv

\* What becomes of one e-mail.
LEMMA DeliveryTurns ==
  ASSUME NewsInv, NEW r \in Readers,
         UNCHANGED <<readerVars, campaign, dispatch, steady, slipped, turns>>, drops' \in 0 .. MaxDrops, drops' >= drops,
         recipient' \in [Readers -> ReaderMarks], delivery' \in [Readers -> DeliveryAts],
         posted' \in [Readers -> Nat], missed' \in [Readers -> Nat],
         \A x \in Readers : x # r => /\ recipient'[x] = recipient[x] /\ delivery'[x] = delivery[x]
                                     /\ posted'[x] = posted[x] /\ missed'[x] = missed[x],
         recipient[r] # "none" => recipient'[r] # "none", DeliveryFits(r)'
  PROVE  NewsInv'
<1>1. UNCHANGED <<subscribed, asking, agrees, campaign, dispatch, steady, slipped, turns>>
  BY DEF readerVars
<1>2. NewsRest' /\ MailRest'
  BY <1>1 DEF NewsInv, NewsRest, MailRest
<1>3. \A x \in Readers : recipient[x] # "none" => recipient'[x] # "none"
  OBVIOUS
<1>4. SteadyFits'
  BY <1>1, <1>3 DEF NewsInv, NewsRest, SteadyFits, ActiveIn
<1>5. drops \in Nat /\ drops' \in Nat
  BY NewsletterConstantsOK DEF NewsInv, NewsRest
<1>6. DispatchFits'
  BY <1>1, <1>5 DEF NewsInv, DispatchFits
<1>7. ASSUME NEW x \in Readers, x # r PROVE DeliveryFits(x)'
  <2>1. DeliveryFits(x) /\ missed[x] \in Nat
    BY DEF NewsInv, MailRest
  <2> QED BY <1>1, <1>5, <1>7, <2>1 DEF DeliveryFits
<1> QED BY <1>2, <1>4, <1>6, <1>7 DEF NewsInv, DeliveryFits

LEMMA DeliveryChecked ==
  ASSUME NewsInv, NEW r \in Readers, CheckDelivery(r)
  PROVE  NewsInv'
<1>1. UNCHANGED <<readerVars, campaign, dispatch, posted, missed, steady, slipped, turns, drops>> /\ delivery[r] = "queued"
  BY DEF CheckDelivery
<1>2. recipient \in [Readers -> ReaderMarks] /\ delivery \in [Readers -> DeliveryAts]
      /\ posted \in [Readers -> Nat] /\ missed \in [Readers -> Nat] /\ drops \in 0 .. MaxDrops
  BY DEF NewsInv, MailRest, NewsRest
<1>3. /\ recipient' \in [Readers -> ReaderMarks] /\ delivery' \in [Readers -> DeliveryAts]
      /\ \A x \in Readers : x # r => recipient'[x] = recipient[x] /\ delivery'[x] = delivery[x]
      /\ \/ recipient'[r] = "SKIPPED" /\ delivery'[r] = "done"
         \/ recipient'[r] = recipient[r] /\ delivery'[r] = IF recipient[r] = "SENT" THEN "done" ELSE "sending"
  BY <1>2, WordsOfNews DEF CheckDelivery, AlreadySent
<1>4. DeliveryFits(r)'
  <2>1. DeliveryFits(r) /\ posted[r] \in Nat /\ missed[r] \in Nat
    BY <1>2 DEF NewsInv
  <2> QED BY <1>1, <1>3, <2>1 DEF DeliveryFits
<1>5. recipient[r] # "none" => recipient'[r] # "none"
  BY <1>3
<1>6. drops' \in 0 .. MaxDrops /\ drops' >= drops
  BY <1>1, <1>2
<1>7. posted' \in [Readers -> Nat] /\ missed' \in [Readers -> Nat] /\ posted' = posted /\ missed' = missed
      /\ UNCHANGED <<readerVars, campaign, dispatch, steady, slipped, turns>>
  BY <1>1, <1>2
<1> QED BY <1>3, <1>4, <1>5, <1>6, <1>7, DeliveryTurns

LEMMA DeliveryGoesOn ==
  ASSUME NewsInv, NEW r \in Readers, PostMail(r) \/ MarkSent(r) \/ CloseDelivery(r)
  PROVE  NewsInv'
<1>1. UNCHANGED <<readerVars, campaign, dispatch, missed, steady, slipped, turns, drops>>
  BY DEF PostMail, MarkSent, CloseDelivery
<1>2. recipient \in [Readers -> ReaderMarks] /\ delivery \in [Readers -> DeliveryAts]
      /\ posted \in [Readers -> Nat] /\ missed \in [Readers -> Nat] /\ drops \in 0 .. MaxDrops
  BY DEF NewsInv, MailRest, NewsRest
<1>3. /\ recipient' \in [Readers -> ReaderMarks] /\ delivery' \in [Readers -> DeliveryAts] /\ posted' \in [Readers -> Nat]
      /\ \A x \in Readers : x # r => /\ recipient'[x] = recipient[x] /\ delivery'[x] = delivery[x]
                                     /\ posted'[x] = posted[x]
      /\ \/ delivery[r] = "sending" /\ delivery'[r] = "sent" /\ posted'[r] = posted[r] + 1 /\ recipient'[r] = recipient[r]
         \/ /\ delivery[r] = "sending" /\ delivery'[r] \in {"queued", "done"}
            /\ posted'[r] = posted[r] /\ recipient'[r] = recipient[r]
         \/ delivery[r] = "sent" /\ delivery'[r] = "marked" /\ posted'[r] = posted[r] /\ recipient'[r] = "SENT"
         \/ /\ delivery[r] = "marked" /\ delivery'[r] = "done"
            /\ posted'[r] = posted[r] /\ recipient'[r] = recipient[r]
  <2>1. CASE PostMail(r)
    <3>1. /\ recipient' = recipient /\ delivery[r] = "sending"
          /\ \/ posted' = [posted EXCEPT ![r] = @ + 1] /\ delivery' = [delivery EXCEPT ![r] = "sent"]
             \/ /\ posted' = posted
                /\ \E next \in {"queued", "done"} : delivery' = [delivery EXCEPT ![r] = next]
      BY <2>1 DEF PostMail
    <3> QED BY <1>2, <3>1, WordsOfNews
  <2>2. CASE MarkSent(r)
    BY <1>2, <2>2, WordsOfNews DEF MarkSent
  <2>3. CASE CloseDelivery(r)
    BY <1>2, <2>3, WordsOfNews DEF CloseDelivery
  <2> QED BY <2>1, <2>2, <2>3
<1>4. DeliveryFits(r)'
  <2>1. DeliveryFits(r) /\ posted[r] \in Nat /\ missed[r] \in Nat
    BY <1>2 DEF NewsInv
  <2> QED BY <1>1, <1>3, <2>1 DEF DeliveryFits
<1>5. recipient[r] # "none" => recipient'[r] # "none"
  BY <1>3
<1>6. drops' \in 0 .. MaxDrops /\ drops' >= drops
  BY <1>1, <1>2
<1>7. missed' \in [Readers -> Nat] /\ missed' = missed
      /\ UNCHANGED <<readerVars, campaign, dispatch, steady, slipped, turns>>
  BY <1>1, <1>2
<1> QED BY <1>3, <1>4, <1>5, <1>6, <1>7, DeliveryTurns

LEMMA DeliveryDropped ==
  ASSUME NewsInv, NEW r \in Readers, delivery[r] \in {"sending", "sent", "marked"},
         drops < MaxDrops, drops' = drops + 1, delivery' = [delivery EXCEPT ![r] = "queued"],
         missed' = [missed EXCEPT ![r] = IF delivery[r] = "sent" THEN @ + 1 ELSE @],
         UNCHANGED <<readerVars, campaign, recipient, dispatch, posted, steady, slipped, turns>>
  PROVE  NewsInv'
<1>1. recipient \in [Readers -> ReaderMarks] /\ delivery \in [Readers -> DeliveryAts]
      /\ posted \in [Readers -> Nat] /\ missed \in [Readers -> Nat] /\ drops \in 0 .. MaxDrops
  BY DEF NewsInv, MailRest, NewsRest
<1>2. drops' \in 0 .. MaxDrops /\ drops' >= drops /\ drops' # 0
  BY <1>1, NewsletterConstantsOK
<1>3. /\ delivery' \in [Readers -> DeliveryAts] /\ missed' \in [Readers -> Nat]
      /\ \A x \in Readers : x # r => delivery'[x] = delivery[x] /\ missed'[x] = missed[x]
      /\ delivery'[r] = "queued" /\ missed'[r] = IF delivery[r] = "sent" THEN missed[r] + 1 ELSE missed[r]
  BY <1>1, WordsOfNews
<1>4. DeliveryFits(r)'
  <2>1. DeliveryFits(r) /\ posted[r] \in Nat /\ missed[r] \in Nat /\ drops \in Nat
    BY <1>1, NewsletterConstantsOK DEF NewsInv
  <2> QED BY <1>2, <1>3, <2>1 DEF DeliveryFits
<1> QED BY <1>1, <1>2, <1>3, <1>4, DeliveryTurns

\* The campaign is sent, the dispatch started, or its job dies.
LEMMA DispatchTurns ==
  ASSUME NewsInv, NEW at \in DispatchAts,
         \/ /\ SendCampaign /\ at = "queued"
         \/ /\ FinishDispatch /\ at = "done"
         \/ /\ dispatch.at \in {"page", "rows", "tally"} /\ at = "queued" /\ drops < MaxDrops /\ drops' = drops + 1
            /\ dispatch' = [dispatch EXCEPT !.at = "queued"]
            /\ UNCHANGED <<readerVars, campaign, recipient, delivery, posted, missed, steady, slipped, turns>>
  PROVE  NewsInv'
<1>1. /\ UNCHANGED <<subscribed, asking, agrees, recipient, delivery, posted, missed, steady, slipped, turns>>
      /\ dispatch' = [dispatch EXCEPT !.at = at]
  BY DEF SendCampaign, FinishDispatch, readerVars
<1>2. drops \in Nat /\ drops' \in 0 .. MaxDrops /\ drops' >= drops
  BY NewsletterConstantsOK DEF NewsInv, NewsRest, SendCampaign, FinishDispatch
<1>3. dispatch \in Dispatches
  BY DEF NewsInv, NewsRest
<1>4. dispatch' \in Dispatches /\ dispatch'.at = at /\ dispatch'.cursor = dispatch.cursor /\ dispatch'.page = dispatch.page
      /\ dispatch'.keep = dispatch.keep
  BY <1>1, <1>3, DispatchGoes DEF IsDispatch
<1>5. campaign' \in {"DRAFT", "SENDING", "SENT"} /\ (campaign' = "DRAFT" <=> at = "none") /\ (campaign' = "SENT" <=> at = "done")
  BY DEF NewsInv, NewsRest, DispatchFits, SendCampaign, FinishDispatch
<1>6. NewsRest' /\ MailRest'
  BY <1>1, <1>2, <1>4, <1>5 DEF NewsInv, NewsRest, MailRest
<1>7. DispatchFits'
  <2>1. at = "done" \/ (at = "queued" /\ (drops' # 0 \/ dispatch.at = "none"))
    BY <1>2 DEF SendCampaign, NewsInv, DispatchFits
  <2>2. drops' = 0 => drops = 0
    BY <1>2
  <2> QED BY <1>4, <1>5, <2>1, <2>2 DEF NewsInv, DispatchFits
<1>8. SteadyFits'
  <2>1. at = "done" => dispatch.at = "tally"
    BY DEF FinishDispatch
  <2>2. at \in {"done", "queued"}
    OBVIOUS
  <2> QED BY <1>1, <1>4, <2>1, <2>2 DEF NewsInv, SteadyFits, ActiveIn
<1>9. ASSUME NEW r \in Readers PROVE DeliveryFits(r)'
  <2>1. DeliveryFits(r) /\ missed[r] \in Nat
    BY DEF NewsInv, MailRest
  <2> QED BY <1>1, <1>2, <1>4, <2>1 DEF DeliveryFits
<1> QED BY <1>6, <1>7, <1>8, <1>9 DEF NewsInv

LEMMA DispatchStarted ==
  ASSUME NewsInv, StartDispatch
  PROVE  NewsInv'
<1>1. /\ UNCHANGED <<subscribed, asking, agrees, campaign, recipient, delivery, posted, missed, turns, drops>>
      /\ dispatch.at = "queued" /\ campaign # "SENT" /\ campaign # "DRAFT"
  BY DEF StartDispatch, readerVars, NewsInv, DispatchFits
<1>2. /\ dispatch' = [dispatch EXCEPT !.at = "page", !.cursor = 0] /\ slipped' = FALSE
      /\ steady' = {r \in Readers : ActiveIn(r)}
  BY <1>1 DEF StartDispatch
<1>3. dispatch \in Dispatches
  BY DEF NewsInv, NewsRest
<1>4. dispatch' \in Dispatches /\ dispatch'.at = "page" /\ dispatch'.cursor = 0 /\ dispatch'.page = dispatch.page
      /\ dispatch'.keep = dispatch.keep
  <2>1. "page" \in DispatchAts /\ 0 \in Cursors
    BY WordsOfNews, ReadersOrdered
  <2>2. IsDispatch([dispatch EXCEPT !.at = "page", !.cursor = 0], "page", 0, dispatch.page, dispatch.keep)
    BY <1>3, <2>1, DispatchMoves
  <2>3. IsDispatch(dispatch', "page", 0, dispatch.page, dispatch.keep)
    BY <1>2, <2>2
  <2> QED BY <2>3 DEF IsDispatch
<1>5. NewsRest' /\ MailRest'
  BY <1>1, <1>2, <1>4 DEF NewsInv, NewsRest, MailRest
<1>6. DispatchFits'
  BY <1>1, <1>4 DEF NewsInv, DispatchFits
<1>7. SteadyFits'
  <2>1. \A r \in Readers : r > 0
    BY DEF Readers
  <2> QED BY <1>1, <1>2, <1>4, <2>1 DEF SteadyFits, ActiveIn
<1>8. ASSUME NEW r \in Readers PROVE DeliveryFits(r)'
  <2>1. drops = 0 => dispatch.cursor = 0
    BY <1>1 DEF NewsInv, DispatchFits
  <2> QED BY <1>1, <1>4, <2>1 DEF NewsInv, DeliveryFits
<1> QED BY <1>5, <1>6, <1>7, <1>8 DEF NewsInv

\* A page holds the first of the active subscribers after the one the cursor stands on,
\* if that one is active.
LEMMA FirstInPage ==
  ASSUME NEW is \in SUBSET Readers
  PROVE  /\ FirstPage(is) \subseteq is
         /\ \A x \in FirstPage(is), y \in is : x =< y
         /\ \A x \in FirstPage(is) : FirstPage(is) = {x}
<1>1. FirstPage(is) \subseteq is /\ \A x \in FirstPage(is), y \in is : x =< y
  BY DEF FirstPage
<1>2. is \subseteq Nat
  BY ReadersOrdered
<1>3. ASSUME NEW x \in FirstPage(is) PROVE FirstPage(is) = {x}
  <2>1. ASSUME NEW y \in FirstPage(is) PROVE y = x
    <3>1. x \in is /\ y \in is /\ x =< y /\ y =< x
      BY <1>1, <1>3, <2>1
    <3>2. x \in Nat /\ y \in Nat
      BY <1>2, <3>1
    <3> QED BY <3>1, <3>2
  <2> QED BY <1>3, <2>1
<1> QED BY <1>1, <1>3

LEMMA SomeFirst ==
  ASSUME NEW is \in SUBSET Readers, is # {}
  PROVE  FirstPage(is) # {}
<1>1. is \in SUBSET Nat
  BY ReadersOrdered
<1>2. PICK n \in is : \A k \in is : n =< k
  <2> DEFINE Lt == {ss \in Nat \X Nat : ss[1] < ss[2]}
  <2>1. IsWellFoundedOn(Lt, Nat)
    BY NatLessThanWellFounded DEF OpToRel
  <2>2. PICK n \in is : \A k \in is : ~ (<<k, n>> \in Lt)
    <3> HIDE DEF Lt
    <3> QED BY <1>1, <2>1, WFMin
  <2>3. n \in Nat /\ \A k \in is : k \in Nat /\ ~ (k < n)
    BY <1>1, <2>2
  <2> QED BY <2>3
<1> QED BY <1>2 DEF FirstPage

\* Everyone active after the cursor, which is before the first of them if it is active itself.
LEMMA PageFollows ==
  ASSUME NEW c \in Cursors
  PROVE  /\ PageAt(c) \subseteq Readers
         /\ \A x \in PageAt(c) : PageAt(c) = {x}
         /\ c = 0 \/ ActiveIn(c) =>
              /\ \A x \in PageAt(c), y \in Readers : ActiveIn(y) /\ y > c => x =< y
              /\ PageAt(c) = {} => \A y \in Readers : ActiveIn(y) => y =< c
         /\ \A x \in PageAt(c) : c < x
<1>1. c \in Nat /\ Readers \subseteq Nat /\ (c = 0 \/ c \in Readers) /\ 0 \notin Readers
  BY ReadersOrdered DEF Cursors
<1>2. PICK is \in SUBSET Readers : is = (IF c = 0 THEN From(0) ELSE From(c) \ FirstPage(From(c)))
  <2>1. From(0) \subseteq Readers /\ From(c) \subseteq Readers
    BY DEF From
  <2> QED BY <2>1
<1>3. PageAt(c) = FirstPage(is)
  BY <1>2 DEF PageAt
<1>4. /\ FirstPage(is) \subseteq is /\ \A x \in FirstPage(is), y \in is : x =< y
      /\ \A x \in FirstPage(is) : FirstPage(is) = {x}
  BY FirstInPage
<1>5. \A x \in is : c < x
  <2>1. CASE c = 0
    <3>1. \A x \in is : x # 0
      BY <1>1
    <3> QED BY <1>1, <2>1, <3>1
  <2>2. CASE c # 0
    <3>1. ASSUME NEW x \in is PROVE x \in From(c) /\ x \notin FirstPage(From(c)) /\ x >= c
      BY <1>2, <2>2 DEF From
    <3>2. ASSUME NEW x \in is, x = c PROVE FALSE
      <4>1. \A y \in From(c) : x =< y
        BY <3>2 DEF From
      <4> QED BY <3>1, <3>2, <4>1 DEF FirstPage
    <3> QED BY <1>1, <3>1, <3>2
  <2> QED BY <2>1, <2>2
<1>6. ASSUME c = 0 \/ ActiveIn(c), NEW y \in Readers, ActiveIn(y), y > c PROVE y \in is
  <2>1. CASE c = 0
    BY <1>1, <1>2, <1>6, <2>1 DEF From
  <2>2. CASE c # 0
    <3>1. c \in From(c) /\ y \in From(c)
      BY <1>1, <1>6, <2>2 DEF From
    <3>2. y \notin FirstPage(From(c))
      BY <1>1, <1>6, <3>1 DEF FirstPage
    <3> QED BY <1>2, <2>2, <3>1, <3>2
  <2> QED BY <2>1, <2>2
<1>7. ASSUME c = 0 \/ ActiveIn(c), PageAt(c) = {}, NEW y \in Readers, ActiveIn(y) PROVE y =< c
  <2>1. is = {}
    BY <1>3, <1>7, SomeFirst
  <2>2. ~ (y > c)
    BY <1>6, <1>7, <2>1
  <2> QED BY <1>1, <2>2
<1> QED BY <1>3, <1>4, <1>5, <1>6, <1>7

LEMMA PageRowsRead ==
  ASSUME NewsInv, ReadPage
  PROVE  NewsInv'
<1>1. /\ UNCHANGED <<subscribed, asking, agrees, campaign, recipient, delivery, posted, missed, steady, turns, drops>>
      /\ dispatch.at = "page" /\ slipped' = (slipped \/ (dispatch.cursor # 0 /\ ~ActiveIn(dispatch.cursor)))
  BY DEF ReadPage, readerVars
<1>2. dispatch \in Dispatches /\ dispatch.cursor \in Cursors
  BY DispatchParts DEF NewsInv, NewsRest
<1>3. PICK c \in Cursors : c = dispatch.cursor
  BY <1>2
<1>4. PICK page \in SUBSET Readers : page = PageAt(c)
  BY PageFollows
<1>5. PICK keep \in SUBSET page : keep = {r \in page : agrees[r]}
  OBVIOUS
<1>6. PICK at \in {"tally", "rows"} : at = IF page = {} THEN "tally" ELSE "rows"
  OBVIOUS
<1>7. dispatch' = [dispatch EXCEPT !.at = at, !.page = page, !.keep = keep]
  BY <1>3, <1>4, <1>5, <1>6 DEF ReadPage
<1>8. dispatch' \in Dispatches /\ dispatch'.at = at /\ dispatch'.cursor = c /\ dispatch'.page = page /\ dispatch'.keep = keep
  <2>1. at \in DispatchAts /\ keep \in SUBSET Readers
    BY DEF DispatchAts
  <2>2. IsDispatch(dispatch', at, c, page, keep)
    BY <1>2, <1>3, <1>7, <2>1, DispatchReads
  <2> QED BY <2>2 DEF IsDispatch
<1>9. slipped' \in BOOLEAN
  BY <1>1 DEF NewsInv, NewsRest
<1>10. NewsRest' /\ MailRest'
  BY <1>1, <1>8, <1>9 DEF NewsInv, NewsRest, MailRest
<1>11. DispatchFits'
  <2>1. (campaign = "DRAFT" <=> at = "none") /\ (campaign = "SENT" <=> at = "done")
    BY <1>1 DEF NewsInv, DispatchFits
  <2>2. at = "rows" => \E x \in Readers : page = {x} /\ c < x
    BY <1>4, <1>6, PageFollows
  <2> QED BY <1>1, <1>6, <1>8, <2>1, <2>2 DEF DispatchFits
<1>12. SteadyFits'
  <2>1. \A r \in steady' : ActiveIn(r)'
    BY <1>1 DEF NewsInv, SteadyFits, ActiveIn
  <2>2. ASSUME slipped' = FALSE, NEW r \in steady, recipient[r] = "none"
        PROVE  at = "rows" /\ r > c /\ \A x \in page : x =< r
    <3>1. slipped = FALSE /\ (c = 0 \/ ActiveIn(c))
      BY <1>1, <1>3, <2>2 DEF NewsInv, NewsRest
    <3>2. r > c /\ ActiveIn(r) /\ r \in Readers /\ r \in Nat /\ c \in Nat
      BY <1>1, <1>3, <2>2, <3>1, ReadersOrdered DEF NewsInv, NewsRest, SteadyFits
    <3>3. page # {}
      BY <1>4, <3>1, <3>2, PageFollows
    <3> QED BY <1>4, <1>6, <3>1, <3>2, <3>3, PageFollows
  <2>3. slipped' \in BOOLEAN
    BY <1>9
  <2>4. \A r \in steady' : recipient'[r] = recipient[r]
    BY <1>1
  <2> QED BY <1>1, <1>8, <2>1, <2>2, <2>3 DEF SteadyFits
<1>13. ASSUME NEW r \in Readers PROVE DeliveryFits(r)'
  <2>1. DeliveryFits(r)
    BY DEF NewsInv
  <2> QED BY <1>1, <1>3, <1>8, <2>1 DEF DeliveryFits
<1> QED BY <1>10, <1>11, <1>12, <1>13 DEF NewsInv

LEMMA PageWritten ==
  ASSUME NewsInv, WritePage
  PROVE  NewsInv'
<1>1. /\ UNCHANGED <<subscribed, asking, agrees, campaign, posted, missed, steady, slipped, turns, drops>>
      /\ dispatch.at = "rows"
  BY DEF WritePage, readerVars
<1>2. dispatch \in Dispatches /\ dispatch.cursor \in Cursors
  BY DispatchParts DEF NewsInv, NewsRest
<1>3. PICK n \in Readers : dispatch.page = {n} /\ dispatch.cursor < n
  BY <1>1 DEF NewsInv, DispatchFits
<1>4. PICK c \in Cursors : c = dispatch.cursor /\ c < n
  BY <1>2, <1>3
<1>5. dispatch.keep \subseteq {n} /\ n \in Nat /\ c \in Nat /\ n \in Cursors
  BY <1>3, ReadersOrdered DEF NewsInv, DispatchFits
<1>6. dispatch' = [dispatch EXCEPT !.at = "page", !.cursor = n]
  BY <1>3 DEF WritePage
<1>7. dispatch' \in Dispatches /\ dispatch'.at = "page" /\ dispatch'.cursor = n /\ dispatch'.page = {n}
      /\ dispatch'.keep = dispatch.keep
  <2>1. "page" \in DispatchAts
    BY WordsOfNews
  <2>2. IsDispatch(dispatch', "page", n, dispatch.page, dispatch.keep)
    BY <1>2, <1>5, <1>6, <2>1, DispatchMoves
  <2> QED BY <1>3, <2>2 DEF IsDispatch
<1>8. /\ recipient \in [Readers -> ReaderMarks] /\ delivery \in [Readers -> DeliveryAts]
      /\ posted \in [Readers -> Nat] /\ missed \in [Readers -> Nat]
  BY DEF NewsInv, MailRest
<1>9. /\ recipient' \in [Readers -> ReaderMarks] /\ delivery' \in [Readers -> DeliveryAts]
      /\ \A x \in Readers : x # n => recipient'[x] = recipient[x] /\ delivery'[x] = delivery[x]
      /\ recipient'[n] = IF recipient[n] = "none" THEN IF n \in dispatch.keep THEN "QUEUED" ELSE "SKIPPED" ELSE recipient[n]
      /\ delivery'[n] = IF n \in dispatch.keep /\ delivery[n] = "none" THEN "queued" ELSE delivery[n]
  <2>1. /\ recipient' = [r \in Readers |-> IF r = n /\ recipient[r] = "none"
                                         THEN IF r \in dispatch.keep THEN "QUEUED" ELSE "SKIPPED"
                                         ELSE recipient[r]]
        /\ delivery' = [r \in Readers |-> IF r \in dispatch.keep /\ delivery[r] = "none" THEN "queued"
                                        ELSE delivery[r]]
    BY <1>3 DEF WritePage
  <2>2. \A x \in Readers : x # n => x \notin dispatch.keep
    BY <1>5
  <2> QED BY <1>8, <2>1, <2>2, WordsOfNews
<1>10. NewsRest' /\ MailRest'
  BY <1>1, <1>7, <1>8, <1>9 DEF NewsInv, NewsRest, MailRest
<1>11. DispatchFits'
  BY <1>1, <1>5, <1>7 DEF NewsInv, DispatchFits
<1>12. SteadyFits'
  <2>1. \A r \in steady' : ActiveIn(r)'
    BY <1>1 DEF NewsInv, SteadyFits, ActiveIn
  <2>2. ASSUME ~slipped, NEW r \in steady, recipient'[r] = "none"
        PROVE  r > n
    <3>1. r \in Readers /\ r # n
      BY <1>9, <2>2 DEF NewsInv, NewsRest
    <3>2. recipient[r] = "none"
      BY <1>9, <2>2, <3>1
    <3>3. n =< r
      BY <1>1, <1>3, <2>2, <3>2 DEF NewsInv, SteadyFits
    <3> QED BY <1>5, <3>1, <3>3, ReadersOrdered
  <2> QED BY <1>1, <1>7, <2>1, <2>2 DEF SteadyFits
<1>13. ASSUME NEW r \in Readers PROVE DeliveryFits(r)'
  <2>1. DeliveryFits(r) /\ missed[r] \in Nat /\ posted[r] \in Nat /\ r \in Nat
    BY ReadersOrdered DEF NewsInv, MailRest
  <2>2. CASE r # n
    <3>1. r =< c => r =< n
      BY <1>4, <1>5, <2>1
    <3> QED BY <1>1, <1>4, <1>7, <1>9, <2>1, <2>2, <3>1 DEF DeliveryFits
  <2>3. CASE r = n
    <3>1. drops = 0 => recipient[r] = "none" /\ delivery[r] = "none" /\ posted[r] = 0
      <4>1. drops = 0 => ~ (r =< c)
        BY <1>4, <1>5, <2>3
      <4> QED BY <1>4, <2>1, <4>1 DEF DeliveryFits
    <3>2. posted'[r] = posted[r] /\ missed'[r] = missed[r] /\ drops' = drops /\ r =< dispatch'.cursor
      BY <1>1, <1>5, <1>7, <2>3
    <3>3. CASE recipient[r] = "none"
      <4>1. recipient'[r] \in {"QUEUED", "SKIPPED"} /\ delivery[r] = "none" /\ posted[r] = 0
        BY <1>9, <2>1, <2>3, <3>3 DEF DeliveryFits
      <4>2. \/ recipient'[r] = "QUEUED" /\ delivery'[r] = "queued"
            \/ recipient'[r] = "SKIPPED" /\ delivery'[r] = "none"
        BY <1>9, <2>3, <3>3, <4>1
      <4> QED BY <2>1, <3>2, <4>1, <4>2 DEF DeliveryFits
    <3>4. CASE recipient[r] # "none"
      <4>1. drops # 0 /\ recipient'[r] = recipient[r]
        BY <1>9, <2>3, <3>1, <3>4
      <4>2. delivery'[r] = delivery[r] \/ (delivery[r] = "none" /\ delivery'[r] = "queued")
        BY <1>9, <2>3
      <4> QED BY <2>1, <3>2, <3>4, <4>1, <4>2 DEF DeliveryFits
    <3> QED BY <3>3, <3>4
  <2> QED BY <2>2, <2>3
<1> QED BY <1>10, <1>11, <1>12, <1>13 DEF NewsInv

LEMMA NewsStep == NewsInv /\ [NewsletterNext]_newsletterVars => NewsInv'
<1> SUFFICES ASSUME NewsInv, [NewsletterNext]_newsletterVars PROVE NewsInv'
  OBVIOUS
<1>1. CASE UNCHANGED newsletterVars
  BY <1>1 DEF newsletterVars, NewsInv, NewsRest, MailRest, SteadyFits, DispatchFits, DeliveryFits, ActiveIn
<1>2. CASE SendCampaign
  <2>1. "queued" \in DispatchAts
    BY WordsOfNews
  <2> QED BY <1>2, <2>1, DispatchTurns
<1>3. CASE StartDispatch
  BY <1>3, DispatchStarted
<1>4. CASE ReadPage
  BY <1>4, PageRowsRead
<1>5. CASE WritePage
  BY <1>5, PageWritten
<1>6. CASE FinishDispatch
  <2>1. "done" \in DispatchAts
    BY WordsOfNews
  <2> QED BY <1>6, <2>1, DispatchTurns
<1>7. CASE DropJob
  <2>1. "queued" \in DispatchAts
    BY WordsOfNews
  <2>2. CASE dispatch.at \in {"page", "rows", "tally"} /\ dispatch' = [dispatch EXCEPT !.at = "queued"] /\ UNCHANGED <<delivery, missed>>
    <3>1. UNCHANGED <<readerVars, campaign, recipient, delivery, posted, missed, steady, slipped, turns>>
          /\ drops < MaxDrops /\ drops' = drops + 1
      BY <1>7, <2>2 DEF DropJob
    <3> QED BY <2>1, <2>2, <3>1, DispatchTurns
  <2>3. CASE \E r \in Readers :
               /\ delivery[r] \in {"sending", "sent", "marked"}
               /\ delivery' = [delivery EXCEPT ![r] = "queued"]
               /\ missed' = [missed EXCEPT ![r] = IF delivery[r] = "sent" THEN @ + 1 ELSE @]
               /\ UNCHANGED dispatch
    <3>1. PICK r \in Readers :
               /\ delivery[r] \in {"sending", "sent", "marked"}
               /\ delivery' = [delivery EXCEPT ![r] = "queued"]
               /\ missed' = [missed EXCEPT ![r] = IF delivery[r] = "sent" THEN @ + 1 ELSE @]
               /\ UNCHANGED dispatch
      BY <2>3
    <3>2. UNCHANGED <<readerVars, campaign, recipient, dispatch, posted, steady, slipped, turns>>
          /\ drops < MaxDrops /\ drops' = drops + 1
      BY <1>7, <3>1 DEF DropJob
    <3> QED BY <3>1, <3>2, DeliveryDropped
  <2> QED BY <1>7, <2>2, <2>3 DEF DropJob
<1>8. CASE \E r \in Readers :
              \/ AskSubscription(r) \/ Subscribe(r) \/ ConfirmNewsletter(r) \/ Unsubscribe(r) \/ SwayConsent(r)
              \/ CheckDelivery(r) \/ PostMail(r) \/ MarkSent(r) \/ CloseDelivery(r)
  BY <1>8, ReadersTurn, DeliveryChecked, DeliveryGoesOn
<1> QED BY <1>1, <1>2, <1>3, <1>4, <1>5, <1>6, <1>7, <1>8 DEF NewsletterNext

LEMMA NewsKeep == NewsInv => NewsletterTypeOK /\ CampaignReaches
<1> SUFFICES ASSUME NewsInv PROVE NewsletterTypeOK /\ CampaignReaches
  OBVIOUS
<1>1. NewsletterTypeOK
  BY NewsTyped DEF NewsInv
<1>2. campaign = "SENT" /\ ~slipped => \A r \in steady : recipient[r] # "none"
  BY DEF NewsInv, DispatchFits, SteadyFits
<1>3. ASSUME NEW r \in Readers
      PROVE  posted[r] =< 1 + missed[r] /\ (drops = 0 => (posted[r] > 0 => recipient[r] # "SKIPPED"))
  <2>1. DeliveryFits(r) /\ posted[r] \in Nat
    BY DEF NewsInv, MailRest
  <2> QED BY <2>1 DEF DeliveryFits
<1> QED BY <1>1, <1>2, <1>3 DEF CampaignReaches

-----------------------------------------------------------------------------
(***************************************************************************)
(* The wishes and their alerts.                                            *)
(***************************************************************************)
\* Alerts are numbered as they are created; one more of an item is due only while there is
\* stock it was not told of, and only one request is about to add a wish.
AlertsFor(i) == {a \in InUse : alertFor[a] = i}
AlertsNumbered == \E n \in 0 .. MaxAlerts : InUse = 1 .. n
AlertsDue(i) == /\ Cardinality(AlertsFor(i)) =< restocks
                /\ stocked /\ alertOf[i] = 0 => Cardinality(AlertsFor(i)) < restocks
WishAlone == /\ \A x \in wished, y \in wished : x = y
             /\ \A s \in Sweepers, o \in Sweepers : Errand(s, "wish") /\ Errand(o, "wish") => s = o
             /\ \A s \in Sweepers : Errand(s, "wish") => wished = {}
AlertInv == /\ AlertTypeOK /\ AlertsNumbered
            /\ "stale" \notin alertExcuses => \A i \in WishIds : AlertsDue(i)
            /\ "twice" \notin alertExcuses => WishAlone

\* An errand with the fields named.
ErrandWords == {"idle", "wish", "alerts", "write"}
Errands     == [do : ErrandWords, stock : BOOLEAN, armed : SUBSET WishIds, over : SUBSET WishIds]
LEMMA ErrandsTyped ==
  /\ ErrandWords = {"idle", "wish", "alerts", "write"} /\ NoErrand \in Errands /\ NoErrand.do = "idle"
  /\ Errands = [do : {"idle", "wish", "alerts", "write"}, stock : BOOLEAN, armed : SUBSET WishIds, over : SUBSET WishIds]
BY DEF ErrandWords, Errands, NoErrand
LEMMA ErrandParts ==
  \A e \in Errands : e.do \in ErrandWords /\ e.stock \in BOOLEAN /\ e.armed \in SUBSET WishIds /\ e.over \in SUBSET WishIds
BY DEF Errands
LEMMA ErrandMade ==
  \A w \in ErrandWords, b \in BOOLEAN, armed \in SUBSET WishIds, over \in SUBSET WishIds :
    /\ [do |-> w, stock |-> b, armed |-> armed, over |-> over] \in Errands
    /\ [do |-> w, stock |-> b, armed |-> armed, over |-> over].do = w
BY DEF Errands
LEMMA ErrandTurns ==
  \A e \in Errands, w \in ErrandWords : [e EXCEPT !.do = w] \in Errands /\ [e EXCEPT !.do = w].do = w
BY DEF Errands
LEMMA ErrandArms ==
  \A e \in Errands, w \in ErrandWords, armed \in SUBSET WishIds :
    [e EXCEPT !.do = w, !.armed = armed] \in Errands /\ [e EXCEPT !.do = w, !.armed = armed].do = w
BY DEF Errands
LEMMA ErrandShrinks ==
  \A e \in Errands, over \in SUBSET WishIds : [e EXCEPT !.over = over] \in Errands /\ [e EXCEPT !.over = over].do = e.do
BY DEF Errands

LEMMA AlertsStart == AlertInit => AlertInv
<1> SUFFICES ASSUME AlertInit PROVE AlertInv
  OBVIOUS
<1>1. MaxWishes \in Nat /\ MaxAlerts \in Nat /\ MaxRestocks \in Nat
  BY AlertConstantsOK
<1>2. AlertTypeOK
  <2>1. sweeper \in [Sweepers -> Errands]
    BY ErrandsTyped DEF AlertInit
  <2>2. alertOf \in [WishIds -> AlertIds \union {0}] /\ alarm \in [AlertIds -> {"none", "queued", "done"}]
        /\ alertFor \in [AlertIds -> WishIds \union {0}]
    BY DEF AlertInit
  <2>3. wished \subseteq WishIds /\ stocked \in BOOLEAN /\ notices \subseteq AlertIds
        /\ restocks \in 0 .. MaxRestocks /\ wishes \in 0 .. MaxWishes /\ alertExcuses \subseteq {"twice", "stale"}
    <3>1. wished = {} /\ stocked = FALSE /\ notices = {} /\ restocks = 0 /\ wishes = 0 /\ alertExcuses = {}
      BY DEF AlertInit
    <3>2. 0 \in 0 .. MaxRestocks /\ 0 \in 0 .. MaxWishes
      BY <1>1
    <3> QED BY <3>1, <3>2
  <2> QED BY <2>1, <2>2, <2>3, ErrandsTyped DEF AlertTypeOK
<1>3. InUse = {} /\ 1 .. 0 = {} /\ 0 \in 0 .. MaxAlerts
  BY <1>1 DEF AlertInit, InUse
<1>4. AlertsNumbered
  BY <1>3 DEF AlertsNumbered
<1>5. ASSUME NEW i \in WishIds PROVE AlertsDue(i)
  <2>1. AlertsFor(i) = {} /\ restocks = 0 /\ stocked = FALSE
    BY <1>3 DEF AlertsFor, AlertInit
  <2> QED BY <2>1, FS_EmptySet DEF AlertsDue
<1>6. WishAlone
  BY ErrandsTyped DEF WishAlone, AlertInit, Errand
<1> QED BY <1>2, <1>4, <1>5, <1>6 DEF AlertInv

\* The sweeps and requests after one of them did something.
LEMMA SweeperGoes ==
  ASSUME AlertInv, NEW s \in Sweepers, NEW e \in Errands, sweeper' = [sweeper EXCEPT ![s] = e]
  PROVE  /\ sweeper' \in [Sweepers -> Errands] /\ sweeper'[s] = e
         /\ \A o \in Sweepers : o # s => sweeper'[o] = sweeper[o]
<1>1. sweeper \in [Sweepers -> Errands]
  BY ErrandsTyped DEF AlertInv, AlertTypeOK
<1> QED BY <1>1

\* Nobody else has taken up a wish.
LEMMA WishKept ==
  ASSUME "twice" \notin alertExcuses => WishAlone, alertExcuses \subseteq alertExcuses', wished' \subseteq wished,
         NEW s \in Sweepers, sweeper'[s].do # "wish" \/ sweeper'[s].do = sweeper[s].do,
         \A o \in Sweepers : o # s => sweeper'[o] = sweeper[o]
  PROVE  ("twice" \notin alertExcuses => WishAlone)'
<1>1. \A o \in Sweepers : Errand(o, "wish")' => Errand(o, "wish")
  BY DEF Errand
<1> QED BY <1>1 DEF WishAlone

\* Alerts stay those there are.
LEMMA AlertsKept ==
  ASSUME AlertInv, AlertTypeOK', UNCHANGED <<alarm, alertFor, alertOf, stocked, restocks>>, alertExcuses \subseteq alertExcuses'
  PROVE  AlertsNumbered' /\ ("stale" \notin alertExcuses => \A i \in WishIds : AlertsDue(i))'
BY DEF AlertInv, AlertsNumbered, AlertsDue, AlertsFor, InUse

LEMMA ErrandTaken ==
  ASSUME AlertInv, NEW s \in Sweepers, SweepStock(s) \/ SweepAlerts(s) \/ EndSweep(s)
  PROVE  AlertInv'
<1>1. UNCHANGED <<wished, stocked, alertOf, alarm, alertFor, notices, restocks, wishes>>
      /\ alertExcuses \subseteq alertExcuses' /\ alertExcuses' \subseteq {"twice", "stale"}
  BY DEF SweepStock, SweepAlerts, EndSweep, Excuse, eventVars, AlertInv, AlertTypeOK
<1>2. sweeper \in [Sweepers -> Errands] /\ wished \in SUBSET WishIds /\ stocked \in BOOLEAN
  BY ErrandsTyped DEF AlertInv, AlertTypeOK
<1>3. PICK e \in Errands : sweeper' = [sweeper EXCEPT ![s] = e] /\ e.do # "wish"
  <2>1. CASE SweepStock(s)
    <3>1. [do |-> "alerts", stock |-> stocked, armed |-> {}, over |-> wished] \in Errands
          /\ [do |-> "alerts", stock |-> stocked, armed |-> {}, over |-> wished].do = "alerts"
      BY <1>2, ErrandMade, ErrandsTyped
    <3> QED BY <2>1, <3>1 DEF SweepStock
  <2>2. CASE SweepAlerts(s)
    <3>1. PICK armed \in SUBSET WishIds : armed = Armed \intersect sweeper[s].over
      BY DEF Armed
    <3>2. sweeper[s] \in Errands /\ "write" \in ErrandWords
      BY <1>2, ErrandsTyped
    <3>3. [sweeper[s] EXCEPT !.do = "write", !.armed = armed] \in Errands
          /\ [sweeper[s] EXCEPT !.do = "write", !.armed = armed].do = "write"
      BY <3>2, ErrandArms
    <3>4. sweeper' = [sweeper EXCEPT ![s] = [sweeper[s] EXCEPT !.do = "write", !.armed = armed]]
      BY <1>2, <2>2, <3>1 DEF SweepAlerts
    <3> QED BY <3>3, <3>4
  <2>3. CASE EndSweep(s)
    BY <2>3, ErrandsTyped DEF EndSweep, Home
  <2> QED BY <2>1, <2>2, <2>3
<1>4. /\ sweeper' \in [Sweepers -> Errands] /\ sweeper'[s] = e
      /\ \A o \in Sweepers : o # s => sweeper'[o] = sweeper[o]
  BY <1>3, SweeperGoes
<1>5. AlertTypeOK'
  BY <1>1, <1>4, ErrandsTyped DEF AlertInv, AlertTypeOK
<1>6. ("twice" \notin alertExcuses => WishAlone)'
  BY <1>1, <1>3, <1>4, WishKept DEF AlertInv
<1> QED BY <1>1, <1>5, <1>6, AlertsKept DEF AlertInv

LEMMA WishTaken ==
  ASSUME AlertInv, NEW s \in Sweepers, AskWish(s) \/ AddWish(s)
  PROVE  AlertInv'
<1>1. UNCHANGED <<stocked, alertOf, alarm, alertFor, notices, restocks>>
      /\ alertExcuses \subseteq alertExcuses' /\ alertExcuses' \subseteq {"twice", "stale"}
  BY DEF AskWish, AddWish, Excuse, eventVars, AlertInv, AlertTypeOK
<1>2. sweeper \in [Sweepers -> Errands] /\ wished \in SUBSET WishIds
  BY ErrandsTyped DEF AlertInv, AlertTypeOK
<1>3. CASE AskWish(s)
  <2>1. sweeper[s] \in Errands /\ "wish" \in ErrandWords
    BY <1>2, ErrandsTyped
  <2>2. PICK e \in Errands : sweeper' = [sweeper EXCEPT ![s] = e] /\ e.do = "wish"
    <3>1. sweeper' = [sweeper EXCEPT ![s] = [sweeper[s] EXCEPT !.do = "wish"]]
      BY <1>2, <1>3 DEF AskWish
    <3> QED BY <2>1, <3>1, ErrandTurns
  <2>3. /\ sweeper' \in [Sweepers -> Errands] /\ sweeper'[s] = e
        /\ \A o \in Sweepers : o # s => sweeper'[o] = sweeper[o]
    BY <2>2, SweeperGoes
  <2>4. wished = {} /\ wished' = {} /\ wishes' = wishes
    BY <1>3 DEF AskWish
  <2>5. AlertTypeOK'
    BY <1>1, <2>3, <2>4, ErrandsTyped DEF AlertInv, AlertTypeOK
  <2>6. ("twice" \notin alertExcuses => WishAlone)'
    <3>1. ASSUME "twice" \notin alertExcuses', NEW o \in Sweepers, Errand(o, "wish")' PROVE o = s
      <4>1. ~ Errand(o, "wish")
        BY <1>3, <3>1 DEF AskWish, Excuse
      <4> QED BY <2>3, <3>1, <4>1 DEF Errand
    <3> QED BY <2>4, <3>1 DEF WishAlone
  <2> QED BY <1>1, <2>5, <2>6, AlertsKept DEF AlertInv
<1>4. CASE AddWish(s)
  <2>1. sweeper' = [sweeper EXCEPT ![s] = NoErrand] /\ alertExcuses' = alertExcuses
    BY <1>4 DEF AddWish, Home
  <2>2. /\ sweeper' \in [Sweepers -> Errands] /\ sweeper'[s] = NoErrand
        /\ \A o \in Sweepers : o # s => sweeper'[o] = sweeper[o]
    BY <2>1, SweeperGoes, ErrandsTyped
  <2>3. wishes' \in 0 .. MaxWishes /\ wishes' \in WishIds /\ wished' = wished \union {wishes'}
    BY <1>4, AlertConstantsOK DEF AddWish, AlertInv, AlertTypeOK, WishIds
  <2>4. AlertTypeOK'
    <3>1. wished' \subseteq WishIds
      BY <1>2, <2>3
    <3> QED BY <1>1, <2>2, <2>3, <3>1, ErrandsTyped DEF AlertInv, AlertTypeOK
  <2>5. ("twice" \notin alertExcuses => WishAlone)'
    <3>1. ASSUME "twice" \notin alertExcuses PROVE wished = {} /\ \A o \in Sweepers : ~ Errand(o, "wish")'
      <4>1. WishAlone /\ Errand(s, "wish")
        BY <1>4, <3>1 DEF AddWish, AlertInv
      <4> QED BY <2>2, <4>1, ErrandsTyped DEF WishAlone, Errand
    <3> QED BY <2>1, <2>3, <3>1 DEF WishAlone
  <2> QED BY <1>1, <2>4, <2>5, AlertsKept DEF AlertInv
<1> QED BY <1>3, <1>4

\* The alerts of an item are finitely many.
LEMMA AlertsFinite == \A i : IsFiniteSet(AlertsFor(i)) /\ Cardinality(AlertsFor(i)) \in Nat
<1> SUFFICES ASSUME NEW i PROVE IsFiniteSet(AlertsFor(i)) /\ Cardinality(AlertsFor(i)) \in Nat
  OBVIOUS
<1>1. IsFiniteSet(AlertIds)
  BY AlertConstantsOK, FS_Interval DEF AlertIds
<1>2. AlertsFor(i) \subseteq AlertIds
  BY DEF AlertsFor, InUse
<1> QED BY <1>1, <1>2, FS_Subset, FS_CardinalityType

LEMMA StockComes ==
  ASSUME AlertInv, Restock
  PROVE  AlertInv'
<1>1. UNCHANGED <<wished, alertOf, alarm, alertFor, notices, sweeper, wishes, alertExcuses>> /\ stocked' = ~stocked
  BY DEF Restock, eventVars
<1>2. restocks \in Nat /\ restocks' \in 0 .. MaxRestocks /\ stocked \in BOOLEAN
  BY AlertConstantsOK DEF Restock, AlertInv, AlertTypeOK
<1>3. AlertTypeOK'
  BY <1>1, <1>2 DEF AlertInv, AlertTypeOK
<1>4. AlertsNumbered'
  BY <1>1 DEF AlertInv, AlertsNumbered, InUse
<1>5. ASSUME "stale" \notin alertExcuses', NEW i \in WishIds PROVE AlertsDue(i)'
  <2>1. AlertsFor(i)' = AlertsFor(i) /\ Cardinality(AlertsFor(i)) \in Nat
    BY <1>1, AlertsFinite DEF AlertsFor, InUse
  <2>2. Cardinality(AlertsFor(i)) =< restocks
    BY <1>1, <1>5 DEF AlertInv, AlertsDue
  <2>3. \/ stocked' = TRUE /\ restocks' = restocks + 1
        \/ stocked' = FALSE /\ restocks' = restocks
    BY <1>1, <1>2 DEF Restock
  <2> QED BY <1>2, <2>1, <2>2, <2>3 DEF AlertsDue
<1>6. ("twice" \notin alertExcuses => WishAlone)'
  BY <1>1 DEF AlertInv, WishAlone, Errand
<1> QED BY <1>3, <1>4, <1>5, <1>6 DEF AlertInv

LEMMA WishesGo ==
  ASSUME AlertInv, RemoveWish
  PROVE  AlertInv'
<1>1. UNCHANGED <<stocked, alertOf, alarm, alertFor, notices, sweeper, restocks, wishes, alertExcuses>> /\ wished' = {}
  BY DEF RemoveWish, eventVars
<1>2. AlertTypeOK'
  BY <1>1 DEF AlertInv, AlertTypeOK
<1>3. ("twice" \notin alertExcuses => WishAlone)'
  BY <1>1 DEF AlertInv, WishAlone, Errand
<1> QED BY <1>1, <1>2, <1>3, AlertsKept DEF AlertInv

LEMMA Rearmed ==
  ASSUME AlertInv, NEW s \in Sweepers, Rearm(s)
  PROVE  AlertInv'
<1>1. UNCHANGED <<wished, stocked, alarm, alertFor, notices, restocks, wishes>>
      /\ alertExcuses \subseteq alertExcuses' /\ alertExcuses' \subseteq {"twice", "stale"}
  BY DEF Rearm, Excuse, eventVars, AlertInv, AlertTypeOK
<1>2. sweeper' = [sweeper EXCEPT ![s] = NoErrand] /\ sweeper[s].stock = FALSE
      /\ alertOf' = [i \in WishIds |-> IF i \in sweeper[s].armed THEN 0 ELSE alertOf[i]]
  <2>1. sweeper[s].stock \in BOOLEAN
    BY ErrandsTyped, ErrandParts DEF AlertInv, AlertTypeOK
  <2> QED BY <2>1 DEF Rearm, Home
<1>3. /\ sweeper' \in [Sweepers -> Errands] /\ sweeper'[s] = NoErrand
      /\ \A o \in Sweepers : o # s => sweeper'[o] = sweeper[o]
  BY <1>2, SweeperGoes, ErrandsTyped
<1>4. alertOf' \in [WishIds -> AlertIds \union {0}]
  BY <1>2 DEF AlertInv, AlertTypeOK
<1>5. AlertTypeOK'
  BY <1>1, <1>3, <1>4, ErrandsTyped DEF AlertInv, AlertTypeOK
<1>6. AlertsNumbered'
  BY <1>1 DEF AlertInv, AlertsNumbered, InUse
<1>7. ASSUME "stale" \notin alertExcuses', NEW i \in WishIds PROVE AlertsDue(i)'
  <2>1. stocked' = FALSE
    BY <1>1, <1>2, <1>7 DEF Rearm, Excuse, Outdated
  <2>2. Cardinality(AlertsFor(i)) =< restocks
    BY <1>1, <1>7 DEF AlertInv, AlertsDue
  <2>3. AlertsFor(i)' = AlertsFor(i)
    BY <1>1 DEF AlertsFor, InUse
  <2> QED BY <1>1, <2>1, <2>2, <2>3 DEF AlertsDue
<1>8. ("twice" \notin alertExcuses => WishAlone)'
  BY <1>1, <1>3, ErrandsTyped, WishKept DEF AlertInv
<1> QED BY <1>5, <1>6, <1>7, <1>8 DEF AlertInv

\* Numbered in a row from 1, the next alert is one more than there are.
LEMMA NextAlert ==
  ASSUME AlertsNumbered, 1 + Cardinality(InUse) \in AlertIds
  PROVE  /\ 1 + Cardinality(InUse) \notin InUse
         /\ \E n \in 0 .. MaxAlerts : InUse \union {1 + Cardinality(InUse)} = 1 .. n
<1>1. PICK n \in 0 .. MaxAlerts : InUse = 1 .. n
  BY DEF AlertsNumbered
<1>2. n \in Nat /\ Cardinality(InUse) = n
  BY <1>1, AlertConstantsOK, FS_Interval
<1>3. n + 1 \in 0 .. MaxAlerts
  BY <1>2, AlertConstantsOK DEF AlertIds
<1>4. InUse \union {n + 1} = 1 .. (n + 1) /\ n + 1 \notin InUse
  BY <1>1, <1>2
<1> QED BY <1>2, <1>3, <1>4

LEMMA AlertEnqueued ==
  ASSUME AlertInv, NEW s \in Sweepers, NEW i \in WishIds, EnqueueAlert(s, i)
  PROVE  AlertInv'
<1>1. UNCHANGED <<wished, stocked, notices, restocks, wishes>> /\ sweeper' = [sweeper EXCEPT ![s].over = @ \ {i}]
      /\ alertExcuses \subseteq alertExcuses' /\ alertExcuses' \subseteq {"twice", "stale"}
  BY DEF EnqueueAlert, Excuse, AlertInv, AlertTypeOK
<1>2. sweeper \in [Sweepers -> Errands]
  BY ErrandsTyped DEF AlertInv, AlertTypeOK
<1>3. PICK e \in Errands : sweeper' = [sweeper EXCEPT ![s] = e] /\ e.do = sweeper[s].do
  <2>1. sweeper[s] \in Errands /\ sweeper[s].over \ {i} \in SUBSET WishIds
    BY <1>2, ErrandParts
  <2>2. [sweeper[s] EXCEPT !.over = sweeper[s].over \ {i}] \in Errands
        /\ [sweeper[s] EXCEPT !.over = sweeper[s].over \ {i}].do = sweeper[s].do
    BY <2>1, ErrandShrinks
  <2>3. sweeper' = [sweeper EXCEPT ![s] = [sweeper[s] EXCEPT !.over = sweeper[s].over \ {i}]]
    BY <1>1, <1>2
  <2> QED BY <2>2, <2>3
<1>4. /\ sweeper' \in [Sweepers -> Errands] /\ sweeper'[s] = e
      /\ \A o \in Sweepers : o # s => sweeper'[o] = sweeper[o]
  BY <1>3, SweeperGoes
<1>5. ("twice" \notin alertExcuses => WishAlone)'
  BY <1>1, <1>3, <1>4, WishKept DEF AlertInv
<1>6. CASE ~ Inserts(i)
  <2>1. UNCHANGED <<alertOf, alarm, alertFor, alertExcuses>>
    BY <1>6 DEF EnqueueAlert
  <2>2. AlertTypeOK'
    BY <1>1, <1>4, <2>1, ErrandsTyped DEF AlertInv, AlertTypeOK
  <2> QED BY <1>1, <1>5, <2>1, <2>2, AlertsKept DEF AlertInv
<1>7. CASE Inserts(i)
  <2>1. PICK a \in AlertIds : a = 1 + Cardinality(InUse)
    BY <1>7 DEF EnqueueAlert
  <2>2. /\ alertOf' = [alertOf EXCEPT ![i] = a] /\ alarm' = [alarm EXCEPT ![a] = "queued"]
        /\ alertFor' = [alertFor EXCEPT ![a] = i]
    BY <1>7, <2>1 DEF EnqueueAlert
  <2>3. /\ alertOf \in [WishIds -> AlertIds \union {0}] /\ alarm \in [AlertIds -> {"none", "queued", "done"}]
        /\ alertFor \in [AlertIds -> WishIds \union {0}]
    BY DEF AlertInv, AlertTypeOK
  <2>4. /\ alertOf' \in [WishIds -> AlertIds \union {0}] /\ alarm' \in [AlertIds -> {"none", "queued", "done"}]
        /\ alertFor' \in [AlertIds -> WishIds \union {0}]
    BY <2>2, <2>3
  <2>5. AlertTypeOK'
    BY <1>1, <1>4, <2>4, ErrandsTyped DEF AlertInv, AlertTypeOK
  <2>6. InUse' = InUse \union {a}
    BY <2>2, <2>3 DEF InUse
  <2>7. a \notin InUse /\ \E n \in 0 .. MaxAlerts : InUse \union {a} = 1 .. n
    BY <2>1, NextAlert DEF AlertInv
  <2>8. AlertsNumbered'
    BY <2>6, <2>7 DEF AlertsNumbered
  <2>9. ASSUME "stale" \notin alertExcuses', NEW j \in WishIds PROVE AlertsDue(j)'
    <3>1. AlertsDue(j) /\ AlertsDue(i) /\ restocks \in Nat
      BY <1>1, <2>9, AlertConstantsOK DEF AlertInv, AlertTypeOK
    <3>2. CASE j = i
      <4>1. AlertsFor(i)' = AlertsFor(i) \union {a} /\ a \notin AlertsFor(i)
        BY <2>2, <2>3, <2>6, <2>7 DEF AlertsFor, InUse
      <4>2. Cardinality(AlertsFor(i)') = Cardinality(AlertsFor(i)) + 1 /\ Cardinality(AlertsFor(i)) \in Nat
        BY <4>1, AlertsFinite, FS_AddElement
      <4>3. alertOf[i] = 0 /\ stocked
        BY <1>7, <2>9 DEF Inserts, EnqueueAlert, Excuse
      <4>4. Cardinality(AlertsFor(i)) < restocks
        BY <3>1, <4>3 DEF AlertsDue
      <4>5. alertOf'[i] # 0
        BY <2>1, <2>2, <2>3 DEF AlertIds
      <4> QED BY <1>1, <3>1, <3>2, <4>2, <4>4, <4>5 DEF AlertsDue
    <3>3. CASE j # i
      <4>1. AlertsFor(j)' = AlertsFor(j) /\ alertOf'[j] = alertOf[j]
        BY <2>2, <2>3, <2>6, <2>7, <3>3 DEF AlertsFor, InUse
      <4> QED BY <1>1, <3>1, <4>1 DEF AlertsDue
    <3> QED BY <3>2, <3>3
  <2> QED BY <1>5, <2>5, <2>8, <2>9 DEF AlertInv
<1> QED BY <1>6, <1>7

LEMMA AlertNotified ==
  ASSUME AlertInv, NEW a \in AlertIds, Notify(a)
  PROVE  AlertInv'
<1>1. UNCHANGED <<wished, stocked, alertOf, alertFor, sweeper, restocks, wishes, alertExcuses>> /\ alarm[a] = "queued"
  BY DEF Notify
<1>2. PICK next \in {"done", "queued"} : alarm' = [alarm EXCEPT ![a] = next]
  BY DEF Notify
<1>3. alarm \in [AlertIds -> {"none", "queued", "done"}]
  BY DEF AlertInv, AlertTypeOK
<1>4. alarm' \in [AlertIds -> {"none", "queued", "done"}] /\ InUse' = InUse
  BY <1>1, <1>2, <1>3 DEF InUse
<1>5. notices' \subseteq AlertIds
  BY DEF Notify, AlertInv, AlertTypeOK
<1>6. AlertTypeOK'
  BY <1>1, <1>4, <1>5 DEF AlertInv, AlertTypeOK
<1>7. AlertsNumbered'
  BY <1>4 DEF AlertInv, AlertsNumbered
<1>8. ("stale" \notin alertExcuses => \A i \in WishIds : AlertsDue(i))'
  BY <1>1, <1>4 DEF AlertInv, AlertsDue, AlertsFor
<1>9. ("twice" \notin alertExcuses => WishAlone)'
  BY <1>1 DEF AlertInv, WishAlone, Errand
<1> QED BY <1>6, <1>7, <1>8, <1>9 DEF AlertInv

LEMMA AlertStep == AlertInv /\ [AlertNext]_alertVars => AlertInv'
<1> SUFFICES ASSUME AlertInv, [AlertNext]_alertVars PROVE AlertInv'
  OBVIOUS
<1>1. CASE UNCHANGED alertVars
  <2>1. UNCHANGED <<wished, stocked, alertOf, alarm, alertFor, notices, sweeper, restocks, wishes, alertExcuses>>
    BY <1>1 DEF alertVars
  <2>2. AlertTypeOK'
    BY <2>1 DEF AlertInv, AlertTypeOK
  <2>3. ("twice" \notin alertExcuses => WishAlone)'
    BY <2>1 DEF AlertInv, WishAlone, Errand
  <2> QED BY <2>1, <2>2, <2>3, AlertsKept DEF AlertInv
<1>2. CASE AlertNext
  BY <1>2, StockComes, WishesGo, WishTaken, ErrandTaken, Rearmed, AlertEnqueued, AlertNotified DEF AlertNext
<1> QED BY <1>1, <1>2

LEMMA AlertsHold == AlertInv => AlertTypeOK /\ OneAlertPerRestock
<1> SUFFICES ASSUME AlertInv PROVE AlertTypeOK /\ OneAlertPerRestock
  OBVIOUS
<1>1. "stale" \notin alertExcuses
      => \A i \in WishIds : Cardinality({a \in InUse : alertFor[a] = i}) =< restocks
  BY DEF AlertInv, AlertsDue, AlertsFor
<1>2. ASSUME "twice" \notin alertExcuses PROVE Cardinality(wished) =< 1
  <2>1. CASE wished = {}
    BY <2>1, FS_EmptySet
  <2>2. CASE wished # {}
    <3>1. PICK x \in wished : TRUE
      BY <2>2
    <3>2. wished = {x}
      BY <1>2, <3>1 DEF AlertInv, WishAlone
    <3> QED BY <3>2, FS_Singleton
  <2> QED BY <2>1, <2>2
<1> QED BY <1>1, <1>2 DEF AlertInv, OneAlertPerRestock

-----------------------------------------------------------------------------
(***************************************************************************)
(* The figures of the sales.                                               *)
(***************************************************************************)
\* The orders, row by row.
PayoutMarks == {"PENDING", "PROCESSING", "PAID"}
SaleRows == [placed : 0 .. Year, is : OrderStatuses, slice : OrderStatuses, refund : 0 .. Year,
             invoice : 0 .. Year, payout : PayoutMarks]
\* Before it is placed nothing happens to an order, and once it counted its slice says the same.
SaleFits(row) == /\ row.placed = 0 => row.is = "PENDING" /\ row.invoice = 0
                 /\ row.is # "PENDING" => row.is = row.slice
TakenBack == {"REFUNDED", "CANCELLED"}
Counted(o, m) == sale[o].placed = m /\ sale[o].is # "PENDING"
\* The months of a report hold what counted, and all that was shown before and still counts.
MonthsTold(f) ==
  /\ f \in [YearMonths -> SUBSET Sales]
  /\ \A m \in YearMonths : /\ \A o \in f[m] : Counted(o, m)
                           /\ \A o \in shown[m] \ f[m] : sale[o].is \in TakenBack

StatsNames    == {"current", "previous", "monthly", "all"}
AnalysisNames == {"gross", "refunds", "series", "statuses"}
MineNames     == {"net", "lifetime", "pending", "paid", "monthly"}
TaxNames      == {"invoices"}
\* What was answered is what would be answered now.
AsNow(got, answers) == \A t \in DOMAIN got : got[t] = answers[t]
StatsRead(v) ==
  /\ v.kind = "stats" /\ v.left \union DOMAIN v.got = StatsNames
  /\ v.unrest = 0 => AsNow(v.got, Stats(v.now))
  /\ "monthly" \in DOMAIN v.got => MonthsTold(v.got["monthly"])
AnalysisRead(v) ==
  /\ v.kind = "analysis" /\ v.left \union DOMAIN v.got = AnalysisNames
  /\ v.unrest = 0 => AsNow(v.got, Analysis(v.over))
  /\ Cardinality(v.over) \in 1 .. MaxRange
MineRead(v) ==
  /\ v.kind = "mine" /\ v.left \union DOMAIN v.got = MineNames
  /\ v.unrest = 0 => AsNow(v.got, MyStats(v.now))
TaxRead(v) ==
  /\ v.kind = "gstr1" /\ v.left \union DOMAIN v.got = TaxNames
  /\ v.over \subseteq YearMonths
  /\ v.unrest = 0 => AsNow(v.got, Gstr1(v.over))
  /\ (\A m \in v.over : m < v.now) /\ v.over \intersect lateMonths = {} => AsNow(v.got, Gstr1(v.over))
ViewShaped(v) ==
  v = [kind |-> v.kind, now |-> v.now, over |-> v.over, left |-> v.left, got |-> v.got, unrest |-> v.unrest]
ViewFits(v) ==
  /\ ViewShaped(v) /\ v.now \in 1 .. thisMonth /\ v.unrest \in 0 .. MaxUnrest
  /\ v.got = [t \in DOMAIN v.got |-> v.got[t]]
  /\ StatsRead(v) \/ AnalysisRead(v) \/ MineRead(v) \/ TaxRead(v)
FigureRest ==
  /\ thisMonth \in YearMonths /\ lateMonths \subseteq YearMonths
  /\ sale \in [Sales -> SaleRows] /\ \A o \in Sales : SaleFits(sale[o])
  /\ shown \in [YearMonths -> SUBSET Sales] /\ \A m \in YearMonths : \A o \in shown[m] : Counted(o, m)
FigureInv == FigureRest /\ \E v : v = view /\ (v = NoView \/ ViewFits(v))

LEMMA SaleParts ==
  \A row \in SaleRows : /\ row.placed \in 0 .. Year /\ row.is \in OrderStatuses /\ row.slice \in OrderStatuses
                        /\ row.refund \in 0 .. Year /\ row.invoice \in 0 .. Year /\ row.payout \in PayoutMarks
BY DEF SaleRows
LEMMA MonthsOfYear == YearMonths \subseteq Nat /\ 0 \notin YearMonths /\ Year \in Nat /\ YearMonths \subseteq 0 .. Year
BY FigureConstantsOK DEF YearMonths
LEMMA StatusWords == {"PENDING", "CONFIRMED", "DELIVERED", "CANCELLED", "REFUNDED"} = OrderStatuses
BY DEF OrderStatuses, RevenueStatuses
LEMMA NewSale == \A m \in 0 .. Year : /\ [NoSale EXCEPT !.placed = m] \in SaleRows /\ [NoSale EXCEPT !.placed = m].placed = m
                                      /\ [NoSale EXCEPT !.placed = m].is = "PENDING" /\ [NoSale EXCEPT !.placed = m].invoice = 0
                                      /\ [NoSale EXCEPT !.placed = m].slice = "PENDING"
<1> SUFFICES ASSUME NEW m \in 0 .. Year
             PROVE  LET row == [NoSale EXCEPT !.placed = m]
                    IN  /\ row \in SaleRows /\ row.placed = m /\ row.is = "PENDING" /\ row.invoice = 0 /\ row.slice = "PENDING"
  OBVIOUS
<1>1. PICK row : row = [NoSale EXCEPT !.placed = m]
  OBVIOUS
<1>2. row = [placed |-> m, is |-> "PENDING", slice |-> "PENDING", refund |-> 0, invoice |-> 0, payout |-> "PENDING"]
  BY <1>1 DEF NoSale
<1>3. "PENDING" \in OrderStatuses /\ "PENDING" \in PayoutMarks /\ 0 \in 0 .. Year
  BY FigureConstantsOK, StatusWords DEF PayoutMarks
<1>4. row \in SaleRows
  BY <1>2, <1>3 DEF SaleRows
<1>5. row.placed = m /\ row.is = "PENDING" /\ row.invoice = 0 /\ row.slice = "PENDING"
  BY <1>2
<1> QED BY <1>1, <1>4, <1>5
SlicedSale(row, slice) == [row EXCEPT !.slice = slice, !.is = slice]
LEMMA SaleSliced ==
  ASSUME NEW row \in SaleRows, NEW slice \in OrderStatuses, NEW new, new = SlicedSale(row, slice)
  PROVE  new \in SaleRows /\ new.placed = row.placed /\ new.is = slice /\ new.slice = slice /\ new.invoice = row.invoice
<1>1. new \in SaleRows
  BY DEF SaleRows, SlicedSale
<1>2. new.placed = row.placed /\ new.is = slice
  BY DEF SaleRows, SlicedSale
<1>3. new.slice = slice /\ new.invoice = row.invoice
  BY DEF SaleRows, SlicedSale
<1> QED BY <1>1, <1>2, <1>3
LEMMA SaleConfirmed ==
  \A row \in SaleRows, slice \in OrderStatuses :
    LET new == [row EXCEPT !.slice = slice]
    IN  new \in SaleRows /\ new.placed = row.placed /\ new.is = row.is /\ new.slice = slice /\ new.invoice = row.invoice
BY DEF SaleRows
RefundedSale(row, m, slice) == [row EXCEPT !.refund = m, !.slice = slice, !.is = slice]
LEMMA SaleRefunded ==
  ASSUME NEW row \in SaleRows, NEW slice \in OrderStatuses, NEW m \in 0 .. Year, NEW new, new = RefundedSale(row, m, slice)
  PROVE  new \in SaleRows /\ new.placed = row.placed /\ new.is = slice /\ new.slice = slice /\ new.invoice = row.invoice
<1>1. new \in SaleRows
  BY DEF SaleRows, RefundedSale
<1>2. new.placed = row.placed /\ new.is = slice
  BY DEF SaleRows, RefundedSale
<1>3. new.slice = slice /\ new.invoice = row.invoice
  BY DEF SaleRows, RefundedSale
<1> QED BY <1>1, <1>2, <1>3
LEMMA SaleInvoiced ==
  \A row \in SaleRows, m \in 0 .. Year :
    LET new == [row EXCEPT !.invoice = m]
    IN  new \in SaleRows /\ new.placed = row.placed /\ new.is = row.is /\ new.slice = row.slice /\ new.invoice = m
BY DEF SaleRows
LEMMA SalePaidOut ==
  \A row \in SaleRows, mark \in PayoutMarks :
    LET new == [row EXCEPT !.payout = mark]
    IN  new \in SaleRows /\ new.placed = row.placed /\ new.is = row.is /\ new.slice = row.slice /\ new.invoice = row.invoice
BY DEF SaleRows

\* The report that is being read, by its fields.
LEMMA ViewDisturbed ==
  ASSUME NEW v, ViewShaped(v), NEW u
  PROVE  LET w == [v EXCEPT !.unrest = u]
         IN  /\ ViewShaped(w) /\ w.kind = v.kind /\ w.now = v.now /\ w.over = v.over /\ w.left = v.left
             /\ w.got = v.got /\ w.unrest = u
<1>1. PICK w : w = [v EXCEPT !.unrest = u]
  OBVIOUS
<1>2. w = [kind |-> v.kind, now |-> v.now, over |-> v.over, left |-> v.left, got |-> v.got, unrest |-> u]
  BY <1>1 DEF ViewShaped
<1>3. w.kind = v.kind /\ w.now = v.now /\ w.over = v.over /\ w.left = v.left /\ w.got = v.got /\ w.unrest = u
  BY <1>2
<1>4. ViewShaped(w)
  BY <1>2, <1>3 DEF ViewShaped
<1> QED BY <1>1, <1>3, <1>4
AnsweredView(v, left, got) == [v EXCEPT !.left = left, !.got = got]
LEMMA ViewAnswered ==
  ASSUME NEW v, ViewShaped(v), NEW left, NEW got, NEW w, w = AnsweredView(v, left, got)
  PROVE  /\ ViewShaped(w) /\ w.kind = v.kind /\ w.now = v.now /\ w.over = v.over /\ w.left = left
         /\ w.got = got /\ w.unrest = v.unrest
<1>1. w = [kind |-> v.kind, now |-> v.now, over |-> v.over, left |-> left, got |-> got, unrest |-> v.unrest]
  BY DEF ViewShaped, AnsweredView
<1>2. w.kind = v.kind /\ w.now = v.now /\ w.over = v.over /\ w.left = left /\ w.got = got /\ w.unrest = v.unrest
  BY <1>1
<1>3. ViewShaped(w)
  BY <1>1, <1>2 DEF ViewShaped
<1> QED BY <1>2, <1>3
OpenView(asked, left) == [asked EXCEPT !.left = left]
AskedView(kind, now, over) == [NoView EXCEPT !.kind = kind, !.now = now, !.over = over]
LEMMA ViewAsked ==
  ASSUME NEW kind, NEW now, NEW over, NEW left, NEW asked, asked = AskedView(kind, now, over),
         NEW w, w = OpenView(asked, left)
  PROVE  /\ asked.kind = kind /\ asked.now = now /\ asked.over = over
         /\ ViewShaped(w) /\ w.kind = kind /\ w.now = now /\ w.over = over /\ w.left = left
         /\ w.got = <<>> /\ w.unrest = 0
<1>1. asked = [kind |-> kind, now |-> now, over |-> over, left |-> {}, got |-> <<>>, unrest |-> 0]
  BY DEF NoView, AskedView
<1>2. w = [kind |-> kind, now |-> now, over |-> over, left |-> left, got |-> <<>>, unrest |-> 0]
  BY <1>1 DEF OpenView
<1>3. w.kind = kind /\ w.now = now /\ w.over = over /\ w.left = left /\ w.got = <<>> /\ w.unrest = 0
  BY <1>2
<1>4. ViewShaped(w)
  BY <1>2, <1>3 DEF ViewShaped
<1> QED BY <1>1, <1>3, <1>4
LEMMA NothingGot == DOMAIN <<>> = {} /\ <<>> = [t \in DOMAIN <<>> |-> <<>>[t]]
OBVIOUS
LEMMA NoViewParts == NoView.kind = "none" /\ NoView.left = {} /\ NoView.unrest = 0
BY DEF NoView

\* What each kind of report asks, and that it is the same while the orders are.
LEMMA AnswersAre ==
  \A v : /\ v.kind = "stats" => Answers(v) = Stats(v.now)
         /\ v.kind = "analysis" => Answers(v) = Analysis(v.over)
         /\ v.kind = "mine" => Answers(v) = MyStats(v.now)
         /\ v.kind = "gstr1" => Answers(v) = Gstr1(v.over)
BY DEF Answers
LEMMA AnswerNames ==
  \A n, over : /\ DOMAIN Stats(n) = StatsNames /\ DOMAIN Analysis(over) = AnalysisNames
               /\ DOMAIN MyStats(n) = MineNames /\ DOMAIN Gstr1(over) = TaxNames
BY DEF Stats, Analysis, MyStats, Gstr1, StatsNames, AnalysisNames, MineNames, TaxNames
LEMMA AnswersStay ==
  ASSUME UNCHANGED sale
  PROVE  \A n, over : /\ Stats(n)' = Stats(n) /\ Analysis(over)' = Analysis(over)
                      /\ MyStats(n)' = MyStats(n) /\ Gstr1(over)' = Gstr1(over)
BY DEF Stats, Analysis, MyStats, Gstr1, Earning, SliceEarning, Placed, ByMonth

LEMMA FiguresStart == FigureInit => FigureInv
<1> SUFFICES ASSUME FigureInit PROVE FigureInv
  OBVIOUS
<1>1. sale = [o \in Sales |-> NoSale] /\ view = NoView /\ shown = [m \in YearMonths |-> {}] /\ thisMonth = 1 /\ lateMonths = {}
  BY DEF FigureInit
<1>2. NoSale \in SaleRows /\ SaleFits(NoSale)
  <2>1. NoSale = [NoSale EXCEPT !.placed = 0] /\ 0 \in 0 .. Year
    BY FigureConstantsOK DEF NoSale
  <2> QED BY <2>1, NewSale DEF SaleFits
<1>3. 1 \in YearMonths
  BY FigureConstantsOK DEF YearMonths
<1>4. FigureRest
  BY <1>1, <1>2, <1>3 DEF FigureRest
<1> QED BY <1>1, <1>4 DEF FigureInv

\* The months of a report are those of the present.
LEMMA MonthsToldNow ==
  ASSUME FigureRest
  PROVE  MonthsTold(ByMonth(Earning))
<1>1. PICK f : f = ByMonth(Earning)
  OBVIOUS
<1>2. f = [m \in YearMonths |-> Earning \intersect Placed({m})]
  BY <1>1 DEF ByMonth
<1>3. Earning \subseteq Sales
  BY DEF Earning, Placed
<1>4. f \in [YearMonths -> SUBSET Sales]
  BY <1>2, <1>3
<1>5. ASSUME NEW m \in YearMonths, NEW o \in f[m] PROVE Counted(o, m)
  <2>1. sale[o].placed = m /\ sale[o].is \in RevenueStatuses
    BY <1>2, <1>5 DEF Earning, Placed
  <2> QED BY <2>1 DEF Counted, RevenueStatuses
<1>6. ASSUME NEW m \in YearMonths, NEW o \in shown[m] \ f[m] PROVE sale[o].is \in TakenBack
  <2>1. o \in Sales /\ sale[o].placed = m /\ sale[o].is # "PENDING"
    BY <1>6 DEF FigureRest, Counted
  <2>2. o \in Placed({m}) /\ o \in Placed(YearMonths)
    BY <2>1 DEF Placed
  <2>3. sale[o].is \notin RevenueStatuses
    BY <1>2, <1>6, <2>2 DEF Earning
  <2>4. sale[o].is \in OrderStatuses
    BY <2>1, SaleParts DEF FigureRest
  <2> QED BY <2>1, <2>3, <2>4 DEF OrderStatuses, TakenBack
<1> QED BY <1>1, <1>4, <1>5, <1>6 DEF MonthsTold

LEMMA ViewStays ==
  ASSUME UNCHANGED <<sale, shown, lateMonths>>, thisMonth \in Nat, thisMonth' \in Nat, thisMonth' >= thisMonth,
         NEW v, ViewFits(v)
  PROVE  ViewFits(v)'
<1>1. UNCHANGED sale /\ UNCHANGED shown /\ UNCHANGED lateMonths
  OBVIOUS
<1>2. v.now \in 1 .. thisMonth'
  BY DEF ViewFits
<1>3. \A got, a : AsNow(got, a)' <=> AsNow(got, a)
  BY DEF AsNow
<1>4. \A f : MonthsTold(f)' <=> MonthsTold(f)
  BY <1>1 DEF MonthsTold, Counted
<1>5. StatsRead(v) => StatsRead(v)'
  <2>1. AsNow(v.got, Stats(v.now))' <=> AsNow(v.got, Stats(v.now))
    BY <1>1, AnswersStay DEF AsNow
  <2> QED BY <1>4, <2>1 DEF StatsRead
<1>6. AnalysisRead(v) => AnalysisRead(v)'
  <2>1. AsNow(v.got, Analysis(v.over))' <=> AsNow(v.got, Analysis(v.over))
    BY <1>1, AnswersStay DEF AsNow
  <2> QED BY <2>1 DEF AnalysisRead
<1>7. MineRead(v) => MineRead(v)'
  <2>1. AsNow(v.got, MyStats(v.now))' <=> AsNow(v.got, MyStats(v.now))
    BY <1>1, AnswersStay DEF AsNow
  <2> QED BY <2>1 DEF MineRead
<1>8. TaxRead(v) => TaxRead(v)'
  <2>1. AsNow(v.got, Gstr1(v.over))' <=> AsNow(v.got, Gstr1(v.over))
    BY <1>1, AnswersStay DEF AsNow
  <2> QED BY <1>1, <2>1 DEF TaxRead
<1> QED BY <1>2, <1>5, <1>6, <1>7, <1>8 DEF ViewFits, ViewShaped

LEMMA RestStays ==
  ASSUME FigureRest, UNCHANGED <<sale, shown, lateMonths>>, thisMonth' \in YearMonths
  PROVE  FigureRest'
BY DEF FigureRest, Counted, SaleFits

\* An order moves on while a report may be being read.
LEMMA SaleMoves ==
  ASSUME FigureInv, NEW o \in Sales, NEW row \in SaleRows, Becomes(o, row), SaleFits(row),
         lateMonths \subseteq lateMonths', lateMonths' \subseteq YearMonths,
         sale[o].placed # 0 => row.placed = sale[o].placed,
         sale[o].placed # 0 /\ sale[o].is # "PENDING" => row.is # "PENDING",
         sale[o].is \in TakenBack => row.is \in TakenBack,
         row.invoice = sale[o].invoice \/ (sale[o].invoice = 0 /\ row.invoice \in lateMonths' \union {thisMonth})
  PROVE  FigureInv'
<1>1. thisMonth' = thisMonth /\ shown' = shown /\ sale' = [sale EXCEPT ![o] = row]
  BY DEF Becomes
<1>2. FigureRest /\ sale \in [Sales -> SaleRows] /\ SaleFits(sale[o])
  BY DEF FigureInv, FigureRest
<1>3. sale' \in [Sales -> SaleRows] /\ sale'[o] = row /\ \A x \in Sales : x # o => sale'[x] = sale[x]
  BY <1>1, <1>2
<1>4. ASSUME NEW x \in Sales, NEW m \in YearMonths, Counted(x, m) PROVE Counted(x, m)'
  <2>1. m # 0
    BY MonthsOfYear
  <2>2. CASE x = o
    BY <1>3, <1>4, <2>1, <2>2 DEF Counted
  <2>3. CASE x # o
    BY <1>3, <1>4, <2>3 DEF Counted
  <2> QED BY <2>2, <2>3
<1>5. ASSUME NEW x \in Sales, sale[x].is \in TakenBack PROVE sale'[x].is \in TakenBack
  BY <1>3, <1>5
<1>6. FigureRest'
  <2>1. \A x \in Sales : SaleFits(sale'[x])
    <3>1. \A x \in Sales : SaleFits(sale[x])
      BY <1>2 DEF FigureRest
    <3>2. ASSUME NEW x \in Sales PROVE SaleFits(sale'[x])
      <4>1. CASE x = o
        BY <1>3, <4>1
      <4>2. CASE x # o
        BY <1>3, <3>1, <4>2
      <4> QED BY <4>1, <4>2
    <3> QED BY <3>2
  <2>2. \A m \in YearMonths : \A x \in shown'[m] : Counted(x, m)'
    <3>1. \A m \in YearMonths : \A x \in shown[m] : x \in Sales /\ Counted(x, m)
      BY <1>2 DEF FigureRest
    <3> QED BY <1>1, <1>4, <3>1
  <2>3. thisMonth' \in YearMonths /\ shown' \in [YearMonths -> SUBSET Sales]
    BY <1>1, <1>2 DEF FigureRest
  <2>4. \A x \in Sales : SaleFits(sale[x])'
    BY <2>1 DEF SaleFits
  <2> QED BY <1>3, <2>2, <2>3, <2>4 DEF FigureRest
<1>7. PICK v : v = view /\ (v = NoView \/ ViewFits(v))
  BY DEF FigureInv
<1>8. CASE v = NoView
  BY <1>6, <1>7, <1>8 DEF Becomes, FigureInv
<1>9. CASE v # NoView
  <2>1. ViewFits(v) /\ ViewShaped(v)
    BY <1>7, <1>9 DEF ViewFits
  <2>2. PICK w : w = [v EXCEPT !.unrest = v.unrest + 1]
    OBVIOUS
  <2>3. view' = w /\ v.unrest < MaxUnrest
    BY <1>7, <1>9, <2>2 DEF Becomes
  <2>4. /\ ViewShaped(w) /\ w.kind = v.kind /\ w.now = v.now /\ w.over = v.over /\ w.left = v.left
        /\ w.got = v.got /\ w.unrest = v.unrest + 1
    BY <2>1, <2>2, ViewDisturbed
  <2>5. w.unrest \in 0 .. MaxUnrest /\ w.unrest # 0 /\ w.now \in 1 .. thisMonth'
    BY <1>1, <2>1, <2>3, <2>4, FigureConstantsOK DEF ViewFits
  <2>6. ASSUME StatsRead(v) PROVE StatsRead(w)'
    <3>1. ASSUME NEW f, MonthsTold(f) PROVE MonthsTold(f)'
      <4>1. ASSUME NEW m \in YearMonths, NEW x \in f[m] PROVE Counted(x, m)'
        <5>1. x \in Sales /\ Counted(x, m)
          BY <3>1, <4>1 DEF MonthsTold
        <5> QED BY <1>4, <5>1
      <4>2. ASSUME NEW m \in YearMonths, NEW x \in shown[m] \ f[m] PROVE sale'[x].is \in TakenBack
        <5>1. x \in Sales /\ sale[x].is \in TakenBack
          BY <1>2, <3>1, <4>2 DEF MonthsTold, FigureRest
        <5> QED BY <1>5, <5>1
      <4> QED BY <1>1, <3>1, <4>1, <4>2 DEF MonthsTold
    <3> QED BY <2>4, <2>5, <2>6, <3>1 DEF StatsRead
  <2>7. ASSUME AnalysisRead(v) PROVE AnalysisRead(w)'
    BY <2>4, <2>5, <2>7 DEF AnalysisRead
  <2>8. ASSUME MineRead(v) PROVE MineRead(w)'
    BY <2>4, <2>5, <2>8 DEF MineRead
  <2>9. ASSUME TaxRead(v) PROVE TaxRead(w)'
    <3>1. ASSUME \A m \in w.over : m < w.now, w.over \intersect lateMonths' = {}
          PROVE  AsNow(w.got, Gstr1(w.over))'
      <4>1. AsNow(v.got, Gstr1(v.over)) /\ v.over \subseteq YearMonths
        BY <2>4, <2>9, <3>1 DEF TaxRead
      <4>2. thisMonth \notin v.over
        <5>1. v.now \in 1 .. thisMonth /\ thisMonth \in Nat
          BY <1>2, <2>1, MonthsOfYear DEF ViewFits, FigureRest
        <5>2. ~ (thisMonth < v.now)
          BY <5>1
        <5> QED BY <2>4, <3>1, <5>2
      <4>3. 0 \notin v.over
        BY <4>1, MonthsOfYear
      <4>4. sale'[o].invoice \in v.over <=> sale[o].invoice \in v.over
        <5>1. CASE row.invoice = sale[o].invoice
          BY <1>3, <5>1
        <5>2. CASE sale[o].invoice = 0 /\ row.invoice \in lateMonths' \union {thisMonth}
          BY <1>3, <2>4, <3>1, <4>2, <4>3, <5>2
        <5> QED BY <5>1, <5>2
      <4>5. \A x \in Sales : sale'[x].invoice \in v.over <=> sale[x].invoice \in v.over
        BY <1>3, <4>4
      <4>6. Gstr1(v.over)' = Gstr1(v.over)
        BY <4>5 DEF Gstr1
      <4> QED BY <2>4, <4>1, <4>6 DEF AsNow
    <3> QED BY <2>4, <2>5, <2>9, <3>1 DEF TaxRead
  <2>10. w.got = [t \in DOMAIN w.got |-> w.got[t]] /\ ViewShaped(w)'
    BY <2>1, <2>4 DEF ViewFits, ViewShaped
  <2>11. ViewFits(w)'
    BY <2>1, <2>5, <2>6, <2>7, <2>8, <2>9, <2>10 DEF ViewFits
  <2> QED BY <1>6, <2>3, <2>11 DEF FigureInv
<1> QED BY <1>8, <1>9

\* What can become of an order.
LEMMA SaleGoesOn ==
  ASSUME FigureInv, NEW o \in Sales,
         \/ PlaceSale(o) \/ ConfirmSale(o) \/ DeliverSale(o) \/ CancelSale(o)
         \/ \E full \in BOOLEAN : RefundSale(o, full)
         \/ \E m \in YearMonths : InvoiceSale(o, m)
         \/ PayoutSale(o, "PENDING", "PROCESSING") \/ PayoutSale(o, "PROCESSING", "PAID")
         \/ PayoutSale(o, "PROCESSING", "PENDING")
  PROVE  FigureInv'
<1>1. PICK row : row = sale[o]
  OBVIOUS
<1>2. /\ row \in SaleRows /\ SaleFits(row) /\ thisMonth \in YearMonths /\ lateMonths \subseteq YearMonths
      /\ row.slice \in OrderStatuses /\ row.is \in OrderStatuses
  BY <1>1, SaleParts DEF FigureInv, FigureRest
<1>3. thisMonth \in 0 .. Year /\ thisMonth # 0
  BY <1>2, MonthsOfYear
<1>4. /\ "CONFIRMED" \in OrderStatuses /\ "DELIVERED" \in OrderStatuses /\ "CANCELLED" \in OrderStatuses
      /\ "REFUNDED" \in OrderStatuses /\ {"PROCESSING", "PAID", "PENDING"} = PayoutMarks
  BY StatusWords DEF PayoutMarks
<1>5. CASE PlaceSale(o)
  <2>1. PICK new : new = [NoSale EXCEPT !.placed = thisMonth]
    OBVIOUS
  <2>2. new \in SaleRows /\ new.placed = thisMonth /\ new.is = "PENDING" /\ new.invoice = 0 /\ new.slice = "PENDING"
    BY <1>3, <2>1, NewSale
  <2>3. Becomes(o, new) /\ lateMonths' = lateMonths /\ row.placed = 0
    BY <1>1, <1>5, <2>1 DEF PlaceSale
  <2>4. row.is = "PENDING" /\ row.invoice = 0 /\ SaleFits(new)
    BY <1>2, <2>2, <2>3 DEF SaleFits
  <2> QED BY <1>1, <1>2, <2>2, <2>3, <2>4, SaleMoves DEF TakenBack
<1>6. CASE ConfirmSale(o)
  <2>1. PICK new : new = [row EXCEPT !.slice = "CONFIRMED"]
    OBVIOUS
  <2>2. new \in SaleRows /\ new.placed = row.placed /\ new.is = row.is /\ new.slice = "CONFIRMED" /\ new.invoice = row.invoice
    BY <1>2, <1>4, <2>1, SaleConfirmed
  <2>3. Becomes(o, new) /\ lateMonths' = lateMonths /\ row.placed # 0 /\ row.slice = "PENDING"
    BY <1>1, <1>6, <2>1 DEF ConfirmSale, Settled
  <2>4. row.is = "PENDING" /\ SaleFits(new)
    BY <1>2, <2>2, <2>3 DEF SaleFits
  <2> QED BY <1>1, <1>2, <2>2, <2>3, <2>4, SaleMoves
<1>7. CASE DeliverSale(o)
  <2>1. PICK slice \in OrderStatuses : slice = "DELIVERED"
    BY <1>4
  <2>2. PICK new : new = SlicedSale(row, slice)
    OBVIOUS
  <2>3. new \in SaleRows /\ new.placed = row.placed /\ new.is = "DELIVERED" /\ new.slice = "DELIVERED" /\ new.invoice = row.invoice
    BY <1>2, <2>1, <2>2, SaleSliced
  <2>4. Becomes(o, new) /\ lateMonths' = lateMonths /\ row.placed # 0 /\ row.slice = "CONFIRMED"
    BY <1>1, <1>7, <2>1, <2>2 DEF DeliverSale, Settled, SlicedSale
  <2>5. row.is \notin TakenBack /\ SaleFits(new)
    BY <1>2, <2>3, <2>4 DEF SaleFits, TakenBack
  <2> QED BY <1>1, <1>2, <2>3, <2>4, <2>5, SaleMoves
<1>8. CASE CancelSale(o)
  <2>1. PICK slice \in OrderStatuses : slice = "CANCELLED"
    BY <1>4
  <2>2. PICK new : new = SlicedSale(row, slice)
    OBVIOUS
  <2>3. new \in SaleRows /\ new.placed = row.placed /\ new.is = "CANCELLED" /\ new.slice = "CANCELLED" /\ new.invoice = row.invoice
    BY <1>2, <2>1, <2>2, SaleSliced
  <2>4. Becomes(o, new) /\ lateMonths' = lateMonths /\ row.placed # 0
    BY <1>1, <1>8, <2>1, <2>2 DEF CancelSale, Settled, SlicedSale
  <2>5. new.is \in TakenBack /\ new.is # "PENDING" /\ SaleFits(new)
    BY <2>3, <2>4 DEF SaleFits, TakenBack
  <2> QED BY <1>1, <1>2, <2>3, <2>4, <2>5, SaleMoves
<1>9. ASSUME NEW full \in BOOLEAN, RefundSale(o, full) PROVE FigureInv'
  <2>1. PICK slice \in OrderStatuses : slice = IF full /\ row.slice # "CANCELLED" THEN "REFUNDED" ELSE row.slice
    BY <1>2, <1>4
  <2>2. PICK new : new = RefundedSale(row, thisMonth, slice)
    OBVIOUS
  <2>3. new \in SaleRows /\ new.placed = row.placed /\ new.is = slice /\ new.slice = slice /\ new.invoice = row.invoice
    BY <1>2, <1>3, <2>2, SaleRefunded
  <2>4. Becomes(o, new) /\ lateMonths' = lateMonths /\ row.placed # 0
    BY <1>1, <1>9, <2>1, <2>2 DEF RefundSale, Settled, RefundedSale
  <2>5. SaleFits(new)
    BY <2>3, <2>4 DEF SaleFits
  <2>6. row.is # "PENDING" => new.is # "PENDING"
    BY <1>2, <2>1, <2>3 DEF SaleFits
  <2>7. row.is \in TakenBack => new.is \in TakenBack
    BY <1>2, <2>1, <2>3 DEF SaleFits, TakenBack
  <2> QED BY <1>1, <1>2, <2>3, <2>4, <2>5, <2>6, <2>7, SaleMoves
<1>10. ASSUME NEW m \in YearMonths, InvoiceSale(o, m) PROVE FigureInv'
  <2>1. m \in 0 .. Year /\ m \in Nat /\ thisMonth \in Nat
    BY <1>2, MonthsOfYear
  <2>2. PICK new : new = [row EXCEPT !.invoice = m]
    OBVIOUS
  <2>3. new \in SaleRows /\ new.placed = row.placed /\ new.is = row.is /\ new.slice = row.slice /\ new.invoice = m
    BY <1>2, <2>1, <2>2, SaleInvoiced
  <2>4. Becomes(o, new) /\ row.placed # 0 /\ row.invoice = 0 /\ m \in {thisMonth, thisMonth - 1}
        /\ lateMonths' = IF m < thisMonth THEN lateMonths \union {m} ELSE lateMonths
    BY <1>1, <1>10, <2>2 DEF InvoiceSale
  <2>5. m \in lateMonths' \union {thisMonth} /\ lateMonths \subseteq lateMonths' /\ lateMonths' \subseteq YearMonths
    BY <1>2, <2>1, <2>4
  <2>6. SaleFits(new)
    BY <1>2, <2>3, <2>4 DEF SaleFits
  <2> QED BY <1>1, <2>3, <2>4, <2>5, <2>6, SaleMoves
<1>11. ASSUME NEW from \in PayoutMarks, NEW to \in PayoutMarks, PayoutSale(o, from, to) PROVE FigureInv'
  <2>1. PICK new : new = [row EXCEPT !.payout = to]
    OBVIOUS
  <2>2. new \in SaleRows /\ new.placed = row.placed /\ new.is = row.is /\ new.slice = row.slice /\ new.invoice = row.invoice
    BY <1>2, <2>1, SalePaidOut
  <2>3. Becomes(o, new) /\ lateMonths' = lateMonths /\ row.placed # 0
    BY <1>1, <1>11, <2>1 DEF PayoutSale, Settled
  <2>4. SaleFits(new)
    BY <1>2, <2>2, <2>3 DEF SaleFits
  <2> QED BY <1>1, <1>2, <2>2, <2>3, <2>4, SaleMoves
<1> QED BY <1>4, <1>5, <1>6, <1>7, <1>8, <1>9, <1>10, <1>11

LEMMA MonthPasses ==
  ASSUME FigureInv, NextMonth
  PROVE  FigureInv'
<1>1. UNCHANGED <<sale, view, shown, lateMonths>> /\ thisMonth' = thisMonth + 1 /\ thisMonth \in YearMonths /\ thisMonth < Year
  BY DEF NextMonth, FigureInv, FigureRest
<1>2. thisMonth' \in YearMonths /\ thisMonth \in Nat /\ thisMonth' \in Nat /\ thisMonth' >= thisMonth
  BY <1>1, FigureConstantsOK DEF YearMonths
<1>3. FigureRest'
  BY <1>1, <1>2, RestStays DEF FigureInv
<1>4. PICK v : v = view /\ (v = NoView \/ ViewFits(v))
  BY DEF FigureInv
<1>5. view' = v /\ (v = NoView \/ ViewFits(v)')
  BY <1>1, <1>2, <1>4, ViewStays
<1> QED BY <1>3, <1>5 DEF FigureInv

\* A report that fits is read on.
LEMMA ReadingGoesOn ==
  ASSUME FigureInv, UNCHANGED <<thisMonth, sale, shown, lateMonths>>, NEW w, view' = w, ViewFits(w)
  PROVE  FigureInv'
<1>1. thisMonth \in Nat /\ thisMonth' = thisMonth /\ FigureRest /\ thisMonth' \in YearMonths
  BY MonthsOfYear DEF FigureInv, FigureRest
<1>2. FigureRest'
  BY <1>1, RestStays
<1>3. ViewFits(w)'
  BY <1>1, ViewStays
<1> QED BY <1>2, <1>3 DEF FigureInv

\* A range is neither empty nor too wide.
LEMMA WindowBounded ==
  ASSUME NEW from \in Int, NEW to \in Int
  PROVE  Cardinality(Window(from, to)) \in 1 .. MaxRange
<1>1. PICK start \in Int : start = IF from >= to THEN to - UsualRange ELSE from
  BY FigureConstantsOK
<1>2. PICK a \in Int : a = IF to - start > MaxRange THEN to - MaxRange ELSE start
  <2>1. to - MaxRange \in Int /\ start \in Int
    BY FigureConstantsOK
  <2> QED BY <2>1
<1>3. Window(from, to) = a .. (to - 1)
  BY <1>1, <1>2 DEF Window
<1>4. to - a \in 1 .. MaxRange
  BY <1>1, <1>2, FigureConstantsOK
<1>5. Cardinality(a .. (to - 1)) = (to - 1) - a + 1
  BY <1>4, FS_Interval
<1> QED BY <1>3, <1>4, <1>5

LEMMA FiguresAsked ==
  ASSUME FigureInv, NEW kind, NEW over, AskFigures(kind, over),
         \/ kind \in {"stats", "mine"}
         \/ kind = "analysis" /\ Cardinality(over) \in 1 .. MaxRange
         \/ kind = "gstr1" /\ over \subseteq YearMonths
  PROVE  FigureInv'
<1>1. PICK now : now = thisMonth
  OBVIOUS
<1>2. PICK asked : asked = AskedView(kind, now, over)
  OBVIOUS
<1>3. PICK left : left = DOMAIN Answers(asked)
  OBVIOUS
<1>4. PICK w : w = OpenView(asked, left)
  OBVIOUS
<1>5. view' = w /\ UNCHANGED <<thisMonth, sale, shown, lateMonths>>
  BY <1>1, <1>2, <1>3, <1>4 DEF AskFigures, AskedView, OpenView
<1>6. /\ asked.kind = kind /\ asked.now = now /\ asked.over = over
      /\ ViewShaped(w) /\ w.kind = kind /\ w.now = now /\ w.over = over /\ w.left = left
      /\ w.got = <<>> /\ w.unrest = 0
  BY <1>2, <1>4, ViewAsked
<1>7. DOMAIN w.got = {} /\ w.got = [t \in DOMAIN w.got |-> w.got[t]]
  BY <1>6, NothingGot
<1>8. \A a : AsNow(w.got, a)
  BY <1>7 DEF AsNow
<1>9. w.now \in 1 .. thisMonth /\ w.unrest \in 0 .. MaxUnrest
  BY <1>1, <1>6, FigureConstantsOK, MonthsOfYear DEF FigureInv, FigureRest, YearMonths
<1>10. StatsRead(w) \/ AnalysisRead(w) \/ MineRead(w) \/ TaxRead(w)
  <2>1. CASE kind = "stats"
    BY <1>3, <1>6, <1>7, <1>8, <2>1, AnswersAre, AnswerNames DEF StatsRead
  <2>2. CASE kind = "mine"
    BY <1>3, <1>6, <1>7, <1>8, <2>2, AnswersAre, AnswerNames DEF MineRead
  <2>3. CASE kind = "analysis" /\ Cardinality(over) \in 1 .. MaxRange
    BY <1>3, <1>6, <1>7, <1>8, <2>3, AnswersAre, AnswerNames DEF AnalysisRead
  <2>4. CASE kind = "gstr1" /\ over \subseteq YearMonths
    BY <1>3, <1>6, <1>7, <1>8, <2>4, AnswersAre, AnswerNames DEF TaxRead
  <2> QED BY <2>1, <2>2, <2>3, <2>4
<1>11. ViewFits(w)
  BY <1>6, <1>7, <1>9, <1>10 DEF ViewFits
<1> QED BY <1>5, <1>11, ReadingGoesOn

LEMMA FigureAnswered ==
  ASSUME FigureInv, NEW s \in view.left, AnswerFigure(s)
  PROVE  FigureInv'
<1>1. PICK v : v = view /\ (v = NoView \/ ViewFits(v))
  BY DEF FigureInv
<1>2. s \in v.left /\ ViewFits(v) /\ ViewShaped(v)
  BY <1>1, NoViewParts DEF ViewFits
<1>3. PICK answers : answers = Answers(v)
  OBVIOUS
<1>4. PICK left : left = v.left \ {s}
  OBVIOUS
<1>5. PICK got : got = [t \in DOMAIN v.got \union {s} |-> IF t = s THEN answers[s] ELSE v.got[t]]
  OBVIOUS
<1>6. PICK w : w = AnsweredView(v, left, got)
  OBVIOUS
<1>7. view' = w /\ UNCHANGED <<thisMonth, sale, shown, lateMonths>>
  BY <1>1, <1>3, <1>4, <1>5, <1>6 DEF AnswerFigure, AnsweredView
<1>8. /\ ViewShaped(w) /\ w.kind = v.kind /\ w.now = v.now /\ w.over = v.over /\ w.left = left
      /\ w.got = got /\ w.unrest = v.unrest
  BY <1>2, <1>6, ViewAnswered
<1>9. /\ DOMAIN got = DOMAIN v.got \union {s} /\ got = [t \in DOMAIN got |-> got[t]] /\ got[s] = answers[s]
      /\ \A t \in DOMAIN v.got : t # s => got[t] = v.got[t]
  BY <1>5
<1>10. AsNow(v.got, answers) => AsNow(got, answers)
  BY <1>9 DEF AsNow
<1>11. w.left \union DOMAIN w.got = v.left \union DOMAIN v.got
  BY <1>2, <1>4, <1>8, <1>9
<1>12. ASSUME StatsRead(v) PROVE StatsRead(w)
  <2>1. answers = Stats(v.now)
    BY <1>3, <1>12, AnswersAre DEF StatsRead
  <2>2. ASSUME "monthly" \in DOMAIN got PROVE MonthsTold(got["monthly"])
    <3>1. CASE s = "monthly"
      <4>1. Stats(v.now)["monthly"] = ByMonth(Earning)
        BY DEF Stats
      <4> QED BY <1>9, <2>1, <3>1, <4>1, MonthsToldNow DEF FigureInv
    <3>2. CASE s # "monthly"
      BY <1>9, <1>12, <2>2, <3>2 DEF StatsRead
    <3> QED BY <3>1, <3>2
  <2> QED BY <1>8, <1>10, <1>11, <1>12, <2>1, <2>2 DEF StatsRead
<1>13. ASSUME AnalysisRead(v) PROVE AnalysisRead(w)
  <2>1. answers = Analysis(v.over)
    BY <1>3, <1>13, AnswersAre DEF AnalysisRead
  <2> QED BY <1>8, <1>10, <1>11, <1>13, <2>1 DEF AnalysisRead
<1>14. ASSUME MineRead(v) PROVE MineRead(w)
  <2>1. answers = MyStats(v.now)
    BY <1>3, <1>14, AnswersAre DEF MineRead
  <2> QED BY <1>8, <1>10, <1>11, <1>14, <2>1 DEF MineRead
<1>15. ASSUME TaxRead(v) PROVE TaxRead(w)
  <2>1. answers = Gstr1(v.over)
    BY <1>3, <1>15, AnswersAre DEF TaxRead
  <2> QED BY <1>8, <1>10, <1>11, <1>15, <2>1 DEF TaxRead
<1>16. ViewFits(w)
  BY <1>2, <1>8, <1>9, <1>12, <1>13, <1>14, <1>15 DEF ViewFits
<1> QED BY <1>7, <1>16, ReadingGoesOn

LEMMA FiguresShown ==
  ASSUME FigureInv, ShowFigures
  PROVE  FigureInv'
<1>1. PICK v : v = view /\ ViewFits(v)
  BY DEF FigureInv, ShowFigures
<1>2. UNCHANGED <<thisMonth, sale, lateMonths>> /\ view' = NoView /\ v.left = {}
  BY <1>1 DEF ShowFigures
<1>3. FigureRest
  BY DEF FigureInv
<1>4. shown' \in [YearMonths -> SUBSET Sales] /\ \A m \in YearMonths : \A o \in shown'[m] : Counted(o, m)
  <2>1. CASE v.kind = "stats"
    <3>1. StatsRead(v)
      BY <1>1, <2>1 DEF ViewFits, AnalysisRead, MineRead, TaxRead
    <3>2. MonthsTold(v.got["monthly"])
      <4>1. "monthly" \in DOMAIN v.got
        BY <1>2, <3>1 DEF StatsRead, StatsNames
      <4> QED BY <3>1, <4>1 DEF StatsRead
    <3>3. PICK f : f = v.got["monthly"]
      OBVIOUS
    <3>4. shown' = [m \in YearMonths |-> shown[m] \union f[m]]
      BY <1>1, <2>1, <3>3 DEF ShowFigures
    <3> QED BY <1>3, <3>2, <3>3, <3>4 DEF MonthsTold, FigureRest
  <2>2. CASE v.kind # "stats"
    BY <1>1, <1>3, <2>2 DEF ShowFigures, FigureRest
  <2> QED BY <2>1, <2>2
<1>5. FigureRest'
  BY <1>2, <1>3, <1>4 DEF FigureRest, Counted, SaleFits
<1> QED BY <1>2, <1>5 DEF FigureInv

LEMMA FigureStep == FigureInv /\ [FigureNext]_figureVars => FigureInv'
<1> SUFFICES ASSUME FigureInv, [FigureNext]_figureVars PROVE FigureInv'
  OBVIOUS
<1>1. CASE UNCHANGED figureVars
  <2>1. UNCHANGED <<thisMonth, sale, shown, lateMonths>> /\ view' = view
    BY <1>1 DEF figureVars
  <2>2. PICK v : v = view /\ (v = NoView \/ ViewFits(v))
    BY DEF FigureInv
  <2>3. thisMonth \in Nat /\ thisMonth' = thisMonth /\ FigureRest /\ thisMonth' \in YearMonths
    BY <2>1, MonthsOfYear DEF FigureInv, FigureRest
  <2>4. FigureRest'
    BY <2>1, <2>3, RestStays
  <2>5. view' = v /\ (v = NoView \/ ViewFits(v)')
    BY <2>1, <2>2, <2>3, ViewStays
  <2> QED BY <2>4, <2>5 DEF FigureInv
<1>2. CASE NextMonth
  BY <1>2, MonthPasses
<1>3. CASE ShowFigures
  BY <1>3, FiguresShown
<1>4. CASE \E o \in Sales :
              \/ PlaceSale(o) \/ ConfirmSale(o) \/ DeliverSale(o) \/ CancelSale(o)
              \/ \E full \in BOOLEAN : RefundSale(o, full)
              \/ \E m \in YearMonths : InvoiceSale(o, m)
              \/ PayoutSale(o, "PENDING", "PROCESSING") \/ PayoutSale(o, "PROCESSING", "PAID")
              \/ PayoutSale(o, "PROCESSING", "PENDING")
  BY <1>4, SaleGoesOn
<1>5. CASE \E kind \in {"stats", "mine"} : AskFigures(kind, {})
  BY <1>5, FiguresAsked
<1>6. CASE \E from \in YearMonths, to \in YearMonths \union {thisMonth + 1} : AskFigures("analysis", Window(from, to))
  <2>1. PICK from \in YearMonths, to \in YearMonths \union {thisMonth + 1} : AskFigures("analysis", Window(from, to))
    BY <1>6
  <2>2. from \in Int /\ to \in Int
    BY MonthsOfYear DEF FigureInv, FigureRest
  <2>3. PICK over : over = Window(from, to)
    OBVIOUS
  <2>4. Cardinality(over) \in 1 .. MaxRange
    BY <2>2, <2>3, WindowBounded
  <2> QED BY <2>1, <2>3, <2>4, FiguresAsked
<1>7. CASE \E m \in YearMonths : AskFigures("gstr1", {m})
  <2>1. PICK m \in YearMonths : AskFigures("gstr1", {m})
    BY <1>7
  <2>2. {m} \subseteq YearMonths
    OBVIOUS
  <2> QED BY <2>1, <2>2, FiguresAsked
<1>8. CASE \E s \in view.left : AnswerFigure(s)
  BY <1>8, FigureAnswered
<1> QED BY <1>1, <1>2, <1>3, <1>4, <1>5, <1>6, <1>7, <1>8 DEF FigureNext

LEMMA FiguresTyped == FigureInv => FigureTypeOK
<1> SUFFICES ASSUME FigureInv PROVE FigureTypeOK
  OBVIOUS
<1>1. PICK v : v = view /\ (v = NoView \/ ViewFits(v))
  BY DEF FigureInv
<1>2. /\ thisMonth \in YearMonths /\ lateMonths \subseteq YearMonths /\ sale \in [Sales -> SaleRows]
      /\ shown \in [YearMonths -> SUBSET Sales]
  BY DEF FigureInv, FigureRest
<1>3. SaleRows = [placed : 0 .. Year, is : OrderStatuses, slice : OrderStatuses, refund : 0 .. Year,
                  invoice : 0 .. Year, payout : {"PENDING", "PROCESSING", "PAID"}]
  BY DEF SaleRows, PayoutMarks
<1>4. /\ v.kind \in {"none", "stats", "analysis", "mine", "gstr1"} /\ v.unrest \in 0 .. MaxUnrest
      /\ v # NoView => v.left \union DOMAIN v.got = DOMAIN Answers(v)
  <2>1. CASE v = NoView
    BY <2>1, NoViewParts, FigureConstantsOK
  <2>2. CASE ViewFits(v)
    <3>1. v.unrest \in 0 .. MaxUnrest
      BY <2>2 DEF ViewFits
    <3>2. CASE StatsRead(v)
      BY <3>1, <3>2, AnswersAre, AnswerNames DEF StatsRead
    <3>3. CASE AnalysisRead(v)
      BY <3>1, <3>3, AnswersAre, AnswerNames DEF AnalysisRead
    <3>4. CASE MineRead(v)
      BY <3>1, <3>4, AnswersAre, AnswerNames DEF MineRead
    <3>5. CASE TaxRead(v)
      BY <3>1, <3>5, AnswersAre, AnswerNames DEF TaxRead
    <3> QED BY <2>2, <3>2, <3>3, <3>4, <3>5 DEF ViewFits
  <2> QED BY <1>1, <2>1, <2>2
<1> QED BY <1>1, <1>2, <1>3, <1>4 DEF FigureTypeOK

\* What a whole report is made of, when nothing disturbed it.
LEMMA MonthsWhole == \A orders : (\A o \in orders : o \in Placed(YearMonths)) => UNION {ByMonth(orders)[m] : m \in YearMonths} = orders
<1> SUFFICES ASSUME NEW orders, \A o \in orders : o \in Placed(YearMonths)
             PROVE  UNION {ByMonth(orders)[m] : m \in YearMonths} = orders
  OBVIOUS
<1>1. \A m \in YearMonths : ByMonth(orders)[m] = orders \intersect Placed({m})
  BY DEF ByMonth
<1>2. ASSUME NEW o \in orders PROVE \E m \in YearMonths : o \in ByMonth(orders)[m]
  <2>1. o \in Sales /\ sale[o].placed \in YearMonths
    BY DEF Placed
  <2>2. PICK m \in YearMonths : m = sale[o].placed
    BY <2>1
  <2>3. o \in Placed({m})
    BY <2>1, <2>2 DEF Placed
  <2> QED BY <1>1, <2>3
<1>3. ASSUME NEW m \in YearMonths PROVE ByMonth(orders)[m] \subseteq orders
  BY <1>1
<1> QED BY <1>2, <1>3

LEMMA StatsAddUp ==
  ASSUME FigureInv, NEW now \in YearMonths, NEW got, DOMAIN got = StatsNames, AsNow(got, Stats(now))
  PROVE  /\ got.monthly[now] = got.current
         /\ now > 1 => got.monthly[now - 1] = got.previous
         /\ UNION {got.monthly[m] : m \in YearMonths} = got.all
<1>1. got.monthly = ByMonth(Earning) /\ got.current = Earning \intersect Placed({now})
      /\ got.previous = Earning \intersect Placed({now - 1}) /\ got.all = Earning
  BY DEF AsNow, Stats, StatsNames
<1>2. \A m \in YearMonths : ByMonth(Earning)[m] = Earning \intersect Placed({m})
  BY DEF ByMonth
<1>3. now > 1 => now - 1 \in YearMonths
  BY FigureConstantsOK DEF YearMonths
<1>4. \A o \in Earning : o \in Placed(YearMonths)
  BY DEF Earning
<1>5. UNION {ByMonth(Earning)[m] : m \in YearMonths} = Earning
  BY <1>4, MonthsWhole
<1> QED BY <1>1, <1>2, <1>3, <1>5

LEMMA MineAddUp ==
  ASSUME FigureInv, NEW now \in YearMonths, NEW got, DOMAIN got = MineNames, AsNow(got, MyStats(now))
  PROVE  /\ got.monthly[now] = got.net
         /\ UNION {got.monthly[m] : m \in YearMonths} = got.lifetime
         /\ got.pending \intersect got.paid = {}
         /\ got.lifetime \ (got.pending \union got.paid) = {o \in SliceEarning : sale[o].payout = "PROCESSING"}
<1>1. got.monthly = ByMonth(SliceEarning) /\ got.net = SliceEarning \intersect Placed({now}) /\ got.lifetime = SliceEarning
      /\ got.pending = {o \in SliceEarning : sale[o].payout = "PENDING"} /\ got.paid = {o \in Sales : sale[o].payout = "PAID"}
  BY DEF AsNow, MyStats, MineNames
<1>2. ByMonth(SliceEarning)[now] = SliceEarning \intersect Placed({now})
  BY DEF ByMonth
<1>3. \A o \in SliceEarning : o \in Placed(YearMonths)
  BY DEF SliceEarning
<1>4. UNION {ByMonth(SliceEarning)[m] : m \in YearMonths} = SliceEarning
  BY <1>3, MonthsWhole
<1>5. \A o \in SliceEarning : o \in Sales /\ sale[o].payout \in {"PENDING", "PROCESSING", "PAID"}
  BY SaleParts DEF SliceEarning, Placed, FigureInv, FigureRest, PayoutMarks
<1> QED BY <1>1, <1>2, <1>4, <1>5

LEMMA AnalysisAddsUp ==
  ASSUME FigureInv, NEW over, NEW got, DOMAIN got = AnalysisNames, AsNow(got, Analysis(over))
  PROVE  /\ UNION {got.series[m] : m \in over} = got.gross
         /\ UNION {got.statuses[s] : s \in RevenueStatuses} = got.gross
         /\ UNION {got.statuses[s] : s \in OrderStatuses} = Placed(over)
<1>1. /\ got.gross = Earning \intersect Placed(over)
      /\ got.series = [m \in over |-> Earning \intersect Placed({m})]
      /\ got.statuses = [s \in OrderStatuses |-> {o \in Placed(over) : sale[o].is = s}]
  BY DEF AsNow, Analysis, AnalysisNames
<1>2. \A m \in over : got.series[m] = Earning \intersect Placed({m})
  BY <1>1
<1>3. \A s \in OrderStatuses : got.statuses[s] = {o \in Placed(over) : sale[o].is = s}
  BY <1>1
<1>4. ASSUME NEW o \in Placed(over) PROVE o \in Placed(YearMonths) /\ sale[o].is \in OrderStatuses /\ \E m \in over : o \in Placed({m})
  <2>1. o \in Sales /\ sale[o].placed \in over /\ sale[o].placed \in YearMonths
    BY DEF Placed
  <2>2. PICK m \in over : m = sale[o].placed
    BY <2>1
  <2>3. o \in Placed({m}) /\ o \in Placed(YearMonths)
    BY <2>1, <2>2 DEF Placed
  <2>4. sale[o].is \in OrderStatuses
    BY <2>1, SaleParts DEF FigureInv, FigureRest
  <2> QED BY <2>3, <2>4
<1>5. ASSUME NEW m \in over, NEW o \in Placed({m}) PROVE o \in Placed(over)
  BY DEF Placed
<1>6. UNION {got.series[m] : m \in over} = Earning \intersect Placed(over)
  <2>1. ASSUME NEW m \in over, NEW o \in got.series[m] PROVE o \in Earning \intersect Placed(over)
    BY <1>2, <1>5, <2>1
  <2>2. ASSUME NEW o \in Earning \intersect Placed(over) PROVE \E m \in over : o \in got.series[m]
    BY <1>2, <1>4, <2>2
  <2> QED BY <2>1, <2>2
<1>7. \A o \in Placed(over) : o \in Earning <=> sale[o].is \in RevenueStatuses
  BY <1>4 DEF Earning
<1>8. RevenueStatuses \subseteq OrderStatuses
  BY DEF OrderStatuses
<1>9. UNION {got.statuses[s] : s \in RevenueStatuses} = Earning \intersect Placed(over)
  BY <1>3, <1>7, <1>8
<1>10. UNION {got.statuses[s] : s \in OrderStatuses} = Placed(over)
  BY <1>3, <1>4
<1> QED BY <1>1, <1>6, <1>9, <1>10

LEMMA FiguresAgreed == FigureInv => ReportsAgree
<1> SUFFICES ASSUME FigureInv PROVE ReportsAgree
  OBVIOUS
<1>1. PICK v : v = view /\ (v = NoView \/ ViewFits(v))
  BY DEF FigureInv
<1>2. CASE v = NoView
  BY <1>1, <1>2, NoViewParts DEF ReportsAgree, PartsAddUp, Complete
<1>3. CASE ViewFits(v)
  <2>1. v.now \in YearMonths
    BY <1>3, MonthsOfYear DEF ViewFits, FigureInv, FigureRest, YearMonths
  <2>2. ASSUME v.left = {}, v.kind = "stats"
        PROVE  /\ v.unrest = 0 => /\ v.got.monthly[v.now] = v.got.current
                                  /\ v.now > 1 => v.got.monthly[v.now - 1] = v.got.previous
                                  /\ UNION {v.got.monthly[m] : m \in YearMonths} = v.got.all
               /\ \A m \in YearMonths : \A o \in shown[m] \ v.got.monthly[m] : sale[o].is \in {"REFUNDED", "CANCELLED"}
    <3>1. StatsRead(v)
      BY <1>3, <2>2 DEF ViewFits, AnalysisRead, MineRead, TaxRead
    <3>2. DOMAIN v.got = StatsNames /\ "monthly" \in StatsNames
      BY <2>2, <3>1 DEF StatsRead, StatsNames
    <3>3. v.unrest = 0 => AsNow(v.got, Stats(v.now))
      BY <3>1 DEF StatsRead
    <3>4. MonthsTold(v.got["monthly"])
      BY <3>1, <3>2 DEF StatsRead
    <3> QED BY <2>1, <3>2, <3>3, <3>4, StatsAddUp DEF MonthsTold, TakenBack
  <2>3. ASSUME v.left = {}, v.kind = "analysis"
        PROVE  /\ v.unrest = 0 => /\ UNION {v.got.series[m] : m \in v.over} = v.got.gross
                                  /\ UNION {v.got.statuses[s] : s \in RevenueStatuses} = v.got.gross
                                  /\ UNION {v.got.statuses[s] : s \in OrderStatuses} = Placed(v.over)
               /\ Cardinality(v.over) \in 1 .. MaxRange
    <3>1. AnalysisRead(v)
      BY <1>3, <2>3 DEF ViewFits, StatsRead, MineRead, TaxRead
    <3>2. DOMAIN v.got = AnalysisNames /\ (v.unrest = 0 => AsNow(v.got, Analysis(v.over))) /\ Cardinality(v.over) \in 1 .. MaxRange
      BY <2>3, <3>1 DEF AnalysisRead
    <3> QED BY <3>2, AnalysisAddsUp
  <2>4. ASSUME v.left = {}, v.kind = "mine", v.unrest = 0
        PROVE  /\ v.got.monthly[v.now] = v.got.net
               /\ UNION {v.got.monthly[m] : m \in YearMonths} = v.got.lifetime
               /\ v.got.pending \intersect v.got.paid = {}
               /\ v.got.lifetime \ (v.got.pending \union v.got.paid) = {o \in SliceEarning : sale[o].payout = "PROCESSING"}
    <3>1. MineRead(v)
      BY <1>3, <2>4 DEF ViewFits, StatsRead, AnalysisRead, TaxRead
    <3>2. DOMAIN v.got = MineNames /\ AsNow(v.got, MyStats(v.now))
      BY <2>4, <3>1 DEF MineRead
    <3> QED BY <2>1, <3>2, MineAddUp
  <2>5. ASSUME v.left = {}, v.kind = "gstr1", \A m \in v.over : m < v.now, v.over \intersect lateMonths = {}
        PROVE  v.got = Gstr1(v.over)
    <3>1. TaxRead(v)
      BY <1>3, <2>5 DEF ViewFits, StatsRead, AnalysisRead, MineRead
    <3>2. DOMAIN v.got = {"invoices"} /\ AsNow(v.got, Gstr1(v.over)) /\ v.got = [t \in DOMAIN v.got |-> v.got[t]]
      BY <1>3, <2>5, <3>1 DEF TaxRead, TaxNames, ViewFits
    <3>3. v.got["invoices"] = {o \in Sales : sale[o].invoice \in v.over}
      BY <3>2 DEF AsNow, Gstr1
    <3> QED BY <3>2, <3>3 DEF Gstr1
  <2>6. PartsAddUp
    BY <1>1, <2>2, <2>3, <2>4 DEF PartsAddUp, Complete
  <2> QED BY <1>1, <2>2, <2>3, <2>5, <2>6 DEF ReportsAgree, Complete
<1> QED BY <1>1, <1>2, <1>3

-----------------------------------------------------------------------------
\* A key rotation loses no gateway's credentials but those saved meanwhile, and two defaults
\* or a wrong "configured" take requests that overlap.
THEOREM SecretsStay == WaresSpec => [](SecretsTypeOK /\ SecretsKept)
<1>1. WaresInit => SecretsInv
  BY SecretsStarts DEF WaresInit
<1>2. SecretsInv /\ [WaresNext]_waresVars => SecretsInv'
  BY SecretsStep, OneAtWork
<1>3. SecretsInv => SecretsTypeOK /\ SecretsKept
  BY SecretsKeep
<1> QED BY <1>1, <1>2, <1>3, PTL DEF WaresSpec

\* A key that was revoked or had lapsed when a request came lets it do nothing, is revoked
\* once, and the trail has at most one row of each thing that happened to it; who reads the
\* trail through misses no row that was there at the start.
THEOREM KeysStay == WaresSpec => [](KeyTypeOK /\ KeysHold)
<1>1. WaresInit => KeysInv
  BY KeysStart DEF WaresInit
<1>2. KeysInv /\ [WaresNext]_waresVars => KeysInv'
  BY KeysStep, OneAtWork
<1>3. KeysInv => KeyTypeOK /\ KeysHold
  BY KeysKeep
<1> QED BY <1>1, <1>2, <1>3, PTL DEF WaresSpec

\* The cached token of the courier belongs to the stored credentials, unless they changed
\* under a login; one request logs in for all; and what may have been carried out is not sent
\* again.
THEOREM LoginsStay == WaresSpec => [](LoginTypeOK /\ LoginsKept)
<1>1. WaresInit => LoginInv
  BY LoginStarts DEF WaresInit
<1>2. LoginInv /\ [WaresNext]_waresVars => LoginInv'
  BY LoginStep, OneAtWork
<1>3. LoginInv => LoginTypeOK /\ LoginsKept
  BY LoginsHold
<1> QED BY <1>1, <1>2, <1>3, PTL DEF WaresSpec

\* An order has one parcel at the courier, and another only for each answer that was lost and
\* each call that overlapped with one.
THEOREM ParcelsStayExplained == WaresSpec => [](CourierTypeOK /\ ParcelsExplained)
<1>1. WaresInit => CourierInv
  BY CourierStarts DEF WaresInit
<1>2. CourierInv /\ [WaresNext]_waresVars => CourierInv'
  BY CourierStep, OneAtWork
<1>3. CourierInv => CourierTypeOK /\ ParcelsExplained
  BY ParcelsKeep
<1> QED BY <1>1, <1>2, <1>3, PTL DEF WaresSpec

\* With soft deletes no row is ever removed, all ways of reading agree on what is deleted, and
\* a transaction's deletes come and go with it, but for those the client rewrote.
THEOREM DeletedStay == WaresSpec => [](TombTypeOK /\ TombstonesKept)
<1>1. WaresInit => TombInv
  BY RowsStart DEF WaresInit
<1>2. TombInv /\ [WaresNext]_waresVars => TombInv'
  BY RowsStep, OneAtWork
<1>3. TombInv => TombTypeOK /\ TombstonesKept
  BY RowsKeep
<1> QED BY <1>1, <1>2, <1>3, PTL DEF WaresSpec

\* What the shop shares with other systems agrees.
THEOREM OutsideStays == WaresSpec => []OutsideAgrees
<1>1. SecretsKept /\ KeysHold /\ LoginsKept /\ ParcelsExplained /\ TombstonesKept => OutsideAgrees
  BY DEF OutsideAgrees, Of
<1> QED BY <1>1, SecretsStay, KeysStay, LoginsStay, ParcelsStayExplained, DeletedStay, PTL

\* However often an event is handled, its user's phone and each device hear of it once and the
\* bell rings before it is settled; an e-mail comes twice only when two workers had the event
\* or one died; marketing takes consent.
THEOREM NoticesStay == WaresSpec => [](NoticeTypeOK /\ ToldOnce)
<1>1. WaresInit => NoticeInv
  BY NoticeStarts DEF WaresInit
<1>2. NoticeInv /\ [WaresNext]_waresVars => NoticeInv'
  BY NoticeStep, OneAtWork
<1>3. NoticeInv => NoticeTypeOK /\ ToldOnce
  BY NoticesHold
<1> QED BY <1>1, <1>2, <1>3, PTL DEF WaresSpec

\* A campaign reaches everyone who stayed subscribed while it was dispatched, unless the one a
\* page ended with left, and nobody twice but for jobs that died.
THEOREM CampaignsStay == WaresSpec => [](NewsletterTypeOK /\ CampaignReaches)
<1>1. WaresInit => NewsInv
  BY NewsStarts DEF WaresInit
<1>2. NewsInv /\ [WaresNext]_waresVars => NewsInv'
  BY NewsStep, OneAtWork
<1>3. NewsInv => NewsletterTypeOK /\ CampaignReaches
  BY NewsKeep
<1> QED BY <1>1, <1>2, <1>3, PTL DEF WaresSpec

\* A wish is alerted at most once for each restock, however many sweeps overlap, unless one
\* acted on what it had read before that changed.
THEOREM AlertsStay == WaresSpec => [](AlertTypeOK /\ OneAlertPerRestock)
<1>1. WaresInit => AlertInv
  BY AlertsStart DEF WaresInit
<1>2. AlertInv /\ [WaresNext]_waresVars => AlertInv'
  BY AlertStep, OneAtWork
<1>3. AlertInv => AlertTypeOK /\ OneAlertPerRestock
  BY AlertsHold
<1> QED BY <1>1, <1>2, <1>3, PTL DEF WaresSpec

\* The parts of a report nothing disturbed are the whole, revenue once shown is missing later
\* only where it was taken back, and a tax return of a month that is over stays what it was.
THEOREM FiguresStay == WaresSpec => [](FigureTypeOK /\ ReportsAgree)
<1>1. WaresInit => FigureInv
  BY FiguresStart DEF WaresInit
<1>2. FigureInv /\ [WaresNext]_waresVars => FigureInv'
  BY FigureStep, OneAtWork
<1>3. FigureInv => FigureTypeOK /\ ReportsAgree
  BY FiguresTyped, FiguresAgreed
<1> QED BY <1>1, <1>2, <1>3, PTL DEF WaresSpec

\* Who is told something by the shop is told it once, and it is so.
THEOREM ReadersStay == WaresSpec => []ReadersTold
<1>1. ToldOnce /\ CampaignReaches /\ OneAlertPerRestock /\ ReportsAgree => ReadersTold
  BY DEF ReadersTold, Of
<1> QED BY <1>1, NoticesStay, CampaignsStay, AlertsStay, FiguresStay, PTL
=============================================================================
