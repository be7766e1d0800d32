----------------------------- MODULE Tombstones -----------------------------
(***************************************************************************)
(* PrismaService: the client every service shares, with the extension that *)
(* hides rows with deletedAt and turns a delete into an update, when it is *)
(* switched on.  What the extension rewrites it sends to the base client,  *)
(* outside the transaction of whoever asked: the write waits for the locks *)
(* of that very transaction, and stays when the transaction rolls back.    *)
(*                                                                         *)
(* Rows of one model that has deletedAt, and one interactive transaction   *)
(* at a time; a statement of the transaction that must wait for another's  *)
(* lock is taken later.  The timing extension alters nothing.              *)
(***************************************************************************)
EXTENDS Integers, FiniteSets

CONSTANTS
  Records,   \* rows of the table
  MaxTxs,    \* bound: interactive transactions
  MaxStrokes \* bound: statements that write outside of them

ASSUME TombstoneConstantsOK == MaxTxs \in Nat /\ MaxStrokes \in Nat

VARIABLES
  filtering, \* SOFT_DELETE_EXTENSION_ENABLED
  record,    \* the committed rows: what became of each, who made it, who last deleted it and how
  unit,      \* the transaction: its number, 0 while none is open, and the rows it has written
  rewrite,   \* the rewritten delete under way at the base client: for whom, which rows, all or one
  fates,     \* history: how each transaction ended
  owed,      \* history: the transaction that deleted the row and has since been all that wrote it
  strokes

tombVars == <<filtering, record, unit, rewrite, fates, owed, strokes>>

Unborn  == [is |-> "unborn", maker |-> 0, by |-> 0, means |-> "none"]
Same    == [is |-> "same", maker |-> 0, by |-> 0, means |-> "none"]
NoUnit  == [id |-> 0, own |-> [r \in Records |-> Same]]
NotSent == [of |-> 0, rows |-> {}, many |-> FALSE]
Outside == 0

TombInit ==
  /\ filtering \in BOOLEAN
  /\ record = [r \in Records |-> Unborn]
  /\ unit = NoUnit /\ rewrite = NotSent
  /\ fates = [t \in 1 .. MaxTxs |-> "none"] /\ owed = [r \in Records |-> Outside] /\ strokes = 0

Held(r)      == unit.own[r] # Same
Overlaid     == [r \in Records |-> IF Held(r) THEN unit.own[r] ELSE record[r]]
Stored(row)  == row.is \in {"live", "dead"}
Unlocked(S)  == \A r \in S : ~Held(r)
\* deletedAt set, or with the filter off and no other word the row removed.
Marked(row, t, means)  == [row EXCEPT !.is = "dead", !.by = t, !.means = means]
Removed(row, t)      == [row EXCEPT !.is = "gone", !.by = t, !.means = "own"]

(***************************************************************************)
(* What a read returns of the rows that its transaction sees.  A list is   *)
(* filtered unless its where names deletedAt, be it as undefined; a row by *)
(* its unique key is read with deletedAt and dropped, unless the select    *)
(* declines that column.                                                   *)
(***************************************************************************)
FindMany(filter, scope, sight) ==
  {r \in Records : /\ Stored(sight[r])
                   /\ CASE scope = "null"    -> sight[r].is = "live"
                        [] scope = "notNull" -> sight[r].is = "dead"
                        [] scope = "undefined" -> TRUE
                        [] OTHER -> filter => sight[r].is = "live"}

FindUnique(filter, select, sight) ==
  {r \in Records : /\ Stored(sight[r])
                   /\ filter /\ select # "declined" => sight[r].is = "live"}

(***************************************************************************)
(* Statements outside of a transaction.                                    *)
(***************************************************************************)
Stroke(rows) == /\ strokes < MaxStrokes /\ strokes' = strokes + 1
                /\ owed' = [r \in Records |-> IF r \in rows THEN Outside ELSE owed[r]]
                /\ UNCHANGED <<filtering, unit, rewrite, fates>>

CreateRecord(r) ==
  /\ record[r] = Unborn /\ ~Held(r)
  /\ record' = [record EXCEPT ![r].is = "live"] /\ Stroke({r})

\* update of deletedAt by hand, to now or to null, which the extension lets through.
UpdateRecord(r, is) ==
  /\ Stored(record[r]) /\ ~Held(r)
  /\ record' = [record EXCEPT ![r] = IF is = "dead" THEN Marked(@, Outside, "own") ELSE [@ EXCEPT !.is = is]]
  /\ Stroke({r})

\* Of the rows a rewritten delete names it marks those stored, a deleteMany those live.
Rewritten(rows, many, t) ==
  [r \in Records |-> IF r \in rows /\ Stored(record[r]) /\ (many => record[r].is = "live")
                     THEN Marked(record[r], t, "base") ELSE record[r]]

DeleteRecords(rows, many) ==
  /\ Unlocked(rows)
  /\ record' = IF filtering THEN Rewritten(rows, many, Outside)
              ELSE [r \in Records |-> IF r \in rows /\ Stored(record[r])
                                      THEN Removed(record[r], Outside) ELSE record[r]]
  /\ Stroke(rows)

(***************************************************************************)
(* An interactive transaction.                                             *)
(***************************************************************************)
Awaits == rewrite.of = unit.id /\ rewrite.rows # {}
Works  == unit.id # 0 /\ ~Awaits

OpenUnit ==
  /\ unit.id = 0
  /\ \E t \in 1 .. MaxTxs :
       /\ fates[t] = "none" /\ \A u \in 1 .. t - 1 : fates[u] # "none"
       /\ unit' = [NoUnit EXCEPT !.id = t]
  /\ UNCHANGED <<filtering, record, rewrite, fates, owed, strokes>>

Overlays(r, row) == unit' = [unit EXCEPT !.own[r] = row]

CreateInUnit(r) ==
  /\ Works /\ Overlaid[r] = Unborn
  /\ Overlays(r, [Unborn EXCEPT !.is = "live", !.maker = unit.id])
  /\ UNCHANGED <<filtering, record, rewrite, fates, owed, strokes>>

UpdateInUnit(r, is) ==
  /\ Works /\ Stored(Overlaid[r])
  /\ Overlays(r, IF is = "dead" THEN Marked(Overlaid[r], unit.id, "own")
                 ELSE [Overlaid[r] EXCEPT !.is = is])
  /\ owed' = [owed EXCEPT ![r] = IF is = "dead" THEN unit.id ELSE Outside]
  /\ UNCHANGED <<filtering, record, rewrite, fates, strokes>>

Abort == unit' = NoUnit /\ fates' = [fates EXCEPT ![unit.id] = "rolled back"]

\* A delete stays within the transaction as it is; rewritten it goes to the base client.
DeleteInUnit(rows, many) ==
  /\ Works /\ \E r \in rows : Overlaid[r].is = "live"
  /\ owed' = [r \in Records |-> IF r \in rows /\ Overlaid[r].is = "live" THEN unit.id ELSE owed[r]]
  /\ IF filtering
     THEN /\ rewrite = NotSent
          /\ rewrite' = [of |-> unit.id, rows |-> rows, many |-> many]
          /\ UNCHANGED unit
     ELSE /\ unit' = [unit EXCEPT !.own = [r \in Records |->
                        IF r \in rows /\ Stored(Overlaid[r]) THEN Removed(Overlaid[r], unit.id) ELSE @[r]]]
          /\ UNCHANGED rewrite
  /\ UNCHANGED <<filtering, record, fates, strokes>>

\* The base client does not see what the transaction has not committed.  An update that finds
\* no row throws, which ends the transaction that waits for it.
BaseWrites ==
  LET known == {r \in rewrite.rows : Stored(record[r])}
      t     == rewrite.of
  IN /\ rewrite # NotSent /\ Unlocked(known)
     /\ record' = Rewritten(known, rewrite.many, t)
     /\ owed' = [r \in Records |-> IF r \in known /\ owed[r] # t THEN Outside ELSE owed[r]]
     /\ rewrite' = NotSent
     /\ IF ~rewrite.many /\ known = {} /\ Awaits THEN Abort ELSE UNCHANGED <<unit, fates>>
     /\ UNCHANGED <<filtering, strokes>>

CommitUnit ==
  /\ Works
  /\ record' = Overlaid /\ unit' = NoUnit /\ fates' = [fates EXCEPT ![unit.id] = "committed"]
  /\ UNCHANGED <<filtering, rewrite, owed, strokes>>

\* It throws, or its time is over while it waits for itself.
RollBackUnit ==
  /\ unit.id # 0 /\ Abort
  /\ UNCHANGED <<filtering, record, rewrite, owed, strokes>>

-----------------------------------------------------------------------------
Named == {[rows |-> {r}, many |-> FALSE] : r \in Records}
         \union {[rows |-> S, many |-> TRUE] : S \in (SUBSET Records) \ {{}}}

TombNext ==
  \/ OpenUnit \/ BaseWrites \/ CommitUnit \/ RollBackUnit
  \/ \E r \in Records : CreateRecord(r) \/ CreateInUnit(r)
  \/ \E r \in Records, is \in {"live", "dead"} : UpdateRecord(r, is) \/ UpdateInUnit(r, is)
  \/ \E n \in Named : DeleteRecords(n.rows, n.many) \/ DeleteInUnit(n.rows, n.many)

TombSpec == TombInit /\ [][TombNext]_tombVars

-----------------------------------------------------------------------------
RecordRows == [is : {"unborn", "live", "dead", "gone", "same"}, maker : 0 .. MaxTxs, by : 0 .. MaxTxs,
          means : {"none", "own", "base"}]

\* Every variable has its type.
TombTypeOK ==
  /\ filtering \in BOOLEAN /\ record \in [Records -> RecordRows] /\ strokes \in 0 .. MaxStrokes
  /\ unit \in [id : 0 .. MaxTxs, own : [Records -> RecordRows]]
  /\ rewrite \in [of : 0 .. MaxTxs, rows : SUBSET Records, many : BOOLEAN]
  /\ fates \in [1 .. MaxTxs -> {"none", "committed", "rolled back"}]
  /\ owed \in [Records -> 0 .. MaxTxs]

\* Reads agree: whoever filters by hand reads the same with the switch on or off, a row is found
\* by its key just when a list shows it, and the raw client sees all that is stored.
ReadsAgree(sight) ==
  /\ FindMany(TRUE, "null", sight) = FindMany(FALSE, "null", sight)
  /\ \A select \in {"all", "without"} :
       FindUnique(filtering, select, sight) = FindMany(filtering, "unscoped", sight)
  /\ FindMany(FALSE, "unscoped", sight)
       = FindMany(filtering, "null", sight) \union FindMany(filtering, "notNull", sight)

\* Deletions keep what they promise.  With the switch on no row is ever removed.  What a
\* transaction deleted is deleted when it commits, unless the row is its own work, which the
\* base client does not see; and is not when it rolls back, unless the delete was rewritten.
TombstonesKept ==
  /\ ReadsAgree(record) /\ ReadsAgree(Overlaid)
  /\ filtering => \A r \in Records : "gone" \notin {record[r].is, Overlaid[r].is}
  /\ \A r \in Records, t \in 1 .. MaxTxs :
       /\ owed[r] = t /\ fates[t] = "committed" =>
            record[r].is \in {"dead", "gone"} \/ (filtering /\ record[r].maker = t)
       /\ record[r].by = t /\ ~Stored(record[r]) => ~filtering /\ fates[t] = "committed"
       /\ record[r].by = t /\ fates[t] = "rolled back" => filtering /\ record[r].means = "base"
=============================================================================
