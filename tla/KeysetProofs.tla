----------------------------- MODULE KeysetProofs -----------------------------
(***************************************************************************)
(* What a cursor keeps, for tables and rowsets of any content, any number  *)
(* of savepoints and any offsets: its overlay shows the table, a fetch     *)
(* delivers the rowset of its orientation, and SQLSetPos acts on the row   *)
(* it names.                                                               *)
(***************************************************************************)
EXTENDS KeysetCursor, TLAPS, FiniteSetTheorems, SequenceTheorems, WellFoundedInduction

\* A cursor before the bound on versions is looked at.
BufferedRow == [version: Nat, based: BOOLEAN, deleted: BOOLEAN]
SavedLevel == [name: SavepointNames \union {"transaction"}, table: SUBSET Nat]
Behind == [table: SUBSET Nat, made: Nat, saves: Seq(SavedLevel), aborted: BOOLEAN]
CursorShape ==
  [kind: Kinds, open: BOOLEAN, rows: Seq(BufferedRow), position: Nat, rowset_first: Nat,
   array_size: ArraySizes, snapshots: Seq(Snapshot), db: Behind,
   ret: {"success", "error", "no_data"}]

\* No two rows show one version, none shows one that was not made, and the rows of the
\* base result come before those that were added.
RowsGood(c) ==
  /\ \A i \in 1 .. Count(c) : c.rows[i].version \in 1 .. c.db.made
  /\ \A i, j \in 1 .. Count(c) : c.rows[i].version = c.rows[j].version => i = j
  /\ \A i, j \in 1 .. Count(c) : i < j /\ c.rows[j].based => c.rows[i].based

Good(c) ==
  /\ c \in CursorShape
  /\ RowsGood(c)
  /\ c.db.table \subseteq 1 .. c.db.made
  /\ Len(c.db.saves) >= 1
  /\ \A k \in 1 .. Len(c.db.saves) : c.db.saves[k].table \subseteq 1 .. c.db.made
  /\ Len(c.snapshots) <= MAX_KEYSET_SAVEPOINTS
  /\ c.rowset_first <= Count(c) /\ c.position <= Count(c) + 2

TypeGood ==
  /\ Good(cursor)
  /\ cursor.db.made <= MaxVersions
  /\ rowset \subseteq 1 .. Count(cursor)
  /\ place \in {"before", "on", "after"}

\* The versions a cursor with these flags would show.
Shown(c, flags) ==
  {c.rows[i].version : i \in {j \in 1 .. Count(c) : j <= Len(flags) /\ ~flags[j]}}

\* A level of the savepoints that the cursor can go back to: it has one snapshot under
\* that name, and what that would show is the table of the level.
Remembered(c, level) ==
  \E s \in 1 .. Len(c.snapshots) :
    /\ Slots(c, level.name) = {s}
    /\ Len(c.snapshots[s].deleted) <= Count(c)
    /\ Shown(c, c.snapshots[s].deleted) = level.table

\* What OverlayShowsTable needs: it is so now, and would be after any ROLLBACK TO.
Overlay(c) ==
  /\ c.open => {c.rows[i].version : i \in Live(c)} = c.db.table
  /\ c.open => \A k \in 2 .. Len(c.db.saves) : Remembered(c, c.db.saves[k])
  /\ \A k, l \in 2 .. Len(c.db.saves) : c.db.saves[k].name = c.db.saves[l].name => k = l
  /\ \A s, t \in 1 .. Len(c.snapshots) : c.snapshots[s].name = c.snapshots[t].name => s = t

\* What the application knows of its place, the rows delivered last or the end it is at, is
\* where the cursor stands.
End(c) == IF BlockFetchActive(c) THEN Count(c) ELSE Tuples(c)

PlacedAt(c, delivered, at) ==
  /\ delivered # {} <=> at = "on"
  /\ at = "before" => c.position = 0 /\ c.rowset_first = 0
  /\ at = "after" => c.position = End(c) + 1
  /\ at = "on" =>
       /\ c.position \in delivered /\ \A i \in delivered : i <= c.position
       /\ BlockFetchActive(c) =>
            /\ c.rowset_first \in delivered /\ \A i \in delivered : c.rowset_first <= i
       /\ ~BlockFetchActive(c) => c.position <= Tuples(c)
       /\ c.array_size = 1 => delivered = {c.position}
  /\ ~BlockFetchActive(c) => c.rowset_first = 0

Placed == PlacedAt(cursor, rowset, place)

----------------------------------------------------------------------------
(* Numbers and records.                                                    *)

\* The least of some numbers.
LEMMA SmallestIsLeast ==
  ASSUME NEW S \in SUBSET Nat, S # {}
  PROVE  Smallest(S) \in S /\ \A j \in S : Smallest(S) <= j
<1>1. PICK m \in S : \A k \in S : <<k, m>> \notin OpToRel(<, Nat)
  BY NatLessThanWellFounded, WFMin
<1>2. \A j \in S : m <= j
  <2>1. \A j \in S : ~(j < m)
    BY <1>1 DEF OpToRel
  <2>2. \A j \in S : j \in Nat
    OBVIOUS
  <2> QED
    BY <2>1, <2>2
<1>3. \E i \in S : \A j \in S : i <= j
  BY <1>2
<1>4. Smallest(S) = CHOOSE i \in S : \A j \in S : i <= j
  BY DEF Smallest
<1> QED
  BY <1>3, <1>4, Zenon

\* The greatest of some bounded numbers.
LEMMA LargestIsGreatest ==
  ASSUME NEW n \in Nat, NEW S \in SUBSET (0 .. n), S # {}
  PROVE  Largest(S) \in S /\ \A j \in S : j <= Largest(S)
<1> DEFINE T == {n - i : i \in S}
<1>1. T \subseteq Nat /\ T # {}
  <2>1. \A i \in S : n - i \in Nat
    OBVIOUS
  <2>2. T \subseteq Nat
    BY <2>1
  <2>3. PICK i \in S : TRUE
    OBVIOUS
  <2> QED
    BY <2>2, <2>3
<1>2. PICK m \in T : \A k \in T : <<k, m>> \notin OpToRel(<, Nat)
  BY <1>1, NatLessThanWellFounded, WFMin
<1>3. PICK i \in S : m = n - i
  BY <1>2
<1>4. \A j \in S : j <= i
  <2> TAKE j \in S
  <2>1. n - j \in T
    OBVIOUS
  <2>2. ~(n - j < n - i)
    BY <1>1, <1>2, <1>3, <2>1 DEF OpToRel
  <2> HIDE DEF T
  <2> QED
    BY <2>2
<1> QED
  BY <1>4 DEF Largest

\* What it is that a cursor is made of.
LEMMA Fields ==
  ASSUME NEW c \in CursorShape
  PROVE  /\ c.kind \in Kinds /\ c.open \in BOOLEAN /\ c.rows \in Seq(BufferedRow)
         /\ c.position \in Nat /\ c.rowset_first \in Nat /\ c.array_size \in ArraySizes
         /\ c.array_size \in {1, 2}
         /\ c.snapshots \in Seq(Snapshot) /\ c.db \in Behind
         /\ c.db.table \in SUBSET Nat /\ c.db.made \in Nat /\ c.db.saves \in Seq(SavedLevel)
         /\ c.db.aborted \in BOOLEAN
         /\ Count(c) \in Nat /\ DOMAIN c.rows = 1 .. Count(c)
         /\ \A i \in 1 .. Count(c) : c.rows[i] \in BufferedRow
         /\ Len(c.snapshots) \in Nat /\ DOMAIN c.snapshots = 1 .. Len(c.snapshots)
         /\ \A s \in 1 .. Len(c.snapshots) : c.snapshots[s] \in Snapshot
         /\ Len(c.db.saves) \in Nat /\ DOMAIN c.db.saves = 1 .. Len(c.db.saves)
         /\ \A k \in 1 .. Len(c.db.saves) : c.db.saves[k] \in SavedLevel
<1>1. /\ c.kind \in Kinds /\ c.open \in BOOLEAN /\ c.rows \in Seq(BufferedRow)
      /\ c.position \in Nat /\ c.rowset_first \in Nat /\ c.array_size \in ArraySizes
      /\ c.snapshots \in Seq(Snapshot) /\ c.db \in Behind
  BY DEF CursorShape
<1>2. /\ c.db.table \in SUBSET Nat /\ c.db.made \in Nat /\ c.db.saves \in Seq(SavedLevel)
      /\ c.db.aborted \in BOOLEAN
  BY <1>1 DEF Behind
<1>3. /\ Len(c.rows) \in Nat /\ DOMAIN c.rows = 1 .. Len(c.rows)
      /\ \A i \in 1 .. Len(c.rows) : c.rows[i] \in BufferedRow
  BY <1>1, LenProperties, ElementOfSeq
<1>4. /\ Len(c.snapshots) \in Nat /\ DOMAIN c.snapshots = 1 .. Len(c.snapshots)
      /\ \A i \in 1 .. Len(c.snapshots) : c.snapshots[i] \in Snapshot
  BY <1>1, LenProperties, ElementOfSeq
<1>5. /\ Len(c.db.saves) \in Nat /\ DOMAIN c.db.saves = 1 .. Len(c.db.saves)
      /\ \A i \in 1 .. Len(c.db.saves) : c.db.saves[i] \in SavedLevel
  BY <1>2, LenProperties, ElementOfSeq
<1>6. c.array_size \in {1, 2}
  BY <1>1, SizesAssumption
<1> QED
  BY <1>1, <1>2, <1>3, <1>4, <1>5, <1>6 DEF Count

\* A cursor whose rows and database are others.
With(c, rows, db, ret) == [c EXCEPT !.rows = rows, !.db = db, !.ret = ret]

\* Nothing else of it is.
LEMMA Rebuilt ==
  ASSUME NEW c \in CursorShape, NEW rows \in Seq(BufferedRow), NEW db \in Behind,
         NEW ret \in {"success", "error", "no_data"}
  PROVE  LET d == With(c, rows, db, ret) IN
         /\ d \in CursorShape /\ d.rows = rows /\ d.db = db /\ d.ret = ret
         /\ d.kind = c.kind /\ d.open = c.open /\ d.position = c.position
         /\ d.rowset_first = c.rowset_first /\ d.array_size = c.array_size
         /\ d.snapshots = c.snapshots
BY DEF CursorShape, With

\* A database after row versions came or went.
Changed(db, table, made) == [db EXCEPT !.table = table, !.made = made]

\* Nothing else of it has changed.
LEMMA TableReplaced ==
  ASSUME NEW db \in Behind, NEW table \in SUBSET Nat, NEW made \in Nat
  PROVE  LET now == Changed(db, table, made)
         IN  /\ now \in Behind /\ now.table = table /\ now.made = made
             /\ now.saves = db.saves /\ now.aborted = db.aborted
BY DEF Behind, Changed

\* The same, in the order in which an edit gives them.
LEMMA AnswerWith ==
  ASSUME NEW c \in CursorShape, NEW rows \in Seq(BufferedRow), NEW db \in Behind,
         NEW ret \in {"success", "error", "no_data"}
  PROVE  Answer([c EXCEPT !.db = db, !.rows = rows], ret) = With(c, rows, db, ret)
BY DEF CursorShape, Answer, With

\* What a call returned is in no part of what a cursor keeps.
LEMMA AnswerSame ==
  ASSUME NEW c \in CursorShape, NEW ret \in {"success", "error", "no_data"}
  PROVE  /\ Answer(c, ret) \in CursorShape
         /\ Answer(c, ret) = With(c, c.rows, c.db, ret)
         /\ Answer(c, ret).ret = ret
BY DEF CursorShape, Answer, With

----------------------------------------------------------------------------
(* Edits.                                                                  *)

Shows(c) == c.open => {c.rows[i].version : i \in Live(c)} = c.db.table

\* No row is taken away, and those of the base result stay what they were.
Edited(c, d) ==
  /\ Good(d)
  /\ d.kind = c.kind /\ d.open = c.open /\ d.array_size = c.array_size
  /\ d.snapshots = c.snapshots /\ d.db.saves = c.db.saves
  /\ d.rowset_first = c.rowset_first
  /\ Count(c) <= Count(d)
  /\ \A i \in 1 .. Count(c) : d.rows[i].based = c.rows[i].based
  /\ \A i \in 1 .. Count(d) : d.rows[i].based => i <= Count(c)

\* No version changes.
Unmoved(c, d) == \A i \in 1 .. Count(c) : d.rows[i].version = c.rows[i].version

\* An edit that gives new rows and a new database.
LEMMA EditedSo ==
  ASSUME NEW c, NEW rows, NEW db, NEW ret, Good(c), rows \in Seq(BufferedRow),
         db \in Behind, ret \in {"success", "error", "no_data"},
         db.made >= c.db.made, db.saves = c.db.saves, db.table \subseteq 1 .. db.made,
         Len(rows) >= Count(c),
         \A i \in 1 .. Count(c) : rows[i].based = c.rows[i].based,
         \A i \in 1 .. Len(rows) : rows[i].based => i <= Count(c),
         \A i \in 1 .. Len(rows) : rows[i].version \in 1 .. db.made,
         \A i, j \in 1 .. Len(rows) : rows[i].version = rows[j].version => i = j
  PROVE  LET d == With(c, rows, db, ret)
         IN  /\ Edited(c, d) /\ d.rows = rows /\ d.db = db /\ d.position = c.position
             /\ d.ret = ret
<1> DEFINE d == With(c, rows, db, ret)
<1>1. c \in CursorShape
  BY DEF Good
<1>2. /\ d \in CursorShape /\ d.rows = rows /\ d.db = db /\ d.kind = c.kind
      /\ d.open = c.open /\ d.position = c.position /\ d.rowset_first = c.rowset_first
      /\ d.array_size = c.array_size /\ d.snapshots = c.snapshots /\ d.ret = ret
  BY <1>1, Rebuilt
<1> HIDE DEF d
<1>3. Count(d) = Len(rows) /\ Len(rows) \in Nat /\ Count(c) \in Nat
  BY <1>1, <1>2, Fields, LenProperties DEF Count
<1>4. RowsGood(d)
  <2>1. \A i, j \in 1 .. Count(d) : i < j /\ d.rows[j].based => d.rows[i].based
    <3> TAKE i, j \in 1 .. Count(d)
    <3> HAVE i < j /\ d.rows[j].based
    <3>1. j <= Count(c)
      BY <1>2, <1>3
    <3>2. i \in 1 .. Count(c) /\ j \in 1 .. Count(c)
      BY <3>1, <1>3
    <3>3. c.rows[j].based
      BY <3>2, <1>2
    <3>4. c.rows[i].based
      BY <3>2, <3>3 DEF Good, RowsGood
    <3> QED
      BY <3>2, <3>4, <1>2
  <2> QED
    BY <1>2, <1>3, <2>1 DEF RowsGood
<1>5. \A k \in 1 .. Len(d.db.saves) : d.db.saves[k].table \subseteq 1 .. d.db.made
  <2> SUFFICES ASSUME NEW k \in 1 .. Len(c.db.saves)
               PROVE  c.db.saves[k].table \subseteq 1 .. db.made
    BY <1>2
  <2>1. c.db.saves[k].table \subseteq 1 .. c.db.made
    BY DEF Good
  <2>2. c.db.made \in Nat /\ db.made \in Nat
    BY <1>1, Fields DEF Behind
  <2> QED
    BY <2>1, <2>2
<1>6. /\ d.rowset_first <= Count(d) /\ d.position <= Count(d) + 2
      /\ Len(d.snapshots) <= MAX_KEYSET_SAVEPOINTS /\ Len(d.db.saves) >= 1
  <2>1. /\ c.rowset_first <= Count(c) /\ c.position <= Count(c) + 2
        /\ Len(c.snapshots) <= MAX_KEYSET_SAVEPOINTS /\ Len(c.db.saves) >= 1
    BY DEF Good
  <2>2. c.rowset_first \in Nat /\ c.position \in Nat
    BY <1>1, Fields
  <2> QED
    BY <1>2, <1>3, <2>1, <2>2
<1>7. Good(d)
  BY <1>2, <1>4, <1>5, <1>6 DEF Good
<1> QED
  BY <1>2, <1>3, <1>7 DEF Edited, d

\* What a refusal leaves.
LEMMA RefusedKeeps ==
  ASSUME NEW c, Good(c), NEW ret \in {"success", "error", "no_data"}
  PROVE  /\ Edited(c, Answer(c, ret)) /\ Edited(c, Refused(c))
         /\ \A d \in {Answer(c, ret), Refused(c)} :
              /\ d.rows = c.rows /\ d.db.table = c.db.table /\ d.db.made = c.db.made
              /\ d.position = c.position
         /\ Answer(c, ret).ret = ret /\ Answer(c, ret).db = c.db
<1>1. c \in CursorShape
  BY DEF Good
<1>2. /\ c.rows \in Seq(BufferedRow) /\ c.db \in Behind /\ c.db.made \in Nat
      /\ Count(c) \in Nat /\ Len(c.rows) = Count(c)
  BY <1>1, Fields DEF Count
<1>3. /\ \A i \in 1 .. Len(c.rows) : c.rows[i].version \in 1 .. c.db.made
      /\ \A i, j \in 1 .. Len(c.rows) : c.rows[i].version = c.rows[j].version => i = j
      /\ c.db.table \subseteq 1 .. c.db.made
  BY DEF Good, RowsGood, Count
<1> DEFINE db == [c.db EXCEPT !.aborted = TRUE]
<1>4. /\ db \in Behind /\ db.made = c.db.made /\ db.saves = c.db.saves
      /\ db.table = c.db.table
  BY <1>2 DEF Behind
<1>5. Refused(c) = With(c, c.rows, db, "error")
  BY <1>1 DEF CursorShape, Refused, Answer, With
<1> HIDE DEF db
<1>6. Edited(c, Refused(c)) /\ Refused(c).rows = c.rows /\ Refused(c).db = db
      /\ Refused(c).position = c.position
  BY <1>2, <1>3, <1>4, <1>5, EditedSo
<1>7. Answer(c, ret) = With(c, c.rows, c.db, ret)
  BY <1>1, AnswerSame
<1>8. Edited(c, Answer(c, ret)) /\ Answer(c, ret).rows = c.rows /\ Answer(c, ret).db = c.db
      /\ Answer(c, ret).position = c.position /\ Answer(c, ret).ret = ret
  BY <1>2, <1>3, <1>7, EditedSo
<1> QED
  BY <1>4, <1>6, <1>8

\* A row that is shown twice is one row: one whose version the table has is not hidden.
LEMMA LiveVersions ==
  ASSUME NEW c, Good(c), Shows(c), c.open, NEW row \in 1 .. Count(c)
  PROVE  c.rows[row].version \in c.db.table <=> row \in Live(c)
<1>1. \A i \in Live(c) : i \in 1 .. Count(c)
  BY DEF Live
<1>2. \A i \in 1 .. Count(c) : c.rows[i].version = c.rows[row].version => i = row
  BY DEF Good, RowsGood
<1>3. c.db.table = {c.rows[i].version : i \in Live(c)}
  BY DEF Shows
<1> QED
  BY <1>1, <1>2, <1>3

\* A positioned update.
LEMMA UpdateKeeps ==
  ASSUME NEW c, Good(c), NEW row \in 1 .. Count(c), NEW outcome
  PROVE  LET d == PositionedUpdate(c, row, outcome)
         IN  /\ Edited(c, d) /\ (Shows(c) => Shows(d)) /\ d.position = c.position
             /\ Count(d) = Count(c)
<1> DEFINE made == c.db.made
           table == c.db.table
           moved == [c.rows[row] EXCEPT !.version = made + 1]
           rows == [c.rows EXCEPT ![row] = moved]
           now == (table \ {c.rows[row].version}) \union {made + 1}
           db == Changed(c.db, now, made + 1)
           d == With(c, rows, db, "success")
<1>1. c \in CursorShape
  BY DEF Good
<1>2. /\ c.rows \in Seq(BufferedRow) /\ c.db \in Behind /\ made \in Nat
      /\ table \in SUBSET Nat /\ Count(c) \in Nat /\ Len(c.rows) = Count(c)
      /\ \A i \in 1 .. Count(c) : c.rows[i] \in BufferedRow
      /\ DOMAIN c.rows = 1 .. Count(c)
  BY <1>1, Fields DEF Count
<1>3. /\ \A i \in 1 .. Count(c) : c.rows[i].version \in 1 .. made
      /\ \A i, j \in 1 .. Count(c) : c.rows[i].version = c.rows[j].version => i = j
      /\ table \subseteq 1 .. made
      /\ \A i, j \in 1 .. Count(c) : i < j /\ c.rows[j].based => c.rows[i].based
  BY DEF Good, RowsGood
<1>4. moved \in BufferedRow /\ moved.version = made + 1 /\ moved.based = c.rows[row].based
      /\ moved.deleted = c.rows[row].deleted
  BY <1>2 DEF BufferedRow
<1>5. Answer(Updated(c, row), "success") = d
  <2>1. Updated(c, row) = [c EXCEPT !.db.table = now, !.db.made = made + 1,
                                    !.rows[row].version = made + 1]
    BY DEF Updated
  <2>2. Updated(c, row) = [c EXCEPT !.db = db, !.rows = rows]
    <3>1. /\ DOMAIN c.rows = 1 .. Len(c.rows) /\ row \in 1 .. Len(c.rows)
          /\ c.rows[row] \in BufferedRow /\ c.db \in Behind
      BY <1>2
    <3> QED
      BY <1>1, <2>1, <3>1 DEF CursorShape, Behind, Changed
  <2>3. db \in Behind
    <3>1. now \in SUBSET Nat /\ made + 1 \in Nat
      BY <1>2
    <3> HIDE DEF now
    <3> QED
      BY <1>2, <3>1, TableReplaced
  <2>4. rows \in Seq(BufferedRow)
    BY <1>2, <1>4, ExceptSeq
  <2> HIDE DEF db, rows
  <2> QED
    BY <1>1, <2>2, <2>3, <2>4, AnswerWith
<1>6. db \in Behind /\ db.made = made + 1 /\ db.table = now /\ db.saves = c.db.saves
  <2>1. now \in SUBSET Nat /\ made + 1 \in Nat
    BY <1>2
  <2> HIDE DEF now
  <2> QED
    BY <1>2, <2>1, TableReplaced
<1> HIDE DEF moved, db
<1>7. /\ rows \in Seq(BufferedRow) /\ Len(rows) = Count(c)
      /\ rows[row] = moved
      /\ \A i \in 1 .. Count(c) : i # row => rows[i] = c.rows[i]
  BY <1>2, <1>4, ExceptSeq
<1> HIDE DEF rows
<1>8. /\ \A i \in 1 .. Count(c) : rows[i].based = c.rows[i].based
      /\ \A i \in 1 .. Count(c) : rows[i].version \in 1 .. made + 1
      /\ \A i, j \in 1 .. Count(c) : rows[i].version = rows[j].version => i = j
  <2>1. \A i \in 1 .. Count(c) :
          rows[i].version = IF i = row THEN made + 1 ELSE c.rows[i].version
    BY <1>4, <1>7
  <2>2. \A i \in 1 .. Count(c) : c.rows[i].version \in 1 .. made
    BY <1>3
  <2>3. \A i \in 1 .. Count(c) : c.rows[i].version # made + 1
    BY <2>2, <1>2
  <2>4. \A i \in 1 .. Count(c) : rows[i].based = c.rows[i].based
    BY <1>4, <1>7
  <2>5. \A i \in 1 .. Count(c) : rows[i].version \in 1 .. made + 1
    <3> TAKE i \in 1 .. Count(c)
    <3>1. made + 1 \in 1 .. made + 1 /\ 1 .. made \subseteq 1 .. made + 1
      BY <1>2
    <3> QED
      BY <2>1, <2>2, <3>1
  <2>6. \A i, j \in 1 .. Count(c) : rows[i].version = rows[j].version => i = j
    BY <1>3, <2>1, <2>3
  <2> QED
    BY <2>4, <2>5, <2>6
<1>9. now \subseteq 1 .. made + 1
  BY <1>2, <1>3
<1>10. /\ Edited(c, d) /\ d.rows = rows /\ d.db = db /\ d.position = c.position
  <2>1. db.table \subseteq 1 .. db.made
    BY <1>6, <1>9
  <2>2. /\ Len(rows) >= Count(c)
        /\ \A i \in 1 .. Len(rows) : rows[i].based => i <= Count(c)
        /\ \A i \in 1 .. Len(rows) : rows[i].version \in 1 .. db.made
        /\ \A i, j \in 1 .. Len(rows) : rows[i].version = rows[j].version => i = j
    BY <1>2, <1>6, <1>7, <1>8
  <2>3. db.made >= c.db.made
    BY <1>2, <1>6
  <2> HIDE DEF now
  <2> QED
    BY <1>6, <1>7, <1>8, <2>1, <2>2, <2>3, EditedSo
<1>11. ASSUME Shows(c), c.rows[row].version \in table PROVE Shows(d)
  <2> SUFFICES ASSUME c.open PROVE {rows[i].version : i \in Live(d)} = now
    BY <1>6, <1>10 DEF Shows, Edited
  <2>1. row \in Live(c)
    BY <1>11, LiveVersions
  <2>2. Count(d) = Count(c)
    BY <1>7, <1>10 DEF Count
  <2>3. Live(d) = Live(c)
    BY <2>2, <1>4, <1>7, <1>10 DEF Live
  <2>4. table = {c.rows[i].version : i \in Live(c)} /\ \A i \in Live(c) : i \in 1 .. Count(c)
    BY <1>11 DEF Shows, Live
  <2>5. \A i \in Live(c) :
          rows[i].version = IF i = row THEN made + 1 ELSE c.rows[i].version
    BY <1>4, <1>7, <2>4
  <2>6. \A i \in Live(c) : i # row => c.rows[i].version # c.rows[row].version
    BY <1>3, <2>4
  <2>7. {rows[i].version : i \in Live(c)} \subseteq now
    BY <2>4, <2>5, <2>6
  <2>8. now \subseteq {rows[i].version : i \in Live(c)}
    BY <2>1, <2>4, <2>5
  <2> QED
    BY <2>3, <2>7, <2>8
<1>12. CASE /\ HasCtid(c, row) /\ ~(c.db.aborted \/ outcome = "refused")
            /\ c.rows[row].version \in c.db.table
  <2>1. Count(d) = Count(c)
    BY <1>7, <1>10 DEF Count
  <2> QED
    BY <1>5, <1>10, <1>11, <1>12, <2>1 DEF PositionedUpdate
<1>13. ASSUME NEW e \in {Answer(c, "error"), Answer(c, "success"), Refused(c)}
       PROVE  /\ Edited(c, e) /\ (Shows(c) => Shows(e)) /\ e.position = c.position
              /\ Count(e) = Count(c)
  <2>1. Edited(c, e) /\ e.rows = c.rows /\ e.db.table = c.db.table /\ e.position = c.position
    BY RefusedKeeps
  <2> QED
    BY <2>1 DEF Shows, Edited, Live, Count
<1> HIDE DEF d
<1> QED
  BY <1>12, <1>13 DEF PositionedUpdate

\* A positioned delete.  A row of the base result is taken from the table too; another is
\* only hidden.
LEMMA DeleteKeeps ==
  ASSUME NEW c, Good(c), NEW row \in 1 .. Count(c), NEW outcome
  PROVE  LET d == PositionedDelete(c, row, outcome)
         IN  /\ Edited(c, d) /\ Unmoved(c, d) /\ d.position = c.position
             /\ Count(d) = Count(c)
             /\ Shows(c) /\ c.rows[row].based => Shows(d)
<1> DEFINE gone == [c.rows[row] EXCEPT !.deleted = TRUE]
           rows == [c.rows EXCEPT ![row] = gone]
           now == c.db.table \ {c.rows[row].version}
           db == Changed(c.db, now, c.db.made)
           hidden == [c EXCEPT !.rows[row].deleted = TRUE]
           onlyHidden == With(c, rows, c.db, "success")
           deleted == With(c, rows, db, "success")
<1>1. c \in CursorShape
  BY DEF Good
<1>2. /\ c.rows \in Seq(BufferedRow) /\ c.db \in Behind /\ c.db.made \in Nat
      /\ c.db.table \in SUBSET Nat /\ Count(c) \in Nat /\ Len(c.rows) = Count(c)
      /\ \A i \in 1 .. Count(c) : c.rows[i] \in BufferedRow
      /\ DOMAIN c.rows = 1 .. Count(c)
  BY <1>1, Fields DEF Count
<1>3. /\ \A i \in 1 .. Count(c) : c.rows[i].version \in 1 .. c.db.made
      /\ \A i, j \in 1 .. Count(c) : c.rows[i].version = c.rows[j].version => i = j
      /\ c.db.table \subseteq 1 .. c.db.made
  BY DEF Good, RowsGood
<1>4. gone \in BufferedRow /\ gone.version = c.rows[row].version
      /\ gone.based = c.rows[row].based /\ gone.deleted
  BY <1>2 DEF BufferedRow
<1>5. now \in SUBSET Nat
  BY <1>2
<1>6. /\ db \in Behind /\ db.made = c.db.made /\ db.table = now /\ db.saves = c.db.saves
  <2> HIDE DEF now
  <2> QED
    BY <1>2, <1>5, TableReplaced
<1>7. /\ rows \in Seq(BufferedRow) /\ Len(rows) = Count(c) /\ rows[row] = gone
      /\ \A i \in 1 .. Count(c) : i # row => rows[i] = c.rows[i]
  <2> HIDE DEF gone
  <2> QED
    BY <1>2, <1>4, ExceptSeq
<1>8. /\ Answer(hidden, "success") = onlyHidden
      /\ Answer([hidden EXCEPT !.db.table = @ \ {c.rows[row].version}], "success") = deleted
  <2>1. hidden = [c EXCEPT !.rows = rows]
    <3>1. /\ DOMAIN c.rows = 1 .. Len(c.rows) /\ row \in 1 .. Len(c.rows)
          /\ c.rows[row] \in BufferedRow
      BY <1>2
    <3> QED
      BY <1>1, <3>1 DEF CursorShape
  <2> HIDE DEF rows, hidden
  <2>2. hidden.db = c.db /\ hidden = [c EXCEPT !.db = c.db, !.rows = rows]
    BY <1>1, <1>7, <2>1 DEF CursorShape
  <2>3. [hidden EXCEPT !.db.table = @ \ {c.rows[row].version}] = [hidden EXCEPT !.db = db]
    <3>1. [c.db EXCEPT !.table = now] = db
      BY <1>2 DEF Behind, Changed
    <3>2. [hidden EXCEPT !.db.table = @ \ {c.rows[row].version}] =
            [hidden EXCEPT !.db = [c.db EXCEPT !.table = now]]
      BY <1>1, <1>2, <1>7, <2>1, <2>2 DEF CursorShape, Behind
    <3> QED
      BY <3>1, <3>2
  <2> HIDE DEF db
  <2>4. [hidden EXCEPT !.db = db] = [c EXCEPT !.db = db, !.rows = rows]
    BY <1>1, <1>6, <1>7, <2>1 DEF CursorShape
  <2>5. Answer(hidden, "success") = onlyHidden
    BY <1>1, <1>2, <1>7, <2>2, AnswerWith
  <2>6. Answer([hidden EXCEPT !.db = db], "success") = deleted
    BY <1>1, <1>6, <1>7, <2>4, AnswerWith
  <2> QED
    BY <2>3, <2>5, <2>6
<1> HIDE DEF gone, rows, db
<1>9. /\ \A i \in 1 .. Count(c) : rows[i].based = c.rows[i].based
      /\ \A i \in 1 .. Count(c) : rows[i].version = c.rows[i].version
  BY <1>4, <1>7
<1>10. /\ \A i \in 1 .. Len(rows) : rows[i].based => i <= Count(c)
       /\ \A i \in 1 .. Len(rows) : rows[i].version \in 1 .. c.db.made
       /\ \A i, j \in 1 .. Len(rows) : rows[i].version = rows[j].version => i = j
       /\ now \subseteq 1 .. c.db.made /\ Len(rows) >= Count(c)
  BY <1>2, <1>3, <1>7, <1>9
<1>11. /\ Edited(c, onlyHidden) /\ onlyHidden.rows = rows
       /\ onlyHidden.position = c.position
  <2>1. c.db.made >= c.db.made
    BY <1>2
  <2>2. rows \in Seq(BufferedRow)
    BY <1>7
  <2>3. PICK b \in Behind : b = c.db
    BY <1>2
  <2>4. /\ b.made >= c.db.made /\ b.saves = c.db.saves /\ b.table \subseteq 1 .. b.made
        /\ \A i \in 1 .. Len(rows) : rows[i].version \in 1 .. b.made
    BY <1>3, <1>10, <2>1, <2>3
  <2>5. onlyHidden = With(c, rows, b, "success")
    BY <2>3
  <2> HIDE DEF now, onlyHidden
  <2> QED
    BY <1>9, <1>10, <2>2, <2>4, <2>5, EditedSo
<1>12. /\ Edited(c, deleted) /\ deleted.rows = rows /\ deleted.db = db
       /\ deleted.position = c.position
  <2>1. /\ db.made >= c.db.made /\ db.table \subseteq 1 .. db.made
        /\ \A i \in 1 .. Len(rows) : rows[i].version \in 1 .. db.made
    BY <1>2, <1>6, <1>10
  <2>2. rows \in Seq(BufferedRow)
    BY <1>7
  <2>3. db \in Behind /\ db.saves = c.db.saves
    BY <1>6
  <2> HIDE DEF now
  <2> QED
    BY <1>9, <1>10, <2>1, <2>2, <2>3, EditedSo
<1>13. ASSUME Shows(c) PROVE Shows(deleted)
  <2> SUFFICES ASSUME c.open PROVE {rows[i].version : i \in Live(deleted)} = now
    BY <1>6, <1>12 DEF Shows, Edited
  <2>1. Live(deleted) = Live(c) \ {row}
    <3>1. Count(deleted) = Count(c)
      BY <1>7, <1>12 DEF Count
    <3> QED
      BY <3>1, <1>4, <1>7, <1>12 DEF Live
  <2>2. /\ c.db.table = {c.rows[i].version : i \in Live(c)}
        /\ \A i \in Live(c) : i \in 1 .. Count(c)
    BY <1>13 DEF Shows, Live
  <2>3. {rows[i].version : i \in Live(c) \ {row}} = {c.rows[i].version : i \in Live(c) \ {row}}
    BY <1>9, <2>2
  <2>4. {c.rows[i].version : i \in Live(c) \ {row}} = now
    BY <1>3, <2>2
  <2> QED
    BY <2>1, <2>3, <2>4
<1>14. Edited(c, Refused(c)) /\ Refused(c).rows = c.rows /\ Refused(c).position = c.position
       /\ Refused(c).db.table = c.db.table
  BY RefusedKeeps
<1>15. /\ Unmoved(c, onlyHidden) /\ Unmoved(c, deleted) /\ Unmoved(c, Refused(c))
  BY <1>9, <1>11, <1>12, <1>14 DEF Unmoved
<1>16. Shows(c) => Shows(Refused(c))
  BY <1>14 DEF Shows, Edited, Live, Count
<1>18. /\ Count(onlyHidden) = Count(c) /\ Count(deleted) = Count(c)
       /\ Count(Refused(c)) = Count(c)
  BY <1>7, <1>11, <1>12, <1>14 DEF Count
<1> HIDE DEF deleted, onlyHidden, hidden
<1>17. PositionedDelete(c, row, outcome) =
         IF ~HasCtid(c, row) THEN onlyHidden
         ELSE IF c.db.aborted \/ outcome = "refused" THEN Refused(c) ELSE deleted
  BY <1>8 DEF PositionedDelete, hidden
<1> QED
  BY <1>11, <1>12, <1>13, <1>14, <1>15, <1>16, <1>17, <1>18 DEF HasCtid

\* Standing on another row is no edit.
LEMMA PositionKeeps ==
  ASSUME NEW c, Good(c), NEW row \in 1 .. Count(c)
  PROVE  LET d == [Answer(c, "success") EXCEPT !.position = row]
         IN  /\ Edited(c, d) /\ d.rows = c.rows /\ d.db = c.db /\ d.position = row
<1> DEFINE d == [Answer(c, "success") EXCEPT !.position = row]
<1>1. c \in CursorShape /\ Count(c) \in Nat
  BY Fields DEF Good
<1>2. /\ d \in CursorShape /\ d.kind = c.kind /\ d.open = c.open /\ d.rows = c.rows
      /\ d.rowset_first = c.rowset_first /\ d.array_size = c.array_size
      /\ d.snapshots = c.snapshots /\ d.db = c.db /\ d.position = row
  <2>1. row \in Nat
    BY <1>1
  <2> QED
    BY <1>1, <2>1 DEF CursorShape, Answer
<1> HIDE DEF d
<1>3. Count(d) = Count(c)
  BY <1>2 DEF Count
<1>4. Good(d)
  <2>1. d.position <= Count(d) + 2
    BY <1>1, <1>2, <1>3
  <2> QED
    BY <1>2, <1>3, <2>1 DEF Good, RowsGood
<1> QED
  BY <1>1, <1>2, <1>3, <1>4 DEF Edited, d

\* Any operation on a row.
LEMMA PositionedKeeps ==
  ASSUME NEW c, Good(c), NEW row \in 1 .. Count(c), NEW operation \in Operations, NEW outcome
  PROVE  LET d == Positioned(c, row, operation, outcome)
         IN  /\ Edited(c, d)
             /\ Shows(c) /\ (operation = "delete" => c.rows[row].based) => Shows(d)
             /\ operation # "update" => Unmoved(c, d)
             /\ d.position = IF operation = "position" THEN row ELSE c.position
             /\ Count(d) = Count(c)
<1>1. CASE operation = "update"
  BY <1>1, UpdateKeeps DEF Positioned
<1>2. CASE operation = "delete"
  BY <1>2, DeleteKeeps DEF Positioned
<1>3. CASE operation = "position"
  <2> DEFINE d == [Answer(c, "success") EXCEPT !.position = row]
  <2>1. Edited(c, d) /\ d.rows = c.rows /\ d.db = c.db /\ d.position = row
    BY PositionKeeps
  <2>2. Positioned(c, row, operation, outcome) = d
    BY <1>3 DEF Positioned
  <2> HIDE DEF d
  <2> QED
    BY <1>3, <2>1, <2>2 DEF Shows, Unmoved, Edited, Live, Count
<1>4. CASE operation = "refresh"
  <2> DEFINE d == Answer(c, "success")
  <2>1. /\ Edited(c, d) /\ d.rows = c.rows /\ d.db.table = c.db.table
        /\ d.position = c.position
    BY RefusedKeeps
  <2>2. Positioned(c, row, operation, outcome) = d
    BY <1>4 DEF Positioned
  <2> HIDE DEF d
  <2> QED
    BY <1>4, <2>1, <2>2 DEF Shows, Unmoved, Edited, Live, Count
<1> QED
  BY <1>1, <1>2, <1>3, <1>4 DEF Operations

\* One edit after another.
LEMMA EditedTwice ==
  ASSUME NEW c, NEW d, NEW e, Good(c), Edited(c, d), Edited(d, e)
  PROVE  Edited(c, e) /\ (Unmoved(c, d) /\ Unmoved(d, e) => Unmoved(c, e))
<1>1. Count(c) \in Nat /\ Count(d) \in Nat /\ Count(e) \in Nat
  BY Fields DEF Good, Edited
<1> QED
  BY <1>1 DEF Edited, Unmoved

\* The rows of the base result are the first ones.
LEMMA TuplesFirst ==
  ASSUME NEW c, Good(c)
  PROVE  /\ Tuples(c) \in 0 .. Count(c)
         /\ \A i \in 1 .. Count(c) : c.rows[i].based <=> i <= Tuples(c)
<1> DEFINE n == Count(c)
           B == {i \in 1 .. n : c.rows[i].based}
<1>1. n \in Nat /\ \A i \in 1 .. n : c.rows[i].based \in BOOLEAN
  BY Fields DEF Good, BufferedRow
<1>2. \A i, j \in 1 .. n : i < j /\ c.rows[j].based => c.rows[i].based
  BY DEF Good, RowsGood
<1>3. Tuples(c) = Cardinality(B)
  BY DEF Tuples
<1>4. CASE B = {}
  <2>1. Tuples(c) = 0
    BY <1>3, <1>4, FS_EmptySet
  <2> QED
    BY <1>1, <1>4, <2>1
<1>5. CASE B # {}
  <2> DEFINE m == Largest(B)
  <2>1. B \in SUBSET (0 .. n)
    BY <1>1
  <2>2. m \in B /\ \A j \in B : j <= m
    <3> HIDE DEF B
    <3> QED
      BY <1>1, <1>5, <2>1, LargestIsGreatest
  <2> HIDE DEF m
  <2>3. \A i \in 1 .. n : i \in B <=> i <= m
    <3> TAKE i \in 1 .. n
    <3>1. m \in 1 .. n /\ c.rows[m].based
      BY <2>2
    <3>2. ASSUME i <= m PROVE i \in B
      BY <1>1, <1>2, <3>1, <3>2
    <3> QED
      BY <2>2, <3>2
  <2>4. B = 1 .. m
    BY <1>1, <2>2, <2>3
  <2>5. Tuples(c) = m
    <3>1. m \in Nat /\ m >= 1
      BY <1>1, <2>2
    <3>2. Cardinality(1 .. m) = IF 1 > m THEN 0 ELSE m - 1 + 1
      BY <3>1, FS_Interval
    <3>3. Cardinality(1 .. m) = m
      BY <3>1, <3>2
    <3> HIDE DEF B
    <3> QED
      BY <1>3, <2>4, <3>3
  <2> QED
    BY <1>1, <2>2, <2>3, <2>5
<1> QED
  BY <1>4, <1>5

\* An edit leaves the number of the rows of the base result as it was.
LEMMA SameTuples ==
  ASSUME NEW c, NEW d, Good(c), Edited(c, d)
  PROVE  Tuples(d) = Tuples(c)
<1>1. Count(c) \in Nat /\ Count(d) \in Nat /\ Count(c) <= Count(d)
  BY Fields DEF Good, Edited
<1>2. {i \in 1 .. Count(d) : d.rows[i].based} = {i \in 1 .. Count(c) : c.rows[i].based}
  BY <1>1 DEF Edited
<1> QED
  BY <1>2 DEF Tuples

\* SQLSetPos.
LEMMA SetPosKeeps ==
  ASSUME NEW c, Good(c), NEW number \in Nat, NEW operation \in Operations, NEW outcome
  PROVE  LET d == SetPos(c, number, operation, outcome)
             row == SetPosRow(c, number)
         IN  /\ Edited(c, d)
             /\ Shows(c) /\ (operation = "delete" /\ row \in 1 .. Count(c) => row <= Tuples(c))
                  => Shows(d)
             /\ operation # "update" => Unmoved(c, d)
             /\ d.position = IF operation = "position" /\ row \in 1 .. Count(c) THEN row
                             ELSE c.position
             /\ Count(d) = Count(c)
<1> DEFINE row == SetPosRow(c, number)
<1>1. CASE row \in 1 .. Count(c)
  <2>1. SetPos(c, number, operation, outcome) = Positioned(c, row, operation, outcome)
    BY <1>1 DEF SetPos
  <2>2. row <= Tuples(c) => c.rows[row].based
    BY <1>1, TuplesFirst
  <2> HIDE DEF row
  <2> QED
    BY <1>1, <2>1, <2>2, PositionedKeeps DEF row
<1>2. CASE row \notin 1 .. Count(c)
  <2> DEFINE d == Answer(c, "error")
  <2>1. SetPos(c, number, operation, outcome) = d
    BY <1>2 DEF SetPos
  <2>2. /\ Edited(c, d) /\ d.rows = c.rows /\ d.db.table = c.db.table
        /\ d.position = c.position
    BY RefusedKeeps
  <2> HIDE DEF d
  <2> QED
    BY <1>2, <2>1, <2>2 DEF Shows, Unmoved, Edited, Live, Count
<1> QED
  BY <1>1, <1>2

\* An update or a delete of the row of a bookmark: no more than an edit, of which the overlay
\* keeps what it shows when a row that is deleted is one of the base result.
ElementKept(c, d, bookmark, operation) ==
  /\ Edited(c, d) /\ d.position = c.position /\ Count(d) = Count(c)
  /\ operation # "update" => Unmoved(c, d)
  /\ Shows(c) /\ (operation = "delete" /\ bookmark \in 1 .. Count(c)
                   => c.rows[bookmark].based) => Shows(d)

\* One element of a bulk operation.
LEMMA BulkElementKeeps ==
  ASSUME NEW c, NEW bookmark, NEW operation, NEW outcome, Good(c),
         operation \in {"update", "delete"}
  PROVE  ElementKept(c, BulkElement(c, bookmark, operation, outcome), bookmark, operation)
<1>1. CASE bookmark \in 1 .. Count(c)
  <2>1. operation \in Operations /\ operation # "position"
    BY DEF Operations
  <2> QED
    BY <1>1, <2>1, PositionedKeeps DEF BulkElement, ElementKept
<1>2. CASE bookmark \notin 1 .. Count(c)
  <2> DEFINE d == Answer(c, "error")
  <2>1. BulkElement(c, bookmark, operation, outcome) = d
    BY <1>2 DEF BulkElement
  <2>2. /\ Edited(c, d) /\ d.rows = c.rows /\ d.db.table = c.db.table
        /\ d.position = c.position
    BY RefusedKeeps
  <2> HIDE DEF d
  <2> QED
    BY <2>1, <2>2 DEF Shows, Unmoved, Edited, Live, Count, ElementKept
<1> QED
  BY <1>1, <1>2

\* A cursor is its own edit.
LEMMA EditedNot == ASSUME NEW c, Good(c) PROVE Edited(c, c) /\ Unmoved(c, c)
<1>1. Count(c) \in Nat
  BY Fields DEF Good
<1> QED
  BY <1>1 DEF Edited, Unmoved

\* SQLBulkOperations by bookmark, of which the second element may not be reached.
LEMMA ByBookmarksKeeps ==
  ASSUME NEW c, Good(c), NEW operation \in {"update", "delete"}, NEW outcomes,
         NEW bookmarks \in [1 .. c.array_size -> 0 .. Count(c)]
  PROVE  LET d == ByBookmarks(c, bookmarks, operation, outcomes)
         IN  /\ Edited(c, d)
             /\ Shows(c) /\ (operation = "delete" => \A i \in 1 .. c.array_size :
                              bookmarks[i] <= Tuples(c)) => Shows(d)
             /\ operation # "update" => Unmoved(c, d)
             /\ d.position = c.position /\ Count(d) = Count(c)
<1> DEFINE n == c.array_size
           first == BulkElement(c, bookmarks[1], operation, outcomes[1])
           second == BulkNext(first, bookmarks[2], operation, outcomes[2])
           Cared == operation = "delete" => \A i \in 1 .. n : bookmarks[i] <= Tuples(c)
<1>1. n \in {1, 2} /\ Count(c) \in Nat
  BY Fields DEF Good
<1>2. Len(bookmarks) = n
  <2>1. bookmarks \in Seq(0 .. Count(c)) /\ DOMAIN bookmarks = 1 .. n
    BY <1>1, IsASeq
  <2> QED
    BY <1>1, <2>1, LenProperties
<1>3. \A b \in 1 .. Count(c) : c.rows[b].based <=> b <= Tuples(c)
  BY TuplesFirst
<1>4. /\ Edited(c, first) /\ (operation # "update" => Unmoved(c, first))
      /\ first.position = c.position /\ Count(first) = Count(c)
      /\ Shows(c) /\ Cared => Shows(first)
  <2>1. 1 \in 1 .. n
    BY <1>1
  <2>2. Cared => (operation = "delete" /\ bookmarks[1] \in 1 .. Count(c)
                   => c.rows[bookmarks[1]].based)
    BY <1>3, <2>1
  <2>3. ElementKept(c, first, bookmarks[1], operation)
    BY BulkElementKeeps
  <2> HIDE DEF Cared, first
  <2> QED
    BY <2>2, <2>3 DEF ElementKept
<1> HIDE DEF first
<1>5. CASE n = 1
  BY <1>2, <1>4, <1>5 DEF ByBookmarks, first
<1>6. CASE n = 2
  <2>1. ByBookmarks(c, bookmarks, operation, outcomes) = second
    BY <1>2, <1>6 DEF ByBookmarks, first
  <2> DEFINE next == BulkElement(first, bookmarks[2], operation, outcomes[2])
  <2>2. second \in {first, next}
    BY DEF BulkNext
  <2>3. Good(first)
    BY <1>4 DEF Edited
  <2>4. Cared => (operation = "delete" /\ bookmarks[2] \in 1 .. Count(first)
                   => first.rows[bookmarks[2]].based)
    <3> SUFFICES ASSUME Cared, operation = "delete", bookmarks[2] \in 1 .. Count(first)
                 PROVE  first.rows[bookmarks[2]].based
      OBVIOUS
    <3>1. 2 \in 1 .. n /\ bookmarks[2] \in 0 .. Count(c) /\ bookmarks[2] <= Tuples(c)
      BY <1>6
    <3>2. Count(first) \in Nat
      BY <2>3, Fields DEF Good
    <3>3. bookmarks[2] \in 1 .. Count(c)
      BY <1>1, <3>1, <3>2
    <3> QED
      BY <1>3, <1>4, <3>1, <3>3 DEF Edited
  <2>5. /\ Edited(first, next) /\ (operation # "update" => Unmoved(first, next))
        /\ next.position = first.position /\ Count(next) = Count(first)
        /\ Shows(first) /\ Cared => Shows(next)
    <3>1. ElementKept(first, next, bookmarks[2], operation)
      BY <2>3, BulkElementKeeps
    <3> HIDE DEF Cared, next
    <3> QED
      BY <2>4, <3>1 DEF ElementKept
  <2> HIDE DEF next, second, Cared
  <2>6. CASE second = first
    BY <1>4, <2>1, <2>6 DEF Cared
  <2>7. CASE second = next
    <3>1. Edited(c, next) /\ (operation # "update" => Unmoved(c, next))
      BY <1>4, <2>5, EditedTwice
    <3> QED
      BY <1>4, <2>1, <2>5, <2>7, <3>1 DEF Cared
  <2> QED
    BY <2>2, <2>6, <2>7
<1> QED
  BY <1>1, <1>5, <1>6

\* SQL_ADD of one element.
LEMMA AddElementKeeps ==
  ASSUME NEW c, Good(c), NEW outcome
  PROVE  LET d == AddElement(c, outcome)
         IN  /\ Edited(c, d) /\ Unmoved(c, d) /\ (Shows(c) => Shows(d))
             /\ d.position = c.position
<1> DEFINE made == c.db.made
           new == [version |-> made + 1, based |-> FALSE, deleted |-> FALSE]
           rows == Append(c.rows, new)
           now == c.db.table \union {made + 1}
           db == Changed(c.db, now, made + 1)
           d == With(c, rows, db, "success")
<1>1. c \in CursorShape
  BY DEF Good
<1>2. /\ c.rows \in Seq(BufferedRow) /\ c.db \in Behind /\ made \in Nat
      /\ c.db.table \in SUBSET Nat /\ Count(c) \in Nat /\ Len(c.rows) = Count(c)
      /\ \A i \in 1 .. Count(c) : c.rows[i] \in BufferedRow
  BY <1>1, Fields DEF Count
<1>3. /\ \A i \in 1 .. Count(c) : c.rows[i].version \in 1 .. made
      /\ \A i, j \in 1 .. Count(c) : c.rows[i].version = c.rows[j].version => i = j
      /\ c.db.table \subseteq 1 .. made
  BY DEF Good, RowsGood
<1>4. new \in BufferedRow /\ new.version = made + 1 /\ ~new.based /\ ~new.deleted
  BY <1>2 DEF BufferedRow
<1> HIDE DEF new
<1>5. now \in SUBSET Nat /\ now \subseteq 1 .. made + 1
  BY <1>2, <1>3
<1>6. /\ db \in Behind /\ db.made = made + 1 /\ db.table = now /\ db.saves = c.db.saves
  <2>1. made + 1 \in Nat
    BY <1>2
  <2> HIDE DEF now
  <2> QED
    BY <1>2, <1>5, <2>1, TableReplaced
<1>7. /\ rows \in Seq(BufferedRow) /\ Len(rows) = Count(c) + 1 /\ rows[Count(c) + 1] = new
      /\ \A i \in 1 .. Count(c) : rows[i] = c.rows[i]
  BY <1>2, <1>4, AppendProperties
<1>8. Answer([c EXCEPT !.db.table = @ \union {c.db.made + 1}, !.db.made = @ + 1,
                       !.rows = Append(@, [version |-> c.db.made + 1, based |-> FALSE,
                                           deleted |-> FALSE])], "success") = d
  <2>1. [c EXCEPT !.db.table = @ \union {c.db.made + 1}, !.db.made = @ + 1,
                  !.rows = Append(@, [version |-> c.db.made + 1, based |-> FALSE,
                                      deleted |-> FALSE])]
        = [c EXCEPT !.db.table = now, !.db.made = made + 1, !.rows = rows]
    BY <1>1, <1>2 DEF new, CursorShape, Behind
  <2> HIDE DEF rows
  <2>2. [c EXCEPT !.db.table = now, !.db.made = made + 1, !.rows = rows]
        = [c EXCEPT !.db = db, !.rows = rows]
    BY <1>1, <1>2, <1>5, <1>7 DEF Changed, CursorShape, Behind
  <2> HIDE DEF db
  <2>3. Answer([c EXCEPT !.db = db, !.rows = rows], "success") = d
    BY <1>1, <1>6, <1>7, AnswerWith
  <2> HIDE DEF d, now, made
  <2> QED
    BY <2>1, <2>2, <2>3
<1> HIDE DEF rows, db
<1>9. /\ \A i \in 1 .. Count(c) : rows[i].based = c.rows[i].based
      /\ \A i \in 1 .. Len(rows) : rows[i].based => i <= Count(c)
      /\ \A i \in 1 .. Len(rows) : rows[i].version \in 1 .. db.made
      /\ \A i, j \in 1 .. Len(rows) : rows[i].version = rows[j].version => i = j
      /\ Len(rows) >= Count(c) /\ db.made >= c.db.made
  <2>1. \A i \in 1 .. Len(rows) : i \in 1 .. Count(c) \/ i = Count(c) + 1
    BY <1>2, <1>7
  <2>2. \A i \in 1 .. Count(c) : rows[i].version \in 1 .. made
    BY <1>3, <1>7
  <2>3. rows[Count(c) + 1].version = made + 1 /\ ~rows[Count(c) + 1].based
    BY <1>4, <1>7
  <2>4. \A i \in 1 .. Len(rows) : rows[i].version \in 1 .. db.made
    <3>1. made + 1 \in 1 .. made + 1 /\ 1 .. made \subseteq 1 .. made + 1
      BY <1>2
    <3> QED
      BY <1>6, <2>1, <2>2, <2>3, <3>1
  <2>5. made + 1 \notin 1 .. made
    BY <1>2
  <2>6. \A i, j \in 1 .. Len(rows) : rows[i].version = rows[j].version => i = j
    BY <1>3, <1>7, <2>1, <2>2, <2>3, <2>5
  <2>7. \A i \in 1 .. Len(rows) : rows[i].based => i <= Count(c)
    BY <1>2, <2>1, <2>3
  <2> QED
    BY <1>2, <1>6, <1>7, <2>4, <2>6, <2>7
<1>10. Edited(c, d) /\ d.rows = rows /\ d.db = db /\ d.position = c.position
  <2>1. db.table \subseteq 1 .. db.made
    BY <1>5, <1>6
  <2>2. rows \in Seq(BufferedRow) /\ db \in Behind /\ db.saves = c.db.saves
    BY <1>6, <1>7
  <2> HIDE DEF now, made
  <2> QED
    BY <1>9, <2>1, <2>2, EditedSo
<1>11. Unmoved(c, d)
  BY <1>7, <1>10 DEF Unmoved
<1>12. ASSUME Shows(c) PROVE Shows(d)
  <2> SUFFICES ASSUME c.open PROVE {rows[i].version : i \in Live(d)} = now
    BY <1>6, <1>10 DEF Shows, Edited
  <2>1. Live(d) = Live(c) \union {Count(c) + 1}
    <3>1. Count(d) = Count(c) + 1
      BY <1>7, <1>10 DEF Count
    <3>2. \A i \in 1 .. Count(c) + 1 : i \in 1 .. Count(c) \/ i = Count(c) + 1
      BY <1>2
    <3>3. Count(c) + 1 \in 1 .. Count(c) + 1 /\ 1 .. Count(c) \subseteq 1 .. Count(c) + 1
      BY <1>2
    <3> QED
      BY <3>1, <3>2, <3>3, <1>4, <1>7, <1>10 DEF Live
  <2>2. /\ c.db.table = {c.rows[i].version : i \in Live(c)}
        /\ \A i \in Live(c) : i \in 1 .. Count(c)
    BY <1>12 DEF Shows, Live
  <2>3. \A i \in Live(c) : rows[i].version = c.rows[i].version
    BY <1>7, <2>2
  <2>4. rows[Count(c) + 1].version = made + 1
    BY <1>4, <1>7
  <2> QED
    BY <2>1, <2>2, <2>3, <2>4
<1>13. ASSUME NEW e \in {Answer(c, "success"), Refused(c)}
       PROVE  Edited(c, e) /\ Unmoved(c, e) /\ (Shows(c) => Shows(e)) /\ e.position = c.position
  <2>1. Edited(c, e) /\ e.rows = c.rows /\ e.db.table = c.db.table /\ e.position = c.position
    BY RefusedKeeps
  <2> QED
    BY <2>1 DEF Shows, Unmoved, Edited, Live, Count
<1> HIDE DEF d
<1> QED
  BY <1>8, <1>10, <1>11, <1>12, <1>13 DEF AddElement

\* SQL_ADD.
LEMMA AddKeeps ==
  ASSUME NEW c, Good(c), NEW outcomes
  PROVE  LET d == Add(c, outcomes)
         IN  /\ Edited(c, d) /\ Unmoved(c, d) /\ (Shows(c) => Shows(d))
             /\ d.position = c.position
<1> DEFINE first == AddElement(c, outcomes[1])
           next == AddElement(first, outcomes[2])
<1>1. /\ Edited(c, first) /\ Unmoved(c, first) /\ (Shows(c) => Shows(first))
      /\ first.position = c.position
  BY AddElementKeeps
<1> HIDE DEF first
<1>2. Good(first)
  BY <1>1 DEF Edited
<1>3. /\ Edited(first, next) /\ Unmoved(first, next) /\ (Shows(first) => Shows(next))
      /\ next.position = first.position
  BY <1>2, AddElementKeeps
<1> HIDE DEF next
<1>4. Edited(c, next) /\ Unmoved(c, next)
  BY <1>1, <1>3, EditedTwice
<1>5. Add(c, outcomes) \in {first, next}
  BY DEF Add, AddNext, first, next
<1> QED
  BY <1>1, <1>3, <1>4, <1>5

\* What the overlay shows, and would show after a ROLLBACK TO, an edit leaves in step: it
\* moves no version while a savepoint stands.
LEMMA OverlayKept ==
  ASSUME NEW c, NEW d, Good(c), Overlay(c), Edited(c, d), Shows(d),
         Unmoved(c, d) \/ Len(c.db.saves) = 1
  PROVE  Overlay(d)
<1>1. /\ Count(c) \in Nat /\ Count(d) \in Nat /\ Count(c) <= Count(d)
      /\ d.snapshots = c.snapshots /\ d.db.saves = c.db.saves /\ d.open = c.open
      /\ Len(c.db.saves) \in Nat
      /\ \A s \in 1 .. Len(c.snapshots) : Len(c.snapshots[s].deleted) \in Nat
  <2>1. \A s \in 1 .. Len(c.snapshots) : c.snapshots[s] \in Snapshot
    BY Fields DEF Good
  <2> QED
    BY <2>1, Fields, LenProperties DEF Good, Edited, Snapshot
<1>2. ASSUME c.open, NEW k \in 2 .. Len(c.db.saves) PROVE Remembered(d, c.db.saves[k])
  <2>1. PICK s \in 1 .. Len(c.snapshots) :
          /\ Slots(c, c.db.saves[k].name) = {s}
          /\ Len(c.snapshots[s].deleted) <= Count(c)
          /\ Shown(c, c.snapshots[s].deleted) = c.db.saves[k].table
    BY <1>2 DEF Overlay, Remembered
  <2>2. Slots(d, c.db.saves[k].name) = {s}
    BY <1>1, <2>1 DEF Slots
  <2> DEFINE flags == c.snapshots[s].deleted
             J(e) == {j \in 1 .. Count(e) : j <= Len(flags) /\ ~flags[j]}
  <2>3. Len(flags) \in Nat /\ Len(flags) <= Count(c)
    BY <1>1, <2>1
  <2>4. J(d) = J(c) /\ \A j \in J(c) : j \in 1 .. Count(c)
    <3> HIDE DEF flags
    <3> QED
      BY <1>1, <2>3
  <2>5. Unmoved(c, d)
    <3>1. Len(c.db.saves) \in Nat /\ k \in 2 .. Len(c.db.saves)
      BY <1>1
    <3>2. Len(c.db.saves) >= 2
      BY <3>1
    <3>3. Len(c.db.saves) # 1
      BY <3>1, <3>2
    <3> QED
      BY <3>3, Zenon
  <2>6. Shown(d, flags) = Shown(c, flags)
    <3>1. Shown(d, flags) = {d.rows[i].version : i \in J(d)}
      BY DEF Shown
    <3>2. Shown(c, flags) = {c.rows[i].version : i \in J(c)}
      BY DEF Shown
    <3> HIDE DEF flags, J
    <3> QED
      BY <2>4, <2>5, <3>1, <3>2 DEF Unmoved
  <2>7. Len(flags) <= Count(d)
    BY <1>1, <2>3
  <2> QED
    BY <1>1, <2>1, <2>2, <2>6, <2>7 DEF Remembered
<1> QED
  BY <1>1, <1>2 DEF Overlay, Shows

----------------------------------------------------------------------------
(* Savepoints.                                                             *)

\* A cursor of the same statement: what a savepoint, a fetch or an execution may change is
\* given anew.
Built(c, rows, snapshots, db, position, first, ret) ==
  [c EXCEPT !.rows = rows, !.snapshots = snapshots, !.db = db, !.position = position,
            !.rowset_first = first, !.ret = ret]

\* The rest of it stays.
LEMMA BuiltSo ==
  ASSUME NEW c, NEW rows, NEW snapshots, NEW db, NEW position, NEW first, NEW ret,
         c \in CursorShape, rows \in Seq(BufferedRow), snapshots \in Seq(Snapshot),
         db \in Behind, position \in Nat, first \in Nat,
         ret \in {"success", "error", "no_data"}
  PROVE  LET d == Built(c, rows, snapshots, db, position, first, ret) IN
         /\ d \in CursorShape /\ d.rows = rows /\ d.snapshots = snapshots /\ d.db = db
         /\ d.position = position /\ d.rowset_first = first /\ d.ret = ret
         /\ d.kind = c.kind /\ d.open = c.open /\ d.array_size = c.array_size
BY DEF CursorShape, Built

\* A database whose savepoints are others.
Levelled(db, table, saves, aborted) ==
  [db EXCEPT !.table = table, !.saves = saves, !.aborted = aborted]

\* No version is made by that.
LEMMA LevelledSo ==
  ASSUME NEW db, NEW table, NEW saves, NEW aborted, db \in Behind, table \in SUBSET Nat,
         saves \in Seq(SavedLevel), aborted \in BOOLEAN
  PROVE  LET now == Levelled(db, table, saves, aborted) IN
         /\ now \in Behind /\ now.table = table /\ now.made = db.made /\ now.saves = saves
         /\ now.aborted = aborted
BY DEF Behind, Levelled

\* Savepoints that come or go, with rows hidden or shown again: the cursor stays good.
LEMMA LevelsGood ==
  ASSUME NEW c, Good(c), NEW d \in CursorShape,
         Len(d.rows) = Len(c.rows),
         \A i \in 1 .. Count(c) : /\ d.rows[i].version = c.rows[i].version
                                  /\ d.rows[i].based = c.rows[i].based,
         d.db.made = c.db.made, d.db.table \subseteq 1 .. c.db.made,
         Len(d.db.saves) >= 1,
         \A k \in 1 .. Len(d.db.saves) : d.db.saves[k].table \subseteq 1 .. c.db.made,
         Len(d.snapshots) <= MAX_KEYSET_SAVEPOINTS,
         d.rowset_first <= Count(c), d.position <= Count(c) + 2
  PROVE  Good(d)
<1>1. Count(d) = Count(c)
  BY DEF Count
<1>2. RowsGood(d)
  BY <1>1 DEF Good, RowsGood
<1> QED
  BY <1>1, <1>2 DEF Good

\* The snapshots of a cursor once one more is taken.
Kept(c, snapshot) ==
  IF Slots(c, snapshot.name) # {}
  THEN [c.snapshots EXCEPT ![Smallest(Slots(c, snapshot.name))] = snapshot]
  ELSE IF Len(c.snapshots) < MAX_KEYSET_SAVEPOINTS THEN Append(c.snapshots, snapshot)
  ELSE c.snapshots

\* The slot that a name has is one of the slots.
LEMMA SlotTaken ==
  ASSUME NEW c \in CursorShape, NEW name, Slots(c, name) # {}
  PROVE  LET s == Smallest(Slots(c, name))
         IN  s \in 1 .. Len(c.snapshots) /\ s \in Slots(c, name) /\ c.snapshots[s].name = name
<1>1. Slots(c, name) \in SUBSET Nat /\ Slots(c, name) \subseteq 1 .. Len(c.snapshots)
  BY Fields DEF Slots
<1>2. Smallest(Slots(c, name)) \in Slots(c, name)
  BY <1>1, SmallestIsLeast
<1> QED
  BY <1>1, <1>2 DEF Slots

\* They are snapshots, and no more of them than there is room for.
LEMMA KeptSo ==
  ASSUME NEW c \in CursorShape, NEW snapshot \in Snapshot,
         Len(c.snapshots) <= MAX_KEYSET_SAVEPOINTS
  PROVE  /\ Kept(c, snapshot) \in Seq(Snapshot)
         /\ Len(Kept(c, snapshot)) <= MAX_KEYSET_SAVEPOINTS
         /\ KeepSnapshot(c, snapshot) = [c EXCEPT !.snapshots = Kept(c, snapshot)]
<1>1. c.snapshots \in Seq(Snapshot) /\ Len(c.snapshots) \in Nat
      /\ MAX_KEYSET_SAVEPOINTS \in Nat
  BY Fields, SizesAssumption
<1>2. CASE Slots(c, snapshot.name) # {}
  <2> DEFINE s == Smallest(Slots(c, snapshot.name))
  <2>1. s \in 1 .. Len(c.snapshots)
    BY <1>2, SlotTaken
  <2>2. Kept(c, snapshot) = [c.snapshots EXCEPT ![s] = snapshot]
    BY <1>2 DEF Kept
  <2>3. KeepSnapshot(c, snapshot) = [c EXCEPT !.snapshots[s] = snapshot]
    BY <1>2 DEF KeepSnapshot
  <2> HIDE DEF s
  <2>4. [c EXCEPT !.snapshots[s] = snapshot] = [c EXCEPT !.snapshots = Kept(c, snapshot)]
    BY <1>1, <2>2 DEF CursorShape
  <2>5. Kept(c, snapshot) \in Seq(Snapshot) /\ Len(Kept(c, snapshot)) = Len(c.snapshots)
    BY <1>1, <2>1, <2>2, ExceptSeq
  <2> QED
    BY <1>1, <2>3, <2>4, <2>5
<1>3. CASE Slots(c, snapshot.name) = {} /\ Len(c.snapshots) < MAX_KEYSET_SAVEPOINTS
  <2>1. Kept(c, snapshot) = Append(c.snapshots, snapshot)
    BY <1>3 DEF Kept
  <2>2. KeepSnapshot(c, snapshot) = [c EXCEPT !.snapshots = Append(@, snapshot)]
    BY <1>3 DEF KeepSnapshot
  <2>3. /\ Kept(c, snapshot) \in Seq(Snapshot)
        /\ Len(Kept(c, snapshot)) = Len(c.snapshots) + 1
    BY <1>1, <2>1, AppendProperties
  <2> QED
    BY <1>1, <1>3, <2>1, <2>2, <2>3
<1>4. CASE Slots(c, snapshot.name) = {} /\ ~(Len(c.snapshots) < MAX_KEYSET_SAVEPOINTS)
  <2>1. Kept(c, snapshot) = c.snapshots /\ KeepSnapshot(c, snapshot) = c
    BY <1>4 DEF Kept, KeepSnapshot
  <2>2. c = [c EXCEPT !.snapshots = c.snapshots]
    BY DEF CursorShape
  <2> QED
    BY <1>1, <2>1, <2>2
<1> QED
  BY <1>2, <1>3, <1>4

\* SAVEPOINT gives the database one more level and, when there are rows, a snapshot.
LEMMA SaveSo ==
  ASSUME NEW c, Good(c), NEW name \in SavepointNames, ~c.db.aborted
  PROVE  LET d == Save(c, name)
             snapshot == [name |-> name, deleted |-> Flags(c)]
         IN  /\ Good(d)
             /\ d.open = c.open /\ d.rows = c.rows /\ d.db.table = c.db.table
             /\ d.db.made = c.db.made /\ d.kind = c.kind /\ d.array_size = c.array_size
             /\ d.position = c.position /\ d.rowset_first = c.rowset_first
             /\ d.db.saves = Append(c.db.saves, [name |-> name, table |-> c.db.table])
             /\ d.snapshots = IF c.open /\ Count(c) > 0 THEN Kept(c, snapshot)
                              ELSE c.snapshots
<1> DEFINE snapshot == [name |-> name, deleted |-> Flags(c)]
           level == [name |-> name, table |-> c.db.table]
           saves == Append(c.db.saves, level)
           snapshots == IF c.open /\ Count(c) > 0 THEN Kept(c, snapshot) ELSE c.snapshots
           db == Levelled(c.db, c.db.table, saves, c.db.aborted)
           saved == [c EXCEPT !.db.saves = Append(@, [name |-> name, table |-> c.db.table])]
           d == Built(c, c.rows, snapshots, db, c.position, c.rowset_first, "success")
<1>1. c \in CursorShape
  BY DEF Good
<1>2. /\ c.rows \in Seq(BufferedRow) /\ c.db \in Behind /\ c.db.table \in SUBSET Nat
      /\ c.db.saves \in Seq(SavedLevel) /\ c.db.aborted \in BOOLEAN /\ c.snapshots \in Seq(Snapshot)
      /\ c.position \in Nat /\ c.rowset_first \in Nat /\ Count(c) \in Nat
      /\ \A i \in 1 .. Count(c) : c.rows[i] \in BufferedRow
      /\ Len(c.snapshots) <= MAX_KEYSET_SAVEPOINTS
  BY <1>1, Fields DEF Good
<1>3. snapshot \in Snapshot
  <2>1. \A i \in 1 .. Count(c) : c.rows[i].deleted \in BOOLEAN
    BY <1>2 DEF BufferedRow
  <2>2. Flags(c) \in [1 .. Count(c) -> BOOLEAN]
    BY <2>1 DEF Flags
  <2>3. Flags(c) \in Seq(BOOLEAN)
    BY <1>2, <2>2, IsASeq
  <2> QED
    BY <2>3 DEF Snapshot
<1>4. level \in SavedLevel
  BY <1>2 DEF SavedLevel
<1>5. /\ saves \in Seq(SavedLevel) /\ Len(saves) = Len(c.db.saves) + 1
      /\ saves[Len(c.db.saves) + 1] = level
      /\ \A k \in 1 .. Len(c.db.saves) : saves[k] = c.db.saves[k]
  <2> HIDE DEF level
  <2> QED
    BY <1>2, <1>4, AppendProperties
<1>6. /\ db \in Behind /\ db.table = c.db.table /\ db.made = c.db.made /\ db.saves = saves
  <2> HIDE DEF saves
  <2> QED
    BY <1>2, <1>5, LevelledSo
<1>7. snapshots \in Seq(Snapshot) /\ Len(snapshots) <= MAX_KEYSET_SAVEPOINTS
  <2> HIDE DEF snapshot
  <2> QED
    BY <1>1, <1>2, <1>3, KeptSo
<1>8. saved = [c EXCEPT !.db = db]
  BY <1>1, <1>2 DEF CursorShape, Behind, Levelled
<1>9. Save(c, name) = d
  <2>1. Save(c, name) = Answer(TakeSnapshot(saved, name), "success")
    BY DEF Save
  <2> HIDE DEF db, saved, snapshot
  <2>2. /\ saved \in CursorShape /\ saved.open = c.open /\ saved.rows = c.rows
        /\ saved.snapshots = c.snapshots
    BY <1>1, <1>6, <1>8 DEF CursorShape
  <2>3. Count(saved) = Count(c) /\ Flags(saved) = Flags(c)
    BY <2>2 DEF Count, Flags
  <2>4. Kept(saved, snapshot) = Kept(c, snapshot)
    BY <2>2 DEF Kept, Slots
  <2>5. KeepSnapshot(saved, snapshot) = [saved EXCEPT !.snapshots = Kept(c, snapshot)]
    BY <1>2, <1>3, <2>2, <2>4, KeptSo
  <2>6. saved = [saved EXCEPT !.snapshots = c.snapshots]
    BY <2>2 DEF CursorShape
  <2>7. TakeSnapshot(saved, name) = [saved EXCEPT !.snapshots = snapshots]
    BY <2>2, <2>3, <2>5, <2>6 DEF TakeSnapshot, snapshot
  <2> HIDE DEF snapshots
  <2>8. Answer([saved EXCEPT !.snapshots = snapshots], "success") = d
    BY <1>1, <1>6, <1>7, <1>8 DEF CursorShape, Answer, Built
  <2> HIDE DEF d
  <2>9. Answer(TakeSnapshot(saved, name), "success") = d
    BY <2>7, <2>8
  <2> QED
    BY <2>1, <2>9
<1> HIDE DEF db, saves, snapshots
<1>10. /\ d \in CursorShape /\ d.rows = c.rows /\ d.snapshots = snapshots /\ d.db = db
       /\ d.position = c.position /\ d.rowset_first = c.rowset_first
       /\ d.kind = c.kind /\ d.open = c.open /\ d.array_size = c.array_size
  <2>1. /\ c.rows \in Seq(BufferedRow) /\ snapshots \in Seq(Snapshot) /\ db \in Behind
        /\ c.position \in Nat /\ c.rowset_first \in Nat
    BY <1>2, <1>6, <1>7
  <2> QED
    BY <1>1, <2>1, BuiltSo
<1> HIDE DEF d
<1>11. \A k \in 1 .. Len(saves) : saves[k].table \subseteq 1 .. c.db.made
  <2>1. \A k \in 1 .. Len(c.db.saves) : c.db.saves[k].table \subseteq 1 .. c.db.made
    BY DEF Good
  <2>2. level.table \subseteq 1 .. c.db.made
    BY DEF Good
  <2>3. Len(c.db.saves) \in Nat
    BY <1>2, LenProperties
  <2>4. \A k \in 1 .. Len(saves) : k \in 1 .. Len(c.db.saves) \/ k = Len(c.db.saves) + 1
    BY <1>5, <2>3
  <2> HIDE DEF level
  <2> QED
    BY <1>5, <2>1, <2>2, <2>4
<1>12. Good(d)
  <2>1. Len(d.db.saves) >= 1
    BY <1>2, <1>5, <1>6, <1>10, LenProperties
  <2>2. /\ c.db.table \subseteq 1 .. c.db.made /\ c.rowset_first <= Count(c)
        /\ c.position <= Count(c) + 2
    BY DEF Good
  <2> QED
    BY <1>6, <1>7, <1>10, <1>11, <2>1, <2>2, LevelsGood
<1> QED
  BY <1>6, <1>9, <1>10, <1>12 DEF saves, snapshots

\* The slots of a cursor once one more snapshot is taken: one for its name, and the others as
\* they were.
OneSlotMore(c, d, snapshot) ==
  /\ \E s \in 1 .. Len(d.snapshots) :
       Slots(d, snapshot.name) = {s} /\ d.snapshots[s] = snapshot
  /\ \A name : name # snapshot.name =>
       /\ Slots(d, name) = Slots(c, name)
       /\ \A s \in Slots(c, name) : d.snapshots[s] = c.snapshots[s]
  /\ \A s, t \in 1 .. Len(d.snapshots) : d.snapshots[s].name = d.snapshots[t].name => s = t
  /\ Len(d.snapshots) >= Len(c.snapshots) /\ Len(d.snapshots) \in Nat

\* That is what taking it does, when there is room.
LEMMA KeptSlots ==
  ASSUME NEW c, NEW d, NEW snapshot, c \in CursorShape, snapshot \in Snapshot,
         d.snapshots = Kept(c, snapshot),
         Slots(c, snapshot.name) # {} \/ Len(c.snapshots) < MAX_KEYSET_SAVEPOINTS,
         \A s, t \in 1 .. Len(c.snapshots) : c.snapshots[s].name = c.snapshots[t].name => s = t
  PROVE  OneSlotMore(c, d, snapshot)
<1>1. c.snapshots \in Seq(Snapshot) /\ Len(c.snapshots) \in Nat
  BY Fields
<1>2. CASE Slots(c, snapshot.name) # {}
  <2> DEFINE s == Smallest(Slots(c, snapshot.name))
  <2>1. s \in 1 .. Len(c.snapshots) /\ c.snapshots[s].name = snapshot.name
    BY <1>2, SlotTaken
  <2>2. d.snapshots = [c.snapshots EXCEPT ![s] = snapshot]
    BY <1>2 DEF Kept
  <2> HIDE DEF s
  <2>3. /\ Len(d.snapshots) = Len(c.snapshots) /\ d.snapshots[s] = snapshot
        /\ \A t \in 1 .. Len(c.snapshots) : t # s => d.snapshots[t] = c.snapshots[t]
    BY <1>1, <2>1, <2>2, ExceptSeq
  <2>4. \A t \in 1 .. Len(c.snapshots) : d.snapshots[t].name = c.snapshots[t].name
    BY <2>1, <2>3
  <2>5. \A name : Slots(d, name) = Slots(c, name)
    BY <2>3, <2>4 DEF Slots
  <2>6. Slots(c, snapshot.name) = {s}
    BY <2>1 DEF Slots
  <2>7. \A name : name # snapshot.name => s \notin Slots(c, name)
    BY <2>1 DEF Slots
  <2>8. \A name : name # snapshot.name =>
          \A t \in Slots(c, name) : d.snapshots[t] = c.snapshots[t]
    BY <2>3, <2>7 DEF Slots
  <2>9. \E t \in 1 .. Len(d.snapshots) :
          Slots(d, snapshot.name) = {t} /\ d.snapshots[t] = snapshot
    BY <2>1, <2>3, <2>5, <2>6
  <2> QED
    BY <1>1, <2>3, <2>4, <2>5, <2>8, <2>9 DEF OneSlotMore
<1>3. CASE Slots(c, snapshot.name) = {} /\ Len(c.snapshots) < MAX_KEYSET_SAVEPOINTS
  <2> DEFINE n == Len(c.snapshots) + 1
  <2>1. d.snapshots = Append(c.snapshots, snapshot)
    BY <1>3 DEF Kept
  <2>2. /\ Len(d.snapshots) = n /\ d.snapshots[n] = snapshot
        /\ \A t \in 1 .. Len(c.snapshots) : d.snapshots[t] = c.snapshots[t]
    BY <1>1, <2>1, AppendProperties
  <2>3. /\ \A t \in 1 .. n : t \in 1 .. Len(c.snapshots) \/ t = n
        /\ n \in 1 .. n /\ 1 .. Len(c.snapshots) \subseteq 1 .. n
        /\ n \notin 1 .. Len(c.snapshots)
    BY <1>1
  <2>4. \A t \in 1 .. Len(c.snapshots) : c.snapshots[t].name # snapshot.name
    BY <1>3 DEF Slots
  <2> HIDE DEF n
  <2>5. Slots(d, snapshot.name) = {n}
    BY <2>2, <2>3, <2>4 DEF Slots
  <2>6. \A name : name # snapshot.name =>
          /\ Slots(d, name) = Slots(c, name)
          /\ \A t \in Slots(c, name) : d.snapshots[t] = c.snapshots[t]
    BY <2>2, <2>3 DEF Slots
  <2>7. \A s, t \in 1 .. Len(d.snapshots) :
          d.snapshots[s].name = d.snapshots[t].name => s = t
    BY <2>2, <2>3, <2>4
  <2> QED
    BY <1>1, <2>2, <2>3, <2>5, <2>6, <2>7 DEF n, OneSlotMore
<1> QED
  BY <1>2, <1>3

\* SAVEPOINT.
LEMMA SaveKeeps ==
  ASSUME NEW c, Good(c), NEW name \in SavepointNames
  PROVE  LET d == Save(c, name) IN
         /\ Good(d) /\ d.rows = c.rows /\ d.position = c.position /\ d.kind = c.kind
         /\ d.rowset_first = c.rowset_first /\ d.array_size = c.array_size
         /\ d.db.made = c.db.made
         /\ /\ Overlay(c) /\ Named(c, name) = {} /\ Count(c) > 0
            /\ Slots(c, name) # {} \/ Len(c.snapshots) < MAX_KEYSET_SAVEPOINTS
            => Overlay(d)
<1> DEFINE snapshot == [name |-> name, deleted |-> Flags(c)]
           level == [name |-> name, table |-> c.db.table]
           d == Save(c, name)
<1>1. CASE c.db.aborted
  <2> DEFINE e == Answer(c, "error")
  <2>1. Save(c, name) = e
    BY <1>1 DEF Save
  <2>2. Edited(c, e) /\ e.rows = c.rows /\ e.db = c.db /\ e.position = c.position
    BY RefusedKeeps
  <2> HIDE DEF e
  <2>3. Overlay(c) => Overlay(e)
    <3>1. Unmoved(c, e) /\ (Shows(c) => Shows(e))
      BY <2>2 DEF Unmoved, Shows, Edited, Live, Count
    <3> QED
      BY <2>2, <3>1, OverlayKept DEF Overlay, Shows
  <2> QED
    BY <2>1, <2>2, <2>3 DEF Edited
<1>2. CASE ~c.db.aborted
  <2>1. /\ Good(d)
        /\ d.open = c.open /\ d.rows = c.rows /\ d.db.table = c.db.table
        /\ d.db.made = c.db.made /\ d.kind = c.kind /\ d.array_size = c.array_size
        /\ d.position = c.position /\ d.rowset_first = c.rowset_first
        /\ d.db.saves = Append(c.db.saves, level)
        /\ d.snapshots = IF c.open /\ Count(c) > 0 THEN Kept(c, snapshot)
                         ELSE c.snapshots
    BY <1>2, SaveSo
  <2> HIDE DEF d
  <2>2. Count(d) = Count(c) /\ Live(d) = Live(c)
    BY <2>1 DEF Count, Live
  <2>3. /\ c \in CursorShape /\ c.db.saves \in Seq(SavedLevel) /\ Count(c) \in Nat
        /\ c.db.table \in SUBSET Nat /\ Len(c.db.saves) \in Nat
        /\ \A i \in 1 .. Count(c) : c.rows[i] \in BufferedRow
    BY Fields DEF Good
  <2>4. level \in SavedLevel /\ level.name = name /\ level.table = c.db.table
    BY <2>3 DEF SavedLevel
  <2>5. snapshot \in Snapshot /\ snapshot.name = name /\ snapshot.deleted = Flags(c)
        /\ Len(Flags(c)) = Count(c)
        /\ \A i \in 1 .. Count(c) : Flags(c)[i] = c.rows[i].deleted
    <3>1. \A i \in 1 .. Count(c) : c.rows[i].deleted \in BOOLEAN
      BY <2>3 DEF BufferedRow
    <3>2. Flags(c) \in [1 .. Count(c) -> BOOLEAN]
      BY <3>1 DEF Flags
    <3>3. Flags(c) \in Seq(BOOLEAN) /\ DOMAIN Flags(c) = 1 .. Count(c)
      BY <2>3, <3>2, IsASeq
    <3>4. Len(Flags(c)) = Count(c)
      BY <2>3, <3>3, LenProperties
    <3> QED
      BY <3>3, <3>4 DEF Snapshot, Flags
  <2> HIDE DEF level, snapshot
  <2>6. /\ Len(d.db.saves) = Len(c.db.saves) + 1
        /\ d.db.saves[Len(c.db.saves) + 1] = level
        /\ \A k \in 1 .. Len(c.db.saves) : d.db.saves[k] = c.db.saves[k]
    BY <2>1, <2>3, <2>4, AppendProperties
  <2>7. /\ \A k \in 2 .. Len(d.db.saves) : k \in 2 .. Len(c.db.saves) \/ k = Len(c.db.saves) + 1
        /\ 2 .. Len(c.db.saves) \subseteq 1 .. Len(c.db.saves)
        /\ 2 .. Len(c.db.saves) \subseteq 2 .. Len(d.db.saves)
    BY <2>3, <2>6
  <2>8. ASSUME Overlay(c), Named(c, name) = {}, Count(c) > 0,
               Slots(c, name) # {} \/ Len(c.snapshots) < MAX_KEYSET_SAVEPOINTS
        PROVE  Overlay(d)
    <3>1. \A k \in 2 .. Len(c.db.saves) : c.db.saves[k].name # name
      BY <2>8 DEF Named
    <3>2. \A k, l \in 2 .. Len(d.db.saves) : d.db.saves[k].name = d.db.saves[l].name => k = l
      <4>1. \A k, l \in 2 .. Len(c.db.saves) : c.db.saves[k].name = c.db.saves[l].name => k = l
        BY <2>8 DEF Overlay
      <4> QED
        BY <2>4, <2>6, <2>7, <3>1, <4>1
    <3>3. \A s, t \in 1 .. Len(c.snapshots) :
            c.snapshots[s].name = c.snapshots[t].name => s = t
      BY <2>8 DEF Overlay
    <3>4. CASE ~c.open
      BY <2>1, <3>2, <3>3, <3>4 DEF Overlay
    <3>5. CASE c.open
      <4>1. d.snapshots = Kept(c, snapshot)
        BY <2>1, <2>8, <3>5
      <4>2. OneSlotMore(c, d, snapshot)
        <5>1. Slots(c, snapshot.name) # {} \/ Len(c.snapshots) < MAX_KEYSET_SAVEPOINTS
          BY <2>5, <2>8
        <5> QED
          BY <2>3, <2>5, <3>3, <4>1, <5>1, KeptSlots
      <4>3. Len(c.snapshots) \in Nat
        BY <2>3, Fields
      <4>4. {d.rows[i].version : i \in Live(d)} = d.db.table
        BY <2>1, <2>2, <2>8, <3>5 DEF Overlay
      <4>5. Remembered(d, level)
        <5>1. PICK s \in 1 .. Len(d.snapshots) :
                Slots(d, snapshot.name) = {s} /\ d.snapshots[s] = snapshot
          BY <4>2 DEF OneSlotMore
        <5>2. {j \in 1 .. Count(d) : j <= Len(Flags(c)) /\ ~Flags(c)[j]} = Live(d)
          BY <2>1, <2>2, <2>3, <2>5 DEF Live
        <5>3. Shown(d, Flags(c)) = level.table
          BY <2>1, <2>4, <4>4, <5>2 DEF Shown
        <5>4. Slots(d, level.name) = {s} /\ d.snapshots[s].deleted = Flags(c)
          BY <2>4, <2>5, <5>1
        <5>5. Len(d.snapshots[s].deleted) <= Count(d)
          BY <2>2, <2>3, <2>5, <5>4
        <5> QED
          BY <5>3, <5>4, <5>5 DEF Remembered
      <4>6. ASSUME NEW k \in 2 .. Len(c.db.saves) PROVE Remembered(d, c.db.saves[k])
        <5>1. PICK s \in 1 .. Len(c.snapshots) :
                /\ Slots(c, c.db.saves[k].name) = {s}
                /\ Len(c.snapshots[s].deleted) <= Count(c)
                /\ Shown(c, c.snapshots[s].deleted) = c.db.saves[k].table
          BY <2>8, <3>5, <4>6 DEF Overlay, Remembered
        <5>2. c.db.saves[k].name # snapshot.name
          BY <2>5, <3>1, <4>6
        <5>3. Slots(d, c.db.saves[k].name) = {s} /\ d.snapshots[s] = c.snapshots[s]
          BY <4>2, <5>1, <5>2 DEF OneSlotMore
        <5>4. Shown(d, c.snapshots[s].deleted) = Shown(c, c.snapshots[s].deleted)
          BY <2>1, <2>2 DEF Shown
        <5>5. s \in 1 .. Len(d.snapshots)
          BY <4>2, <4>3, <5>1 DEF OneSlotMore
        <5> QED
          BY <2>2, <5>1, <5>3, <5>4, <5>5 DEF Remembered
      <4>7. \A k \in 2 .. Len(d.db.saves) : Remembered(d, d.db.saves[k])
        <5>1. \A k \in 2 .. Len(c.db.saves) : Remembered(d, d.db.saves[k])
          BY <2>6, <2>7, <4>6
        <5>2. Remembered(d, d.db.saves[Len(c.db.saves) + 1])
          BY <2>6, <4>5
        <5> QED
          BY <2>7, <5>1, <5>2
      <4> QED
        BY <3>2, <4>2, <4>4, <4>7 DEF Overlay, OneSlotMore
    <3> QED
      BY <3>4, <3>5
  <2> QED
    BY <2>1, <2>8 DEF d
<1> QED
  BY <1>1, <1>2

\* The level that a name stands for is one of those after the transaction.
LEMMA NamedIsLevel ==
  ASSUME NEW c, Good(c), NEW name, Named(c, name) # {}
  PROVE  LET level == Largest(Named(c, name))
         IN  level \in 2 .. Len(c.db.saves) /\ c.db.saves[level].name = name
<1>1. Len(c.db.saves) \in Nat
  BY Fields DEF Good
<1>2. Named(c, name) \in SUBSET (0 .. Len(c.db.saves)) /\ Named(c, name) \subseteq 2 .. Len(c.db.saves)
  BY <1>1 DEF Named
<1>3. Largest(Named(c, name)) \in Named(c, name)
  BY <1>1, <1>2, LargestIsGreatest
<1> QED
  BY <1>2, <1>3 DEF Named

\* The levels up to one of them.
LEMMA LevelsUpTo ==
  ASSUME NEW c, NEW n, Good(c), n \in 1 .. Len(c.db.saves)
  PROVE  LET saves == SubSeq(c.db.saves, 1, n)
         IN  /\ saves \in Seq(SavedLevel) /\ Len(saves) = n /\ n \in Nat
             /\ \A k \in 1 .. n : saves[k] = c.db.saves[k] /\ k \in 1 .. Len(c.db.saves)
             /\ 2 .. n \subseteq 1 .. n /\ 2 .. n \subseteq 2 .. Len(c.db.saves)
<1>1. c.db.saves \in Seq(SavedLevel) /\ Len(c.db.saves) \in Nat
  BY Fields DEF Good
<1>2. n \in Nat /\ n >= 1 /\ n <= Len(c.db.saves)
  BY <1>1
<1> DEFINE all == c.db.saves
<1>3. PICK s \in Seq(SavedLevel) : s = all
  BY <1>1
<1>4. /\ SubSeq(s, 1, n) \in Seq(SavedLevel)
      /\ Len(SubSeq(s, 1, n)) = n
      /\ \A k \in 1 .. n : SubSeq(s, 1, n)[k] = s[k]
  <2>1. 1 \in 1 .. Len(s) + 1 /\ n \in 1 - 1 .. Len(s)
    BY <1>1, <1>2, <1>3
  <2>2. /\ SubSeq(s, 1, n) \in Seq(SavedLevel)
        /\ Len(SubSeq(s, 1, n)) = n - 1 + 1
        /\ \A i \in 1 .. n - 1 + 1 : SubSeq(s, 1, n)[i] = s[1 + i - 1]
    BY <2>1, SubSeqProperties
  <2>3. n - 1 + 1 = n /\ \A i \in 1 .. n : 1 + i - 1 = i
    BY <1>2
  <2> QED
    BY <2>2, <2>3
<1> QED
  BY <1>1, <1>2, <1>3, <1>4

\* RELEASE.
LEMMA ReleaseKeeps ==
  ASSUME NEW c, Good(c), NEW name
  PROVE  LET d == ReleaseTo(c, name) IN
         /\ Good(d) /\ d.rows = c.rows /\ d.position = c.position /\ d.kind = c.kind
         /\ d.rowset_first = c.rowset_first /\ d.array_size = c.array_size
         /\ d.db.made = c.db.made
         /\ Overlay(c) => Overlay(d)
<1>1. CASE c.db.aborted \/ Named(c, name) = {}
  <2> DEFINE e == Refused(c)
  <2>1. ReleaseTo(c, name) = e
    BY <1>1 DEF ReleaseTo
  <2>2. Edited(c, e) /\ e.rows = c.rows /\ e.db.table = c.db.table /\ e.db.made = c.db.made
        /\ e.position = c.position
    BY RefusedKeeps
  <2> HIDE DEF e
  <2>3. Overlay(c) => Overlay(e)
    <3>1. Unmoved(c, e) /\ (Shows(c) => Shows(e))
      BY <2>2 DEF Unmoved, Shows, Edited, Live, Count
    <3> QED
      BY <2>2, <3>1, OverlayKept DEF Overlay, Shows
  <2> QED
    BY <2>1, <2>2, <2>3 DEF Edited
<1>2. CASE ~c.db.aborted /\ Named(c, name) # {}
  <2> DEFINE n == Largest(Named(c, name)) - 1
             saves == SubSeq(c.db.saves, 1, n)
             db == Levelled(c.db, c.db.table, saves, c.db.aborted)
             d == Built(c, c.rows, c.snapshots, db, c.position, c.rowset_first, "success")
  <2>1. /\ c \in CursorShape /\ c.rows \in Seq(BufferedRow) /\ c.db \in Behind
        /\ c.db.table \in SUBSET Nat /\ c.db.aborted \in BOOLEAN
        /\ c.snapshots \in Seq(Snapshot) /\ c.position \in Nat /\ c.rowset_first \in Nat
        /\ Len(c.db.saves) \in Nat
    BY Fields DEF Good
  <2>2. n \in 1 .. Len(c.db.saves)
    <3>1. Largest(Named(c, name)) \in 2 .. Len(c.db.saves)
      BY <1>2, NamedIsLevel
    <3> QED
      BY <2>1, <3>1
  <2>3. ReleaseTo(c, name) = Answer([c EXCEPT !.db.saves = saves], "success")
    BY <1>2 DEF ReleaseTo
  <2> HIDE DEF n
  <2>4. /\ saves \in Seq(SavedLevel) /\ Len(saves) = n /\ n \in Nat
        /\ \A k \in 1 .. n : saves[k] = c.db.saves[k] /\ k \in 1 .. Len(c.db.saves)
        /\ 2 .. n \subseteq 1 .. n /\ 2 .. n \subseteq 2 .. Len(c.db.saves)
    BY <2>2, LevelsUpTo
  <2> HIDE DEF saves
  <2>5. db \in Behind /\ db.table = c.db.table /\ db.made = c.db.made /\ db.saves = saves
    BY <2>1, <2>4, LevelledSo
  <2>6. Answer([c EXCEPT !.db.saves = saves], "success") = d
    BY <2>1, <2>4 DEF CursorShape, Behind, Answer, Built, Levelled
  <2> HIDE DEF db
  <2>7. /\ d \in CursorShape /\ d.rows = c.rows /\ d.snapshots = c.snapshots /\ d.db = db
        /\ d.position = c.position /\ d.rowset_first = c.rowset_first
        /\ d.kind = c.kind /\ d.open = c.open /\ d.array_size = c.array_size
    BY <2>1, <2>5, BuiltSo
  <2> HIDE DEF d
  <2>8. Good(d)
    <3>1. /\ c.db.table \subseteq 1 .. c.db.made /\ c.rowset_first <= Count(c)
          /\ c.position <= Count(c) + 2 /\ Len(c.snapshots) <= MAX_KEYSET_SAVEPOINTS
          /\ \A k \in 1 .. Len(c.db.saves) : c.db.saves[k].table \subseteq 1 .. c.db.made
      BY DEF Good
    <3>2. Len(d.db.saves) >= 1
      BY <2>1, <2>2, <2>4, <2>5, <2>7
    <3>3. \A k \in 1 .. Len(d.db.saves) : d.db.saves[k].table \subseteq 1 .. c.db.made
      BY <2>4, <2>5, <2>7, <3>1
    <3> QED
      BY <2>5, <2>7, <3>1, <3>2, <3>3, LevelsGood
  <2>9. ASSUME Overlay(c) PROVE Overlay(d)
    <3>1. Count(d) = Count(c) /\ Live(d) = Live(c)
      BY <2>7 DEF Count, Live
    <3>2. \A level : Remembered(c, level) => Remembered(d, level)
      BY <2>7, <3>1 DEF Remembered, Slots, Shown
    <3>3. \A k \in 2 .. Len(d.db.saves) :
            k \in 2 .. Len(c.db.saves) /\ d.db.saves[k] = c.db.saves[k]
      BY <2>4, <2>5, <2>7
    <3>4. d.db.table = c.db.table
      BY <2>5, <2>7
    <3> QED
      BY <2>7, <2>9, <3>1, <3>2, <3>3, <3>4 DEF Overlay
  <2> QED
    BY <2>3, <2>5, <2>6, <2>7, <2>8, <2>9
<1> QED
  BY <1>1, <1>2

\* The rows with the flags of a snapshot.
Unhidden(c, flags) ==
  [i \in 1 .. Count(c) |->
     [c.rows[i] EXCEPT !.deleted = IF i <= Len(flags) THEN flags[i] ELSE TRUE]]

\* They are the same rows, and those that show are those that the snapshot showed.
LEMMA UnhiddenSo ==
  ASSUME NEW c, NEW flags, Good(c), flags \in Seq(BOOLEAN)
  PROVE  /\ Unhidden(c, flags) \in Seq(BufferedRow) /\ Len(Unhidden(c, flags)) = Count(c)
         /\ \A i \in 1 .. Count(c) :
              /\ Unhidden(c, flags)[i].version = c.rows[i].version
              /\ Unhidden(c, flags)[i].based = c.rows[i].based
              /\ Unhidden(c, flags)[i].deleted = IF i <= Len(flags) THEN flags[i] ELSE TRUE
<1> DEFINE rows == Unhidden(c, flags)
<1>1. Count(c) \in Nat /\ \A i \in 1 .. Count(c) : c.rows[i] \in BufferedRow
  BY Fields DEF Good
<1>2. \A i \in 1 .. Count(c) : (IF i <= Len(flags) THEN flags[i] ELSE TRUE) \in BOOLEAN
  <2> TAKE i \in 1 .. Count(c)
  <2>1. CASE i <= Len(flags)
    <3>1. Len(flags) \in Nat /\ i \in 1 .. Len(flags)
      BY <1>1, <2>1, LenProperties
    <3>2. flags[i] \in BOOLEAN
      BY <3>1, ElementOfSeq
    <3> QED
      BY <2>1, <3>2
  <2> QED
    BY <2>1
<1>3. \A i \in 1 .. Count(c) :
        rows[i] = [c.rows[i] EXCEPT !.deleted = IF i <= Len(flags) THEN flags[i] ELSE TRUE]
  BY DEF Unhidden
<1>4. \A i \in 1 .. Count(c) :
        /\ rows[i] \in BufferedRow /\ rows[i].version = c.rows[i].version
        /\ rows[i].based = c.rows[i].based
        /\ rows[i].deleted = IF i <= Len(flags) THEN flags[i] ELSE TRUE
  <2> TAKE i \in 1 .. Count(c)
  <2> DEFINE flag == IF i <= Len(flags) THEN flags[i] ELSE TRUE
  <2>1. flag \in BOOLEAN /\ c.rows[i] \in BufferedRow
    BY <1>1, <1>2
  <2>2. rows[i] = [c.rows[i] EXCEPT !.deleted = flag]
    BY <1>3
  <2> HIDE DEF flag, rows
  <2>3. /\ rows[i] \in BufferedRow /\ rows[i].version = c.rows[i].version
        /\ rows[i].based = c.rows[i].based /\ rows[i].deleted = flag
    BY <2>1, <2>2 DEF BufferedRow
  <2> QED
    BY <2>3 DEF flag
<1>5. rows \in [1 .. Count(c) -> BufferedRow]
  <2>1. rows = [i \in 1 .. Count(c) |-> rows[i]]
    BY DEF Unhidden
  <2> HIDE DEF rows
  <2> QED
    BY <1>4, <2>1
<1> HIDE DEF rows
<1>6. rows \in Seq(BufferedRow) /\ DOMAIN rows = 1 .. Count(c)
  BY <1>1, <1>5, IsASeq
<1>7. Len(rows) = Count(c)
  BY <1>1, <1>6, LenProperties
<1> QED
  BY <1>4, <1>6, <1>7 DEF rows

\* ROLLBACK TO goes back to the last level of the name, and the cursor to its snapshot.
LEMMA RewindSo ==
  ASSUME NEW c, NEW name, Good(c), Named(c, name) # {}
  PROVE  LET d == RewindTo(c, name)
             level == Largest(Named(c, name))
             slot == Smallest(Slots(c, name))
         IN  /\ Good(d) /\ d.kind = c.kind /\ d.open = c.open
             /\ d.array_size = c.array_size /\ d.snapshots = c.snapshots
             /\ d.db.made = c.db.made /\ d.db.table = c.db.saves[level].table
             /\ d.db.saves = SubSeq(c.db.saves, 1, level)
             /\ Slots(c, name) = {} =>
                  d.rows = c.rows /\ d.position = c.position /\ d.rowset_first = c.rowset_first
             /\ Slots(c, name) # {} =>
                  /\ d.rows = Unhidden(c, c.snapshots[slot].deleted)
                  /\ d.position = 0 /\ d.rowset_first = 0
<1> DEFINE level == Largest(Named(c, name))
           slot == Smallest(Slots(c, name))
           table == c.db.saves[level].table
           saves == SubSeq(c.db.saves, 1, level)
           db == Levelled(c.db, table, saves, FALSE)
           back == BackTo(c, level)
           flags == c.snapshots[slot].deleted
           rows == Unhidden(c, flags)
           same == Built(c, c.rows, c.snapshots, db, c.position, c.rowset_first, "success")
           rewound == Built(c, rows, c.snapshots, db, 0, 0, "success")
<1>1. /\ c \in CursorShape /\ c.rows \in Seq(BufferedRow) /\ c.db \in Behind
      /\ c.db.saves \in Seq(SavedLevel) /\ Len(c.db.saves) \in Nat
      /\ c.snapshots \in Seq(Snapshot) /\ c.position \in Nat /\ c.rowset_first \in Nat
      /\ \A k \in 1 .. Len(c.db.saves) : c.db.saves[k] \in SavedLevel
      /\ \A s \in 1 .. Len(c.snapshots) : c.snapshots[s] \in Snapshot
      /\ Count(c) \in Nat
  BY Fields DEF Good
<1>2. level \in 2 .. Len(c.db.saves) /\ level \in 1 .. Len(c.db.saves)
  <2>1. level \in 2 .. Len(c.db.saves)
    BY NamedIsLevel
  <2> HIDE DEF level
  <2> QED
    BY <1>1, <2>1
<1>3. RewindTo(c, name) = Answer(Restore(back, name), "success")
  BY DEF RewindTo
<1> HIDE DEF level
<1>4. /\ saves \in Seq(SavedLevel) /\ Len(saves) = level /\ level \in Nat
      /\ \A k \in 1 .. level : saves[k] = c.db.saves[k] /\ k \in 1 .. Len(c.db.saves)
  BY <1>2, LevelsUpTo
<1>5. table \in SUBSET Nat /\ table \subseteq 1 .. c.db.made
  BY <1>1, <1>2 DEF SavedLevel, Good
<1>6. back = [c EXCEPT !.db.table = table, !.db.saves = saves, !.db.aborted = FALSE]
  BY DEF BackTo
<1> HIDE DEF saves, table
<1>7. db \in Behind /\ db.table = table /\ db.made = c.db.made /\ db.saves = saves
  BY <1>1, <1>4, <1>5 DEF Behind, Levelled
<1>8. back = [c EXCEPT !.db = db]
  <2> HIDE DEF back
  <2> QED
    BY <1>1, <1>4, <1>5, <1>6 DEF CursorShape, Behind, Levelled
<1> HIDE DEF db, back
<1>9. /\ back \in CursorShape /\ back.rows = c.rows /\ back.snapshots = c.snapshots
      /\ Count(back) = Count(c) /\ Slots(back, name) = Slots(c, name)
  <2>1. back \in CursorShape /\ back.rows = c.rows /\ back.snapshots = c.snapshots
    BY <1>1, <1>7, <1>8 DEF CursorShape
  <2> QED
    BY <2>1 DEF Count, Slots
<1>10. \A k \in 1 .. Len(db.saves) : db.saves[k].table \subseteq 1 .. c.db.made
  BY <1>4, <1>7 DEF Good
<1>11. /\ c.rowset_first <= Count(c) /\ c.position <= Count(c) + 2
       /\ Len(c.snapshots) <= MAX_KEYSET_SAVEPOINTS /\ Len(db.saves) >= 1
  BY <1>1, <1>2, <1>4, <1>7 DEF Good
<1>12. CASE Slots(c, name) = {}
  <2>1. Restore(back, name) = back
    BY <1>9, <1>12 DEF Restore
  <2>2. Answer(back, "success") = same
    BY <1>1, <1>7, <1>8 DEF CursorShape, Answer, Built
  <2>3. /\ same \in CursorShape /\ same.rows = c.rows /\ same.snapshots = c.snapshots
        /\ same.db = db /\ same.position = c.position
        /\ same.rowset_first = c.rowset_first /\ same.kind = c.kind
        /\ same.open = c.open /\ same.array_size = c.array_size
    BY <1>1, <1>7, BuiltSo
  <2> HIDE DEF same
  <2>4. Good(same)
    BY <1>5, <1>7, <1>10, <1>11, <2>3, LevelsGood
  <2> QED
    BY <1>3, <1>7, <1>12, <2>1, <2>2, <2>3, <2>4 DEF table, saves, level
<1>13. CASE Slots(c, name) # {}
  <2>1. slot \in 1 .. Len(c.snapshots)
    BY <1>1, <1>13, SlotTaken
  <2>2. flags \in Seq(BOOLEAN)
    BY <1>1, <2>1 DEF Snapshot
  <2>3. Restore(back, name) = Rewound(RestoreRows(back, flags))
    BY <1>9, <1>13 DEF Restore
  <2> HIDE DEF flags
  <2>4. RestoreRows(back, flags) = [back EXCEPT !.rows = rows]
    BY <1>9 DEF RestoreRows, Unhidden
  <2>5. /\ rows \in Seq(BufferedRow) /\ Len(rows) = Count(c)
        /\ \A i \in 1 .. Count(c) : rows[i].version = c.rows[i].version
                                    /\ rows[i].based = c.rows[i].based
    BY <2>2, UnhiddenSo
  <2> HIDE DEF rows
  <2>6. Answer(Rewound([back EXCEPT !.rows = rows]), "success") = rewound
    BY <1>1, <1>7, <1>8, <2>5 DEF CursorShape, Answer, Rewound, Built
  <2>7. /\ rewound \in CursorShape /\ rewound.rows = rows
        /\ rewound.snapshots = c.snapshots /\ rewound.db = db /\ rewound.position = 0
        /\ rewound.rowset_first = 0 /\ rewound.kind = c.kind /\ rewound.open = c.open
        /\ rewound.array_size = c.array_size
    BY <1>1, <1>7, <2>5 DEF CursorShape, Built
  <2> HIDE DEF rewound
  <2>8. Good(rewound)
    <3>1. rewound.rowset_first <= Count(c) /\ rewound.position <= Count(c) + 2
      BY <1>1, <2>7
    <3>2. Len(rewound.rows) = Len(c.rows)
      BY <2>5, <2>7 DEF Count
    <3> QED
      BY <1>5, <1>7, <1>10, <1>11, <2>5, <2>7, <3>1, <3>2, LevelsGood
  <2>9. RewindTo(c, name) = rewound
    BY <1>3, <2>3, <2>4, <2>6
  <2> QED
    BY <1>7, <1>13, <2>7, <2>8, <2>9 DEF table, saves, level, rows, flags
<1> QED
  BY <1>12, <1>13

\* ROLLBACK TO.
LEMMA RewindKeeps ==
  ASSUME NEW c, NEW name, Good(c)
  PROVE  LET d == RewindTo(c, name) IN
         /\ Good(d) /\ Count(d) = Count(c) /\ Tuples(d) = Tuples(c) /\ d.kind = c.kind
         /\ d.array_size = c.array_size /\ d.db.made = c.db.made
         /\ Named(c, name) = {} \/ Slots(c, name) = {} =>
              d.rows = c.rows /\ d.position = c.position /\ d.rowset_first = c.rowset_first
         /\ Named(c, name) # {} /\ Slots(c, name) # {} => d.position = 0 /\ d.rowset_first = 0
         /\ Overlay(c) => Overlay(d)
<1>1. CASE Named(c, name) = {}
  <2> DEFINE e == Refused(c)
  <2>1. RewindTo(c, name) = e
    BY <1>1 DEF RewindTo
  <2>2. Edited(c, e) /\ e.rows = c.rows /\ e.db.table = c.db.table /\ e.db.made = c.db.made
        /\ e.position = c.position
    BY RefusedKeeps
  <2> HIDE DEF e
  <2>3. Overlay(c) => Overlay(e)
    <3>1. Unmoved(c, e) /\ (Shows(c) => Shows(e))
      BY <2>2 DEF Unmoved, Shows, Edited, Live, Count
    <3> QED
      BY <2>2, <3>1, OverlayKept DEF Overlay, Shows
  <2>4. Count(e) = Count(c) /\ Tuples(e) = Tuples(c)
    BY <2>2 DEF Count, Tuples
  <2> QED
    BY <1>1, <2>1, <2>2, <2>3, <2>4 DEF Edited
<1>2. CASE Named(c, name) # {}
  <2> DEFINE d == RewindTo(c, name)
             level == Largest(Named(c, name))
             slot == Smallest(Slots(c, name))
             flags == c.snapshots[slot].deleted
  <2>1. /\ Good(d) /\ d.kind = c.kind /\ d.open = c.open
        /\ d.array_size = c.array_size /\ d.snapshots = c.snapshots
        /\ d.db.made = c.db.made /\ d.db.table = c.db.saves[level].table
        /\ d.db.saves = SubSeq(c.db.saves, 1, level)
    BY <1>2, RewindSo
  <2>2. Slots(c, name) = {} =>
          d.rows = c.rows /\ d.position = c.position /\ d.rowset_first = c.rowset_first
    BY <1>2, RewindSo
  <2>3. Slots(c, name) # {} =>
          d.rows = Unhidden(c, flags) /\ d.position = 0 /\ d.rowset_first = 0
    BY <1>2, RewindSo
  <2>4. level \in 2 .. Len(c.db.saves) /\ c.db.saves[level].name = name
    BY <1>2, NamedIsLevel
  <2>5. /\ c \in CursorShape /\ Count(c) \in Nat /\ Len(c.db.saves) \in Nat
        /\ \A s \in 1 .. Len(c.snapshots) : c.snapshots[s] \in Snapshot
    BY Fields DEF Good
  <2> HIDE DEF d, level
  <2>6. Slots(c, name) # {} => flags \in Seq(BOOLEAN) /\ slot \in Slots(c, name)
    <3>1. Slots(c, name) # {} => slot \in 1 .. Len(c.snapshots) /\ slot \in Slots(c, name)
      BY <2>5, SlotTaken
    <3> QED
      BY <2>5, <3>1 DEF Snapshot
  <2> HIDE DEF slot, flags
  <2>7. Slots(c, name) # {} =>
          /\ Len(d.rows) = Count(c)
          /\ \A i \in 1 .. Count(c) :
               /\ d.rows[i].version = c.rows[i].version /\ d.rows[i].based = c.rows[i].based
               /\ d.rows[i].deleted = IF i <= Len(flags) THEN flags[i] ELSE TRUE
    <3> SUFFICES ASSUME Slots(c, name) # {}
                 PROVE  /\ Len(d.rows) = Count(c)
                        /\ \A i \in 1 .. Count(c) :
                             /\ d.rows[i].version = c.rows[i].version
                             /\ d.rows[i].based = c.rows[i].based
                             /\ d.rows[i].deleted = IF i <= Len(flags) THEN flags[i] ELSE TRUE
      OBVIOUS
    <3>1. d.rows = Unhidden(c, flags) /\ flags \in Seq(BOOLEAN)
      BY <2>3, <2>6
    <3>2. /\ Len(Unhidden(c, flags)) = Count(c)
          /\ \A i \in 1 .. Count(c) :
               /\ Unhidden(c, flags)[i].version = c.rows[i].version
               /\ Unhidden(c, flags)[i].based = c.rows[i].based
               /\ Unhidden(c, flags)[i].deleted = IF i <= Len(flags) THEN flags[i] ELSE TRUE
      BY <3>1, UnhiddenSo
    <3> QED
      BY <3>1, <3>2
  <2>8. /\ Count(d) = Count(c)
        /\ \A i \in 1 .. Count(c) :
             d.rows[i].version = c.rows[i].version /\ d.rows[i].based = c.rows[i].based
    BY <2>2, <2>7 DEF Count
  <2>9. Tuples(d) = Tuples(c)
    <3>1. {i \in 1 .. Count(d) : d.rows[i].based} = {i \in 1 .. Count(c) : c.rows[i].based}
      BY <2>8
    <3> QED
      BY <3>1 DEF Tuples
  <2>10. ASSUME Overlay(c) PROVE Overlay(d)
    <3>1. level \in 1 .. Len(c.db.saves)
      BY <2>4, <2>5
    <3>2. /\ Len(d.db.saves) = level /\ level \in Nat
          /\ \A k \in 1 .. level : d.db.saves[k] = c.db.saves[k]
          /\ 2 .. level \subseteq 1 .. level /\ 2 .. level \subseteq 2 .. Len(c.db.saves)
      BY <2>1, <3>1, LevelsUpTo
    <3>3. \A k \in 2 .. Len(d.db.saves) :
            k \in 2 .. Len(c.db.saves) /\ d.db.saves[k] = c.db.saves[k]
      BY <3>2
    <3>4. \A l : Remembered(c, l) => Remembered(d, l)
      <4>1. \A f : Shown(d, f) = Shown(c, f)
        BY <2>8 DEF Shown
      <4>2. \A n : Slots(d, n) = Slots(c, n)
        BY <2>1 DEF Slots
      <4> QED
        BY <2>1, <2>8, <4>1, <4>2 DEF Remembered
    <3>5. ASSUME c.open PROVE {d.rows[i].version : i \in Live(d)} = d.db.table
      <4>1. PICK s \in 1 .. Len(c.snapshots) :
              /\ Slots(c, c.db.saves[level].name) = {s}
              /\ Len(c.snapshots[s].deleted) <= Count(c)
              /\ Shown(c, c.snapshots[s].deleted) = c.db.saves[level].table
        BY <2>4, <2>10, <3>5 DEF Overlay, Remembered
      <4>2. slot = s
        BY <2>4, <2>6, <4>1
      <4>3. Shown(c, flags) = d.db.table /\ Slots(c, name) # {}
        BY <2>1, <2>4, <4>1, <4>2 DEF flags
      <4>4. {j \in 1 .. Count(c) : j <= Len(flags) /\ ~flags[j]} = Live(d)
        BY <2>7, <2>8, <4>3 DEF Live
      <4>5. Shown(c, flags) = {c.rows[i].version : i \in Live(d)}
        BY <4>4 DEF Shown
      <4>6. \A i \in Live(d) : d.rows[i].version = c.rows[i].version
        BY <2>8 DEF Live
      <4> QED
        BY <4>3, <4>5, <4>6
    <3>6. /\ d.open => {d.rows[i].version : i \in Live(d)} = d.db.table
          /\ d.open => \A k \in 2 .. Len(d.db.saves) : Remembered(d, d.db.saves[k])
      BY <2>1, <2>10, <3>3, <3>4, <3>5 DEF Overlay
    <3>7. \A k, l \in 2 .. Len(d.db.saves) : d.db.saves[k].name = d.db.saves[l].name => k = l
      BY <2>10, <3>3 DEF Overlay
    <3> QED
      BY <2>1, <2>10, <3>6, <3>7 DEF Overlay
  <2> QED
    BY <1>2, <2>1, <2>2, <2>3, <2>8, <2>9, <2>10 DEF d
<1> QED
  BY <1>1, <1>2

\* The end of a transaction: the rows of the cursor stay, and no savepoint stands.
LEMMA EndedSo ==
  ASSUME NEW c, NEW commit, Good(c)
  PROVE  LET d == Ended(c, commit) IN
         /\ Good(d) /\ d.rows = c.rows /\ d.position = c.position /\ d.kind = c.kind
         /\ d.rowset_first = c.rowset_first /\ d.array_size = c.array_size
         /\ d.db.made = c.db.made /\ Len(d.db.saves) = 1
         /\ d.open = c.open /\ d.snapshots = c.snapshots
         /\ d.db.table = IF commit /\ ~c.db.aborted THEN c.db.table ELSE c.db.saves[1].table
<1> DEFINE table == IF commit /\ ~c.db.aborted THEN c.db.table ELSE c.db.saves[1].table
           level == [name |-> "transaction", table |-> table]
           saves == <<level>>
           db == Levelled(c.db, table, saves, FALSE)
           d == Built(c, c.rows, c.snapshots, db, c.position, c.rowset_first, "success")
<1>1. /\ c \in CursorShape /\ c.rows \in Seq(BufferedRow) /\ c.db \in Behind
      /\ c.db.table \in SUBSET Nat /\ Len(c.db.saves) \in Nat
      /\ c.snapshots \in Seq(Snapshot) /\ c.position \in Nat /\ c.rowset_first \in Nat
      /\ \A k \in 1 .. Len(c.db.saves) : c.db.saves[k] \in SavedLevel
  BY Fields DEF Good
<1>2. /\ Len(c.db.saves) >= 1 /\ c.db.table \subseteq 1 .. c.db.made
      /\ \A k \in 1 .. Len(c.db.saves) : c.db.saves[k].table \subseteq 1 .. c.db.made
      /\ c.rowset_first <= Count(c) /\ c.position <= Count(c) + 2
      /\ Len(c.snapshots) <= MAX_KEYSET_SAVEPOINTS
  BY DEF Good
<1>3. 1 \in 1 .. Len(c.db.saves)
  BY <1>1, <1>2
<1>4. table \in SUBSET Nat /\ table \subseteq 1 .. c.db.made
  BY <1>1, <1>2, <1>3 DEF SavedLevel
<1> HIDE DEF table
<1>5. level \in SavedLevel /\ level.table = table
  BY <1>4 DEF SavedLevel
<1> HIDE DEF level
<1>6. saves \in Seq(SavedLevel) /\ Len(saves) = 1 /\ saves[1] = level
  BY <1>5
<1> HIDE DEF saves
<1>7. db \in Behind /\ db.table = table /\ db.made = c.db.made /\ db.saves = saves
  BY <1>1, <1>4, <1>6 DEF Behind, Levelled
<1>8. Ended(c, commit) = d
  <2>1. Ended(c, commit) = Answer([c EXCEPT !.db.table = table, !.db.aborted = FALSE,
                                            !.db.saves = saves], "success")
    BY DEF Ended, table, saves, level
  <2>2. [c EXCEPT !.db.table = table, !.db.aborted = FALSE, !.db.saves = saves]
          = [c EXCEPT !.db = db]
    BY <1>1, <1>4, <1>6 DEF CursorShape, Behind, Levelled
  <2> HIDE DEF db
  <2>3. Answer([c EXCEPT !.db = db], "success") = d
    BY <1>1, <1>7 DEF CursorShape, Answer, Built
  <2> QED
    BY <2>1, <2>2, <2>3
<1> HIDE DEF db
<1>9. /\ d \in CursorShape /\ d.rows = c.rows /\ d.snapshots = c.snapshots /\ d.db = db
      /\ d.position = c.position /\ d.rowset_first = c.rowset_first
      /\ d.kind = c.kind /\ d.open = c.open /\ d.array_size = c.array_size
  BY <1>1, <1>7, BuiltSo
<1> HIDE DEF d
<1>10. Good(d)
  <2>1. d.db.saves = saves /\ Len(d.rows) = Len(c.rows)
    BY <1>7, <1>9
  <2>2. Len(d.db.saves) >= 1
    <3>1. Len(d.db.saves) = 1
      BY <1>6, <2>1
    <3> QED
      BY <3>1
  <2>3. \A k \in 1 .. Len(d.db.saves) : d.db.saves[k].table \subseteq 1 .. c.db.made
    <3>1. 1 .. Len(saves) = {1}
      BY <1>6
    <3>2. saves[1].table \subseteq 1 .. c.db.made
      BY <1>4, <1>5, <1>6
    <3> QED
      BY <2>1, <3>1, <3>2
  <2> QED
    BY <1>2, <1>4, <1>7, <1>9, <2>1, <2>2, <2>3, LevelsGood
<1> QED
  BY <1>6, <1>7, <1>8, <1>9, <1>10 DEF table

\* While the table at the end is the one that the cursor has seen, it shows it still.
LEMMA EndedKeeps ==
  ASSUME NEW c, NEW commit, Good(c), Overlay(c),
         (commit /\ ~c.db.aborted) \/ c.db.table = c.db.saves[1].table
  PROVE  Overlay(Ended(c, commit))
<1> DEFINE d == Ended(c, commit)
<1>1. /\ d.rows = c.rows /\ Len(d.db.saves) = 1 /\ d.open = c.open
      /\ d.snapshots = c.snapshots
      /\ d.db.table = IF commit /\ ~c.db.aborted THEN c.db.table ELSE c.db.saves[1].table
  BY EndedSo
<1> HIDE DEF d
<1>2. d.db.table = c.db.table
  BY <1>1
<1>3. Live(d) = Live(c)
  BY <1>1 DEF Live, Count
<1>4. 2 .. Len(d.db.saves) = {}
  BY <1>1
<1>5. Overlay(d)
  BY <1>1, <1>2, <1>3, <1>4 DEF Overlay
<1> QED
  BY <1>5 DEF d

----------------------------------------------------------------------------
(* A new execution.                                                        *)

\* How many of some numbers come before one of them.
Before(T, v) == {w \in T : w < v}
Rank(T, v) == Cardinality(Before(T, v))

\* The numbers of a finite set are ranked without gaps.
LEMMA Ranks ==
  ASSUME NEW n \in Nat, NEW T \in SUBSET (1 .. n)
  PROVE  /\ Cardinality(T) \in Nat
         /\ \A v \in T : Rank(T, v) \in 0 .. Cardinality(T) - 1
         /\ \A v, w \in T : v < w => Rank(T, v) < Rank(T, w)
         /\ \A v, w \in T : Rank(T, v) = Rank(T, w) => v = w
         /\ \A i \in 1 .. Cardinality(T) : \E v \in T : Rank(T, v) = i - 1
<1>1. IsFiniteSet(T) /\ Cardinality(T) \in Nat
  <2>1. IsFiniteSet(1 .. n)
    BY FS_Interval
  <2>2. IsFiniteSet(T)
    BY <2>1, FS_Subset
  <2> QED
    BY <2>2, FS_CardinalityType
<1>2. \A v \in T : v \in Int
  OBVIOUS
<1>3. \A v : IsFiniteSet(Before(T, v)) /\ Rank(T, v) \in Nat
  <2> TAKE v
  <2>1. Before(T, v) \in SUBSET T
    BY DEF Before
  <2>2. IsFiniteSet(Before(T, v))
    BY <1>1, <2>1, FS_Subset
  <2> QED
    BY <2>2, FS_CardinalityType DEF Rank
<1>4. ASSUME NEW v \in T, NEW S \in SUBSET T, v \in S, Before(T, v) \subseteq S \ {v}
      PROVE  Rank(T, v) + 1 <= Cardinality(S)
  <2>1. IsFiniteSet(S)
    BY <1>1, FS_Subset
  <2>2. /\ IsFiniteSet(S \ {v}) /\ Cardinality(S \ {v}) = Cardinality(S) - 1
    BY <1>4, <2>1, FS_RemoveElement
  <2>3. Cardinality(Before(T, v)) <= Cardinality(S \ {v})
    BY <1>4, <2>2, FS_Subset
  <2>4. Cardinality(S) \in Nat
    BY <2>1, FS_CardinalityType
  <2> QED
    BY <1>3, <2>2, <2>3, <2>4 DEF Rank
<1>5. \A v \in T : Rank(T, v) \in 0 .. Cardinality(T) - 1
  <2> TAKE v \in T
  <2>1. Before(T, v) \subseteq T \ {v}
    BY <1>2 DEF Before
  <2>2. Rank(T, v) + 1 <= Cardinality(T)
    BY <1>4, <2>1
  <2> QED
    BY <1>1, <1>3, <2>2
<1>6. \A v, w \in T : v < w => Rank(T, v) < Rank(T, w)
  <2> TAKE v, w \in T
  <2> HAVE v < w
  <2>1. v \in Before(T, w) /\ Before(T, w) \in SUBSET T
    BY DEF Before
  <2>2. Before(T, v) \subseteq Before(T, w) \ {v}
    <3>1. ASSUME NEW u \in Before(T, v) PROVE u \in Before(T, w) \ {v}
      <4>1. u \in T /\ u < v /\ u \in Int /\ v \in Int /\ w \in Int /\ v < w
        BY <1>2, <3>1 DEF Before
      <4>2. u < w /\ u # v
        BY <4>1
      <4> QED
        BY <4>1, <4>2 DEF Before
    <3> QED
      BY <3>1
  <2>3. Rank(T, v) + 1 <= Cardinality(Before(T, w))
    BY <1>4, <2>1, <2>2
  <2> QED
    BY <1>3, <2>3 DEF Rank
<1>7. \A v, w \in T : Rank(T, v) = Rank(T, w) => v = w
  <2> TAKE v, w \in T
  <2>1. v < w \/ w < v \/ v = w
    BY <1>2
  <2>2. v < w => Rank(T, v) < Rank(T, w)
    BY <1>6
  <2>3. w < v => Rank(T, w) < Rank(T, v)
    BY <1>6
  <2> QED
    BY <1>3, <2>1, <2>2, <2>3
<1>8. \A i \in 1 .. Cardinality(T) : \E v \in T : Rank(T, v) = i - 1
  <2> DEFINE R == 0 .. Cardinality(T) - 1
             f == [v \in T |-> Rank(T, v)]
  <2>1. f \in [T -> R]
    BY <1>5
  <2>2. f \in Injection(T, R)
    <3>1. \A v, w \in T : f[v] = f[w] => v = w
      BY <1>7
    <3> HIDE DEF f, R
    <3> QED
      BY <2>1, <3>1 DEF Injection, IsInjective
  <2>3. IsFiniteSet(R) /\ Cardinality(R) = Cardinality(T)
    <3>1. 0 \in Int /\ Cardinality(T) - 1 \in Int
      BY <1>1
    <3>2. /\ IsFiniteSet(R)
          /\ Cardinality(R) = IF 0 > Cardinality(T) - 1 THEN 0 ELSE Cardinality(T) - 1 - 0 + 1
      BY <3>1, FS_Interval
    <3> QED
      BY <1>1, <3>2
  <2>4. f \in Surjection(T, R)
    <3> HIDE DEF f, R
    <3> QED
      BY <2>2, <2>3, FS_Injection
  <2>5. \A r \in R : \E v \in T : f[v] = r
    <3> HIDE DEF f, R
    <3> QED
      BY <2>4 DEF Surjection
  <2> TAKE i \in 1 .. Cardinality(T)
  <2>6. i - 1 \in R
    BY <1>1
  <2>7. PICK v \in T : f[v] = i - 1
    BY <2>5, <2>6
  <2> QED
    BY <2>7
<1> QED
  BY <1>1, <1>5, <1>6, <1>7, <1>8

\* The version with i - 1 versions before it.
Version(T, i) == CHOOSE v \in T : Rank(T, v) = i - 1

\* There is one for each row, and a row for each one.
LEMMA VersionSo ==
  ASSUME NEW n \in Nat, NEW T \in SUBSET (1 .. n)
  PROVE  /\ \A i \in 1 .. Cardinality(T) : Version(T, i) \in T
         /\ \A i, j \in 1 .. Cardinality(T) : Version(T, i) = Version(T, j) => i = j
         /\ \A v \in T : \E i \in 1 .. Cardinality(T) : Version(T, i) = v
<1>1. /\ Cardinality(T) \in Nat
      /\ \A v \in T : Rank(T, v) \in 0 .. Cardinality(T) - 1
      /\ \A v, w \in T : Rank(T, v) = Rank(T, w) => v = w
      /\ \A i \in 1 .. Cardinality(T) : \E v \in T : Rank(T, v) = i - 1
  BY Ranks
<1>2. \A i \in 1 .. Cardinality(T) : Version(T, i) \in T /\ Rank(T, Version(T, i)) = i - 1
  <2> TAKE i \in 1 .. Cardinality(T)
  <2>1. \E v \in T : Rank(T, v) = i - 1
    BY <1>1
  <2>2. Version(T, i) = CHOOSE v \in T : Rank(T, v) = i - 1
    BY DEF Version
  <2> QED
    BY <2>1, <2>2, Zenon
<1>3. \A i, j \in 1 .. Cardinality(T) : Version(T, i) = Version(T, j) => i = j
  <2> TAKE i, j \in 1 .. Cardinality(T)
  <2> HAVE Version(T, i) = Version(T, j)
  <2>1. i - 1 = j - 1
    BY <1>2
  <2> QED
    BY <1>1, <2>1
<1>4. \A v \in T : \E i \in 1 .. Cardinality(T) : Version(T, i) = v
  <2> TAKE v \in T
  <2> DEFINE i == Rank(T, v) + 1
  <2>1. i \in 1 .. Cardinality(T) /\ Rank(T, v) = i - 1
    <3>1. Rank(T, v) \in 0 .. Cardinality(T) - 1
      BY <1>1
    <3> QED
      BY <1>1, <3>1
  <2> HIDE DEF i
  <2>2. Version(T, i) \in T /\ Rank(T, Version(T, i)) = Rank(T, v)
    BY <1>2, <2>1
  <2>3. Version(T, i) = v
    BY <1>1, <2>2
  <2> QED
    BY <2>1, <2>3
<1> QED
  BY <1>2, <1>3, <1>4

\* A new execution shows the table, each of its rows once.
LEMMA OpenedSo ==
  ASSUME NEW c, Good(c)
  PROVE  LET d == Opened(c) IN
         /\ Good(d) /\ Shows(d) /\ d.open /\ d.position = 0 /\ d.rowset_first = 0
         /\ d.snapshots = <<>> /\ d.db = c.db /\ d.kind = c.kind
         /\ d.array_size = c.array_size
<1> DEFINE T == c.db.table
           N == Cardinality(T)
           rows == [i \in 1 .. N |->
                      [version |-> Version(T, i), based |-> TRUE, deleted |-> FALSE]]
           d == Opened(c)
<1>1. /\ c \in CursorShape /\ c.db.made \in Nat /\ T \in SUBSET Nat /\ c.db \in Behind
      /\ T \in SUBSET (1 .. c.db.made)
  BY Fields DEF Good
<1>2. /\ N \in Nat
      /\ \A i \in 1 .. N : Version(T, i) \in T
      /\ \A i, j \in 1 .. N : Version(T, i) = Version(T, j) => i = j
      /\ \A v \in T : \E i \in 1 .. N : Version(T, i) = v
  <2>0. PICK n \in Nat : n = c.db.made
    BY <1>1
  <2>1. PICK S \in SUBSET (1 .. n) : S = T
    BY <1>1, <2>0
  <2>2. Cardinality(S) \in Nat
    BY Ranks
  <2>3. /\ \A i \in 1 .. Cardinality(S) : Version(S, i) \in S
        /\ \A i, j \in 1 .. Cardinality(S) : Version(S, i) = Version(S, j) => i = j
        /\ \A v \in S : \E i \in 1 .. Cardinality(S) : Version(S, i) = v
    BY VersionSo
  <2> QED
    BY <2>1, <2>2, <2>3
<1>3. d = [Answer(c, "success") EXCEPT !.open = TRUE, !.position = 0, !.rowset_first = 0,
                                       !.snapshots = <<>>, !.rows = rows]
  BY DEF Opened, Version, Rank, Before
<1> HIDE DEF T, N
<1>4. /\ \A i \in 1 .. N : /\ rows[i] \in BufferedRow /\ rows[i].version = Version(T, i)
                           /\ rows[i].based /\ ~rows[i].deleted
      /\ rows \in [1 .. N -> BufferedRow]
  BY <1>1, <1>2 DEF BufferedRow
<1> HIDE DEF rows, d
<1>5. rows \in Seq(BufferedRow) /\ Len(rows) = N
  <2>1. rows \in Seq(BufferedRow) /\ DOMAIN rows = 1 .. N
    BY <1>2, <1>4, IsASeq
  <2> QED
    BY <1>2, <2>1, LenProperties
<1>6. /\ d \in CursorShape /\ d.rows = rows /\ d.snapshots = <<>> /\ d.db = c.db
      /\ d.position = 0 /\ d.rowset_first = 0 /\ d.open
      /\ d.kind = c.kind /\ d.array_size = c.array_size
  <2>1. <<>> \in Seq(Snapshot)
    BY EmptySeq
  <2> QED
    BY <1>1, <1>3, <1>5, <2>1 DEF CursorShape, Answer
<1>7. Count(d) = N
  BY <1>5, <1>6 DEF Count
<1>8. RowsGood(d)
  <2>1. \A i \in 1 .. N : Version(T, i) \in 1 .. c.db.made
    BY <1>1, <1>2
  <2> QED
    BY <1>2, <1>4, <1>6, <1>7, <2>1 DEF RowsGood
<1>9. Good(d)
  <2>1. Len(d.snapshots) <= MAX_KEYSET_SAVEPOINTS
    <3>1. Len(<<>>) = 0
      BY EmptySeq
    <3> QED
      BY <1>6, <3>1, SizesAssumption
  <2>2. /\ d.rowset_first <= Count(d) /\ d.position <= Count(d) + 2
    BY <1>2, <1>6, <1>7
  <2>3. /\ d.db.table \subseteq 1 .. d.db.made /\ Len(d.db.saves) >= 1
        /\ \A k \in 1 .. Len(d.db.saves) : d.db.saves[k].table \subseteq 1 .. d.db.made
    BY <1>6 DEF Good
  <2> QED
    BY <1>6, <1>8, <2>1, <2>2, <2>3 DEF Good
<1>10. Shows(d)
  <2>1. Live(d) = 1 .. N
    BY <1>4, <1>6, <1>7 DEF Live
  <2>2. {d.rows[i].version : i \in 1 .. N} = {Version(T, i) : i \in 1 .. N}
    BY <1>4, <1>6
  <2>3. {Version(T, i) : i \in 1 .. N} = T
    BY <1>2
  <2> QED
    BY <1>6, <2>1, <2>2, <2>3 DEF Shows, T
<1> QED
  BY <1>6, <1>9, <1>10 DEF d

\* With no savepoint standing it can go back to none.
LEMMA OpenedOverlay ==
  ASSUME NEW c, Good(c), Len(c.db.saves) = 1
  PROVE  Overlay(Opened(c))
<1> DEFINE d == Opened(c)
<1>1. Shows(d) /\ d.db = c.db /\ d.snapshots = <<>>
  BY OpenedSo
<1> HIDE DEF d
<1>2. 2 .. Len(d.db.saves) = {} /\ 1 .. Len(d.snapshots) = {}
  <2>1. Len(d.db.saves) = 1
    BY <1>1
  <2>2. Len(d.snapshots) = 0
    BY <1>1, EmptySeq
  <2> QED
    BY <2>1, <2>2
<1>3. Overlay(d)
  BY <1>1, <1>2 DEF Overlay, Shows
<1> QED
  BY <1>3 DEF d

\* A cursor that is closed has no rows, and no snapshots.
LEMMA ClosedSo ==
  ASSUME NEW c, Good(c)
  PROVE  LET d == Closed(c) IN
         /\ Good(d) /\ ~d.open /\ d.position = 0 /\ d.rowset_first = 0
         /\ d.db = c.db /\ d.kind = c.kind /\ d.array_size = c.array_size
         /\ Count(d) = 0
         /\ Overlay(c) => Overlay(d)
<1> DEFINE d == Closed(c)
<1>1. c \in CursorShape
  BY DEF Good
<1>2. <<>> \in Seq(Snapshot) /\ <<>> \in Seq(BufferedRow) /\ Len(<<>>) = 0
  BY EmptySeq
<1>3. /\ d \in CursorShape /\ d.rows = <<>> /\ d.snapshots = <<>> /\ d.db = c.db
      /\ d.position = 0 /\ d.rowset_first = 0 /\ ~d.open
      /\ d.kind = c.kind /\ d.array_size = c.array_size
  BY <1>1, <1>2 DEF CursorShape, Answer, Closed
<1> HIDE DEF d
<1>4. Count(d) = 0 /\ 1 .. Len(d.snapshots) = {} /\ 1 .. Count(d) = {}
  <2>1. Count(d) = 0 /\ Len(d.snapshots) = 0
    BY <1>2, <1>3 DEF Count
  <2> QED
    BY <2>1
<1>5. Good(d)
  <2>1. RowsGood(d)
    BY <1>4 DEF RowsGood
  <2>2. Len(d.snapshots) <= MAX_KEYSET_SAVEPOINTS
    BY <1>2, <1>3, SizesAssumption
  <2>3. d.rowset_first <= Count(d) /\ d.position <= Count(d) + 2
    BY <1>3, <1>4
  <2>4. /\ d.db.table \subseteq 1 .. d.db.made /\ Len(d.db.saves) >= 1
        /\ \A k \in 1 .. Len(d.db.saves) : d.db.saves[k].table \subseteq 1 .. d.db.made
    BY <1>3 DEF Good
  <2> QED
    BY <1>3, <2>1, <2>2, <2>3, <2>4 DEF Good
<1>6. Overlay(c) => Overlay(d)
  BY <1>3, <1>4 DEF Overlay
<1> QED
  BY <1>3, <1>4, <1>5, <1>6 DEF d

\* What a fetch and another size of the rowset leave as it was.
Moved(c, d) ==
  /\ d \in CursorShape /\ d.rows = c.rows /\ d.snapshots = c.snapshots /\ d.db = c.db
  /\ d.kind = c.kind /\ d.open = c.open
  /\ d.rowset_first <= Count(c) /\ d.position <= Count(c) + 2

\* A cursor that stands elsewhere shows what it showed.
LEMMA MovedKeeps ==
  ASSUME NEW c, NEW d, Good(c), Moved(c, d)
  PROVE  /\ Good(d) /\ Count(d) = Count(c) /\ Live(d) = Live(c) /\ Tuples(d) = Tuples(c)
         /\ Overlay(c) => Overlay(d)
<1>1. Count(d) = Count(c) /\ Live(d) = Live(c) /\ Tuples(d) = Tuples(c)
  BY DEF Moved, Count, Live, Tuples
<1>2. Good(d)
  BY <1>1 DEF Good, RowsGood, Moved
<1>3. \A l : Remembered(c, l) => Remembered(d, l)
  BY <1>1 DEF Remembered, Slots, Shown, Moved
<1>4. Overlay(c) => Overlay(d)
  BY <1>1, <1>3 DEF Overlay, Moved
<1> QED
  BY <1>1, <1>2, <1>4

----------------------------------------------------------------------------
(* Fetching.                                                               *)

\* A cursor that stands at another row, or past an end.
Stood(c, position, first, ret) ==
  [c EXCEPT !.ret = ret, !.rowset_first = first, !.position = position]

\* It has moved, and no more.
LEMMA StoodSo ==
  ASSUME NEW c, NEW position, NEW first, NEW ret, Good(c),
         position \in 0 .. Count(c) + 2, first \in 0 .. Count(c),
         ret \in {"success", "error", "no_data"}
  PROVE  LET d == Stood(c, position, first, ret) IN
         /\ Moved(c, d) /\ d.array_size = c.array_size
         /\ d.position = position /\ d.rowset_first = first /\ d.ret = ret
<1>1. c \in CursorShape /\ Count(c) \in Nat
  BY Fields DEF Good
<1>2. position \in Nat /\ first \in Nat /\ position <= Count(c) + 2 /\ first <= Count(c)
  BY <1>1
<1> QED
  BY <1>1, <1>2 DEF Moved, Stood, CursorShape

\* What a fetch that met rows leaves, or one that met none: the position and the first row
\* of the rowset, and what it answered.
LEMMA ForwardSo ==
  ASSUME NEW c, NEW start, Good(c)
  PROVE  LET f == KeysetForward(c, start)
             found == FirstOf(c.array_size, {i \in Live(c) : i >= start})
         IN  /\ f.rows = found
             /\ found # {} => f.to = Stood(c, Largest(found), Smallest(found), "success")
             /\ found = {} => f.to = Stood(c, Count(c) + 1, c.rowset_first, "no_data")
<1> DEFINE found == FirstOf(c.array_size, {i \in Live(c) : i >= start})
           f == KeysetForward(c, start)
<1>1. c \in CursorShape
  BY DEF Good
<1>2. f = [rows |-> found,
           to |-> IF found # {} THEN KeysetDeliver(c, start, found)
                  ELSE [Answer(c, "no_data") EXCEPT !.position = Count(c) + 1]]
  BY DEF KeysetForward
<1>3. KeysetDeliver(c, start, found) = Stood(c, Largest(found), Smallest(found), "success")
  BY DEF KeysetDeliver, Stood, Answer
<1>4. [Answer(c, "no_data") EXCEPT !.position = Count(c) + 1]
        = Stood(c, Count(c) + 1, c.rowset_first, "no_data")
  BY <1>1 DEF CursorShape, Stood, Answer
<1> HIDE DEF found, f
<1>5. /\ f.rows = found /\ (found # {} => f.to = KeysetDeliver(c, start, found))
      /\ found = {} => f.to = [Answer(c, "no_data") EXCEPT !.position = Count(c) + 1]
  BY <1>2
<1> QED
  BY <1>3, <1>4, <1>5 DEF found, f

\* The same of a fetch that goes back.
LEMMA BackwardSo ==
  ASSUME NEW c, NEW start, Good(c)
  PROVE  LET f == KeysetBackward(c, start)
             found == LastOf(c.array_size, {i \in Live(c) : i <= start})
         IN  /\ f.rows = found
             /\ found # {} => f.to = Stood(c, Largest(found), Smallest(found), "success")
             /\ found = {} => f.to = Stood(c, 0, 0, "no_data")
<1> DEFINE found == LastOf(c.array_size, {i \in Live(c) : i <= start})
           f == KeysetBackward(c, start)
<1>1. c \in CursorShape
  BY DEF Good
<1>2. f = [rows |-> found,
           to |-> IF found # {} THEN KeysetDeliver(c, start, found)
                  ELSE [Answer(c, "no_data") EXCEPT !.position = 0, !.rowset_first = 0]]
  BY DEF KeysetBackward
<1>3. KeysetDeliver(c, start, found) = Stood(c, Largest(found), Smallest(found), "success")
  BY DEF KeysetDeliver, Stood, Answer
<1>4. [Answer(c, "no_data") EXCEPT !.position = 0, !.rowset_first = 0]
        = Stood(c, 0, 0, "no_data")
  BY <1>1 DEF CursorShape, Stood, Answer
<1> HIDE DEF found, f
<1>5. /\ f.rows = found /\ (found # {} => f.to = KeysetDeliver(c, start, found))
      /\ found = {} => f.to = [Answer(c, "no_data") EXCEPT !.position = 0, !.rowset_first = 0]
  BY <1>2
<1> QED
  BY <1>3, <1>4, <1>5 DEF found, f

\* The same of a fetch that counts over the base result.
LEMMA LandSo ==
  ASSUME NEW c, NEW orientation, NEW target, Good(c)
  PROVE  LET f == Land(c, orientation, target)
             found == {i \in target .. (target + c.array_size - 1) : i <= Tuples(c)}
         IN  /\ target < 1 => f.rows = {} /\ f.to = Stood(c, 0, c.rowset_first, "no_data")
             /\ ~(target < 1) /\ target > Tuples(c) =>
                  /\ f.rows = {}
                  /\ f.to = Stood(c, ParkedAfter(c, orientation, target), c.rowset_first,
                                  "no_data")
             /\ ~(target < 1) /\ ~(target > Tuples(c)) =>
                  /\ f.rows = found
                  /\ f.to = Stood(c, Largest(found), c.rowset_first, "success")
<1> DEFINE f == Land(c, orientation, target)
           found == {i \in target .. (target + c.array_size - 1) : i <= Tuples(c)}
<1>1. c \in CursorShape
  BY DEF Good
<1>2. \A ret, position : [Answer(c, ret) EXCEPT !.position = position]
                           = Stood(c, position, c.rowset_first, ret)
  BY <1>1 DEF CursorShape, Stood, Answer
<1>3. CASE target < 1
  <2>1. f = [rows |-> {}, to |-> [Answer(c, "no_data") EXCEPT !.position = 0]]
    BY <1>3 DEF Land
  <2> HIDE DEF f
  <2> QED
    BY <1>2, <1>3, <2>1 DEF f
<1>4. CASE ~(target < 1) /\ target > Tuples(c)
  <2>1. f = [rows |-> {},
             to |-> [Answer(c, "no_data") EXCEPT
                       !.position = ParkedAfter(c, orientation, target)]]
    BY <1>4 DEF Land
  <2> HIDE DEF f
  <2> QED
    BY <1>2, <1>4, <2>1 DEF f
<1>5. CASE ~(target < 1) /\ ~(target > Tuples(c))
  <2>1. f = [rows |-> found, to |-> [Answer(c, "success") EXCEPT !.position = Largest(found)]]
    BY <1>5 DEF Land
  <2> HIDE DEF f, found
  <2> QED
    BY <1>2, <1>5, <2>1 DEF f, found
<1> QED
  BY <1>3, <1>4, <1>5

\* Rows that are found are live ones, or tuples of the base result.
LEMMA FoundIsIn ==
  ASSUME NEW n, NEW S
  PROVE  FirstOf(n, S) \subseteq S /\ LastOf(n, S) \subseteq S
BY DEF FirstOf, LastOf

\* The least and the greatest of some rows.
LEMMA Extremes ==
  ASSUME NEW c, NEW S, Good(c), S \subseteq 1 .. Count(c), S # {}
  PROVE  /\ Smallest(S) \in S /\ Largest(S) \in S
         /\ \A i \in S : Smallest(S) <= i /\ i <= Largest(S)
         /\ Smallest(S) \in 1 .. Count(c) /\ Largest(S) \in 1 .. Count(c)
<1>1. Count(c) \in Nat
  BY Fields DEF Good
<1>2. S \in SUBSET Nat /\ S \in SUBSET (0 .. Count(c))
  BY <1>1
<1>3. Smallest(S) \in S /\ \A i \in S : Smallest(S) <= i
  BY <1>2, SmallestIsLeast
<1>4. Largest(S) \in S /\ \A i \in S : i <= Largest(S)
  BY <1>1, <1>2, LargestIsGreatest
<1> QED
  BY <1>3, <1>4

\* A fetch moves the cursor and delivers rows of it.
Arrived(c, f) ==
  /\ Moved(c, f.to) /\ f.to.array_size = c.array_size
  /\ f.rows \subseteq 1 .. Count(c)

\* A block fetch does, in either direction.
LEMMA BlockArrives ==
  ASSUME NEW c, NEW start, Good(c)
  PROVE  Arrived(c, KeysetForward(c, start)) /\ Arrived(c, KeysetBackward(c, start))
<1>1. Count(c) \in Nat /\ c.rowset_first \in 0 .. Count(c)
  <2>1. Count(c) \in Nat /\ c.rowset_first \in Nat /\ c.rowset_first <= Count(c)
    BY Fields DEF Good
  <2> QED
    BY <2>1
<1>2. ASSUME NEW S, S \subseteq 1 .. Count(c), S # {}
      PROVE  LET d == Stood(c, Largest(S), Smallest(S), "success")
             IN  Moved(c, d) /\ d.array_size = c.array_size
  <2>1. Smallest(S) \in 1 .. Count(c) /\ Largest(S) \in 1 .. Count(c)
    BY <1>2, Extremes
  <2>2. Smallest(S) \in 0 .. Count(c) /\ Largest(S) \in 0 .. Count(c) + 2
    BY <1>1, <2>1
  <2> QED
    BY <2>2, StoodSo
<1>3. Arrived(c, KeysetForward(c, start))
  <2> DEFINE S == FirstOf(c.array_size, {i \in Live(c) : i >= start})
             f == KeysetForward(c, start)
  <2>1. S \subseteq 1 .. Count(c)
    BY FoundIsIn DEF Live
  <2>2. /\ f.rows = S
        /\ S # {} => f.to = Stood(c, Largest(S), Smallest(S), "success")
        /\ S = {} => f.to = Stood(c, Count(c) + 1, c.rowset_first, "no_data")
    BY ForwardSo
  <2> SUFFICES Arrived(c, f)
    OBVIOUS
  <2> HIDE DEF S, f
  <2>3. CASE S # {}
    BY <1>2, <2>1, <2>2, <2>3 DEF Arrived
  <2>4. CASE S = {}
    <3> DEFINE d == Stood(c, Count(c) + 1, c.rowset_first, "no_data")
    <3>1. Count(c) + 1 \in 0 .. Count(c) + 2
      BY <1>1
    <3>2. Moved(c, d) /\ d.array_size = c.array_size
      BY <1>1, <3>1, StoodSo
    <3> QED
      BY <2>1, <2>2, <2>4, <3>2 DEF Arrived
  <2> QED
    BY <2>3, <2>4
<1>4. Arrived(c, KeysetBackward(c, start))
  <2> DEFINE S == LastOf(c.array_size, {i \in Live(c) : i <= start})
             f == KeysetBackward(c, start)
  <2>1. S \subseteq 1 .. Count(c)
    BY FoundIsIn DEF Live
  <2>2. /\ f.rows = S
        /\ S # {} => f.to = Stood(c, Largest(S), Smallest(S), "success")
        /\ S = {} => f.to = Stood(c, 0, 0, "no_data")
    BY BackwardSo
  <2> SUFFICES Arrived(c, f)
    OBVIOUS
  <2> HIDE DEF S, f
  <2>3. CASE S # {}
    BY <1>2, <2>1, <2>2, <2>3 DEF Arrived
  <2>4. CASE S = {}
    <3> DEFINE d == Stood(c, 0, 0, "no_data")
    <3>1. 0 \in 0 .. Count(c) /\ 0 \in 0 .. Count(c) + 2
      BY <1>1
    <3>2. Moved(c, d) /\ d.array_size = c.array_size
      BY <3>1, StoodSo
    <3> QED
      BY <2>1, <2>2, <2>4, <3>2 DEF Arrived
  <2> QED
    BY <2>3, <2>4
<1> QED
  BY <1>3, <1>4

\* A fetch over the base result does.
LEMMA LandArrives ==
  ASSUME NEW c, NEW orientation, NEW target, Good(c), target \in Int,
         orientation = "fetch" => target <= Count(c) + 2
  PROVE  Arrived(c, Land(c, orientation, target))
<1> DEFINE f == Land(c, orientation, target)
           S == {i \in target .. (target + c.array_size - 1) : i <= Tuples(c)}
           parked == ParkedAfter(c, orientation, target)
<1>1. /\ Count(c) \in Nat /\ c.rowset_first \in 0 .. Count(c) /\ c.array_size \in {1, 2}
      /\ Tuples(c) \in 0 .. Count(c)
  <2>1. /\ Count(c) \in Nat /\ c.rowset_first \in Nat /\ c.rowset_first <= Count(c)
        /\ c.array_size \in {1, 2}
    BY Fields DEF Good
  <2> QED
    BY <2>1, TuplesFirst
<1>2. /\ target < 1 => f.rows = {} /\ f.to = Stood(c, 0, c.rowset_first, "no_data")
      /\ ~(target < 1) /\ target > Tuples(c) =>
           f.rows = {} /\ f.to = Stood(c, parked, c.rowset_first, "no_data")
      /\ ~(target < 1) /\ ~(target > Tuples(c)) =>
           f.rows = S /\ f.to = Stood(c, Largest(S), c.rowset_first, "success")
  BY LandSo
<1>3. ~(target < 1) /\ target > Tuples(c) => parked \in 0 .. Count(c) + 2
  BY <1>1 DEF ParkedAfter
<1>4. ~(target < 1) /\ ~(target > Tuples(c)) => S \subseteq 1 .. Count(c) /\ S # {}
  <2> SUFFICES ASSUME ~(target < 1), ~(target > Tuples(c))
               PROVE  S \subseteq 1 .. Count(c) /\ S # {}
    OBVIOUS
  <2>1. target \in S
    BY <1>1
  <2>2. \A i \in S : i \in 1 .. Count(c)
    BY <1>1
  <2> QED
    BY <2>1, <2>2
<1> HIDE DEF f, S, parked
<1>5. ASSUME NEW p, NEW ret \in {"success", "no_data"}, p \in 0 .. Count(c) + 2
      PROVE  LET d == Stood(c, p, c.rowset_first, ret)
             IN  Moved(c, d) /\ d.array_size = c.array_size
  BY <1>1, <1>5, StoodSo
<1>6. CASE target < 1
  <2>1. 0 \in 0 .. Count(c) + 2
    BY <1>1
  <2> QED
    BY <1>2, <1>5, <1>6, <2>1 DEF Arrived, f
<1>7. CASE ~(target < 1) /\ target > Tuples(c)
  <2>1. parked \in 0 .. Count(c) + 2 /\ f.rows = {}
        /\ f.to = Stood(c, parked, c.rowset_first, "no_data")
    BY <1>2, <1>3, <1>7
  <2> QED
    BY <1>5, <2>1 DEF Arrived, f
<1>8. CASE ~(target < 1) /\ ~(target > Tuples(c))
  <2>1. S \subseteq 1 .. Count(c) /\ S # {} /\ f.rows = S
        /\ f.to = Stood(c, Largest(S), c.rowset_first, "success")
    BY <1>2, <1>4, <1>8
  <2>2. Largest(S) \in 1 .. Count(c)
    BY <2>1, Extremes
  <2>3. Largest(S) \in 0 .. Count(c) + 2
    BY <1>1, <2>2
  <2> QED
    BY <1>5, <2>1, <2>3 DEF Arrived, f
<1> QED
  BY <1>6, <1>7, <1>8

\* Where a fetch over the base result is to land is a number.
LEMMA TargetIsNumber ==
  ASSUME NEW c, NEW orientation, NEW offset, Good(c), offset \in Int
  PROVE  /\ Target(c, orientation, offset) \in Int
         /\ orientation \in {"fetch", "next"} =>
              Target(c, orientation, offset) = c.position + 1
<1>1. c.position \in Nat /\ Count(c) \in Nat
  BY Fields DEF Good
<1>2. Tuples(c) \in 0 .. Count(c)
  BY TuplesFirst
<1>3. AbsoluteTarget(c, offset) \in Int
  BY <1>1, <1>2 DEF AbsoluteTarget
<1> QED
  BY <1>1, <1>2, <1>3 DEF Target

\* Every fetch does.
LEMMA FetchedArrives ==
  ASSUME NEW c, NEW orientation, NEW offset, Good(c), offset \in Int,
         c.position <= Count(c) + 1
  PROVE  Arrived(c, Fetched(c, orientation, offset))
<1> DEFINE f == Fetched(c, orientation, offset)
           none == [rows |-> {}, to |-> Answer(c, "error")]
<1>1. c \in CursorShape /\ c.position \in Nat /\ Count(c) \in Nat
  BY Fields DEF Good
<1>2. Arrived(c, none)
  <2> DEFINE d == Answer(c, "error")
  <2>1. /\ Edited(c, d) /\ d.rows = c.rows /\ d.db = c.db /\ d.position = c.position
    BY RefusedKeeps
  <2> HIDE DEF d
  <2>2. Moved(c, d) /\ d.array_size = c.array_size
    BY <2>1 DEF Moved, Edited, Good
  <2>3. none.rows = {} /\ none.to = d
    BY DEF d
  <2> HIDE DEF none
  <2> QED
    BY <2>2, <2>3 DEF Arrived
<1>3. f = none \/ f = KeysetBlockFetch(c, orientation)
        \/ f = Land(c, orientation, Target(c, orientation, offset))
  BY DEF Fetched
<1>4. Arrived(c, KeysetBlockFetch(c, orientation))
  <2>1. \/ \E start : KeysetBlockFetch(c, orientation) = KeysetForward(c, start)
        \/ \E start : KeysetBlockFetch(c, orientation) = KeysetBackward(c, start)
        \/ KeysetBlockFetch(c, orientation) = none
    BY DEF KeysetBlockFetch
  <2> QED
    BY <1>2, <2>1, BlockArrives
<1>5. Arrived(c, Land(c, orientation, Target(c, orientation, offset)))
  <2>1. /\ Target(c, orientation, offset) \in Int
        /\ orientation = "fetch" => Target(c, orientation, offset) <= Count(c) + 2
    BY <1>1, TargetIsNumber
  <2> QED
    BY <2>1, LandArrives
<1> QED
  BY <1>2, <1>3, <1>4, <1>5

----------------------------------------------------------------------------
(* The steps.                                                              *)

\* That an answer is forgotten changes nothing else.
LEMMA ForgetSo ==
  ASSUME NEW c, Good(c)
  PROVE  LET d == Forget(c) IN
         /\ Good(d) /\ d.rows = c.rows /\ d.db = c.db /\ d.position = c.position
         /\ d.kind = c.kind /\ d.open = c.open /\ d.array_size = c.array_size
         /\ d.snapshots = c.snapshots /\ d.rowset_first = c.rowset_first
         /\ Count(d) = Count(c) /\ Tuples(d) = Tuples(c) /\ Edited(c, d) /\ Unmoved(c, d)
         /\ (Shows(c) => Shows(d)) /\ (Overlay(c) => Overlay(d))
<1> DEFINE d == Forget(c)
<1>1. d = Answer(c, "success")
  BY DEF Forget
<1>2. Edited(c, d) /\ d.rows = c.rows /\ d.db = c.db /\ d.position = c.position
  BY <1>1, RefusedKeeps
<1> HIDE DEF d
<1>3. Good(d) /\ Count(d) = Count(c) /\ Tuples(d) = Tuples(c) /\ Live(d) = Live(c)
  BY <1>2 DEF Edited, Count, Tuples, Live
<1>4. Unmoved(c, d) /\ (Shows(c) => Shows(d))
  BY <1>2, <1>3 DEF Unmoved, Shows, Edited
<1>5. Overlay(c) => Overlay(d)
  BY <1>2, <1>4, OverlayKept DEF Overlay, Shows
<1> QED
  BY <1>2, <1>3, <1>4, <1>5 DEF Edited, d

\* What the outcome of an edit is forgotten of is the edit.
LEMMA EditForgotten ==
  ASSUME NEW c, NEW d, Good(c), Edited(c, d)
  PROVE  /\ Edited(c, Forget(d)) /\ Tuples(Forget(d)) = Tuples(c)
         /\ (Unmoved(c, d) => Unmoved(c, Forget(d))) /\ (Shows(d) => Shows(Forget(d)))
         /\ Forget(d).position = d.position /\ Count(Forget(d)) = Count(d)
<1>1. Good(d)
  BY DEF Edited
<1>2. /\ Edited(d, Forget(d)) /\ Unmoved(d, Forget(d)) /\ (Shows(d) => Shows(Forget(d)))
      /\ Forget(d).position = d.position /\ Count(Forget(d)) = Count(d)
  BY <1>1, ForgetSo
<1>3. Edited(c, Forget(d)) /\ (Unmoved(c, d) => Unmoved(c, Forget(d)))
  BY <1>2, EditedTwice
<1>4. Tuples(Forget(d)) = Tuples(c)
  BY <1>3, SameTuples
<1> QED
  BY <1>2, <1>3, <1>4

\* What an edit of an open cursor does, and what the overlay needs of the application: it
\* deletes rows of the base result only, and updates while no savepoint stands.
EditStep ==
  /\ Edited(cursor, cursor') /\ Bounded(cursor') /\ UNCHANGED <<rowset, place>>
  /\ Tuples(cursor') = Tuples(cursor)
  /\ Ops \cap {"undo_update", "delete_added"} = {} /\ Shows(cursor) =>
       Shows(cursor') /\ (Unmoved(cursor, cursor') \/ Len(cursor.db.saves) = 1)

\* SQLSetPos, which stands elsewhere only on "position".
LEMMA SetPosStep ==
  ASSUME TypeGood, NEW number \in RowNumbers, NEW operation \in Operations,
         SetRowPosition(number, operation)
  PROVE  /\ EditStep /\ Count(cursor') = Count(cursor)
         /\ cursor'.position = IF operation = "position" /\ SetPosRow(cursor, number)
                                   \in 1 .. Count(cursor)
                               THEN SetPosRow(cursor, number) ELSE cursor.position
<1>1. Good(cursor) /\ number \in Nat
  BY SizesAssumption DEF TypeGood
<1>2. PICK outcome \in Outcomes : cursor' = Forget(SetPos(cursor, number, operation, outcome))
  BY DEF SetRowPosition
<1> DEFINE d == SetPos(cursor, number, operation, outcome)
           row == SetPosRow(cursor, number)
<1>3. /\ Edited(cursor, d)
      /\ Shows(cursor) /\ (operation = "delete" /\ row \in 1 .. Count(cursor)
                             => row <= Tuples(cursor)) => Shows(d)
      /\ operation # "update" => Unmoved(cursor, d)
      /\ d.position = IF operation = "position" /\ row \in 1 .. Count(cursor) THEN row
                      ELSE cursor.position
      /\ Count(d) = Count(cursor)
  BY <1>1, SetPosKeeps
<1> HIDE DEF d
<1>4. /\ Edited(cursor, Forget(d)) /\ Tuples(Forget(d)) = Tuples(cursor)
      /\ (Unmoved(cursor, d) => Unmoved(cursor, Forget(d)))
      /\ (Shows(d) => Shows(Forget(d)))
      /\ Forget(d).position = d.position /\ Count(Forget(d)) = Count(d)
  BY <1>1, <1>3, EditForgotten
<1>5. cursor' = Forget(d)
  BY <1>2 DEF d
<1>6. Spares(row, operation) /\ Bounded(cursor') /\ UNCHANGED <<rowset, place>>
  BY DEF SetRowPosition
<1>7. ASSUME Ops \cap {"undo_update", "delete_added"} = {}
      PROVE  /\ operation = "update" => Len(cursor.db.saves) = 1
             /\ operation = "delete" /\ row \in 1 .. Count(cursor) => row <= Tuples(cursor)
  <2>1. operation = "update" => Len(cursor.db.saves) = 1
    BY <1>6, <1>7 DEF Spares
  <2>2. operation = "delete" => row \notin (Tuples(cursor) + 1) .. Count(cursor)
    BY <1>6, <1>7 DEF Spares
  <2>3. Tuples(cursor) \in Nat /\ Count(cursor) \in Nat
    <3>1. Count(cursor) \in Nat /\ Tuples(cursor) \in 0 .. Count(cursor)
      BY <1>1, Fields, TuplesFirst DEF Good
    <3> QED
      BY <3>1
  <2>4. operation = "delete" /\ row \in 1 .. Count(cursor) => row <= Tuples(cursor)
    <3> HIDE DEF row
    <3> QED
      BY <2>2, <2>3
  <2> QED
    BY <2>1, <2>4
<1> HIDE DEF row
<1>8. EditStep
  BY <1>3, <1>4, <1>5, <1>6, <1>7 DEF EditStep
<1> QED
  BY <1>3, <1>4, <1>5, <1>8 DEF row

\* SQLBulkOperations by bookmark.
LEMMA BookmarkStep ==
  ASSUME TypeGood, NEW operation \in {"update", "delete"}, EditByBookmark(operation)
  PROVE  /\ EditStep /\ Count(cursor') = Count(cursor)
         /\ cursor'.position = cursor.position
<1>1. Good(cursor)
  BY DEF TypeGood
<1>2. PICK bookmarks \in [1 .. cursor.array_size -> 0 .. Count(cursor)],
           outcomes \in Answers(cursor.array_size, Outcomes) :
        /\ \A i \in DOMAIN bookmarks : Spares(bookmarks[i], operation)
        /\ cursor' = Forget(ByBookmarks(cursor, bookmarks, operation, outcomes))
  BY DEF EditByBookmark
<1> DEFINE d == ByBookmarks(cursor, bookmarks, operation, outcomes)
<1>3. /\ Edited(cursor, d)
      /\ Shows(cursor) /\ (operation = "delete" => \A i \in 1 .. cursor.array_size :
                             bookmarks[i] <= Tuples(cursor)) => Shows(d)
      /\ operation # "update" => Unmoved(cursor, d)
      /\ d.position = cursor.position /\ Count(d) = Count(cursor)
  BY <1>1, ByBookmarksKeeps
<1> HIDE DEF d
<1>4. /\ Edited(cursor, Forget(d)) /\ Tuples(Forget(d)) = Tuples(cursor)
      /\ (Unmoved(cursor, d) => Unmoved(cursor, Forget(d)))
      /\ (Shows(d) => Shows(Forget(d)))
      /\ Forget(d).position = d.position /\ Count(Forget(d)) = Count(d)
  BY <1>1, <1>3, EditForgotten
<1>5. cursor' = Forget(d)
  BY <1>2 DEF d
<1>6. Bounded(cursor') /\ UNCHANGED <<rowset, place>>
  BY DEF EditByBookmark
<1>7. ASSUME Ops \cap {"undo_update", "delete_added"} = {}
      PROVE  /\ operation = "update" => Len(cursor.db.saves) = 1
             /\ operation = "delete" => \A i \in 1 .. cursor.array_size :
                                          bookmarks[i] <= Tuples(cursor)
  <2>1. cursor.array_size \in {1, 2} /\ Count(cursor) \in Nat
    BY <1>1, Fields DEF Good
  <2>2. Tuples(cursor) \in Nat
    <3>1. Tuples(cursor) \in 0 .. Count(cursor)
      BY <1>1, TuplesFirst
    <3> QED
      BY <2>1, <3>1
  <2>3. \A i \in 1 .. cursor.array_size :
          Spares(bookmarks[i], operation) /\ bookmarks[i] \in 0 .. Count(cursor)
    BY <1>2
  <2>4. operation = "update" => Len(cursor.db.saves) = 1
    <3>1. 1 \in 1 .. cursor.array_size
      BY <2>1
    <3> QED
      BY <1>7, <2>3, <3>1 DEF Spares
  <2>5. ASSUME operation = "delete", NEW i \in 1 .. cursor.array_size
        PROVE  bookmarks[i] <= Tuples(cursor)
    <3>1. bookmarks[i] \notin (Tuples(cursor) + 1) .. Count(cursor)
      BY <1>7, <2>3, <2>5 DEF Spares
    <3>2. bookmarks[i] \in 0 .. Count(cursor)
      BY <2>3, <2>5
    <3> QED
      BY <2>1, <2>2, <3>1, <3>2
  <2> QED
    BY <2>4, <2>5
<1>8. EditStep
  BY <1>3, <1>4, <1>5, <1>6, <1>7 DEF EditStep
<1> QED
  BY <1>3, <1>4, <1>5, <1>8

\* SQL_ADD.
LEMMA AddStep ==
  ASSUME TypeGood, AddRows
  PROVE  EditStep /\ cursor'.position = cursor.position
<1>1. Good(cursor)
  BY DEF TypeGood
<1>2. PICK outcomes \in Answers(cursor.array_size, Outcomes \union {"skipped"}) :
        cursor' = Forget(Add(cursor, outcomes))
  BY DEF AddRows
<1> DEFINE d == Add(cursor, outcomes)
<1>3. /\ Edited(cursor, d) /\ Unmoved(cursor, d) /\ (Shows(cursor) => Shows(d))
      /\ d.position = cursor.position
  BY <1>1, AddKeeps
<1> HIDE DEF d
<1>4. /\ Edited(cursor, Forget(d)) /\ Tuples(Forget(d)) = Tuples(cursor)
      /\ (Unmoved(cursor, d) => Unmoved(cursor, Forget(d)))
      /\ (Shows(d) => Shows(Forget(d)))
      /\ Forget(d).position = d.position
  BY <1>1, <1>3, EditForgotten
<1>5. cursor' = Forget(d)
  BY <1>2 DEF d
<1>6. Bounded(cursor') /\ UNCHANGED <<rowset, place>>
  BY DEF AddRows
<1>7. EditStep
  BY <1>3, <1>4, <1>5, <1>6 DEF EditStep
<1> QED
  BY <1>3, <1>4, <1>5, <1>7

\* The cursor before its first execution.
Unopened(kind, size) ==
  [kind |-> kind, open |-> FALSE, rows |-> <<>>, position |-> 0, rowset_first |-> 0,
   array_size |-> size, snapshots |-> <<>>, ret |-> "success",
   db |-> [table |-> 1 .. InitialRows, made |-> InitialRows, aborted |-> FALSE,
           saves |-> <<[name |-> "transaction", table |-> 1 .. InitialRows]>>]]

\* It is one that an execution can be made of.
LEMMA UnopenedGood ==
  ASSUME NEW kind, NEW size, kind \in Kinds, size \in ArraySizes
  PROVE  LET c == Unopened(kind, size)
         IN  Good(c) /\ Len(c.db.saves) = 1 /\ c.db.made = InitialRows
<1> DEFINE c == Unopened(kind, size)
           T == 1 .. InitialRows
           level == [name |-> "transaction", table |-> T]
           saves == <<level>>
           db == [table |-> T, made |-> InitialRows, aborted |-> FALSE, saves |-> saves]
<1>1. InitialRows \in Nat
  BY SizesAssumption
<1>2. T \in SUBSET Nat
  BY <1>1
<1> HIDE DEF T
<1>3. level \in SavedLevel /\ level.table = T
  BY <1>2 DEF SavedLevel
<1> HIDE DEF level
<1>4. saves \in Seq(SavedLevel) /\ Len(saves) = 1 /\ saves[1] = level
  BY <1>3
<1> HIDE DEF saves
<1>5. db \in Behind /\ db.table = T /\ db.made = InitialRows /\ db.saves = saves
  BY <1>1, <1>2, <1>4 DEF Behind
<1>6. c = [kind |-> kind, open |-> FALSE, rows |-> <<>>, position |-> 0, rowset_first |-> 0,
           array_size |-> size, snapshots |-> <<>>, ret |-> "success", db |-> db]
  BY DEF Unopened, T, level, saves
<1> HIDE DEF db, c
<1>7. <<>> \in Seq(BufferedRow) /\ <<>> \in Seq(Snapshot) /\ Len(<<>>) = 0
  BY EmptySeq
<1>8. /\ c \in CursorShape /\ c.rows = <<>> /\ c.snapshots = <<>> /\ c.db = db
      /\ c.position = 0 /\ c.rowset_first = 0
  BY <1>5, <1>6, <1>7 DEF CursorShape
<1>9. Count(c) = 0 /\ Len(c.snapshots) <= MAX_KEYSET_SAVEPOINTS
  BY <1>7, <1>8, SizesAssumption DEF Count
<1>10. RowsGood(c)
  <2>1. 1 .. Count(c) = {}
    BY <1>9
  <2> QED
    BY <2>1 DEF RowsGood
<1>11. c.rowset_first <= Count(c) /\ c.position <= Count(c) + 2
  BY <1>8, <1>9
<1>12. c.db.saves = saves /\ c.db.table = T /\ c.db.made = InitialRows
  BY <1>5, <1>8
<1>13. Len(c.db.saves) = 1
  BY <1>4, <1>12
<1>14. \A k \in 1 .. Len(c.db.saves) : c.db.saves[k].table \subseteq 1 .. c.db.made
  <2>1. \A k \in 1 .. Len(c.db.saves) : k = 1
    BY <1>13
  <2>2. c.db.saves[1].table \subseteq 1 .. c.db.made
    BY <1>3, <1>4, <1>12 DEF T
  <2> QED
    BY <2>1, <2>2
<1>15. Good(c)
  <2>1. Len(c.db.saves) >= 1 /\ c.db.table \subseteq 1 .. c.db.made
    BY <1>12, <1>13 DEF T
  <2> QED
    BY <1>8, <1>9, <1>10, <1>11, <1>14, <2>1 DEF Good
<1> QED
  BY <1>12, <1>13, <1>15 DEF c

\* What the invariants begin with.
LEMMA InitSo ==
  ASSUME Init
  PROVE  /\ TypeGood /\ Overlay(cursor) /\ cursor.position = 0 /\ cursor.rowset_first = 0
         /\ rowset = {} /\ place = "before"
<1>1. PICK kind \in Kinds, size \in ArraySizes : cursor = Opened(Unopened(kind, size))
  BY DEF Init, Unopened
<1> DEFINE c == Unopened(kind, size)
<1>2. Good(c) /\ Len(c.db.saves) = 1 /\ c.db.made = InitialRows
  BY UnopenedGood
<1> HIDE DEF c
<1>3. /\ Good(Opened(c)) /\ Opened(c).position = 0 /\ Opened(c).rowset_first = 0
      /\ Opened(c).db = c.db
  BY <1>2, OpenedSo
<1>4. Overlay(Opened(c))
  BY <1>2, OpenedOverlay
<1>5. cursor = Opened(c)
  BY <1>1 DEF c
<1>6. rowset = {} /\ place = "before"
  BY DEF Init
<1>7. InitialRows <= MaxVersions
  BY SizesAssumption
<1> QED
  BY <1>2, <1>3, <1>4, <1>5, <1>6, <1>7 DEF TypeGood

\* What a fetch leaves to the invariants.
LEMMA FetchStep ==
  ASSUME TypeGood, NEW orientation, NEW offset \in Offsets \union {0},
         Fetch(orientation, offset)
  PROVE  LET f == Fetched(cursor, orientation, offset) IN
         /\ Good(cursor') /\ Count(cursor') = Count(cursor)
         /\ Tuples(cursor') = Tuples(cursor) /\ cursor'.kind = cursor.kind
         /\ cursor'.array_size = cursor.array_size /\ cursor'.db = cursor.db
         /\ cursor'.position = f.to.position /\ cursor'.rowset_first = f.to.rowset_first
         /\ Overlay(cursor) => Overlay(cursor')
         /\ rowset' \subseteq 1 .. Count(cursor')
         /\ place' \in {"before", "on", "after"}
<1> DEFINE f == Fetched(cursor, orientation, offset)
<1>1. Good(cursor) /\ offset \in Int
  <2>1. Offsets \subseteq Int
    BY SizesAssumption
  <2>2. offset \in Int
    BY <2>1
  <2> QED
    BY <2>2 DEF TypeGood
<1>2. /\ MayFetch(orientation, offset)
      /\ cursor' = Forget(f.to)
      /\ IF f.to.ret = "error" THEN UNCHANGED <<rowset, place>>
         ELSE /\ rowset' = f.rows
              /\ place' = PlaceAfter(f.rows, orientation, offset)
  BY DEF Fetch
<1>3. Arrived(cursor, f)
  <2>1. cursor.position <= Count(cursor) + 1
    BY <1>2 DEF MayFetch
  <2> QED
    BY <1>1, <2>1, FetchedArrives
<1> HIDE DEF f
<1>4. Moved(cursor, f.to) /\ f.to.array_size = cursor.array_size
      /\ f.rows \subseteq 1 .. Count(cursor)
  BY <1>3 DEF Arrived
<1>5. /\ Good(f.to) /\ Count(f.to) = Count(cursor) /\ Tuples(f.to) = Tuples(cursor)
      /\ Overlay(cursor) => Overlay(f.to)
  BY <1>1, <1>4, MovedKeeps
<1>6. f.to.kind = cursor.kind /\ f.to.db = cursor.db
  BY <1>4 DEF Moved
<1>7. /\ Good(cursor') /\ cursor'.db = f.to.db /\ cursor'.position = f.to.position
      /\ cursor'.kind = f.to.kind /\ cursor'.array_size = f.to.array_size
      /\ cursor'.rowset_first = f.to.rowset_first
      /\ Count(cursor') = Count(f.to) /\ Tuples(cursor') = Tuples(f.to)
      /\ Overlay(f.to) => Overlay(cursor')
  BY <1>2, <1>5, ForgetSo
<1>8. rowset' \subseteq 1 .. Count(cursor') /\ place' \in {"before", "on", "after"}
  <2>1. rowset \subseteq 1 .. Count(cursor) /\ place \in {"before", "on", "after"}
    BY DEF TypeGood
  <2>2. rowset' = rowset \/ rowset' = f.rows
    BY <1>2
  <2>3. place' = place \/ place' \in {"before", "on", "after"}
    BY <1>2 DEF PlaceAfter
  <2> QED
    BY <1>4, <1>5, <1>7, <2>1, <2>2, <2>3
<1> QED
  BY <1>4, <1>5, <1>6, <1>7, <1>8 DEF f

\* A rowset of another size.
LEMMA ResizedSo ==
  ASSUME NEW c, NEW size, Good(c), size \in ArraySizes
  PROVE  LET d == [Answer(c, "success") EXCEPT !.array_size = size] IN
         /\ Good(d) /\ Count(d) = Count(c) /\ Tuples(d) = Tuples(c) /\ d.db = c.db
         /\ d.position = c.position /\ d.rowset_first = c.rowset_first /\ d.kind = c.kind
         /\ Overlay(c) => Overlay(d)
<1> DEFINE d == [Answer(c, "success") EXCEPT !.array_size = size]
<1>1. c \in CursorShape /\ c.rowset_first <= Count(c) /\ c.position <= Count(c) + 2
  BY DEF Good
<1>2. /\ d \in CursorShape /\ d.rows = c.rows /\ d.snapshots = c.snapshots /\ d.db = c.db
      /\ d.position = c.position /\ d.rowset_first = c.rowset_first /\ d.kind = c.kind
      /\ d.open = c.open
  BY <1>1 DEF CursorShape, Answer
<1> HIDE DEF d
<1>3. Moved(c, d)
  BY <1>1, <1>2 DEF Moved
<1>4. /\ Good(d) /\ Count(d) = Count(c) /\ Tuples(d) = Tuples(c)
      /\ Overlay(c) => Overlay(d)
  BY <1>3, MovedKeeps
<1> QED
  BY <1>2, <1>4 DEF d

\* What a savepoint, its release, the end of a transaction, an execution, a close and
\* another size of the rowset leave to the type invariant.
LEMMA OtherSteps ==
  ASSUME TypeGood,
         \/ \E name \in SavepointNames : \/ SetSavepoint(name)
                                         \/ ReleaseSavepoint(name)
                                         \/ RollbackToSavepoint(name)
         \/ \E commit \in BOOLEAN : EndTransaction(commit)
         \/ Execute
         \/ CloseCursor
         \/ \E size \in ArraySizes : Resize(size)
  PROVE  TypeGood'
<1>1. /\ Good(cursor) /\ cursor.db.made <= MaxVersions
      /\ rowset \subseteq 1 .. Count(cursor) /\ place \in {"before", "on", "after"}
  BY DEF TypeGood
<1>2. ASSUME NEW d, Good(d), d.db.made = cursor.db.made, Count(d) = Count(cursor),
             cursor' = Forget(d), rowset' \subseteq 1 .. Count(cursor),
             place' \in {"before", "on", "after"}
      PROVE  TypeGood'
  <2>1. Good(cursor') /\ cursor'.db = d.db /\ Count(cursor') = Count(d)
    BY <1>2, ForgetSo
  <2> QED
    BY <1>1, <1>2, <2>1 DEF TypeGood
<1>3. ASSUME NEW name \in SavepointNames, SetSavepoint(name) PROVE TypeGood'
  <2> DEFINE d == Save(cursor, name)
  <2>1. Good(d) /\ d.rows = cursor.rows /\ d.db.made = cursor.db.made
    BY <1>1, SaveKeeps
  <2>2. cursor' = Forget(d) /\ rowset' = rowset /\ place' = place
    BY <1>3 DEF SetSavepoint
  <2> HIDE DEF d
  <2>3. Count(d) = Count(cursor)
    BY <2>1 DEF Count
  <2> QED
    BY <1>1, <1>2, <2>1, <2>2, <2>3
<1>4. ASSUME NEW name \in SavepointNames, ReleaseSavepoint(name) PROVE TypeGood'
  <2> DEFINE d == ReleaseTo(cursor, name)
  <2>1. Good(d) /\ d.rows = cursor.rows /\ d.db.made = cursor.db.made
    BY <1>1, ReleaseKeeps
  <2>2. cursor' = Forget(d) /\ rowset' = rowset /\ place' = place
    BY <1>4 DEF ReleaseSavepoint
  <2> HIDE DEF d
  <2>3. Count(d) = Count(cursor)
    BY <2>1 DEF Count
  <2> QED
    BY <1>1, <1>2, <2>1, <2>2, <2>3
<1>5. ASSUME NEW name \in SavepointNames, RollbackToSavepoint(name) PROVE TypeGood'
  <2> DEFINE d == RewindTo(cursor, name)
  <2>1. Good(d) /\ Count(d) = Count(cursor) /\ d.db.made = cursor.db.made
    BY <1>1, RewindKeeps
  <2>2. cursor' = Forget(d)
        /\ (rowset' = rowset \/ rowset' = {}) /\ (place' = place \/ place' = "before")
    BY <1>5 DEF RollbackToSavepoint
  <2> HIDE DEF d
  <2> QED
    BY <1>1, <1>2, <2>1, <2>2
<1>6. ASSUME NEW commit \in BOOLEAN, EndTransaction(commit) PROVE TypeGood'
  <2> DEFINE d == Ended(cursor, commit)
  <2>1. Good(d) /\ d.rows = cursor.rows /\ d.db.made = cursor.db.made
    BY <1>1, EndedSo
  <2>2. cursor' = d /\ rowset' = rowset /\ place' = place
    BY <1>6 DEF EndTransaction
  <2> HIDE DEF d
  <2>3. Count(d) = Count(cursor)
    BY <2>1 DEF Count
  <2> QED
    BY <1>1, <2>1, <2>2, <2>3 DEF TypeGood
<1>7. ASSUME Execute PROVE TypeGood'
  <2> DEFINE d == Opened(cursor)
  <2>1. Good(d) /\ d.db = cursor.db
    BY <1>1, OpenedSo
  <2>2. cursor' = d /\ rowset' = {} /\ place' = "before"
    BY <1>7 DEF Execute
  <2> HIDE DEF d
  <2> QED
    BY <1>1, <2>1, <2>2 DEF TypeGood
<1>8. ASSUME CloseCursor PROVE TypeGood'
  <2> DEFINE d == Closed(cursor)
  <2>1. Good(d) /\ d.db = cursor.db
    BY <1>1, ClosedSo
  <2>2. cursor' = d /\ rowset' = {} /\ place' = "before"
    BY <1>8 DEF CloseCursor
  <2> HIDE DEF d
  <2> QED
    BY <1>1, <2>1, <2>2 DEF TypeGood
<1>9. ASSUME NEW size \in ArraySizes, Resize(size) PROVE TypeGood'
  <2>1. cursor' = [Answer(cursor, "success") EXCEPT !.array_size = size]
        /\ rowset' = rowset /\ place' = place
    BY <1>9 DEF Resize
  <2>2. Good(cursor') /\ Count(cursor') = Count(cursor) /\ cursor'.db = cursor.db
    BY <1>1, <2>1, ResizedSo
  <2> QED
    BY <1>1, <2>1, <2>2 DEF TypeGood
<1> QED
  BY <1>3, <1>4, <1>5, <1>6, <1>7, <1>8, <1>9

\* The type invariant is inductive.
LEMMA TypeKept == ASSUME TypeGood, [Next]_vars PROVE TypeGood'
<1>1. CASE UNCHANGED vars
  BY <1>1 DEF TypeGood, vars
<1>2. ASSUME NEW orientation \in Orientations, NEW offset \in Offsets \union {0},
             Fetch(orientation, offset)
      PROVE  TypeGood'
  <2>1. /\ Good(cursor') /\ cursor'.db = cursor.db
        /\ rowset' \subseteq 1 .. Count(cursor') /\ place' \in {"before", "on", "after"}
    BY <1>2, FetchStep
  <2> QED
    BY <2>1 DEF TypeGood
<1>3. ASSUME EditStep PROVE TypeGood'
  <2>1. /\ Good(cursor') /\ Count(cursor) <= Count(cursor')
        /\ cursor'.db.made <= MaxVersions /\ rowset' = rowset /\ place' = place
    BY <1>3 DEF EditStep, Edited, Bounded
  <2>2. rowset' \subseteq 1 .. Count(cursor')
    <3>1. Count(cursor) \in Nat /\ Count(cursor') \in Nat
      BY <2>1, Fields DEF Good, TypeGood
    <3>2. 1 .. Count(cursor) \subseteq 1 .. Count(cursor')
      BY <2>1, <3>1
    <3> QED
      BY <2>1, <3>2 DEF TypeGood
  <2> QED
    BY <2>1, <2>2 DEF TypeGood
<1>4. ASSUME NEW number \in RowNumbers, NEW operation \in Operations,
             SetRowPosition(number, operation)
      PROVE  TypeGood'
  BY <1>3, <1>4, SetPosStep
<1>5. ASSUME NEW operation \in {"update", "delete"}, EditByBookmark(operation)
      PROVE  TypeGood'
  BY <1>3, <1>5, BookmarkStep
<1>6. CASE AddRows
  BY <1>3, <1>6, AddStep
<1>7. CASE Next
  BY <1>2, <1>4, <1>5, <1>6, <1>7, OtherSteps DEF Next
<1> QED
  BY <1>1, <1>7

\* What the cursor does not handle.
Mistaken == {"undo_update", "delete_added", "reopen", "shadow", "empty", "rollback", "past_cap"}

\* The overlay stays in step with the server under every action of an application that spares
\* the cursor those.
LEMMA OverlayStays ==
  ASSUME Ops \cap Mistaken = {}, TypeGood, Overlay(cursor), [Next]_vars
  PROVE  Overlay(cursor')
<1>1. Good(cursor) /\ Shows(cursor)
  BY DEF TypeGood, Overlay, Shows
<1>2. CASE UNCHANGED vars
  BY <1>2 DEF vars
<1>3. ASSUME NEW orientation \in Orientations, NEW offset \in Offsets \union {0},
             Fetch(orientation, offset)
      PROVE  Overlay(cursor')
  BY <1>3, FetchStep
<1>4. ASSUME EditStep PROVE Overlay(cursor')
  <2>1. Ops \cap {"undo_update", "delete_added"} = {}
    BY DEF Mistaken
  <2>2. /\ Edited(cursor, cursor') /\ Shows(cursor')
        /\ Unmoved(cursor, cursor') \/ Len(cursor.db.saves) = 1
    BY <1>1, <1>4, <2>1 DEF EditStep
  <2> QED
    BY <1>1, <2>2, OverlayKept
<1>5. ASSUME NEW number \in RowNumbers, NEW operation \in Operations,
             SetRowPosition(number, operation)
      PROVE  Overlay(cursor')
  BY <1>4, <1>5, SetPosStep
<1>6. ASSUME NEW operation \in {"update", "delete"}, EditByBookmark(operation)
      PROVE  Overlay(cursor')
  BY <1>4, <1>6, BookmarkStep
<1>7. CASE AddRows
  BY <1>4, <1>7, AddStep
<1>8. ASSUME NEW d, Good(d), Overlay(d), cursor' = Forget(d) PROVE Overlay(cursor')
  BY <1>8, ForgetSo
<1>9. ASSUME NEW name \in SavepointNames, SetSavepoint(name) PROVE Overlay(cursor')
  <2>1. Named(cursor, name) = {}
    BY <1>9 DEF SetSavepoint, Mistaken
  <2>2. Count(cursor) > 0
    BY <1>9 DEF SetSavepoint, Mistaken
  <2>3. Slots(cursor, name) # {} \/ Len(cursor.snapshots) < MAX_KEYSET_SAVEPOINTS
    BY <1>9 DEF SetSavepoint, Mistaken
  <2>4. Good(Save(cursor, name)) /\ Overlay(Save(cursor, name))
    BY <1>1, <2>1, <2>2, <2>3, SaveKeeps
  <2>5. cursor' = Forget(Save(cursor, name))
    BY <1>9 DEF SetSavepoint
  <2> QED
    BY <1>8, <2>4, <2>5
<1>10. ASSUME NEW name \in SavepointNames, ReleaseSavepoint(name) PROVE Overlay(cursor')
  <2>1. Good(ReleaseTo(cursor, name)) /\ Overlay(ReleaseTo(cursor, name))
    BY <1>1, ReleaseKeeps
  <2>2. cursor' = Forget(ReleaseTo(cursor, name))
    BY <1>10 DEF ReleaseSavepoint
  <2> QED
    BY <1>8, <2>1, <2>2
<1>11. ASSUME NEW name \in SavepointNames, RollbackToSavepoint(name) PROVE Overlay(cursor')
  <2>1. Good(RewindTo(cursor, name)) /\ Overlay(RewindTo(cursor, name))
    BY <1>1, RewindKeeps
  <2>2. cursor' = Forget(RewindTo(cursor, name))
    BY <1>11 DEF RollbackToSavepoint
  <2> QED
    BY <1>8, <2>1, <2>2
<1>12. ASSUME NEW commit \in BOOLEAN, EndTransaction(commit) PROVE Overlay(cursor')
  <2>1. (commit /\ ~cursor.db.aborted) \/ cursor.db.table = cursor.db.saves[1].table
    BY <1>12 DEF EndTransaction, Mistaken
  <2>2. cursor' = Ended(cursor, commit)
    BY <1>12 DEF EndTransaction
  <2> QED
    BY <1>1, <2>1, <2>2, EndedKeeps
<1>13. CASE Execute
  <2>1. Len(cursor.db.saves) = 1
    BY <1>13 DEF Execute, Mistaken
  <2>2. cursor' = Opened(cursor)
    BY <1>13 DEF Execute
  <2> QED
    BY <1>1, <2>1, <2>2, OpenedOverlay
<1>14. CASE CloseCursor
  <2>1. cursor' = Closed(cursor)
    BY <1>14 DEF CloseCursor
  <2> QED
    BY <1>1, <2>1, ClosedSo
<1>15. ASSUME NEW size \in ArraySizes, Resize(size) PROVE Overlay(cursor')
  <2>1. cursor' = [Answer(cursor, "success") EXCEPT !.array_size = size]
    BY <1>15 DEF Resize
  <2> QED
    BY <1>1, <2>1, ResizedSo
<1>16. CASE Next
  BY <1>3, <1>5, <1>6, <1>7, <1>9, <1>10, <1>11, <1>12, <1>13, <1>14, <1>15, <1>16 DEF Next
<1> QED
  BY <1>2, <1>16

----------------------------------------------------------------------------
(* What holds.                                                             *)

\* What a cursor is made of, with the bound on versions.
LEMMA GoodIsCursor ==
  ASSUME NEW c, Good(c), c.db.made <= MaxVersions
  PROVE  c \in Cursor
<1>1. /\ c \in CursorShape /\ c.db.made \in Nat /\ c.rows \in Seq(BufferedRow)
      /\ c.db.saves \in Seq(SavedLevel) /\ Len(c.db.saves) \in Nat /\ Count(c) \in Nat
      /\ c.db \in Behind /\ c.db.aborted \in BOOLEAN
      /\ \A i \in 1 .. Count(c) : c.rows[i] \in BufferedRow
      /\ \A k \in 1 .. Len(c.db.saves) : c.db.saves[k] \in SavedLevel
  BY Fields DEF Good
<1>2. MaxVersions \in Nat /\ 1 .. c.db.made \subseteq Versions
  BY <1>1, SizesAssumption DEF Versions
<1>3. c.rows \in Seq(Row)
  <2>1. \A i \in 1 .. Count(c) : c.rows[i].version \in Versions
    BY <1>2 DEF Good, RowsGood
  <2>2. \A i \in 1 .. Count(c) : c.rows[i] \in Row
    BY <1>1, <2>1 DEF BufferedRow, Row
  <2>3. c.rows \in [1 .. Count(c) -> Row]
    <3>1. c.rows \in [1 .. Count(c) -> BufferedRow]
      BY <1>1, LenProperties DEF Count
    <3> QED
      BY <2>2, <3>1
  <2> QED
    BY <1>1, <2>3, IsASeq
<1>4. c.db.saves \in Seq(Level)
  <2>1. \A k \in 1 .. Len(c.db.saves) : c.db.saves[k].table \subseteq Versions
    BY <1>2 DEF Good
  <2>2. \A k \in 1 .. Len(c.db.saves) : c.db.saves[k] \in Level
    BY <1>1, <2>1 DEF SavedLevel, Level
  <2>3. c.db.saves \in [1 .. Len(c.db.saves) -> Level]
    <3>1. c.db.saves \in [1 .. Len(c.db.saves) -> SavedLevel]
      BY <1>1, LenProperties
    <3> QED
      BY <2>2, <3>1
  <2>4. PICK n \in Nat : n = Len(c.db.saves)
    BY <1>1
  <2> QED
    BY <2>3, <2>4, IsASeq
<1>5. c.db \in Database
  <2>1. c.db.made \in 0 .. MaxVersions /\ c.db.table \in SUBSET Versions
    BY <1>1, <1>2 DEF Good
  <2> QED
    BY <1>1, <1>4, <2>1 DEF Behind, Database
<1> QED
  BY <1>1, <1>3, <1>5 DEF CursorShape, Cursor

\* The cursor, its rows, the snapshots and the database behind them are of their types, the
\* rowset starts in the rows and the position is at most two steps past them, and the
\* snapshots do not outgrow their array (results_fetch, results_extended_fetch,
\* statement_set_pos, statement_bulk_operations, keyset_snapshot_savepoint).
THEOREM CursorTypes == Spec => []TypeOK
<1>1. Init => TypeGood
  BY InitSo
<1>2. TypeGood /\ [Next]_vars => TypeGood'
  BY TypeKept
<1>3. TypeGood => TypeOK
  <2> HAVE TypeGood
  <2>1. cursor \in Cursor
    BY GoodIsCursor DEF TypeGood
  <2> QED
    BY <2>1 DEF TypeGood, TypeOK, Good
<1> QED
  BY <1>1, <1>2, <1>3, PTL DEF Spec

\* Each version that shows is shown by one row, so that there are as many.
LEMMA ShownOnce ==
  ASSUME NEW c, Good(c), NEW T, {c.rows[i].version : i \in Live(c)} = T
  PROVE  Cardinality(Live(c)) = Cardinality(T)
<1> DEFINE f == [i \in Live(c) |-> c.rows[i].version]
<1>1. Live(c) \subseteq 1 .. Count(c) /\ Count(c) \in Nat
  BY Fields DEF Live, Good
<1>2. IsFiniteSet(Live(c))
  <2>1. IsFiniteSet(1 .. Count(c))
    BY <1>1, FS_Interval
  <2> QED
    BY <1>1, <2>1, FS_Subset
<1>3. f \in [Live(c) -> T] /\ \A v \in T : \E i \in Live(c) : f[i] = v
  OBVIOUS
<1>4. \A i, j \in Live(c) : f[i] = f[j] => i = j
  BY <1>1 DEF Good, RowsGood
<1> HIDE DEF f
<1>5. f \in Bijection(Live(c), T)
  BY <1>3, <1>4 DEF Bijection, Injection, Surjection, IsInjective
<1>6. ExistsBijection(Live(c), T)
  BY <1>5 DEF ExistsBijection
<1> QED
  BY <1>2, <1>6, FS_Bijection

\* The overlay of an updatable cursor shows exactly the rows of the table, each once, for
\* tables, rowsets and savepoints of any number (keyset_positioned_update,
\* keyset_positioned_delete, keyset_positioned_add, keyset_snapshot_savepoint,
\* keyset_restore_savepoint), when the application spares the cursor what it does not handle.
THEOREM OverlayInStep ==
  ASSUME Ops \cap Mistaken = {}
  PROVE  Spec => []OverlayShowsTable
<1> DEFINE Inv == TypeGood /\ Overlay(cursor)
<1>1. Init => Inv
  BY InitSo
<1>2. Inv /\ [Next]_vars => Inv'
  BY TypeKept, OverlayStays
<1>3. Inv => OverlayShowsTable
  <2> SUFFICES ASSUME TypeGood, Overlay(cursor), cursor.open
               PROVE  /\ {cursor.rows[i].version : i \in Live(cursor)} = cursor.db.table
                      /\ Cardinality(Live(cursor)) = Cardinality(cursor.db.table)
    BY DEF OverlayShowsTable
  <2>1. {cursor.rows[i].version : i \in Live(cursor)} = cursor.db.table
    BY DEF Overlay
  <2>2. Cardinality(Live(cursor)) = Cardinality(cursor.db.table)
    BY <2>1, ShownOnce DEF TypeGood
  <2> QED
    BY <2>1, <2>2
<1> QED
  BY <1>1, <1>2, <1>3, PTL DEF Spec

----------------------------------------------------------------------------
(* Where a fetch leaves the application.                                   *)

\* What makes an application lose its place, beside row numbers above 1.
Misplacing == {"resize", "position", "drift", "prior_from_start", "add_at_end"}

Guided == Ops \cap Misplacing = {} /\ RowNumbers \subseteq {0, 1}

\* A step that leaves the cursor where it stands leaves the application there, unless rows
\* were added beyond an end it is past.
LEMMA StandsStill ==
  ASSUME NEW c, NEW d, NEW delivered, NEW at, PlacedAt(c, delivered, at),
         d.position = c.position, d.rowset_first = c.rowset_first, d.kind = c.kind,
         d.array_size = c.array_size, Tuples(d) = Tuples(c),
         Count(d) = Count(c) \/ at # "after"
  PROVE  PlacedAt(d, delivered, at)
<1>1. BlockFetchActive(d) <=> BlockFetchActive(c)
  BY DEF BlockFetchActive
<1>2. at = "after" => End(d) = End(c)
  BY <1>1 DEF End
<1> QED
  BY <1>1, <1>2 DEF PlacedAt

\* A cursor before its first row.
LEMMA AtTheStart ==
  ASSUME NEW d, d.position = 0, d.rowset_first = 0
  PROVE  PlacedAt(d, {}, "before")
BY DEF PlacedAt

\* From a place that is right, the cursor is at most one past the end.
LEMMA AtMostOnePast ==
  ASSUME NEW c, NEW delivered, NEW at, Good(c), PlacedAt(c, delivered, at),
         delivered \subseteq 1 .. Count(c), at \in {"before", "on", "after"},
         ~BlockFetchActive(c)
  PROVE  /\ c.position \in 0 .. Tuples(c) + 1 /\ Tuples(c) \in Nat
         /\ c.position = 0 <=> at = "before"
         /\ c.position = Tuples(c) + 1 <=> at = "after"
<1>1. Count(c) \in Nat /\ c.position \in Nat
  BY Fields DEF Good
<1>2. Tuples(c) \in Nat
  <2>1. Tuples(c) \in 0 .. Count(c)
    BY TuplesFirst
  <2> QED
    BY <1>1, <2>1
<1>3. CASE at = "before"
  BY <1>1, <1>2, <1>3 DEF PlacedAt
<1>4. CASE at = "after"
  <2>1. c.position = Tuples(c) + 1
    BY <1>4 DEF PlacedAt, End
  <2> QED
    BY <1>2, <1>4, <2>1
<1>5. CASE at = "on"
  <2>1. c.position \in delivered /\ c.position <= Tuples(c)
    BY <1>5 DEF PlacedAt
  <2>2. c.position \in 1 .. Count(c)
    BY <2>1
  <2> QED
    BY <1>1, <1>2, <1>5, <2>1, <2>2
<1> QED
  BY <1>3, <1>4, <1>5

\* Where an orientation leads from there.
LEMMA TargetLeads ==
  ASSUME NEW c, Good(c), NEW orientation \in Orientations, NEW offset \in Int,
         Tuples(c) \in Nat, c.position \in 0 .. Tuples(c) + 1
  PROVE  LET target == Target(c, orientation, offset) IN
         /\ target < 1 => \/ orientation \in {"prior", "last"}
                          \/ orientation \in {"relative", "bookmark"} /\ offset < 1
                          \/ orientation = "absolute" /\ offset = 0
         /\ target > Tuples(c) =>
              /\ orientation \notin {"prior", "last"}
              /\ orientation = "bookmark" => ~(offset < 1)
              /\ orientation = "relative" => offset >= 0
              /\ orientation = "absolute" => offset # 0
         /\ orientation = "relative" /\ offset = 0 => target = c.position
<1>1. c.position \in Nat /\ c.position <= Tuples(c) + 1
  OBVIOUS
<1>2. CASE orientation \in {"fetch", "next", "first"}
  BY <1>1, <1>2 DEF Target
<1>3. CASE orientation \in {"prior", "last"}
  BY <1>1, <1>3 DEF Target
<1>4. CASE orientation \in {"relative", "bookmark"}
  BY <1>1, <1>4 DEF Target
<1>5. CASE orientation = "absolute"
  BY <1>1, <1>5 DEF Target, AbsoluteTarget
<1> QED
  BY <1>2, <1>3, <1>4, <1>5 DEF Orientations

\* A block fetch leaves the application on the rows it found, or past the end it ran into.
LEMMA BlockPlaces ==
  ASSUME NEW c, NEW start, Good(c), BlockFetchActive(c)
  PROVE  /\ LET f == KeysetForward(c, start) IN
              /\ f.to.ret # "error"
              /\ PlacedAt(f.to, f.rows, IF f.rows # {} THEN "on" ELSE "after")
         /\ LET f == KeysetBackward(c, start) IN
              /\ f.to.ret # "error"
              /\ PlacedAt(f.to, f.rows, IF f.rows # {} THEN "on" ELSE "before")
<1>1. /\ Count(c) \in Nat /\ c.rowset_first \in 0 .. Count(c)
      /\ c.array_size # 1
  <2>1. Count(c) \in Nat /\ c.rowset_first \in Nat /\ c.rowset_first <= Count(c)
    BY Fields DEF Good
  <2>2. c.array_size # 1
    BY DEF BlockFetchActive
  <2> QED
    BY <2>1, <2>2
<1>2. ASSUME NEW p, NEW first, NEW ret, p \in 0 .. Count(c) + 2, first \in 0 .. Count(c),
             ret \in {"success", "no_data"}
      PROVE  LET d == Stood(c, p, first, ret)
             IN  /\ d.position = p /\ d.rowset_first = first /\ d.ret # "error"
                 /\ d.array_size # 1 /\ BlockFetchActive(d) /\ End(d) = Count(c)
  <2> DEFINE d == Stood(c, p, first, ret)
  <2>1. /\ Moved(c, d) /\ d.array_size = c.array_size
        /\ d.position = p /\ d.rowset_first = first /\ d.ret = ret
    BY <1>2, StoodSo
  <2> HIDE DEF d
  <2>2. BlockFetchActive(d) /\ End(d) = Count(c)
    BY <2>1 DEF BlockFetchActive, Moved, End, Count
  <2> QED
    BY <1>1, <1>2, <2>1, <2>2 DEF d
<1>3. ASSUME NEW S, S \subseteq 1 .. Count(c), S # {}
      PROVE  LET d == Stood(c, Largest(S), Smallest(S), "success")
             IN  d.ret # "error" /\ PlacedAt(d, S, "on")
  <2> DEFINE d == Stood(c, Largest(S), Smallest(S), "success")
  <2>1. /\ Smallest(S) \in S /\ Largest(S) \in S
        /\ \A i \in S : Smallest(S) <= i /\ i <= Largest(S)
        /\ Smallest(S) \in 1 .. Count(c) /\ Largest(S) \in 1 .. Count(c)
    BY <1>3, Extremes
  <2>2. Smallest(S) \in 0 .. Count(c) /\ Largest(S) \in 0 .. Count(c) + 2
    BY <1>1, <2>1
  <2>3. /\ d.position = Largest(S) /\ d.rowset_first = Smallest(S) /\ d.ret # "error"
        /\ d.array_size # 1 /\ BlockFetchActive(d)
    BY <1>2, <2>2
  <2> HIDE DEF d
  <2>4. PlacedAt(d, S, "on")
    BY <1>3, <2>1, <2>3 DEF PlacedAt
  <2> QED
    BY <2>3, <2>4 DEF d
<1>4. LET f == KeysetForward(c, start) IN
        /\ f.to.ret # "error"
        /\ PlacedAt(f.to, f.rows, IF f.rows # {} THEN "on" ELSE "after")
  <2> DEFINE S == FirstOf(c.array_size, {i \in Live(c) : i >= start})
             f == KeysetForward(c, start)
  <2>1. S \subseteq 1 .. Count(c)
    BY FoundIsIn DEF Live
  <2>2. /\ f.rows = S
        /\ S # {} => f.to = Stood(c, Largest(S), Smallest(S), "success")
        /\ S = {} => f.to = Stood(c, Count(c) + 1, c.rowset_first, "no_data")
    BY ForwardSo
  <2> SUFFICES /\ f.to.ret # "error"
               /\ PlacedAt(f.to, f.rows, IF f.rows # {} THEN "on" ELSE "after")
    OBVIOUS
  <2> HIDE DEF S, f
  <2>3. CASE S # {}
    BY <1>3, <2>1, <2>2, <2>3
  <2>4. CASE S = {}
    <3> DEFINE d == Stood(c, Count(c) + 1, c.rowset_first, "no_data")
    <3>1. Count(c) + 1 \in 0 .. Count(c) + 2
      BY <1>1
    <3>2. /\ d.position = Count(c) + 1 /\ d.ret # "error" /\ BlockFetchActive(d)
          /\ End(d) = Count(c)
      BY <1>1, <1>2, <3>1
    <3> HIDE DEF d
    <3>3. PlacedAt(d, {}, "after")
      BY <3>2 DEF PlacedAt
    <3> QED
      BY <2>2, <2>4, <3>2, <3>3 DEF d
  <2> QED
    BY <2>3, <2>4
<1>5. LET f == KeysetBackward(c, start) IN
        /\ f.to.ret # "error"
        /\ PlacedAt(f.to, f.rows, IF f.rows # {} THEN "on" ELSE "before")
  <2> DEFINE S == LastOf(c.array_size, {i \in Live(c) : i <= start})
             f == KeysetBackward(c, start)
  <2>1. S \subseteq 1 .. Count(c)
    BY FoundIsIn DEF Live
  <2>2. /\ f.rows = S
        /\ S # {} => f.to = Stood(c, Largest(S), Smallest(S), "success")
        /\ S = {} => f.to = Stood(c, 0, 0, "no_data")
    BY BackwardSo
  <2> SUFFICES /\ f.to.ret # "error"
               /\ PlacedAt(f.to, f.rows, IF f.rows # {} THEN "on" ELSE "before")
    OBVIOUS
  <2> HIDE DEF S, f
  <2>3. CASE S # {}
    BY <1>3, <2>1, <2>2, <2>3
  <2>4. CASE S = {}
    <3> DEFINE d == Stood(c, 0, 0, "no_data")
    <3>1. 0 \in 0 .. Count(c) /\ 0 \in 0 .. Count(c) + 2
      BY <1>1
    <3>2. d.position = 0 /\ d.rowset_first = 0 /\ d.ret # "error"
      BY <1>2, <3>1
    <3> HIDE DEF d
    <3>3. PlacedAt(d, {}, "before")
      BY <3>2, AtTheStart
    <3> QED
      BY <2>2, <2>4, <3>2, <3>3 DEF d
  <2> QED
    BY <2>3, <2>4
<1> QED
  BY <1>4, <1>5

\* A fetch over the base result does: it stands on the last row it copied, before the first
\* row, or one past the last, where SQLFetch parks too when it was not past it yet.
LEMMA LandPlaces ==
  ASSUME NEW c, NEW orientation, NEW target, Good(c), target \in Int, ~BlockFetchActive(c),
         c.rowset_first = 0,
         orientation = "fetch" => target <= Tuples(c) + 1
  PROVE  LET f == Land(c, orientation, target) IN
         /\ f.to.ret # "error"
         /\ target < 1 => f.rows = {} /\ PlacedAt(f.to, f.rows, "before")
         /\ target > Tuples(c) /\ ~(target < 1) =>
              f.rows = {} /\ PlacedAt(f.to, f.rows, "after")
         /\ ~(target > Tuples(c)) /\ ~(target < 1) =>
              f.rows # {} /\ PlacedAt(f.to, f.rows, "on")
<1> DEFINE f == Land(c, orientation, target)
           S == {i \in target .. (target + c.array_size - 1) : i <= Tuples(c)}
           parked == ParkedAfter(c, orientation, target)
<1>1. /\ Count(c) \in Nat /\ c.array_size \in {1, 2} /\ Tuples(c) \in Nat
      /\ Tuples(c) <= Count(c) /\ 0 \in 0 .. Count(c)
  <2>1. Count(c) \in Nat /\ c.array_size \in {1, 2}
    BY Fields DEF Good
  <2>2. Tuples(c) \in 0 .. Count(c)
    BY TuplesFirst
  <2> QED
    BY <2>1, <2>2
<1>2. /\ target < 1 => f.rows = {} /\ f.to = Stood(c, 0, c.rowset_first, "no_data")
      /\ ~(target < 1) /\ target > Tuples(c) =>
           f.rows = {} /\ f.to = Stood(c, parked, c.rowset_first, "no_data")
      /\ ~(target < 1) /\ ~(target > Tuples(c)) =>
           f.rows = S /\ f.to = Stood(c, Largest(S), c.rowset_first, "success")
  BY LandSo
<1>3. ~(target < 1) /\ target > Tuples(c) => parked = Tuples(c) + 1
  BY <1>1 DEF ParkedAfter
<1>4. ~(target < 1) /\ ~(target > Tuples(c)) =>
        /\ S \subseteq 1 .. Count(c) /\ S # {}
        /\ \A i \in S : i <= Tuples(c)
        /\ c.array_size = 1 => S = {target}
  <2> SUFFICES ASSUME ~(target < 1), ~(target > Tuples(c))
               PROVE  /\ S \subseteq 1 .. Count(c) /\ S # {}
                      /\ \A i \in S : i <= Tuples(c)
                      /\ c.array_size = 1 => S = {target}
    OBVIOUS
  <2>1. target \in S
    BY <1>1
  <2>2. \A i \in S : i \in 1 .. Count(c) /\ i <= Tuples(c)
    BY <1>1
  <2>3. c.array_size = 1 => \A i \in S : i = target
    BY <1>1
  <2> HIDE DEF S
  <2> QED
    BY <2>1, <2>2, <2>3
<1> SUFFICES /\ f.to.ret # "error"
             /\ target < 1 => f.rows = {} /\ PlacedAt(f.to, f.rows, "before")
             /\ target > Tuples(c) /\ ~(target < 1) =>
                  f.rows = {} /\ PlacedAt(f.to, f.rows, "after")
             /\ ~(target > Tuples(c)) /\ ~(target < 1) =>
                  f.rows # {} /\ PlacedAt(f.to, f.rows, "on")
  OBVIOUS
<1> HIDE DEF f, S, parked
<1>5. ASSUME NEW p, NEW ret \in {"success", "no_data"}, p \in 0 .. Count(c) + 2
      PROVE  LET d == Stood(c, p, c.rowset_first, ret)
             IN  /\ d.position = p /\ d.rowset_first = 0 /\ d.ret # "error"
                 /\ d.array_size = c.array_size /\ ~BlockFetchActive(d)
                 /\ Tuples(d) = Tuples(c)
  <2> DEFINE d == Stood(c, p, c.rowset_first, ret)
  <2>1. /\ Moved(c, d) /\ d.array_size = c.array_size
        /\ d.position = p /\ d.rowset_first = c.rowset_first /\ d.ret = ret
    BY <1>1, <1>5, StoodSo
  <2> HIDE DEF d
  <2>2. ~BlockFetchActive(d) /\ Tuples(d) = Tuples(c)
    BY <2>1 DEF BlockFetchActive, Moved, Tuples, Count
  <2> QED
    BY <1>5, <2>1, <2>2 DEF d
<1>6. CASE target < 1
  <2> DEFINE d == Stood(c, 0, c.rowset_first, "no_data")
  <2>1. 0 \in 0 .. Count(c) + 2
    BY <1>1
  <2>2. d.position = 0 /\ d.rowset_first = 0 /\ d.ret # "error"
    BY <1>5, <2>1
  <2>3. f.rows = {} /\ f.to = d
    BY <1>2, <1>6
  <2> HIDE DEF d
  <2>4. PlacedAt(d, {}, "before")
    BY <2>2, AtTheStart
  <2> QED
    BY <1>6, <2>2, <2>3, <2>4
<1>7. CASE ~(target < 1) /\ target > Tuples(c)
  <2> DEFINE d == Stood(c, parked, c.rowset_first, "no_data")
  <2>1. parked = Tuples(c) + 1 /\ parked \in 0 .. Count(c) + 2
    BY <1>1, <1>3, <1>7
  <2>2. /\ d.position = parked /\ d.rowset_first = 0 /\ d.ret # "error"
        /\ ~BlockFetchActive(d) /\ Tuples(d) = Tuples(c)
    BY <1>5, <2>1
  <2>3. f.rows = {} /\ f.to = d
    BY <1>2, <1>7
  <2> HIDE DEF d
  <2>4. PlacedAt(d, {}, "after")
    BY <2>1, <2>2 DEF PlacedAt, End
  <2> QED
    BY <1>7, <2>2, <2>3, <2>4
<1>8. CASE ~(target < 1) /\ ~(target > Tuples(c))
  <2> DEFINE d == Stood(c, Largest(S), c.rowset_first, "success")
  <2>1. /\ S \subseteq 1 .. Count(c) /\ S # {} /\ \A i \in S : i <= Tuples(c)
        /\ c.array_size = 1 => S = {target}
    BY <1>4, <1>8
  <2>2. /\ Largest(S) \in S /\ Largest(S) \in 1 .. Count(c)
        /\ \A i \in S : i <= Largest(S)
    BY <2>1, Extremes
  <2>3. Largest(S) \in 0 .. Count(c) + 2
    BY <1>1, <2>2
  <2>4. /\ d.position = Largest(S) /\ d.rowset_first = 0 /\ d.ret # "error"
        /\ d.array_size = c.array_size /\ ~BlockFetchActive(d) /\ Tuples(d) = Tuples(c)
    BY <1>5, <2>3
  <2>5. f.rows = S /\ f.to = d
    BY <1>2, <1>8
  <2> HIDE DEF d
  <2>6. c.array_size = 1 => S = {Largest(S)}
    BY <2>1, <2>2
  <2>7. PlacedAt(d, S, "on")
    BY <2>1, <2>2, <2>4, <2>6 DEF PlacedAt
  <2> QED
    BY <1>8, <2>1, <2>4, <2>5, <2>7
<1> QED
  BY <1>6, <1>7, <1>8

\* Every fetch from a place that is right leads to one, as the application reckons it.
LEMMA FetchPlaces ==
  ASSUME Guided, TypeGood, Placed, NEW orientation \in Orientations,
         NEW offset \in Offsets \union {0}, Fetch(orientation, offset)
  PROVE  Placed'
<1> DEFINE f == Fetched(cursor, orientation, offset)
           target == Target(cursor, orientation, offset)
<1>1. Good(cursor) /\ offset \in Int
  <2>1. Offsets \subseteq Int
    BY SizesAssumption
  <2>2. offset \in Int
    BY <2>1
  <2> QED
    BY <2>2 DEF TypeGood
<1>2. /\ MayFetch(orientation, offset)
      /\ cursor' = Forget(f.to)
      /\ IF f.to.ret = "error" THEN UNCHANGED <<rowset, place>>
         ELSE /\ rowset' = f.rows
              /\ place' = PlaceAfter(f.rows, orientation, offset)
  BY DEF Fetch
<1>3. Moved(cursor, f.to) /\ f.to.array_size = cursor.array_size
  <2>1. cursor.position <= Count(cursor) + 1
    BY <1>2 DEF MayFetch
  <2> QED
    BY <1>1, <2>1, FetchedArrives DEF Arrived
<1>4. f = [rows |-> {}, to |-> Answer(cursor, "error")] => Placed'
  <2> SUFFICES ASSUME f = [rows |-> {}, to |-> Answer(cursor, "error")] PROVE Placed'
    OBVIOUS
  <2> DEFINE d == Answer(cursor, "error")
  <2>1. /\ Edited(cursor, d) /\ d.rows = cursor.rows /\ d.position = cursor.position
        /\ d.ret = "error"
    <3>1. d.ret = "error"
      BY <1>1 DEF Answer, Good, CursorShape
    <3>2. Edited(cursor, d) /\ d.rows = cursor.rows /\ d.position = cursor.position
      BY <1>1, RefusedKeeps
    <3> QED
      BY <3>1, <3>2
  <2>2. f.to = d
    OBVIOUS
  <2> HIDE DEF d, f
  <2>3. UNCHANGED <<rowset, place>> /\ cursor' = Forget(d)
    BY <1>2, <2>1, <2>2
  <2>4. PlacedAt(d, rowset, place)
    <3>1. Tuples(d) = Tuples(cursor) /\ Count(d) = Count(cursor)
      BY <2>1 DEF Tuples, Count
    <3> QED
      BY <2>1, <3>1, StandsStill DEF Edited, Placed
  <2>5. PlacedAt(Forget(d), rowset, place)
    <3>1. Good(d)
      BY <2>1 DEF Edited
    <3> QED
      BY <2>4, <3>1, ForgetSo, StandsStill
  <2> QED
    BY <2>3, <2>5 DEF Placed
<1>5. ASSUME f.to.ret # "error", NEW at, PlacedAt(f.to, f.rows, at),
             at = PlaceAfter(f.rows, orientation, offset)
      PROVE  Placed'
  <2>1. Good(f.to)
    BY <1>1, <1>3, MovedKeeps
  <2>2. PlacedAt(Forget(f.to), f.rows, at)
    BY <1>5, <2>1, ForgetSo, StandsStill
  <2> HIDE DEF f
  <2>3. cursor' = Forget(f.to) /\ rowset' = f.rows /\ place' = at
    BY <1>2, <1>5
  <2> QED
    BY <2>2, <2>3 DEF Placed
<1>6. CASE cursor.kind = "forward" /\ orientation \notin {"fetch", "next"}
  BY <1>4, <1>6 DEF Fetched
<1>7. CASE BlockFetchActive(cursor)
  <2>1. f = KeysetBlockFetch(cursor, orientation)
    BY <1>7 DEF Fetched, BlockFetchActive
  <2>2. CASE orientation \in {"fetch", "next", "first"}
    <3>1. PICK start : f = KeysetForward(cursor, start)
      BY <2>1, <2>2 DEF KeysetBlockFetch
    <3>2. /\ f.to.ret # "error"
          /\ PlacedAt(f.to, f.rows, IF f.rows # {} THEN "on" ELSE "after")
      BY <1>1, <1>7, <3>1, BlockPlaces
    <3> HIDE DEF f
    <3>3. PlaceAfter(f.rows, orientation, offset) = IF f.rows # {} THEN "on" ELSE "after"
      BY <2>2 DEF PlaceAfter
    <3> QED
      BY <1>5, <3>2, <3>3
  <2>3. CASE orientation \in {"prior", "last"}
    <3>1. PICK start : f = KeysetBackward(cursor, start)
      BY <2>1, <2>3 DEF KeysetBlockFetch
    <3>2. /\ f.to.ret # "error"
          /\ PlacedAt(f.to, f.rows, IF f.rows # {} THEN "on" ELSE "before")
      BY <1>1, <1>7, <3>1, BlockPlaces
    <3> HIDE DEF f
    <3>3. PlaceAfter(f.rows, orientation, offset) = IF f.rows # {} THEN "on" ELSE "before"
      BY <2>3 DEF PlaceAfter
    <3> QED
      BY <1>5, <3>2, <3>3
  <2>4. CASE orientation \in {"absolute", "relative", "bookmark"}
    BY <1>4, <2>1, <2>4 DEF KeysetBlockFetch
  <2> QED
    BY <2>2, <2>3, <2>4 DEF Orientations
<1>8. CASE /\ ~BlockFetchActive(cursor)
           /\ ~(cursor.kind = "forward" /\ orientation \notin {"fetch", "next"})
  <2>1. f = Land(cursor, orientation, target)
    BY <1>8 DEF Fetched
  <2>2. /\ cursor.position \in 0 .. Tuples(cursor) + 1 /\ Tuples(cursor) \in Nat
        /\ cursor.position = 0 <=> place = "before"
        /\ cursor.position = Tuples(cursor) + 1 <=> place = "after"
    BY <1>1, <1>8, AtMostOnePast DEF Placed, TypeGood
  <2>3. /\ target \in Int
        /\ orientation = "fetch" => target <= Tuples(cursor) + 1
    <3>1. target \in Int /\ (orientation = "fetch" => target = cursor.position + 1)
      BY <1>1, TargetIsNumber
    <3>2. orientation = "fetch" => place # "after"
      BY <1>2 DEF MayFetch, Guided, Misplacing
    <3> HIDE DEF target
    <3> QED
      BY <2>2, <3>1, <3>2
  <2>4. /\ target < 1 => \/ orientation \in {"prior", "last"}
                         \/ orientation \in {"relative", "bookmark"} /\ offset < 1
                         \/ orientation = "absolute" /\ offset = 0
        /\ target > Tuples(cursor) =>
             /\ orientation \notin {"prior", "last"}
             /\ orientation = "bookmark" => ~(offset < 1)
             /\ orientation = "relative" => offset >= 0
             /\ orientation = "absolute" => offset # 0
        /\ orientation = "relative" /\ offset = 0 => target = cursor.position
    BY <1>1, <2>2, TargetLeads
  <2>5. cursor.rowset_first = 0
    BY <1>8 DEF Placed, PlacedAt
  <2>6. /\ f.to.ret # "error"
        /\ target < 1 => f.rows = {} /\ PlacedAt(f.to, f.rows, "before")
        /\ target > Tuples(cursor) /\ ~(target < 1) =>
             f.rows = {} /\ PlacedAt(f.to, f.rows, "after")
        /\ ~(target > Tuples(cursor)) /\ ~(target < 1) =>
             f.rows # {} /\ PlacedAt(f.to, f.rows, "on")
    BY <1>1, <1>8, <2>1, <2>3, <2>5, LandPlaces
  <2> HIDE DEF f, target
  <2>7. CASE target < 1
    <3>1. PlaceAfter(f.rows, orientation, offset) = "before"
      <4>1. f.rows = {}
        BY <2>6, <2>7
      <4>2. CASE orientation = "relative" /\ offset = 0
        <5>1. place = "before"
          BY <2>2, <2>4, <2>7, <4>2
        <5> QED
          BY <4>1, <4>2, <5>1 DEF PlaceAfter
      <4>3. CASE ~(orientation = "relative" /\ offset = 0)
        BY <2>4, <2>7, <4>1, <4>3 DEF PlaceAfter
      <4> QED
        BY <4>2, <4>3
    <3> QED
      BY <1>5, <2>6, <2>7, <3>1
  <2>8. CASE ~(target < 1) /\ target > Tuples(cursor)
    <3>1. PlaceAfter(f.rows, orientation, offset) = "after"
      <4>1. f.rows = {}
        BY <2>6, <2>8
      <4>2. CASE orientation = "relative" /\ offset = 0
        <5>1. place = "after"
          BY <2>2, <2>4, <2>8, <4>2
        <5> QED
          BY <4>1, <4>2, <5>1 DEF PlaceAfter
      <4>3. CASE ~(orientation = "relative" /\ offset = 0)
        <5>1. ~(orientation \in {"relative", "bookmark"} /\ offset < 1)
          BY <1>1, <2>4, <2>8, <4>3
        <5> QED
          BY <2>4, <2>8, <4>1, <4>3, <5>1 DEF PlaceAfter
      <4> QED
        BY <4>2, <4>3
    <3> QED
      BY <1>5, <2>6, <2>8, <3>1
  <2>9. CASE ~(target < 1) /\ ~(target > Tuples(cursor))
    <3>1. PlaceAfter(f.rows, orientation, offset) = "on"
      BY <2>6, <2>9 DEF PlaceAfter
    <3> QED
      BY <1>5, <2>6, <2>9, <3>1
  <2> QED
    BY <2>7, <2>8, <2>9
<1> QED
  BY <1>6, <1>7, <1>8

\* The place is right after every step.
LEMMA PlacedStays ==
  ASSUME Guided, TypeGood, Placed, [Next]_vars
  PROVE  Placed'
<1>1. Good(cursor) /\ PlacedAt(cursor, rowset, place)
  BY DEF TypeGood, Placed
<1>2. CASE UNCHANGED vars
  BY <1>2 DEF vars, Placed
<1>3. ASSUME NEW d, Good(d), PlacedAt(d, rowset, place), cursor' = Forget(d),
             rowset' = rowset, place' = place
      PROVE  Placed'
  <2>1. PlacedAt(Forget(d), rowset, place)
    BY <1>3, ForgetSo, StandsStill
  <2> QED
    BY <1>3, <2>1 DEF Placed
<1>4. ASSUME NEW d, Good(d), d.rows = cursor.rows, d.position = cursor.position,
             d.rowset_first = cursor.rowset_first, d.kind = cursor.kind,
             d.array_size = cursor.array_size
      PROVE  PlacedAt(d, rowset, place)
  <2>1. Tuples(d) = Tuples(cursor) /\ Count(d) = Count(cursor)
    BY <1>4 DEF Tuples, Count
  <2> QED
    BY <1>1, <1>4, <2>1, StandsStill
<1>5. ASSUME EditStep, cursor'.position = cursor.position,
             Count(cursor') = Count(cursor) \/ place # "after"
      PROVE  Placed'
  <2>1. /\ cursor'.rowset_first = cursor.rowset_first /\ cursor'.kind = cursor.kind
        /\ cursor'.array_size = cursor.array_size /\ Tuples(cursor') = Tuples(cursor)
        /\ rowset' = rowset /\ place' = place
    BY <1>5 DEF EditStep, Edited
  <2>2. PlacedAt(cursor', rowset, place)
    BY <1>1, <1>5, <2>1, StandsStill
  <2> QED
    BY <2>1, <2>2 DEF Placed
<1>6. ASSUME NEW number \in RowNumbers, NEW operation \in Operations,
             SetRowPosition(number, operation)
      PROVE  Placed'
  <2>1. /\ EditStep /\ Count(cursor') = Count(cursor)
        /\ cursor'.position = IF operation = "position" /\ SetPosRow(cursor, number)
                                  \in 1 .. Count(cursor)
                              THEN SetPosRow(cursor, number) ELSE cursor.position
    BY <1>6, SetPosStep
  <2>2. operation = "position" => SetPosRow(cursor, number) = cursor.position
    <3> SUFFICES ASSUME operation = "position"
                 PROVE  SetPosRow(cursor, number) = cursor.position
      OBVIOUS
    <3>1. cursor.array_size = 1
      BY <1>6 DEF SetRowPosition, Guided, Misplacing
    <3>2. cursor.rowset_first = 0
      BY <1>1, <3>1 DEF PlacedAt, BlockFetchActive
    <3>3. number \in {0, 1} /\ cursor.position \in Nat
      BY <1>1, <1>6, Fields DEF Guided, Good
    <3> QED
      BY <3>2, <3>3 DEF SetPosRow
  <2> QED
    BY <1>5, <2>1, <2>2
<1>7. ASSUME NEW operation \in {"update", "delete"}, EditByBookmark(operation)
      PROVE  Placed'
  BY <1>5, <1>7, BookmarkStep
<1>8. CASE AddRows
  <2>1. place # "after"
    BY <1>8 DEF AddRows, Guided, Misplacing
  <2> QED
    BY <1>5, <1>8, <2>1, AddStep
<1>9. ASSUME NEW name \in SavepointNames, SetSavepoint(name) PROVE Placed'
  <2> DEFINE d == Save(cursor, name)
  <2>1. /\ Good(d) /\ d.rows = cursor.rows /\ d.position = cursor.position
        /\ d.kind = cursor.kind /\ d.rowset_first = cursor.rowset_first
        /\ d.array_size = cursor.array_size
    BY <1>1, SaveKeeps
  <2>2. cursor' = Forget(d) /\ rowset' = rowset /\ place' = place
    BY <1>9 DEF SetSavepoint
  <2> HIDE DEF d
  <2> QED
    BY <1>3, <1>4, <2>1, <2>2
<1>10. ASSUME NEW name \in SavepointNames, ReleaseSavepoint(name) PROVE Placed'
  <2> DEFINE d == ReleaseTo(cursor, name)
  <2>1. /\ Good(d) /\ d.rows = cursor.rows /\ d.position = cursor.position
        /\ d.kind = cursor.kind /\ d.rowset_first = cursor.rowset_first
        /\ d.array_size = cursor.array_size
    BY <1>1, ReleaseKeeps
  <2>2. cursor' = Forget(d) /\ rowset' = rowset /\ place' = place
    BY <1>10 DEF ReleaseSavepoint
  <2> HIDE DEF d
  <2> QED
    BY <1>3, <1>4, <2>1, <2>2
<1>11. ASSUME NEW name \in SavepointNames, RollbackToSavepoint(name) PROVE Placed'
  <2> DEFINE d == RewindTo(cursor, name)
  <2>1. /\ Good(d) /\ d.kind = cursor.kind /\ d.array_size = cursor.array_size
        /\ Named(cursor, name) = {} \/ Slots(cursor, name) = {} =>
             /\ d.rows = cursor.rows /\ d.position = cursor.position
             /\ d.rowset_first = cursor.rowset_first
        /\ Named(cursor, name) # {} /\ Slots(cursor, name) # {} =>
             d.position = 0 /\ d.rowset_first = 0
    BY <1>1, RewindKeeps
  <2>2. /\ cursor' = Forget(d)
        /\ IF Named(cursor, name) # {} /\ Slots(cursor, name) # {}
           THEN rowset' = {} /\ place' = "before"
           ELSE rowset' = rowset /\ place' = place
    BY <1>11 DEF RollbackToSavepoint
  <2> HIDE DEF d
  <2>3. CASE Named(cursor, name) # {} /\ Slots(cursor, name) # {}
    <3>1. cursor'.position = 0 /\ cursor'.rowset_first = 0
      BY <2>1, <2>2, <2>3, ForgetSo
    <3> QED
      BY <2>2, <2>3, <3>1, AtTheStart DEF Placed
  <2>4. CASE Named(cursor, name) = {} \/ Slots(cursor, name) = {}
    BY <1>3, <1>4, <2>1, <2>2, <2>4
  <2> QED
    BY <2>3, <2>4
<1>12. ASSUME NEW commit \in BOOLEAN, EndTransaction(commit) PROVE Placed'
  <2> DEFINE d == Ended(cursor, commit)
  <2>1. /\ Good(d) /\ d.rows = cursor.rows /\ d.position = cursor.position
        /\ d.kind = cursor.kind /\ d.rowset_first = cursor.rowset_first
        /\ d.array_size = cursor.array_size
    BY <1>1, EndedSo
  <2>2. cursor' = d /\ rowset' = rowset /\ place' = place
    BY <1>12 DEF EndTransaction
  <2> HIDE DEF d
  <2>3. PlacedAt(d, rowset, place)
    BY <1>4, <2>1
  <2> QED
    BY <2>2, <2>3 DEF Placed
<1>13. CASE Execute
  <2>1. cursor' = Opened(cursor) /\ rowset' = {} /\ place' = "before"
    BY <1>13 DEF Execute
  <2>2. cursor'.position = 0 /\ cursor'.rowset_first = 0
    BY <1>1, <2>1, OpenedSo
  <2> QED
    BY <2>1, <2>2, AtTheStart DEF Placed
<1>14. CASE CloseCursor
  <2>1. cursor' = Closed(cursor) /\ rowset' = {} /\ place' = "before"
    BY <1>14 DEF CloseCursor
  <2>2. cursor'.position = 0 /\ cursor'.rowset_first = 0
    BY <1>1, <2>1, ClosedSo
  <2> QED
    BY <2>1, <2>2, AtTheStart DEF Placed
<1>15. ASSUME NEW size \in ArraySizes, Resize(size) PROVE Placed'
  <2>1. /\ cursor' = [Answer(cursor, "success") EXCEPT !.array_size = size]
        /\ rowset' = rowset /\ place' = place
    BY <1>15 DEF Resize
  <2>2. place = "before"
    BY <1>15 DEF Resize, Guided, Misplacing
  <2>3. rowset = {} /\ cursor.position = 0 /\ cursor.rowset_first = 0
    BY <1>1, <2>2 DEF PlacedAt
  <2>4. cursor'.position = 0 /\ cursor'.rowset_first = 0
    BY <1>1, <2>1, <2>3, ResizedSo
  <2> QED
    BY <2>1, <2>2, <2>3, <2>4, AtTheStart DEF Placed
<1>16. CASE Next
  BY <1>6, <1>7, <1>8, <1>9, <1>10, <1>11, <1>12, <1>13, <1>14, <1>15, <1>16, FetchPlaces
     DEF Next
<1> QED
  BY <1>2, <1>16

\* A row that no row of a set is below is its first.
LEMMA FirstOne ==
  ASSUME NEW S, S \subseteq Nat, IsFiniteSet(S), NEW r, r \in S, \A i \in S : r <= i
  PROVE  Nth(S, 1) = r /\ Cardinality(S) >= 1
<1>1. \A i \in S : IsFiniteSet({j \in S : j < i})
  <2> TAKE i \in S
  <2>1. {j \in S : j < i} \subseteq S
    OBVIOUS
  <2> QED
    BY <2>1, FS_Subset
<1>2. Cardinality({j \in S : j < r}) = 0
  <2>1. \A j \in S : j \in Nat /\ r \in Nat /\ r <= j
    OBVIOUS
  <2>2. \A j \in S : ~(j < r)
    BY <2>1
  <2>3. {j \in S : j < r} = {}
    BY <2>2
  <2> QED
    BY <2>3, FS_EmptySet
<1>3. ASSUME NEW i \in S, Cardinality({j \in S : j < i}) = 0 PROVE i = r
  <2>1. {j \in S : j < i} = {}
    BY <1>1, <1>3, FS_EmptySet
  <2>2. ~(r < i)
    BY <2>1
  <2>3. r \in Nat /\ i \in Nat /\ r <= i
    BY <1>3
  <2> QED
    BY <2>2, <2>3
<1>4. Nth(S, 1) = CHOOSE i \in S : Cardinality({j \in S : j < i}) = 0
  BY DEF Nth
<1>5. Nth(S, 1) = r
  <2>1. \E i \in S : Cardinality({j \in S : j < i}) = 0
    BY <1>2
  <2>2. /\ Nth(S, 1) \in S
        /\ Cardinality({j \in S : j < Nth(S, 1)}) = 0
    BY <1>4, <2>1, Zenon
  <2> QED
    BY <1>3, <2>2
<1>6. Cardinality(S) >= 1
  <2>1. Cardinality(S) \in Nat /\ Cardinality(S) # 0
    BY FS_EmptySet, FS_CardinalityType
  <2> QED
    BY <2>1
<1> QED
  BY <1>5, <1>6

\* SQLSetPos (statement_set_pos) acts on the row it names, the first of the rowset that the
\* last fetch delivered, whatever was edited, hidden and rolled back to a savepoint since,
\* when the application does not lose its place and names no row but that one.
THEOREM SetPosOnRow ==
  ASSUME Ops \cap Misplacing = {}, RowNumbers \subseteq {0, 1}
  PROVE  Spec => []ActsOnNamedRow
<1> DEFINE Inv == TypeGood /\ Placed
<1>1. Init => Inv
  <2> HAVE Init
  <2>1. /\ TypeGood /\ cursor.position = 0 /\ cursor.rowset_first = 0
        /\ rowset = {} /\ place = "before"
    BY InitSo
  <2> QED
    BY <2>1, AtTheStart DEF Placed
<1>2. Inv /\ [Next]_vars => Inv'
  BY TypeKept, PlacedStays DEF Guided
<1>3. Inv => ActsOnNamedRow
  <2> SUFFICES ASSUME TypeGood, Placed, cursor.kind = "keyset", rowset # {},
                      NEW number \in RowNumbers
               PROVE  LET n == IF number = 0 THEN 1 ELSE number
                      IN  IF n <= Cardinality(rowset)
                          THEN SetPosRow(cursor, number) = Nth(rowset, n)
                          ELSE SetPosRow(cursor, number) \notin 1 .. Count(cursor)
    BY DEF ActsOnNamedRow
  <2> DEFINE row == SetPosRow(cursor, number)
             n == IF number = 0 THEN 1 ELSE number
  <2>1. /\ Good(cursor) /\ Count(cursor) \in Nat /\ cursor.position \in Nat
        /\ cursor.rowset_first \in Nat /\ cursor.array_size \in {1, 2}
        /\ rowset \subseteq 1 .. Count(cursor)
    BY Fields DEF TypeGood, Good
  <2>2. n = 1
    OBVIOUS
  <2>3. row = IF cursor.rowset_first > 0 THEN cursor.rowset_first ELSE cursor.position
    BY <2>1 DEF SetPosRow
  <2>4. row \in rowset /\ \A i \in rowset : row <= i
    <3>1. place = "on"
      BY DEF Placed, PlacedAt
    <3>2. CASE BlockFetchActive(cursor)
      <4>1. cursor.rowset_first \in rowset /\ \A i \in rowset : cursor.rowset_first <= i
        BY <3>1, <3>2 DEF Placed, PlacedAt
      <4>2. cursor.rowset_first > 0
        BY <2>1, <4>1
      <4> HIDE DEF row
      <4> QED
        BY <2>3, <4>1, <4>2
    <3>3. CASE ~BlockFetchActive(cursor)
      <4>1. cursor.array_size = 1
        BY <2>1, <3>3 DEF BlockFetchActive
      <4>2. cursor.rowset_first = 0 /\ rowset = {cursor.position}
        BY <3>1, <3>3, <4>1 DEF Placed, PlacedAt
      <4>3. row = cursor.position
        BY <2>3, <4>2
      <4> HIDE DEF row
      <4> QED
        BY <2>1, <4>2, <4>3
    <3> QED
      BY <3>2, <3>3
  <2>5. rowset \subseteq Nat /\ IsFiniteSet(rowset)
    <3>1. IsFiniteSet(1 .. Count(cursor))
      BY <2>1, FS_Interval
    <3>2. IsFiniteSet(rowset)
      BY <2>1, <3>1, FS_Subset
    <3>3. rowset \subseteq Nat
      BY <2>1
    <3> QED
      BY <3>2, <3>3
  <2> HIDE DEF row
  <2>6. Nth(rowset, 1) = row /\ 1 <= Cardinality(rowset)
    <3>1. Nth(rowset, 1) = row /\ Cardinality(rowset) >= 1
      BY <2>4, <2>5, FirstOne
    <3>2. Cardinality(rowset) \in Nat
      BY <2>5, FS_CardinalityType
    <3> QED
      BY <3>1, <3>2
  <2> QED
    BY <2>2, <2>6 DEF row
<1> QED
  BY <1>1, <1>2, <1>3, PTL DEF Spec

----------------------------------------------------------------------------
(* The rowset of an orientation.                                           *)

\* The rows up to a row.
LEMMA UpToCount == ASSUME NEW t, t \in Nat PROVE Cardinality(1 .. t) = t
<1>1. Cardinality(1 .. t) = IF 1 > t THEN 0 ELSE t - 1 + 1
  BY FS_Interval
<1>2. (IF 1 > t THEN 0 ELSE t - 1 + 1) = t
  OBVIOUS
<1> QED
  BY <1>1, <1>2

\* The first rows from a row on.
LEMMA FirstFrom ==
  ASSUME NEW T, NEW s, NEW n, T \in Nat, s \in Int, s >= 1, n \in Nat
  PROVE  FirstOf(n, {i \in 1 .. T : i >= s}) = {i \in s .. (s + n - 1) : i <= T}
<1> DEFINE S == {i \in 1 .. T : i >= s}
<1>1. ASSUME NEW i \in S PROVE Cardinality({j \in S : j < i}) = i - s
  <2>1. i \in Int /\ i >= s /\ i <= T
    OBVIOUS
  <2>2. {j \in S : j < i} = s .. (i - 1)
    BY <2>1
  <2>3. Cardinality(s .. (i - 1)) = IF s > i - 1 THEN 0 ELSE (i - 1) - s + 1
    BY <2>1, FS_Interval
  <2>4. (IF s > i - 1 THEN 0 ELSE (i - 1) - s + 1) = i - s
    BY <2>1
  <2> QED
    BY <2>2, <2>3, <2>4, Zenon
<1>2. FirstOf(n, S) = {i \in S : i - s < n}
  <2>1. FirstOf(n, S) = {i \in S : Cardinality({j \in S : j < i}) < n}
    BY DEF FirstOf
  <2> HIDE DEF S
  <2> QED
    BY <1>1, <2>1
<1>3. {i \in S : i - s < n} = {i \in s .. (s + n - 1) : i <= T}
  OBVIOUS
<1> HIDE DEF S
<1>4. FirstOf(n, S) = {i \in s .. (s + n - 1) : i <= T}
  BY <1>2, <1>3
<1> QED
  BY <1>4 DEF S

\* The last rows up to a row.
LEMMA LastUpTo ==
  ASSUME NEW t, NEW k, t \in Nat, k \in Nat
  PROVE  LastOf(k, 1 .. t) = {i \in 1 .. t : i >= t - k + 1}
<1>1. ASSUME NEW i \in 1 .. t PROVE Cardinality({j \in 1 .. t : j > i}) = t - i
  <2>1. {j \in 1 .. t : j > i} = (i + 1) .. t
    OBVIOUS
  <2>2. Cardinality((i + 1) .. t) = IF i + 1 > t THEN 0 ELSE t - (i + 1) + 1
    BY FS_Interval
  <2>3. (IF i + 1 > t THEN 0 ELSE t - (i + 1) + 1) = t - i
    OBVIOUS
  <2> QED
    BY <2>1, <2>2, <2>3, Zenon
<1>2. LastOf(k, 1 .. t) = {i \in 1 .. t : t - i < k}
  BY <1>1 DEF LastOf
<1> QED
  BY <1>2

\* A fetch over the base result delivers the rows from where it lands.
LEMMA LandDelivers ==
  ASSUME NEW c, NEW orientation, NEW target, Good(c), target \in Int
  PROVE  Land(c, orientation, target).rows = From(target, c.array_size, 1 .. Tuples(c))
<1> DEFINE T == Tuples(c)
           n == c.array_size
           rows == Land(c, orientation, target).rows
           S == {i \in target .. (target + n - 1) : i <= T}
<1>1. n \in {1, 2} /\ T \in Nat
  <2>1. n \in {1, 2} /\ Count(c) \in Nat
    BY Fields DEF Good
  <2>2. T \in 0 .. Count(c)
    BY TuplesFirst
  <2> HIDE DEF T
  <2> QED
    BY <2>1, <2>2
<1>2. /\ target < 1 => rows = {}
      /\ ~(target < 1) /\ target > T => rows = {}
      /\ ~(target < 1) /\ ~(target > T) => rows = S
  BY LandSo
<1> SUFFICES rows = From(target, n, 1 .. T)
  OBVIOUS
<1> HIDE DEF rows, n, T
<1>3. CASE target < 1
  <2>1. {i \in 1 .. T : target > 0 /\ i >= target} = {}
    BY <1>3
  <2>2. From(target, n, 1 .. T) = FirstOf(n, {})
    BY <2>1 DEF From
  <2>3. FirstOf(n, {}) = {}
    BY DEF FirstOf
  <2> QED
    BY <1>2, <1>3, <2>2, <2>3
<1>4. CASE ~(target < 1)
  <2>1. {i \in 1 .. T : target > 0 /\ i >= target} = {i \in 1 .. T : i >= target}
    BY <1>4
  <2>2. From(target, n, 1 .. T) = FirstOf(n, {i \in 1 .. T : i >= target})
    BY <2>1 DEF From
  <2>3. target >= 1 /\ n \in Nat
    BY <1>1, <1>4
  <2>4. FirstOf(n, {i \in 1 .. T : i >= target}) = S
    BY <1>1, <2>3, FirstFrom
  <2>5. target > T => S = {}
    BY <1>1
  <2> HIDE DEF S
  <2> QED
    BY <1>2, <1>4, <2>2, <2>4, <2>5
<1> QED
  BY <1>3, <1>4

\* A block fetch of an updatable cursor passes over the rows it hides, in either direction.
LEMMA BlockDelivers ==
  ASSUME Guided, TypeGood, Placed, BlockFetchActive(cursor), NEW orientation \in Orientations,
         NEW offset \in Int, MayFetch(orientation, offset),
         Fetched(cursor, orientation, offset).to.ret # "error"
  PROVE  Fetched(cursor, orientation, offset).rows
           = Reference(orientation, offset, Live(cursor), cursor.array_size)
<1> DEFINE c == cursor
           n == cursor.array_size
           f == Fetched(cursor, orientation, offset)
<1>1. /\ Good(c) /\ Count(c) \in Nat /\ c.position \in Nat /\ c.rowset_first \in Nat
      /\ rowset \subseteq 1 .. Count(c) /\ place \in {"before", "on", "after"}
  BY Fields DEF TypeGood, Good
<1>2. Live(c) \subseteq 1 .. Count(c) /\ \A i \in Live(c) : i \in Nat /\ 1 <= i /\ i <= Count(c)
  BY <1>1 DEF Live
<1>3. f = KeysetBlockFetch(c, orientation)
  BY DEF Fetched, BlockFetchActive
<1>4. /\ place = "before" => c.position = 0
      /\ place = "after" => c.position = Count(c) + 1
      /\ place = "on" => /\ rowset # {} /\ c.position = Largest(rowset)
                         /\ c.rowset_first = Smallest(rowset)
                         /\ c.position \in 1 .. Count(c) /\ c.rowset_first \in 1 .. Count(c)
  <2>1. /\ place = "before" => c.position = 0
        /\ place = "after" => c.position = Count(c) + 1
        /\ place = "on" =>
             /\ rowset # {} /\ c.position \in rowset /\ \A i \in rowset : i <= c.position
             /\ c.rowset_first \in rowset /\ \A i \in rowset : c.rowset_first <= i
    BY DEF Placed, PlacedAt, End
  <2>2. rowset # {} => /\ Smallest(rowset) \in rowset /\ Largest(rowset) \in rowset
                       /\ \A i \in rowset : Smallest(rowset) <= i /\ i <= Largest(rowset)
    BY <1>1, Extremes
  <2>3. \A i \in rowset : i \in Nat
    BY <1>1
  <2>4. place = "on" => c.position = Largest(rowset) /\ c.rowset_first = Smallest(rowset)
    <3> SUFFICES ASSUME place = "on"
                 PROVE  c.position = Largest(rowset) /\ c.rowset_first = Smallest(rowset)
      OBVIOUS
    <3>1. /\ c.position <= Largest(rowset) /\ Largest(rowset) <= c.position
          /\ Largest(rowset) \in Nat
      BY <2>1, <2>2, <2>3
    <3>2. /\ c.rowset_first <= Smallest(rowset) /\ Smallest(rowset) <= c.rowset_first
          /\ Smallest(rowset) \in Nat
      BY <2>1, <2>2, <2>3
    <3> QED
      BY <1>1, <3>1, <3>2
  <2> QED
    BY <1>1, <2>1, <2>4
<1>5. \A start : KeysetForward(c, start).rows = FirstOf(n, {i \in Live(c) : i >= start})
  BY <1>1, ForwardSo
<1>6. \A start : KeysetBackward(c, start).rows = LastOf(n, {i \in Live(c) : i <= start})
  BY <1>1, BackwardSo
<1>7. orientation \in {"fetch", "next", "first", "last", "prior"}
  <2> SUFFICES ASSUME orientation \in {"absolute", "relative", "bookmark"} PROVE FALSE
    BY DEF Orientations
  <2>1. f = [rows |-> {}, to |-> Answer(c, "error")]
    BY <1>3 DEF KeysetBlockFetch
  <2>2. Answer(c, "error").ret = "error"
    BY <1>1 DEF Answer, Good, CursorShape
  <2> QED
    BY <2>1, <2>2
<1> HIDE DEF f
<1>8. CASE orientation \in {"fetch", "next"}
  <2>1. f = KeysetForward(c, c.position + 1)
    BY <1>3, <1>8 DEF KeysetBlockFetch
  <2>2. {i \in Live(c) : i >= c.position + 1}
          = {i \in Live(c) : place # "after" /\ (place = "on" => i > Largest(rowset))}
    BY <1>1, <1>2, <1>4
  <2>3. Reference(orientation, offset, Live(c), n)
          = FirstOf(n, {i \in Live(c) : place # "after"
                                        /\ (place = "on" => i > Largest(rowset))})
    BY <1>8 DEF Reference
  <2> QED
    BY <1>5, <2>1, <2>2, <2>3 DEF f
<1>9. CASE orientation = "first"
  <2>1. f = KeysetForward(c, 1)
    BY <1>3, <1>9 DEF KeysetBlockFetch
  <2>2. {i \in Live(c) : i >= 1} = Live(c)
    BY <1>2
  <2>3. Reference(orientation, offset, Live(c), n) = FirstOf(n, Live(c))
    BY <1>9 DEF Reference
  <2> QED
    BY <1>5, <2>1, <2>2, <2>3 DEF f
<1>10. CASE orientation = "last"
  <2>1. f = KeysetBackward(c, Count(c))
    BY <1>3, <1>10 DEF KeysetBlockFetch
  <2>2. {i \in Live(c) : i <= Count(c)} = Live(c)
    BY <1>2
  <2>3. Reference(orientation, offset, Live(c), n) = LastOf(n, Live(c))
    BY <1>10 DEF Reference
  <2> QED
    BY <1>6, <2>1, <2>2, <2>3 DEF f
<1>11. CASE orientation = "prior"
  <2>1. f = KeysetBackward(c, PriorStart(c))
    BY <1>3, <1>11 DEF KeysetBlockFetch
  <2>2. place # "before"
    BY <1>11 DEF MayFetch, Guided, Misplacing
  <2>3. PriorStart(c) = IF place = "on" THEN Smallest(rowset) - 1 ELSE Count(c)
    BY <1>1, <1>4, <2>2 DEF PriorStart
  <2>4. {i \in Live(c) : i <= PriorStart(c)}
          = {i \in Live(c) : place # "before" /\ (place = "on" => i < Smallest(rowset))}
    BY <1>1, <1>2, <1>4, <2>2, <2>3
  <2>5. Reference(orientation, offset, Live(c), n)
          = LastOf(n, {i \in Live(c) : place # "before"
                                       /\ (place = "on" => i < Smallest(rowset))})
    BY <1>11 DEF Reference
  <2> QED
    BY <1>6, <2>1, <2>4, <2>5 DEF f
<1> QED
  BY <1>7, <1>8, <1>9, <1>10, <1>11 DEF f

\* So does a fetch over the base result: blocks that go forward, and a rowset of one row in
\* any direction.
LEMMA LandedRowset ==
  ASSUME Guided, TypeGood, Placed, ~BlockFetchActive(cursor), NEW orientation \in Orientations,
         NEW offset \in Int, MayFetch(orientation, offset),
         cursor.array_size = 1 \/ Forward(orientation, offset)
  PROVE  From(Target(cursor, orientation, offset), cursor.array_size, 1 .. Tuples(cursor))
           = Reference(orientation, offset, 1 .. Tuples(cursor), cursor.array_size)
<1> DEFINE c == cursor
           n == cursor.array_size
           T == Tuples(cursor)
           all == 1 .. T
           target == Target(c, orientation, offset)
<1>1. /\ Good(c) /\ n \in {1, 2} /\ rowset \subseteq 1 .. Count(c)
      /\ place \in {"before", "on", "after"}
  BY Fields DEF TypeGood, Good
<1>2. /\ c.position \in 0 .. T + 1 /\ T \in Nat /\ c.position \in Nat
      /\ c.position = 0 <=> place = "before"
      /\ c.position = T + 1 <=> place = "after"
  <2>1. /\ c.position \in 0 .. T + 1 /\ T \in Nat
        /\ c.position = 0 <=> place = "before"
        /\ c.position = T + 1 <=> place = "after"
    BY <1>1, AtMostOnePast DEF Placed
  <2>2. c.position \in Nat
    BY <1>1, Fields DEF Good
  <2> QED
    BY <2>1, <2>2
<1>3. Cardinality(all) = T
  <2>1. T \in Nat
    BY <1>2
  <2> QED
    BY <2>1, UpToCount
<1>4. place = "on" => /\ rowset # {} /\ c.position = Largest(rowset)
                      /\ n = 1 => Smallest(rowset) = c.position
  <2> SUFFICES ASSUME place = "on"
               PROVE  /\ rowset # {} /\ c.position = Largest(rowset)
                      /\ n = 1 => Smallest(rowset) = c.position
    OBVIOUS
  <2>1. /\ rowset # {} /\ c.position \in rowset /\ \A i \in rowset : i <= c.position
        /\ n = 1 => rowset = {c.position}
    BY DEF Placed, PlacedAt
  <2>2. /\ Smallest(rowset) \in rowset /\ Largest(rowset) \in rowset
        /\ \A i \in rowset : i <= Largest(rowset)
    BY <1>1, <2>1, Extremes
  <2>3. c.position <= Largest(rowset) /\ Largest(rowset) <= c.position
    BY <2>1, <2>2
  <2>4. Largest(rowset) \in Nat /\ c.position \in Nat
    <3>1. Largest(rowset) \in 1 .. Count(c) /\ c.position \in Nat
      BY <1>1, <1>2, <2>2
    <3> QED
      BY <3>1
  <2>5. c.position = Largest(rowset)
    BY <2>3, <2>4
  <2>6. n = 1 => Smallest(rowset) = c.position
    BY <2>1, <2>2
  <2> QED
    BY <2>1, <2>5, <2>6
<1> HIDE DEF T, all, target
<1>5. \A i \in all : i \in Nat /\ 1 <= i /\ i <= T
  BY <1>2 DEF all
<1>6. ASSUME NEW S, \A i \in all : (target > 0 /\ i >= target) <=> i \in S, S \subseteq all
      PROVE  From(target, n, all) = FirstOf(n, S)
  <2>1. {i \in all : target > 0 /\ i >= target} = S
    BY <1>6
  <2> QED
    BY <2>1 DEF From
<1>7. CASE orientation \in {"fetch", "next"}
  <2> DEFINE S == {i \in all : place # "after" /\ (place = "on" => i > Largest(rowset))}
  <2>1. target = c.position + 1
    BY <1>7 DEF Target, target
  <2>2. \A i \in all : (target > 0 /\ i >= target) <=> i \in S
    BY <1>1, <1>2, <1>4, <1>5, <2>1
  <2>3. Reference(orientation, offset, all, n) = FirstOf(n, S)
    BY <1>7 DEF Reference
  <2> QED
    BY <1>6, <2>2, <2>3 DEF all, target, T
<1>8. CASE orientation = "first"
  <2>1. target = 1
    BY <1>8 DEF Target, target
  <2>2. \A i \in all : (target > 0 /\ i >= target) <=> i \in all
    BY <1>5, <2>1
  <2>3. Reference(orientation, offset, all, n) = FirstOf(n, all)
    BY <1>8 DEF Reference
  <2> QED
    BY <1>6, <2>2, <2>3 DEF all, target, T
<1>9. CASE orientation = "absolute" /\ offset >= 0
  <2>1. target = offset
    BY <1>9 DEF Target, AbsoluteTarget, target
  <2>2. Reference(orientation, offset, all, n) = From(offset, n, all)
    BY <1>9 DEF Reference
  <2> QED
    BY <2>1, <2>2 DEF all, target, T
<1>10. CASE orientation = "bookmark"
  <2>1. target = offset
    BY <1>10 DEF Target, target
  <2>2. Reference(orientation, offset, all, n) = From(offset, n, all)
    BY <1>10 DEF Reference
  <2> QED
    BY <2>1, <2>2 DEF all, target, T
<1>11. CASE orientation = "relative"
  <2>1. n = 1
    BY <1>11 DEF Forward
  <2>2. c.position = IF place = "before" THEN 0
                     ELSE IF place = "after" THEN Cardinality(all) + 1
                     ELSE Smallest(rowset)
    BY <1>1, <1>2, <1>3, <1>4, <2>1
  <2>3. Reference(orientation, offset, all, n)
          = From((IF place = "before" THEN 0
                  ELSE IF place = "after" THEN Cardinality(all) + 1
                  ELSE Smallest(rowset)) + offset, n, all)
    BY <1>11 DEF Reference
  <2>4. target = c.position + offset
    BY <1>11 DEF Target, target
  <2> QED
    BY <2>2, <2>3, <2>4 DEF all, target, T
<1>12. ASSUME NEW t, t \in Nat, t <= T, target = t, n = 1
       PROVE  From(target, n, all) = LastOf(n, 1 .. t)
  <2>1. LastOf(n, 1 .. t) = {i \in 1 .. t : i >= t - n + 1}
    BY <1>1, <1>12, LastUpTo
  <2>2. CASE t = 0
    <3>1. \A i \in all : (target > 0 /\ i >= target) <=> i \in {}
      BY <1>12, <2>2
    <3>2. From(target, n, all) = FirstOf(n, {})
      BY <1>6, <3>1
    <3>3. FirstOf(n, {}) = {}
      BY DEF FirstOf
    <3>4. LastOf(n, 1 .. t) = {}
      BY <2>1, <2>2
    <3> QED
      BY <3>2, <3>3, <3>4
  <2>3. CASE t # 0
    <3>1. t >= 1 /\ t \in Int /\ n \in Nat
      BY <1>12, <2>3
    <3>2. \A i \in all : (target > 0 /\ i >= target) <=> i \in {j \in 1 .. T : j >= t}
      BY <1>5, <1>12, <3>1 DEF all
    <3>3. From(target, n, all) = FirstOf(n, {j \in 1 .. T : j >= t})
      BY <1>6, <3>2 DEF all
    <3>4. FirstOf(n, {j \in 1 .. T : j >= t}) = {i \in t .. (t + n - 1) : i <= T}
      BY <1>2, <3>1, FirstFrom
    <3>5. {i \in t .. (t + n - 1) : i <= T} = {i \in 1 .. t : i >= t - n + 1}
      BY <1>2, <1>12, <3>1
    <3> QED
      BY <2>1, <3>3, <3>4, <3>5
  <2> QED
    BY <2>2, <2>3
<1>13. CASE orientation = "last"
  <2>1. n = 1
    BY <1>13 DEF Forward
  <2>2. target = T
    BY <1>13 DEF Target, target, T
  <2>3. From(target, n, all) = LastOf(n, all)
    BY <1>2, <1>12, <2>1, <2>2 DEF all
  <2>4. Reference(orientation, offset, all, n) = LastOf(n, all)
    BY <1>13 DEF Reference
  <2> QED
    BY <2>3, <2>4 DEF all, target, T
<1>14. CASE orientation = "prior"
  <2> DEFINE S == {i \in all : place # "before" /\ (place = "on" => i < Smallest(rowset))}
             t == IF c.position > T THEN T ELSE c.position - 1
  <2>1. n = 1
    BY <1>14 DEF Forward
  <2>2. target = t
    BY <1>14 DEF Target, target, T
  <2>3. place # "before"
    BY <1>14 DEF MayFetch, Guided, Misplacing
  <2>4. t \in Nat /\ t <= T
    <3>1. c.position >= 1
      BY <1>2, <2>3
    <3> QED
      BY <1>2, <3>1
  <2>5. S = 1 .. t
    <3>1. CASE place = "after"
      <4>1. t = T
        BY <1>2, <3>1
      <4>2. S = all
        BY <3>1
      <4> QED
        BY <4>1, <4>2 DEF all
    <3>2. CASE place = "on"
      <4>1. t = c.position - 1 /\ c.position >= 1 /\ Smallest(rowset) = c.position
        BY <1>2, <1>4, <2>1, <3>2
      <4>2. \A i \in all : i \in S <=> i <= t
        BY <1>2, <1>5, <3>2, <4>1
      <4>3. \A i : i \in 1 .. t => i \in all
        BY <1>2, <2>4 DEF all
      <4>4. \A i \in S : i \in all /\ i \in Nat /\ 1 <= i
        BY <1>5
      <4> HIDE DEF S, t
      <4>5. \A i \in 1 .. t : i \in S
        BY <2>4, <4>2, <4>3
      <4>6. \A i \in S : i \in 1 .. t
        BY <2>4, <4>2, <4>4
      <4> QED
        BY <4>5, <4>6
    <3> QED
      BY <1>1, <2>3, <3>1, <3>2
  <2> HIDE DEF t
  <2>6. From(target, n, all) = LastOf(n, 1 .. t)
    BY <1>12, <2>1, <2>2, <2>4
  <2>7. Reference(orientation, offset, all, n) = LastOf(n, S)
    BY <1>14 DEF Reference
  <2> QED
    BY <2>5, <2>6, <2>7 DEF all, target, T
<1>15. CASE orientation = "absolute" /\ ~(offset >= 0)
  <2>1. offset < 0 /\ -offset \in Nat
    BY <1>15
  <2>2. target = IF T + 1 + offset < 1 THEN 1 ELSE T + 1 + offset
    BY <1>15 DEF Target, AbsoluteTarget, target, T
  <2>3. Reference(orientation, offset, all, n)
          = IF -offset > Cardinality(all) THEN FirstOf(n, all)
            ELSE FirstOf(n, LastOf(-offset, all))
    BY <1>15, <2>1 DEF Reference
  <2>4. CASE -offset > T
    <3>1. target = 1
      BY <1>2, <2>1, <2>2, <2>4
    <3>2. \A i \in all : (target > 0 /\ i >= target) <=> i \in all
      BY <1>5, <3>1
    <3>3. From(target, n, all) = FirstOf(n, all)
      BY <1>6, <3>2
    <3>4. Reference(orientation, offset, all, n) = FirstOf(n, all)
      BY <1>3, <2>3, <2>4
    <3> QED
      BY <3>3, <3>4 DEF all, target, T
  <2>5. CASE ~(-offset > T)
    <3>1. target = T + 1 + offset /\ target >= 1
      BY <1>2, <2>1, <2>2, <2>5
    <3>2. LastOf(-offset, all) = {i \in all : i >= T - (-offset) + 1}
      BY <1>2, <2>1, LastUpTo DEF all
    <3>3. \A i \in all : (target > 0 /\ i >= target) <=> i \in LastOf(-offset, all)
      BY <1>2, <1>5, <2>1, <3>1, <3>2
    <3>4. From(target, n, all) = FirstOf(n, LastOf(-offset, all))
      BY <1>6, <3>2, <3>3
    <3>5. Reference(orientation, offset, all, n) = FirstOf(n, LastOf(-offset, all))
      BY <1>3, <2>3, <2>5
    <3> QED
      BY <3>4, <3>5 DEF all, target, T
  <2> QED
    BY <2>4, <2>5
<1> QED
  BY <1>7, <1>8, <1>9, <1>10, <1>11, <1>13, <1>14, <1>15 DEF Orientations

\* From every reachable state each fetch (results_fetch, results_extended_fetch,
\* keyset_block_fetch) delivers the rowset defined for its orientation, over tables of any
\* size and from any offset, also after it has run past an end or met hidden rows, when the
\* application does not lose its place.
THEOREM RowsetDelivered ==
  ASSUME Ops \cap Misplacing = {}, RowNumbers \subseteq {0, 1}
  PROVE  Spec => []DeliversTheRowset
<1> DEFINE Inv == TypeGood /\ Placed
<1>1. Init => Inv
  <2> HAVE Init
  <2>1. /\ TypeGood /\ cursor.position = 0 /\ cursor.rowset_first = 0
        /\ rowset = {} /\ place = "before"
    BY InitSo
  <2> QED
    BY <2>1, AtTheStart DEF Placed
<1>2. Inv /\ [Next]_vars => Inv'
  BY TypeKept, PlacedStays DEF Guided
<1>3. Inv => DeliversTheRowset
  <2> SUFFICES ASSUME TypeGood, Placed, NEW orientation \in Orientations,
                      NEW offset \in Offsets \union {0}, MayFetch(orientation, offset),
                      Fetched(cursor, orientation, offset).to.ret # "error",
                      \/ BlockFetchActive(cursor)
                      \/ cursor.array_size = 1
                      \/ Forward(orientation, offset)
               PROVE  Fetched(cursor, orientation, offset).rows
                        = Reference(orientation, offset, Visible(cursor), cursor.array_size)
    BY DEF DeliversTheRowset
  <2>1. Offsets \subseteq Int /\ Guided
    BY SizesAssumption DEF Guided
  <2>2. offset \in Int /\ Good(cursor)
    BY <2>1 DEF TypeGood
  <2>3. CASE BlockFetchActive(cursor)
    <3>1. Visible(cursor) = Live(cursor)
      BY <2>3 DEF Visible
    <3> QED
      BY <2>1, <2>2, <2>3, <3>1, BlockDelivers
  <2>4. CASE ~BlockFetchActive(cursor)
    <3> DEFINE target == Target(cursor, orientation, offset)
    <3>1. Visible(cursor) = 1 .. Tuples(cursor)
      BY <2>4 DEF Visible
    <3>2. Fetched(cursor, orientation, offset) = Land(cursor, orientation, target)
      <4>1. Answer(cursor, "error").ret = "error"
        BY <2>2 DEF Answer, Good, CursorShape
      <4> QED
        BY <2>4, <4>1 DEF Fetched
    <3>3. target \in Int
      BY <2>2, TargetIsNumber
    <3>4. Land(cursor, orientation, target).rows
            = From(target, cursor.array_size, 1 .. Tuples(cursor))
      BY <2>2, <3>3, LandDelivers
    <3>5. From(target, cursor.array_size, 1 .. Tuples(cursor))
            = Reference(orientation, offset, 1 .. Tuples(cursor), cursor.array_size)
      BY <2>1, <2>2, <2>4, LandedRowset
    <3> QED
      BY <3>1, <3>2, <3>4, <3>5
  <2> QED
    BY <2>3, <2>4
<1> QED
  BY <1>1, <1>2, <1>3, PTL DEF Spec

=============================================================================
