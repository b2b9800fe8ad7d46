---------------------------- MODULE KeysetCursor ----------------------------
(***************************************************************************)
(* An open cursor of one statement (src/src/results.c): the buffered rows, *)
(* the position, fetching and scrolling, and, for a keyset-driven cursor,  *)
(* the overlay with which SQLSetPos and SQLBulkOperations edit a table     *)
(* through it, and the snapshots that follow the savepoints of the         *)
(* application (src/src/statement.c).                                      *)
(*                                                                         *)
(* Rows are numbered from 1 where the code numbers from 0, so position 0   *)
(* is its -1, before the first row.  A row version is a number that stands *)
(* for the ctid and the values together: an UPDATE makes a new version.    *)
(***************************************************************************)
EXTENDS Integers, FiniteSets, Sequences

CONSTANTS Kinds,          \* kinds of cursor to consider
          InitialRows,    \* rows of the table at first
          MaxVersions,    \* bound on the row versions ever made
          ArraySizes,     \* values of SQL_ATTR_ROW_ARRAY_SIZE, at most 2
          RowNumbers,     \* row numbers given to SQLSetPos
          Offsets,        \* offsets given to SQLFetchScroll
          SavepointNames, \* names of the application's savepoints
          MAX_KEYSET_SAVEPOINTS,
          Ops             \* liberties the application takes

\* A forward-only, a static (read-only), and an updatable keyset-driven cursor.
CursorKinds == {"forward", "static", "keyset"}

\* Each lifts a restriction under which the cursor is as it should be.
OpNames == {"undo_update", "delete_added", "add_at_end", "position", "resize",
            "reopen", "shadow", "empty", "rollback", "drift", "prior_from_start",
            "past_cap"}

ASSUME KindsAssumption == Kinds \subseteq CursorKinds
ASSUME SizesAssumption ==
  /\ InitialRows \in Nat /\ MaxVersions \in Nat /\ InitialRows <= MaxVersions
  /\ ArraySizes \subseteq {1, 2}
  /\ RowNumbers \subseteq Nat
  /\ Offsets \subseteq Int
  /\ MAX_KEYSET_SAVEPOINTS \in Nat \ {0}
ASSUME CursorOpsAssumption == Ops \subseteq OpNames

Versions == 1 .. MaxVersions

\* A row of the cursor: the version it shows, whether it is a tuple of the base
\* result (a row of SQL_ADD is not), and whether the overlay hides it.
Row == [version: Versions, based: BOOLEAN, deleted: BOOLEAN]

\* The table as the transaction sees it, the stack of savepoints with the table
\* each goes back to (the first is the transaction), and whether an error has
\* aborted the block.
Level == [name: SavepointNames \union {"transaction"}, table: SUBSET Versions]
Database == [table: SUBSET Versions, made: 0 .. MaxVersions, saves: Seq(Level),
             aborted: BOOLEAN]

Snapshot == [name: SavepointNames, deleted: Seq(BOOLEAN)]

VARIABLES cursor,  \* the cursor of the statement and the database behind it
          rowset,  \* the rows the last fetch delivered
          place    \* where that left the application

vars == <<cursor, rowset, place>>

Cursor == [kind: Kinds, open: BOOLEAN, rows: Seq(Row), position: Nat,
           rowset_first: Nat, array_size: ArraySizes, snapshots: Seq(Snapshot),
           db: Database, ret: {"success", "error", "no_data"}]

Count(c) == Len(c.rows)
Live(c) == {i \in 1 .. Count(c) : ~c.rows[i].deleted}

\* PQntuples of the base result.
Tuples(c) == Cardinality({i \in 1 .. Count(c) : c.rows[i].based})

Smallest(S) == CHOOSE i \in S : \A j \in S : i <= j
Largest(S)  == CHOOSE i \in S : \A j \in S : j <= i

\* The n smallest, and the n largest, of a set of row numbers.
FirstOf(n, S) == {i \in S : Cardinality({j \in S : j < i}) < n}
LastOf(n, S)  == {i \in S : Cardinality({j \in S : j > i}) < n}

Answer(c, code) == [c EXCEPT !.ret = code]

\* No later call depends on what a call returned.
Forget(c) == Answer(c, "success")

----------------------------------------------------------------------------
(* Fetching                                                                *)

Orientations == {"fetch", "next", "prior", "first", "last", "absolute",
                 "relative", "bookmark"}

BlockFetchActive(c) == c.kind = "keyset" /\ c.array_size > 1

\* Mutant: the rowset is taken to begin where the scan began.
KeysetDeliverFromStart(c, start, found) ==
  [Answer(c, "success") EXCEPT !.rowset_first = start, !.position = Largest(found)]

KeysetDeliver(c, start, found) ==
  [Answer(c, "success") EXCEPT !.rowset_first = Smallest(found),
                               !.position = Largest(found)]

\* keyset_block_fetch.  No live row in the direction of the scan parks the cursor
\* at that end; the first row of the last rowset is kept at the far end.
KeysetForward(c, start) ==
  LET found == FirstOf(c.array_size, {i \in Live(c) : i >= start})
  IN  [rows |-> found,
       to   |-> IF found # {} THEN KeysetDeliver(c, start, found)
                ELSE [Answer(c, "no_data") EXCEPT !.position = Count(c) + 1]]

KeysetBackward(c, start) ==
  LET found == LastOf(c.array_size, {i \in Live(c) : i <= start})
  IN  [rows |-> found,
       to   |-> IF found # {} THEN KeysetDeliver(c, start, found)
                ELSE [Answer(c, "no_data") EXCEPT !.position = 0,
                                                  !.rowset_first = 0]]

\* Mutant: PRIOR goes back from the last row of the rowset.
PriorStartFromPosition(c) ==
  IF c.rowset_first = 0 \/ c.position > Count(c) THEN Count(c) ELSE c.position - 1

PriorStart(c) ==
  IF c.rowset_first = 0 \/ c.position > Count(c) THEN Count(c)
  ELSE c.rowset_first - 1

KeysetBlockFetch(c, orientation) ==
  IF orientation \in {"fetch", "next"} THEN KeysetForward(c, c.position + 1)
  ELSE IF orientation = "first" THEN KeysetForward(c, 1)
  ELSE IF orientation = "last" THEN KeysetBackward(c, Count(c))
  ELSE IF orientation = "prior" THEN KeysetBackward(c, PriorStart(c))
  ELSE [rows |-> {}, to |-> Answer(c, "error")]

\* The row a static cursor is to land on: below 1 is before the first row, above
\* Tuples after the last.  For SQL_FETCH_BOOKMARK the offset given here stands for
\* the row of the bookmark and the offset from it together.
AbsoluteTarget(c, offset) ==
  IF offset >= 0 THEN offset
  ELSE IF Tuples(c) + 1 + offset < 1 THEN 1 ELSE Tuples(c) + 1 + offset

Target(c, orientation, offset) ==
  IF orientation \in {"fetch", "next"} THEN c.position + 1
  ELSE IF orientation = "prior"
       THEN IF c.position > Tuples(c) THEN Tuples(c) ELSE c.position - 1
  ELSE IF orientation = "first" THEN 1
  ELSE IF orientation = "last" THEN Tuples(c)
  ELSE IF orientation = "absolute" THEN AbsoluteTarget(c, offset)
  ELSE IF orientation = "relative" THEN c.position + offset
  ELSE offset

\* SQLFetch past the end counts on; SQLFetchScroll parks at the end.
ParkedAfter(c, orientation, target) ==
  IF orientation = "fetch" THEN target ELSE Tuples(c) + 1

\* populate_bound_rowset leaves the position on the last row it copied.
Land(c, orientation, target) ==
  LET found == {i \in target .. (target + c.array_size - 1) : i <= Tuples(c)}
  IN  IF target < 1
      THEN [rows |-> {}, to |-> [Answer(c, "no_data") EXCEPT !.position = 0]]
      ELSE IF target > Tuples(c)
      THEN [rows |-> {},
            to |-> [Answer(c, "no_data") EXCEPT
                      !.position = ParkedAfter(c, orientation, target)]]
      ELSE [rows |-> found,
            to |-> [Answer(c, "success") EXCEPT !.position = Largest(found)]]

\* results_fetch and results_extended_fetch.
Fetched(c, orientation, offset) ==
  IF c.kind = "forward" /\ orientation \notin {"fetch", "next"}
  THEN [rows |-> {}, to |-> Answer(c, "error")]
  ELSE IF BlockFetchActive(c) THEN KeysetBlockFetch(c, orientation)
  ELSE Land(c, orientation, Target(c, orientation, offset))

----------------------------------------------------------------------------
(* Editing                                                                 *)

Outcomes == {"ok", "refused"}

\* Answers to n elements; no element is sent after a refused one.
Answers(n, outcomes) ==
  {s \in [1 .. n -> outcomes] : \A i \in 2 .. n : s[i - 1] = "refused" => s[i] = "refused"}

Refused(c) == Answer([c EXCEPT !.db.aborted = TRUE], "error")

\* A row of the base result can be named by its ctid; an added one cannot, not
\* even when its RETURNING row was kept.
HasCtid(c, row) == c.rows[row].based

\* keyset_positioned_update: a ctid that no row has any more updates nothing and
\* is a success.
Updated(c, row) ==
  [c EXCEPT !.db.table = (@ \ {c.rows[row].version}) \union {c.db.made + 1},
            !.db.made = @ + 1,
            !.rows[row].version = c.db.made + 1]

PositionedUpdate(c, row, outcome) ==
  IF ~HasCtid(c, row) THEN Answer(c, "error")
  ELSE IF c.db.aborted \/ outcome = "refused" THEN Refused(c)
  ELSE IF c.rows[row].version \in c.db.table THEN Answer(Updated(c, row), "success")
  ELSE Answer(c, "success")

\* Mutant: the overlay hides the row before the server has answered.
PositionedDeleteHidingFirst(c, row, outcome) ==
  LET hidden == [c EXCEPT !.rows[row].deleted = TRUE]
  IN  IF ~HasCtid(c, row) THEN Answer(hidden, "success")
      ELSE IF c.db.aborted \/ outcome = "refused" THEN Refused(hidden)
      ELSE Answer([hidden EXCEPT !.db.table = @ \ {c.rows[row].version}], "success")

\* keyset_positioned_delete: a row without a ctid is hidden, and no more.
PositionedDelete(c, row, outcome) ==
  LET hidden == [c EXCEPT !.rows[row].deleted = TRUE]
  IN  IF ~HasCtid(c, row) THEN Answer(hidden, "success")
      ELSE IF c.db.aborted \/ outcome = "refused" THEN Refused(c)
      ELSE Answer([hidden EXCEPT !.db.table = @ \ {c.rows[row].version}], "success")

Positioned(c, row, operation, outcome) ==
  IF operation = "update" THEN PositionedUpdate(c, row, outcome)
  ELSE IF operation = "delete" THEN PositionedDelete(c, row, outcome)
  ELSE IF operation = "position" THEN [Answer(c, "success") EXCEPT !.position = row]
  ELSE Answer(c, "success")

Operations == {"update", "delete", "position", "refresh"}

\* statement_set_pos: row_number counts from the first row of the last block
\* rowset, or from the position when there is none; 0 is taken for 1.
SetPosRow(c, number) ==
  (IF c.rowset_first > 0 THEN c.rowset_first ELSE c.position)
    + (IF number = 0 THEN 0 ELSE number - 1)

SetPos(c, number, operation, outcome) ==
  IF SetPosRow(c, number) \in 1 .. Count(c)
  THEN Positioned(c, SetPosRow(c, number), operation, outcome)
  ELSE Answer(c, "error")

\* statement_bulk_operations, by bookmark: one element after the other, up to
\* the first that fails.
BulkElement(c, bookmark, operation, outcome) ==
  IF bookmark \in 1 .. Count(c) THEN Positioned(c, bookmark, operation, outcome)
  ELSE Answer(c, "error")

BulkNext(c, bookmark, operation, outcome) ==
  IF c.ret = "error" THEN c ELSE BulkElement(c, bookmark, operation, outcome)

ByBookmarks(c, bookmarks, operation, outcomes) ==
  LET first == BulkElement(c, bookmarks[1], operation, outcomes[1])
  IN  IF Len(bookmarks) = 1 THEN first
      ELSE BulkNext(first, bookmarks[2], operation, outcomes[2])

\* keyset_positioned_add: an INSERT and a new live row for each element, up to
\* the first that fails.  An element with no bound column is passed over.
AddElement(c, outcome) ==
  IF outcome = "skipped" THEN Answer(c, "success")
  ELSE IF c.db.aborted \/ outcome = "refused" THEN Refused(c)
  ELSE Answer([c EXCEPT
         !.db.table = @ \union {c.db.made + 1},
         !.db.made = @ + 1,
         !.rows = Append(@, [version |-> c.db.made + 1, based |-> FALSE,
                             deleted |-> FALSE])], "success")

AddNext(c, outcome) == IF c.ret = "error" THEN c ELSE AddElement(c, outcome)

Add(c, outcomes) ==
  IF Len(outcomes) = 1 THEN AddElement(c, outcomes[1])
  ELSE AddNext(AddElement(c, outcomes[1]), outcomes[2])

----------------------------------------------------------------------------
(* Savepoints of the application, on another statement of the connection   *)

Flags(c) == [i \in 1 .. Count(c) |-> c.rows[i].deleted]

\* keyset_snapshot_savepoint: one slot for each name, as many as there is room
\* for, and none for a cursor without rows.
Slots(c, name) == {i \in 1 .. Len(c.snapshots) : c.snapshots[i].name = name}

\* Mutant: a name used again takes another slot.
KeepSnapshotAppending(c, snapshot) == [c EXCEPT !.snapshots = Append(@, snapshot)]

KeepSnapshot(c, snapshot) ==
  IF Slots(c, snapshot.name) # {}
  THEN [c EXCEPT !.snapshots[Smallest(Slots(c, snapshot.name))] = snapshot]
  ELSE IF Len(c.snapshots) < MAX_KEYSET_SAVEPOINTS
       THEN [c EXCEPT !.snapshots = Append(@, snapshot)]
  ELSE c

TakeSnapshot(c, name) ==
  IF c.open /\ Count(c) > 0
  THEN KeepSnapshot(c, [name |-> name, deleted |-> Flags(c)])
  ELSE c

\* Mutant: rows added since the savepoint stay.
RestoreRowsKeepingAdded(c, flags) ==
  [c EXCEPT !.rows = [i \in 1 .. Count(c) |->
     IF i <= Len(flags) THEN [c.rows[i] EXCEPT !.deleted = flags[i]] ELSE c.rows[i]]]

\* keyset_restore_savepoint: the flags of the snapshot, and rows added since it
\* are hidden; the values a row was updated to stay as they are.
RestoreRows(c, flags) ==
  [c EXCEPT !.rows = [i \in 1 .. Count(c) |->
     [c.rows[i] EXCEPT !.deleted = IF i <= Len(flags) THEN flags[i] ELSE TRUE]]]

Rewound(c) == [c EXCEPT !.position = 0, !.rowset_first = 0]

Restore(c, name) ==
  IF Slots(c, name) = {} THEN c
  ELSE Rewound(RestoreRows(c, c.snapshots[Smallest(Slots(c, name))].deleted))

\* The levels of the database, and what the three commands do to it.
Named(c, name) == {i \in 2 .. Len(c.db.saves) : c.db.saves[i].name = name}

Save(c, name) ==
  IF c.db.aborted THEN Answer(c, "error")
  ELSE Answer(TakeSnapshot([c EXCEPT !.db.saves =
                Append(@, [name |-> name, table |-> c.db.table])], name), "success")

ReleaseTo(c, name) ==
  IF c.db.aborted \/ Named(c, name) = {} THEN Refused(c)
  ELSE Answer([c EXCEPT !.db.saves =
                SubSeq(@, 1, Largest(Named(c, name)) - 1)], "success")

BackTo(c, level) ==
  [c EXCEPT !.db.table = c.db.saves[level].table,
            !.db.saves = SubSeq(@, 1, level),
            !.db.aborted = FALSE]

\* The overlay follows only a ROLLBACK TO that succeeds.
RewindTo(c, name) ==
  IF Named(c, name) = {} THEN Refused(c)
  ELSE Answer(Restore(BackTo(c, Largest(Named(c, name))), name), "success")

\* The end of the transaction, and the next one: no cursor hears of it.
Ended(c, commit) ==
  LET table == IF commit /\ ~c.db.aborted THEN c.db.table ELSE c.db.saves[1].table
  IN  Answer([c EXCEPT !.db.table = table, !.db.aborted = FALSE,
                       !.db.saves = <<[name |-> "transaction", table |-> table]>>],
             "success")

----------------------------------------------------------------------------

Opened(c) ==
  LET version(i) == CHOOSE v \in c.db.table :
                      Cardinality({w \in c.db.table : w < v}) = i - 1
  IN  [Answer(c, "success") EXCEPT
         !.open = TRUE, !.position = 0, !.rowset_first = 0, !.snapshots = <<>>,
         !.rows = [i \in 1 .. Cardinality(c.db.table) |->
                     [version |-> version(i), based |-> TRUE, deleted |-> FALSE]]]

Closed(c) ==
  [Answer(c, "success") EXCEPT !.open = FALSE, !.position = 0, !.rowset_first = 0,
                               !.snapshots = <<>>, !.rows = <<>>]

Init ==
  /\ \E kind \in Kinds, size \in ArraySizes :
       cursor = Opened([kind |-> kind, open |-> FALSE, rows |-> <<>>,
         position |-> 0, rowset_first |-> 0, array_size |-> size,
         snapshots |-> <<>>, ret |-> "success",
         db |-> [table |-> 1 .. InitialRows, made |-> InitialRows, aborted |-> FALSE,
                 saves |-> <<[name |-> "transaction",
                              table |-> 1 .. InitialRows]>>]])
  /\ rowset = {}
  /\ place = "before"

\* Where a fetch leaves the application: on the rowset, or past an end.
PlaceAfter(found, orientation, offset) ==
  IF found # {} THEN "on"
  ELSE IF orientation = "relative" /\ offset = 0 THEN place
  ELSE IF \/ orientation \in {"prior", "last"}
          \/ orientation \in {"relative", "bookmark"} /\ offset < 1
          \/ orientation = "absolute" /\ offset = 0
       THEN "before"
  ELSE "after"

\* What an application that knows the cursor's ways asks for; the last conjunct
\* bounds how far SQLFetch drifts past the end.
MayFetch(orientation, offset) ==
  /\ cursor.open
  /\ offset = 0 \/ orientation \in {"absolute", "relative", "bookmark"}
  /\ orientation = "fetch" => "drift" \in Ops \/ place # "after"
  /\ orientation = "prior" => "prior_from_start" \in Ops \/ place # "before"
  /\ cursor.position <= Count(cursor) + 1

\* SQLFetch and SQLFetchScroll.
Fetch(orientation, offset) ==
  LET fetched == Fetched(cursor, orientation, offset)
  IN  /\ MayFetch(orientation, offset)
      /\ cursor' = Forget(fetched.to)
      /\ IF fetched.to.ret = "error" THEN UNCHANGED <<rowset, place>>
         ELSE /\ rowset' = fetched.rows
              /\ place' = PlaceAfter(fetched.rows, orientation, offset)

\* An application that spares the cursor what it does not handle: it updates only
\* while no savepoint stands, and deletes only rows of the base result.
Spares(row, operation) ==
  /\ operation = "update" => "undo_update" \in Ops \/ Len(cursor.db.saves) = 1
  /\ operation = "delete" =>
       "delete_added" \in Ops \/ row \notin (Tuples(cursor) + 1) .. Count(cursor)

Editable == cursor.open /\ cursor.kind = "keyset"

\* The bound on versions.
Bounded(c) == c.db.made <= MaxVersions

\* SQLSetPos, but for SQL_ADD.
SetRowPosition(number, operation) ==
  /\ Editable
  /\ Spares(SetPosRow(cursor, number), operation)
  /\ operation = "position" => "position" \in Ops \/ cursor.array_size = 1
  /\ \E outcome \in Outcomes :
       cursor' = Forget(SetPos(cursor, number, operation, outcome))
  /\ Bounded(cursor')
  /\ UNCHANGED <<rowset, place>>

\* SQLBulkOperations with SQL_UPDATE_BY_BOOKMARK or SQL_DELETE_BY_BOOKMARK; a
\* bookmark of 0 or beyond the rows names none.
EditByBookmark(operation) ==
  /\ Editable
  /\ \E bookmarks \in [1 .. cursor.array_size -> 0 .. Count(cursor)],
        outcomes \in Answers(cursor.array_size, Outcomes) :
       /\ \A i \in DOMAIN bookmarks : Spares(bookmarks[i], operation)
       /\ cursor' = Forget(ByBookmarks(cursor, bookmarks, operation, outcomes))
  /\ Bounded(cursor')
  /\ UNCHANGED <<rowset, place>>

\* SQL_ADD, of SQLSetPos or SQLBulkOperations.
AddRows ==
  /\ Editable
  /\ "add_at_end" \in Ops \/ place # "after"
  /\ \E outcomes \in Answers(cursor.array_size, Outcomes \union {"skipped"}) :
       cursor' = Forget(Add(cursor, outcomes))
  /\ Bounded(cursor')
  /\ UNCHANGED <<rowset, place>>

----------------------------------------------------------------------------

\* SAVEPOINT, RELEASE and ROLLBACK TO, executed on another statement.
SetSavepoint(name) ==
  /\ Len(cursor.db.saves) <= Cardinality(SavepointNames)
  /\ "shadow" \in Ops \/ Named(cursor, name) = {}
  /\ "empty" \in Ops \/ Count(cursor) > 0
  /\ "past_cap" \in Ops \/ Slots(cursor, name) # {}
       \/ Len(cursor.snapshots) < MAX_KEYSET_SAVEPOINTS
  /\ cursor' = Forget(Save(cursor, name))
  /\ UNCHANGED <<rowset, place>>

ReleaseSavepoint(name) ==
  /\ cursor' = Forget(ReleaseTo(cursor, name))
  /\ UNCHANGED <<rowset, place>>

\* A cursor that was restored stands before its first row.
RollbackToSavepoint(name) ==
  /\ cursor' = Forget(RewindTo(cursor, name))
  /\ IF Named(cursor, name) # {} /\ Slots(cursor, name) # {}
     THEN rowset' = {} /\ place' = "before"
     ELSE UNCHANGED <<rowset, place>>

\* SQLEndTran; cursors are preserved (SQL_CB_PRESERVE).
EndTransaction(commit) ==
  /\ \/ "rollback" \in Ops
     \/ commit /\ ~cursor.db.aborted
     \/ cursor.db.table = cursor.db.saves[1].table
  /\ cursor' = Ended(cursor, commit)
  /\ UNCHANGED <<rowset, place>>

\* SQLExecDirect of the SELECT, again; and SQLCloseCursor.
Execute ==
  /\ ~cursor.db.aborted
  /\ "reopen" \in Ops \/ Len(cursor.db.saves) = 1
  /\ cursor' = Opened(cursor)
  /\ rowset' = {} /\ place' = "before"

CloseCursor ==
  /\ cursor.open
  /\ cursor' = Closed(cursor)
  /\ rowset' = {} /\ place' = "before"

\* SQLSetStmtAttr(SQL_ATTR_ROW_ARRAY_SIZE).
Resize(size) ==
  /\ "resize" \in Ops \/ place = "before"
  /\ cursor' = [Answer(cursor, "success") EXCEPT !.array_size = size]
  /\ UNCHANGED <<rowset, place>>

Next ==
  \/ \E orientation \in Orientations, offset \in Offsets \union {0} :
       Fetch(orientation, offset)
  \/ \E number \in RowNumbers, operation \in Operations :
       SetRowPosition(number, operation)
  \/ \E operation \in {"update", "delete"} : EditByBookmark(operation)
  \/ AddRows
  \/ \E name \in SavepointNames :
       \/ SetSavepoint(name)
       \/ ReleaseSavepoint(name)
       \/ RollbackToSavepoint(name)
  \/ \E commit \in BOOLEAN : EndTransaction(commit)
  \/ Execute
  \/ CloseCursor
  \/ \E size \in ArraySizes : Resize(size)

Spec == Init /\ [][Next]_vars

----------------------------------------------------------------------------
(* What the runs check                                                     *)

\* Types, and what the code relies on to index: the rowset starts in the rows, the
\* position is at most two steps past them, and the table of snapshots does not
\* outgrow its array (keyset_snapshot_savepoint).
TypeOK ==
  /\ cursor \in Cursor
  /\ rowset \subseteq 1 .. Count(cursor)
  /\ place \in {"before", "on", "after"}
  /\ cursor.rowset_first <= Count(cursor)
  /\ cursor.position <= Count(cursor) + 2
  /\ Len(cursor.snapshots) <= MAX_KEYSET_SAVEPOINTS

\* The overlay stays in step with the server (keyset_intercept_savepoint_command
\* promises it): the rows an open keyset cursor does not hide are exactly the rows
\* of the table, each shown once, whatever was updated, deleted, added, refused and
\* rolled back to a savepoint.
OverlayShowsTable ==
  cursor.open =>
    /\ {cursor.rows[i].version : i \in Live(cursor)} = cursor.db.table
    /\ Cardinality(Live(cursor)) = Cardinality(cursor.db.table)

Nth(S, n) == CHOOSE i \in S : Cardinality({j \in S : j < i}) = n - 1

\* SQLSetPos (statement_set_pos) acts on the row it names: row n of the rowset that
\* the last fetch delivered, and on none when the rowset has no such row.
ActsOnNamedRow ==
  cursor.kind = "keyset" /\ rowset # {} =>
    \A number \in RowNumbers :
      LET n == IF number = 0 THEN 1 ELSE number
      IN  IF n <= Cardinality(rowset)
          THEN SetPosRow(cursor, number) = Nth(rowset, n)
          ELSE SetPosRow(cursor, number) \notin 1 .. Count(cursor)

\* The n rows from row start on, out of all.
From(start, n, all) == FirstOf(n, {i \in all : start > 0 /\ i >= start})

\* The rowset that is defined for an orientation, of the rows in all, from what
\* the application knows: the rowset delivered last, or the end it is at.
\* SQL_FETCH_ABSOLUTE far before the first row delivers the first.
Reference(orientation, offset, all, n) ==
  LET origin == IF place = "before" THEN 0
                ELSE IF place = "after" THEN Cardinality(all) + 1
                ELSE Smallest(rowset)
  IN  CASE orientation \in {"fetch", "next"} ->
             FirstOf(n, {i \in all : /\ place # "after"
                                     /\ place = "on" => i > Largest(rowset)})
        [] orientation = "prior" ->
             LastOf(n, {i \in all : /\ place # "before"
                                    /\ place = "on" => i < Smallest(rowset)})
        [] orientation = "first" -> FirstOf(n, all)
        [] orientation = "last" -> LastOf(n, all)
        [] orientation = "absolute" /\ offset >= 0 -> From(offset, n, all)
        [] orientation = "absolute" /\ offset < 0 ->
             IF -offset > Cardinality(all) THEN FirstOf(n, all)
             ELSE FirstOf(n, LastOf(-offset, all))
        [] orientation = "relative" -> From(origin + offset, n, all)
        [] orientation = "bookmark" -> From(offset, n, all)

\* A block keyset cursor passes over the rows it
\* hides; the plain path does not (results.c, keyset_block_fetch_active), and of
\* its blocks only those that go forward are as they should be (the limitation
\* that results_extended_fetch states).
Forward(orientation, offset) ==
  \/ orientation \in {"fetch", "next", "first", "bookmark"}
  \/ orientation = "absolute" /\ offset >= 0

Visible(c) == IF BlockFetchActive(c) THEN Live(c) ELSE 1 .. Tuples(c)

\* From every reachable state each fetch (results_fetch, results_extended_fetch,
\* keyset_block_fetch) delivers the rowset defined for its orientation, also after
\* it has run past an end, met hidden rows or been resized.
DeliversTheRowset ==
  \A orientation \in Orientations, offset \in Offsets \union {0} :
    /\ MayFetch(orientation, offset)
    /\ Fetched(cursor, orientation, offset).to.ret # "error"
    /\ \/ BlockFetchActive(cursor)
       \/ cursor.array_size = 1
       \/ Forward(orientation, offset)
    => Fetched(cursor, orientation, offset).rows =
         Reference(orientation, offset, Visible(cursor), cursor.array_size)
=============================================================================
