# A TLA+ verification of psqlodbc2

psqlodbc2 is an ODBC driver for PostgreSQL.  An application loads it through a
Driver Manager and calls ODBC functions on environment, connection, statement
and descriptor handles; the driver turns them into libpq calls.  Every call is
synchronous.  What makes the driver hard to get right is not threads: it is the
state one connection keeps about its transaction, shared by all its statements,
against a server whose own state moves with every command, error and lost link,
and the state one statement keeps across many calls: results in waiting, data
still to be supplied, a cursor whose rows have been changed under it.

This directory holds modules that translate that code, TLC configurations that
check them on small instances, and theorems that TLAPS checks for every
instance.

## Inventory

| Part | Source | State | Operations |
|---|---|---|---|
| Transactions | `connection.c`, `large_object.c` | `transaction_state`, `statement_savepoint_active`, `autocommit`, the effective rollback mode | begin, commit, rollback, ensure, per-statement savepoint, error recovery, connect, disconnect |
| Statement execution | `statement.c` | prepared name, deferred prepare error, current result, chain of results | prepare, execute, direct execution, several fragments, procedure call, more results, free |
| Data at execution | `statement.c` | `DataAtExecState`: set, parameter, buffers | begin, mark, SQLParamData, SQLPutData, run a set |
| Parameter arrays | `statement.c` | status array, operation array, processed count | one execution for many sets, in batches |
| Large objects | `large_object.c`, `statement.c` | descriptor, column, row, bytes left; object written in pieces | store in line, stream, read in pieces |
| Fetching | `results.c` | position, rowset start and size, row status | SQLFetch, SQLFetchScroll, SQLExtendedFetch, SQLGetData |
| Keyset cursor | `results.c`, `statement.c` | overlay rows (values, deleted), snapshots by savepoint name | SQLSetPos, SQLBulkOperations, snapshot, restore |
| Descriptors | `descriptor.c`, `column_binding.c`, `parameter.c` | records, implicit and explicit, which statement uses which | bind, set and get fields, copy, free |
| Handles | `environment.c`, `driver_main.c`, `connection.c` | tables of connections and statements, the descriptors a statement uses | allocate, free, attach, detach |
| Attributes | `odbc_api.c` | attributes of connection and statement; isolation and access mode of the session | set, get |
| Diagnostics | `diagnostics.c`, `error_mapping.c`, `connection.c` | up to 16 records; up to 16 captured notices | add, clear, capture, promote, read in pages |
| Query parser | `query_parser.c` | none | markers, escapes, splitting, exempt commands |
| Catalog | `catalog.c` | none of its own | compose a query, run it |
| Conversion | `type_mapping.c`, `results.c` | none, but the offset of SQLGetData | format and parse values |
| Configuration | `connection_string.c`, `dsn_config.c`, `setup/` | options | parse, look up, edit |

How they interact: an ODBC entry point (`odbc_api.c`) calls a statement
function, which asks the connection for a transaction and a savepoint, calls
libpq, and gives an error back to the connection for recovery.  `SQLEndTran` and
`SQLSetConnectAttr` end transactions without the statements knowing.  Catalog
functions and `SQLSetPos` go to libpq directly, past the transaction functions.
The SQL text of a statement may itself be `COMMIT`, `SAVEPOINT` or `ROLLBACK TO`;
the driver recognises only the savepoint commands.

What is hard: the one savepoint the driver keeps per connection, shared by all
statements and by executions that span calls; commands that fail halfway; a link
that breaks before or after the server has carried a command out; commands of the
application that move the server's state behind the driver's; results, names and
pieces of values that change hands between calls; three hand-written readers of
one text that must agree with a fourth, the server's.  `PROJECT.json` lists these
hazards line by line, with the properties that guard each.

What makes each part correct: *transactions*: an error undoes what the configured
mode says and nothing else, what is reported committed or rolled back is so;
*prepared statements*: a statement runs its own text and reports its own error, and
leaves no name behind; *results*: each is freed once and seen in order; *arrays and
data at execution*: each set runs once, with its own values, and its status says how
it went; *fetching*: the rowset is the one ODBC defines; *keyset*: the overlay shows
what the server holds, also after `ROLLBACK TO`; *handles and descriptors*: tables
and counts are exact, and nothing refers to what has been freed; *diagnostics*: an
error comes first, notices are the call's own, a long message arrives whole;
*attributes*: the answer tells what is in force; *parser*: all readers take a text alike.

## Modules

    PgSession ---- Connection ---- Statement ---- Transactions ---- MCTransactions
                                                   |      :
                                      TransactionProofs   : UnitOfWork (refinement)

    KeysetCursor ---- MCKeysetCursor        Execution ---- MCExecution
       |                                       |
    KeysetProofs                            ExecutionProofs

    Attributes ---- MCAttributes            PreparedStatements ---- MCPreparedStatements
       |                                       |
    AttributesProofs                        PreparedProofs

    Handles ---- MCHandles                  Diagnostics ---- MCDiagnostics
       |                                       |
    Descriptors ---- MCDescriptors          DiagnosticsProofs
       |
    DescriptorProofs                        QueryParser ---- MCQueryParser
                                               |
                                            QueryParserProofs

The transaction side of an execution, the command it runs, the results it leaves
and the handles it goes through are modules of their own: each has the whole of
the state its properties relate, and what the others decide is an input.

* **PgSession** is the server session as libpq shows it, and external to this
  repository: the link, the block (`idle`, `open`, `aborted`), a stack of levels
  (the transaction and its savepoints, each with the work done in it), the work
  committed, and the answer to the last command.  `Run`, `Begin`, `Commit`,
  `Savepoint`, `Release`, `RollbackTo` do to it what the driver relies on
  PostgreSQL doing, every outcome included: an error, a refused commit, a link
  that breaks before or after the command took effect, no result at all.
* **Connection** has one operator per function of `connection.c` that touches the
  transaction, from the connection before the call to the one after it:
  `BeginTransaction`, `CommitTransaction`, `RollbackTransaction`,
  `EnsureTransaction`, `BeginStatementSavepoint`, `HandleStatementError`,
  `SetAutocommit` (the code of `SQL_ATTR_AUTOCOMMIT`), `Connect`, `Disconnect`.
* **Statement** is how `statement.c` carries an execution through the connection:
  the opening (`Open`: exempt commands skip it, savepoint commands get no
  savepoint; `SQLExecDirect` closes the previous result before it, `SQLExecute`
  after), the ways of running (`RunSingle`, `RunCall`, `RunFragments`,
  `RunParameterSets`, `RunWithLargeObject`, `RunSuppliedSet`), and the recovery, or its
  absence, after each.  `RunCall` is a plain CALL with FetchRefcursors on: the recovery
  comes before the FETCHes, and nothing after them.
* **Transactions** puts an application in front of one connection and its
  statements.  A call is one action, because it runs to its end; what interleaves
  is the calls of different statements, the sets of a data-at-execution that spans
  calls, and the breaking of the link.  `conn` is the connection, `phase` what is
  unfinished on each statement, `executed` the work of the sets already run, and
  `app` what the application was told: work in force in the open transaction
  (`acked`), confirmed as committed, confirmed as rolled back.
* **UnitOfWork** is the abstract specification: a store and one unit of work; a
  statement adds all of its work or none, and the unit is committed or rolled
  back as a whole.
* **KeysetCursor** is one open cursor of a statement, with the table behind it:
  `cursor` has the buffered rows with their overlay, the position, the first row
  of the last block rowset (`rowset_first`), the rowset size, the snapshots, and
  the database (`db`: the table as a set of row versions, a stack of savepoints
  with the table each goes back to, whether the block is aborted).  `rowset` and
  `place` are what the application knows: the rows delivered last, or the end it
  stands at.  `Fetched` is `SQLFetch` and `SQLFetchScroll` with every orientation;
  it takes the block path over the overlay (`KeysetBlockFetch`) or the plain one
  (`Land`), as `keyset_block_fetch_active` decides.  `SetPos`, `ByBookmarks` and
  `Add` are `SQLSetPos` and `SQLBulkOperations`; `Save` and `RewindTo` are the
  interception of `SAVEPOINT` and `ROLLBACK TO` on another statement.  A version
  stands for a ctid and the values together, so showing a stale value and
  addressing a stale row are the same violation.
* **PreparedStatements** has the statements of one connection and, of the server,
  the names it keeps prepared, its one unnamed command and the block.  `Prepare`,
  `Execute`, `ExecDirect`, `Catalog` and `Free` are the functions of those names;
  `Lose`, `Connect` and `Disconnect` take the session away.  The ghosts `meant`,
  `ran` and `reported` say which text should have been run or reported, and which was.
* **Execution** is one statement from `SQLExecute` to the last `SQLMoreResults`.
  A call that sends several commands is taken command by command (`loop` holds the
  local variables of the C function): fragments (`RunFragment`), the cursors of a
  call (`FetchCursor`), the sets of an array in their batches (`RunSet`,
  `NextBatch`), the march over deferred parameters (`ParamData`, `HandOut`,
  `PutData`, `RunSuppliedSet`, `NextSet`).  `result` is the heap of `PGresult`s: a
  number is an address, and one that was cleared can come back.  `due`, `outcome`
  and `given` record what the application should see.
* **Handles** has the addresses of environments, connections, statements and
  explicit descriptors, the table of each parent (packed for environments, with gaps
  for connections) and which descriptors a statement uses.  A freed address can be
  allocated again.  `StartClosing` is an application that begins to free what it has.
* **Descriptors** extends it with the column bindings of each statement and the
  record count of each explicit descriptor: `BindCol`, `FreeStmtUnbind`,
  `SetDescField`, `SetDescRec` and `CopyDesc`, through an implicit or an explicit
  handle.  A binding has a buffer, an indicator or none, and perhaps an override of its
  precision; `CopyReproducesBindings` says that a copy brings the columns and overrides,
  and drops the indicators, as the code does.
* **Diagnostics** has the records of every handle, the notices captured by the
  connection and not yet promoted, and a reader that pages through the records of a
  handle as `SQLGetDiagRec` allows, in buffers of any lengths.  `FromResult` and
  `BehindNotices` are the two ways an error may have no record or not the first.
* **Attributes** has the attributes of a connection and a statement, `Set...` and
  `Get...` as separate switches as in the code, and the characteristics of the session
  with what a rollback would bring back.
* **QueryParser** reads a text of any length unit by unit with the splitter, the
  transforming scanner, the select-list reader and the server's lexer in step.  Its
  state is theirs, and not the text: the number of texts is unbounded and the number
  of states is not.

The Driver Manager is part of the environment: it refuses (HY010) a second
execution of a statement that waits for data and the end of a transaction or of a
connection under one.  `MayExecute`, `NoneInData` and `Idle` are these rules.

## Runs

| Run | What happens | Checks |
|---|---|---|
| `txn_all` | every operation of `Transactions`, mode STATEMENT | `TypeOK`, `NoOrphanTransaction`, `SavepointInsideTransaction` |
| `txn_recovery` | executions, calls that fetch from cursors, fragments, data at execution, lost links; modes TRANSACTION and STATEMENT | `AcknowledgedWorkStands`, `CommitIsDurable`, `RollbackIsFinal`, `ErrorsAreRecovered`, `OneDriverSavepoint`, `ImplementsUnitOfWork` |
| `savepoint_cascade` | executions and the application's savepoint | violates `UserSavepointStands` |
| `keyset_edit` | edits, bulk operations, savepoints, ends of transactions on a block keyset cursor | `TypeOK`, `OverlayShowsTable` |
| `keyset_scroll` | every fetch, edits and resizing, on all kinds of cursor | `ActsOnNamedRow`, `DeliversTheRowset` |
| `prepared` | two statements of one connection that is lost and reconnected | `RunsItsOwnText`, `ReportsItsOwnError`, `NamesAreHeld` |
| `execution` | fragments, calls, arrays, data at execution on one statement | `ResultsOwnedOnce`, `ResultsInOrder`, `StatusesTellOutcome`, `ValuesAreOfTheSet`, `NeedDataEnds` |
| `handles` | allocating, attaching and freeing in every order, up to the caps | `TablesHoldTheLive`, `ParentsOutliveChildren`, `ActiveDescriptorLives`, `ShutdownCompletes` |
| `descriptors` | binding, with and without indicators, and copying through every entry point | `TypeOK`, `BoundCountsAgree`, `CopyReproducesBindings` |
| `diagnostics` | notices, errors and calls of two statements, and a reader | `NoticesAreOwn`, `ErrorIsReported`, `MessagesReassemble` |
| `attributes` | every attribute set to each value there is for it, and read back | `ReportedIsInForce`, `AnswerTellsTheValue` |
| `parser` | all texts of the modelled units, both settings of standard_conforming_strings | `LexersAgree`, `ArgumentsAreWhole`, `MarkersReachServer`, `FragmentsAreCommands`, `OverridesMatchColumns` |

### What the passing runs leave out

Some properties do not hold of every application, because of the disagreements
listed as findings in `PROJECT.json`.  A constant then says whether the application
stays clear of them.  The runs check the careful application; with the value
changed TLC shows the shortest way it goes wrong:

| Module | Constant | Then violated |
|---|---|---|
| `Transactions` | `Ops` of `txn_recovery` = `{"single", "exempt"}` | `AcknowledgedWorkStands` |
| | `{"single", "dae", "interleave"}` | `AcknowledgedWorkStands` |
| | `{"single", "prepare"}`, `{"single", "array"}` | `ErrorsAreRecovered` |
| | `{"single", "reconnect"}` | `RollbackIsFinal` |
| | `{"single", "lo_read"}`, `{"single", "lo_inline"}` | `CommitIsDurable` |
| | `{"single", "call", "fetch_error"}` | `ErrorsAreRecovered`, `CommitIsDurable`, `ImplementsUnitOfWork` |
| `KeysetCursor` | `Ops` of `keyset_scroll` = `{"resize"}` | `ActsOnNamedRow` |
| | `RowNumbers` of `keyset_scroll` = `{0, 1, 2}` | `ActsOnNamedRow` |
| | `Ops` of `keyset_edit` = `{"undo_update"}`, `{"rollback"}` | `OverlayShowsTable` |
| `PreparedStatements` | `Careful = FALSE` | `RunsItsOwnText`, `ReportsItsOwnError`, `NamesAreHeld` |
| `Execution` | `Careful = FALSE` | `ResultsInOrder` |
| `Attributes` | `Careful = FALSE` | `ReportedIsInForce`, `AnswerTellsTheValue` |
| `QueryParser` | `Careful = FALSE` | `LexersAgree`, `ArgumentsAreWhole`, `MarkersReachServer`, `FragmentsAreCommands`, `OverridesMatchColumns` |
| `Diagnostics` | `Interleaved = TRUE` | `NoticesAreOwn` |
| | `Resultless = TRUE`, `CursorsOutside = TRUE` | `ErrorIsReported` |
| `Handles` | `AttachAcross = TRUE` | `ActiveDescriptorLives` |

`CarefulCall` of `PreparedStatements` says what care is there: no empty text, no
giving up of a name inside an aborted block, no preparing of several commands over a
deferred error, and after an error reported by `SQLExecute` a new `SQLPrepare`.
`Spelled` of `QueryParser` lists the spellings the readers take differently, one
conjunct each; among them the cap on the arguments of a call, text after a marker in
one, and everything but quotes and parentheses in a select list.  `Attributes` sets
isolation and access mode only while connected and outside a transaction, attributes
that are on or off only to one of the two, and no batch size of 0.  In `Diagnostics`
commands that fail have a result, and a CALL returns cursors inside a transaction only.
In `Transactions` the operations themselves are what is left out: `fetch_error`, for
one, is a FETCH from a cursor that fails by itself; without it a FETCH still fails with
the link.  `Execution` calls no catalog function before the results of
several commands have been walked.

`keyset_edit` and `keyset_scroll` have more such members of `Ops`: `delete_added`,
`add_at_end`, `position`, `reopen`, `shadow`, `empty`, `rollback`, `drift`,
`prior_from_start` and `past_cap`: deleting a row of SQL_ADD; adding at the end
of the result; SQL_POSITION in a block; executing again under a savepoint; a
savepoint name used twice; a savepoint over an empty cursor; a transaction rolled
back over edits; SQLFetch after the end; PRIOR before the start; more names than
slots.

### Bounds

*Transactions.* `Work`: tags for changes.  A tag is used once, so `txn_recovery` has
three of them: two statements in force and a third that fails is what a rewind to the
wrong savepoint needs.  `txn_all` has one, since its properties do not look at work.
`Stmts`: two, enough for a data-at-execution and another statement.  `MaxDepth`
bounds the levels of the block when a statement starts (the application could
otherwise set savepoints forever): two in `txn_all`, where the driver's and the
application's savepoint lie above the block in either order; five in
`txn_recovery`, deeper than it goes.  Texts have two fragments and arrays
two sets: the first succeeds or fails, and so does the second.
Mode NOTHING is in no run: after an error under it the application can only roll
back, and the theorems cover it.

*Keyset cursors.* The first run has savepoints and no offsets, the second offsets and
no savepoints.  `MaxVersions` bounds the rows ever made: in `keyset_edit` one
update or add beyond the two rows at first, which under two savepoints is enough
for every order of an edit, a nested snapshot and the two rollbacks; in
`keyset_scroll` one beyond three rows, so that a rowset of two can start at, cross
and end at the last row, with hidden rows before, in and behind it.
`MCOffsets` reaches before the first row, to a neighbour, and past the end.
`MAX_KEYSET_SAVEPOINTS` is 8 in the code and here the number of names.

*Prepared statements.* Two statements: one prepares while the other holds, loses or
overwrites.  `MaxNames` is the number of names handed out, five: both statements
prepare twice and one of them once more, after a reconnect or a failure.

*Execution.* Three sets or fragments: with batches of one, two and three an error falls
in the first, a middle or the last set of a batch, with a batch before and after it.
Two parameters, one piece each: a parameter is skipped, asked for, given nothing or given
something.  Four results: three in a chain and the one being made.

*Handles.* Both caps are two, with one address more of each statement than a
connection can hold; one environment, and one descriptor shared by two statements.
The theorems have no caps.

*Descriptors.* Two columns, two statements, one explicit descriptor: enough to attach it
to one, the other or in turn to both.  `OnePlace`, a state constraint, keeps the
descriptor attached in one place at a time: bindings depend on the statement it serves,
the last it was attached to, and not on the other places, and `handles` has those.  The
theorems have no bound and no constraint.

*Diagnostics.* Caps of two instead of sixteen, and at most two notices for a command, so that
both caps are met and passed; lengths one and three against buffers of two and three,
which hold one character and two, make a message that fits, one that fills its last
chunk and one that does not.  A buffer of one has no room for text: it agrees on the
default chunk, as the theorem has it.

*Parser.* Two of everything that can nest or be counted, three parentheses, so that
each limit is met and one level lies inside another; two arguments of a call, where the
code keeps 32 (`MaxCallArguments`): the cap is met, and with `Careful = FALSE` passed.  The texts have any length.
The theorems have no bound on any of them.

### Fairness

The driver has no thread, timer or retry of its own, and every call ends by itself;
what follows is the application's choice.  Two liveness properties say what the
application's persistence leads to.  `ShutdownCompletes`: once it closes, it frees
every handle that can be freed (weak fairness of freeing environments, connections
and statements, and of disconnecting); nothing is then stranded behind a
count that does not come down.  It says nothing of explicit descriptors, which the
connection does not know.  `NeedDataEnds`: a call under way proceeds (the C loops
terminate), and an application told SQL_NEED_DATA goes on calling SQLParamData; the
driver offers it no SQLCancel.  `SQLPutData` is not fair, and can be called any number
of times in between, up to `MaxPieces`.

## Proofs

Everything below is checked for all values of the constants that satisfy the
assumptions named in the modules.  Where a theorem assumes more, it is that the
application stays clear of what the table above lists: the property is false without.

* **Transactions** (`TransactionProofs`; its first part has the lemmas about the session).
  `TypeCorrect`, `NoOrphan` and `SavepointInside` follow from one inductive invariant,
  `Inv == TypeOK /\ Good(conn)`.  `Good` is needed because none of the three is inductive
  alone: that an idle driver has no block behind it holds of `BeginTransaction` only
  because a session outside a block answers `BEGIN` with `ok` or opens nothing, and of a
  disconnected driver only because the session of a closed link has lost its block
  (`~Connected(c) => ~c.pg.up`).  Each operator of `Connection` and `Statement` keeps
  `Good` (one lemma each); each action is a composition of them.
  `LoneSavepoint` strengthens it to `Lone`: there is at most one level of the driver, and
  its flag tells whether it stands (`Tracked`); and between two calls no statement-level
  transaction is failed with its block open (`Unfailed`), where the driver would set no
  savepoint and release none.  It assumes
  `"savepoint" \notin Ops`: an application with savepoints of its own that reads a large
  object makes the driver lose sight of one.
* **Recovery** (`TransactionProofs`, its third part).  The four properties of `txn_recovery` about the
  application's work, for any set of work and statements and every mode, from `Settled`:
  a block is the transaction alone, or under statement-level rollback the transaction with
  the driver's one savepoint (`Regular`); what was acknowledged is in the block, what was
  confirmed in the database, what was rolled back in neither (`Counted`); and one
  statement at most waits for data, the work of its sets already run being durable or, under
  the savepoint, exactly what a rewind would take away (`Supplying`).  With the shape known,
  each command is a small change of the two levels.
  `Implementation` is the refinement of `UnitOfWork`: the store is `durable`, the unit is
  what is pending less the sets of executions not yet answered (`UnitPending`), and every
  step is a step of the abstract specification or a stutter.  All assume `Plainly`, that is
  `Ops` of executions, calls, fragments, data at execution and a breaking link, as the run
  does.  A call changes the session twice, by itself and by its FETCHes; that these fail
  no otherwise than with the link is what `fetch_error` being left out means, and is
  needed, since their failure alone is not recovered from.
  The refinement assumes `"nothing" \notin Modes` too: under mode NOTHING a
  statement of several fragments keeps the work of those before the one that failed
  until the application rolls back, which is not all or none.
* **Execution** (`ExecutionProofs`), for arrays, chains and parameters of any number.
  `ExecutionSound` establishes `Sound`: types; what the call under way and the state of
  data at execution exclude (`Control`); every live result in one place (`Owning`); chains
  in the order the application is to see (`Ordered`).  `OwnedOnce` and `OfferedInOrder`
  (which assumes `Careful`) follow.  `StatusesTrusted` adds what is known of the sets
  before, in and behind the batch (`Batching`) and of those supplied one by one
  (`Serving`), since a status is set only when its whole batch has come back.
  `ValuesBelong` adds `Filling`: each buffer holds the pieces put for its parameter and
  for the current set, and none of an earlier one.
* **Keyset cursor** (`KeysetProofs`), for tables, rowsets, savepoints and offsets of any number.
  `CursorTypes` holds with every liberty of the application.  Its invariant `TypeGood` says
  more than the types: no two rows show one version, and the rows of the base result come
  before those added, so that `Tuples` bounds them.  `OverlayInStep` needs `Overlay`, because
  `OverlayShowsTable` says nothing of what a rollback will do: of every savepoint that
  stands, one snapshot has its name, and its flags over the present rows show the table of
  that level.  It assumes that the application does nothing in `Mistaken`, the seven members
  of `Ops` after which the code's snapshot is not enough.  `SetPosOnRow` and `RowsetDelivered`
  need `Placed`: that the position and the first row of the rowset are those of the rows
  delivered last, or of the end that was met.  They assume that the application does
  nothing in `Misplacing` and names row 1 (or 0, taken for 1) in SQLSetPos; savepoints,
  edits and rollbacks are all allowed.  What `FirstOf` and `LastOf` give of an interval is
  proved from cardinalities (`FirstFrom`, `LastUpTo`).
* **Attributes** (`AttributesProofs`).  `AnswersTold` is an action property of every set and
  get, the batch size too; it assumes `Careful`, without which it is false of four
  attributes (the findings name them).  `InForce` follows from `Inv`: the session has the characteristics the connection
  stores, now and after a rollback; it assumes `Careful`.
* **Prepared statements** (`PreparedProofs`), under `Careful`.  `OwnText`, `OwnError` and
  `NamesHeld` follow from `Inv`: names held are distinct and below `next_statement_id`
  (`NamesAreGiven`, without which a new name could be one that is held); while the link
  stands the server has under each held name the text last prepared and nothing else
  (`ServerAgrees`); a deferred error is that of the text prepared last (`ErrorsAgree`);
  and no statement is prepared while disconnected.  The action properties of the ghosts
  are steps of that invariant.
* **Handles** (in `DescriptorProofs`, with the proofs about descriptors).  `TablesExact` and `ParentsOutlive` follow from `Inv`: types,
  live parents, each table holding every live child once, the environment's packed up
  to its count, and the connection's count the number of its taken slots.  Packing
  and counting need each other: removing a connection moves the last entry into the
  gap, which is right only if the last entry is where the count says.  `ActiveLives` adds
  that the descriptor a statement uses is of the statement's own connection; it
  assumes `~AttachAcross`.
* **Descriptors** (`DescriptorProofs`).  `BoundCounts` is inductive by itself once stated of
  every statement (`AllCounted`); its content is `SplicedCount`, that the counting of
  `SQLCopyDesc`, one binding at a time, gives the size of the set that results.
  `CopyReproduces` uses it and the types of `Handles`, by which no indicator outlives the
  columns that a copy writes.  `DescriptorTypes` needs it too: that
  the stored number of bound columns stays within the limit follows only from its being
  the size of a set of columns (`CountedWithinLimit`).
* **Diagnostics** (`DiagnosticsProofs`), for any caps and messages, chunks and buffers of any
  size.  `ErrorFirst` holds as each call replaces what a handle has, and assumes
  `~Resultless` and `~CursorsOutside`.  `NoticesOwn` assumes
  `~Interleaved`, and needs that what is captured while a statement waits for data is that
  statement's (`Waits`): the notices of its earlier sets become records only when the last
  one ends.  `MessagesWhole` needs to know where a reader stands (`Position`): between two
  messages, or before a piece of one, at a distance that is a multiple of the chunk agreed
  on.  It rests on `ChunksCover` (the pieces of a message cover it and none is empty) and
  `NumberNamesPiece` (a record number stands for one piece at most), the latter from
  counting the pieces that come before (`NumbersGrow`).

* **Query parser** (`QueryParserProofs`), for texts of any length and any bounds.  The
  invariant of `ParserInvariance` ties each reader to the server's lexer.  `ReadersAgree`
  is that part of it which says that splitter and scanner are in the server's context, at
  its depth (`SplitInv`, `ScanInv`); where the scanner copies raw, in a date, a call or up
  to a closing brace, it need not be, and the invariant says what it knows there instead.
  `ArgumentsWhole` needs the depths in the nested functions to add up (`ParensInv`), which
  is counted over a set with one element per open parenthesis, since a sum over the stack
  would need induction.  `MarkersArrive` needs where the numbered markers are while a
  function is open: in its arguments so far, in the text around it or in the text after
  (`MarkersInv`), so that no template drops one; SPACE, whose template mentions one argument
  only, must have no second (`FramesInv`).  Both need that a call has no more arguments
  than are kept, and `ArgumentsWhole` that a marker is an argument by itself.  These and
  `FragmentsSound` assume `Careful`; types are
  claimed of what the scanner holds only then, since a text it misreads takes it anywhere.
  `ColumnsMatch` assumes it too: the select-list reader and the server are in the same
  literal at the same depth up to the FROM that ends the list (`ListInv`), as long as
  the list has nothing that reader does not know.

Only model-checked: the two liveness properties, `ShutdownCompletes` and
`NeedDataEnds`, which are out of the prover's reach.  `UserSavepointStands` is violated.

## Abstractions, and what is not modelled

* `BEGIN` as statement text is left out (the driver treats it as any statement).
* In `Transactions` the work of a parameter set or a fragment is a tag; result rows are
  not kept.
* Several `lo_*` commands in a row are one command, and so are the FETCHes from the
  cursors of one call.
* COPY FROM STDIN as one of several commands is left out: that call does not end (a
  finding).
* A large-object descriptor opened under a savepoint that is rewound counts as
  valid until the block ends; a descriptor number that comes to mean another object is
  not modelled.
* Large objects inside a parameter array are not modelled.
* A link lost during `BEGIN`, `ROLLBACK` or `SAVEPOINT` is one lost just before
  (`BreakLink`): none of them makes anything durable.
* A positioned update or add with no bound column does nothing; for the update this
  is left to `refresh`, which does nothing either.
* No other session edits the table of a cursor, and no allocation fails, in any module.
* A keyset cursor is one whose SELECT could be rewritten; one whose SELECT could
  not is a static cursor.
* In `Execution` one piece stands for the bytes it has; the count of affected rows is
  left out.
* In `Descriptors` a buffer or an indicator is there or not; where they point, types and
  lengths are left out, and so are the records of a detached descriptor, of which nobody
  reads back a pointer (a finding).  What a fetch finds behind an IRD or APD is an input.
* In `Diagnostics` a message is its length and where it came from; SQLSTATEs are data.
* In `QueryParser` keywords, the rewriting of MS Access outer joins, the list of exempt
  commands and the casts of markers are left out; templates of scalar functions are the
  two kinds that matter, one that names its arguments and one that ignores them.

Not modelled, because it moves or formats data and keeps no state that a later call
depends on: type mapping and conversion (`type_mapping.c`, the value paths of
`results.c` and `parameter.c`), `SQLGetData`, row status arrays, bulk fetches by
bookmark, `SQLGetInfo` and `SQLGetFunctions`, wide-character conversion, the texts of
the catalog queries, connection strings, DSN profiles and the setup dialog.
