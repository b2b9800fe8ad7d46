------------------------------ MODULE Attributes ------------------------------
(***************************************************************************)
(* The attributes of connections and statements (odbc_api.c, SQLSet... and *)
(* SQLGet...Attr), and the session characteristics that two of them set on *)
(* the server.  A characteristic is a setting of the session, and settings *)
(* made inside a transaction are undone with it.                           *)
(***************************************************************************)
EXTENDS Naturals

CONSTANTS
  Stored,    \* attributes of a statement stored as they are given: the pointers,
             \* query_timeout, max_rows, noscan, param_bind_type
  Reported,  \* attributes of a connection stored as they are given: login_timeout,
             \* connection_timeout
  DEFAULT_BATCH_SIZE,
  Careful    \* whether the application sets characteristics only while connected
             \* and outside transactions, and sets them back before it disconnects,
             \* and sets an attribute that is on or off, and the batch size, only to
             \* values that there are

\* The attributes that have a place, or a rule, of their own.
StatementAttributes == {"cursor_type", "cursor_scrollable", "cursor_sensitivity",
  "concurrency", "row_array_size", "rowset_size", "paramset_size", "use_bookmarks",
  "metadata_id", "async_enable"}
ConnectionAttributes == {"txn_isolation", "access_mode", "autocommit", "batch_size"}

ASSUME AttributesAssumption ==
  /\ DEFAULT_BATCH_SIZE \in Nat \ {0} /\ Careful \in BOOLEAN
  /\ Stored \intersect (StatementAttributes \union ConnectionAttributes \union Reported) = {}
  /\ Reported \intersect (StatementAttributes \union ConnectionAttributes) = {}

VARIABLES connection,  \* the attributes the driver holds for the connection
          link,        \* "none", "up", or "lost" without the driver knowing
          txn,         \* the transaction as the driver holds it
          session,     \* the characteristics in force on the server, those a
                       \* rollback goes back to, and whether a block is open
          statement,   \* the attributes of a statement
          last         \* the last SQLSet...Attr: what was set, and the answer

vars == <<connection, link, txn, session, statement, last>>

Sizes == {0, 1, 2}  \* of rowsets, of parameter arrays, of batches (0: or less)
Switch == {"off", "on"}
Asked == IF Careful THEN Switch ELSE Switch \union {"unknown"}
Value == {0, 1}
Isolation == {"read_committed", "repeatable_read", "serializable"}
Modes == {"read_write", "read_only"}

Characteristics == [txn_isolation: Isolation, access_mode: Modes]
Defaults == [txn_isolation |-> "read_committed", access_mode |-> "read_write"]
FreshSession == [in_force |-> Defaults, before |-> Defaults, block |-> "idle"]

\* What connection and driver hold of the characteristics.
Held == [txn_isolation |-> connection.txn_isolation, access_mode |-> connection.access_mode]

NotSet == [attribute |-> "none", value |-> 0, answer |-> "none"]

Init ==
  /\ connection = [autocommit |-> TRUE, txn_isolation |-> "read_committed",
                   access_mode |-> "read_write", batch_size |-> DEFAULT_BATCH_SIZE,
                   reported |-> [a \in Reported |-> 0]]
  /\ link = "none"
  /\ txn = "idle"
  /\ session = FreshSession
  /\ statement = [cursor_type |-> "forward_only", is_updatable_cursor |-> FALSE,
                  concurrency |-> "read_only", row_array_size |-> 1, paramset_size |-> 1,
                  use_bookmarks |-> "off", metadata_id |-> FALSE, stored |-> [a \in Stored |-> 0]]
  /\ last = NotSet

Answered(attribute, value, answer) ==
  last' = [attribute |-> attribute, value |-> value, answer |-> answer]

----------------------------------------------------------------------------
\* Attributes of a statement.

\* Mutant: only an updatable cursor is said to scroll.
ScrollableIfUpdatable(s) ==
  IF s.is_updatable_cursor THEN "scrollable" ELSE "nonscrollable"

\* SQL_ATTR_CURSOR_SCROLLABLE has no place of its own.
Scrollable(s) ==
  IF s.cursor_type = "forward_only" THEN "nonscrollable" ELSE "scrollable"

GetStmtAttr(s, attribute) ==
  CASE attribute = "cursor_type"        -> s.cursor_type
    [] attribute = "cursor_scrollable"  -> Scrollable(s)
    [] attribute = "cursor_sensitivity" -> "unspecified"
    [] attribute = "concurrency"        -> s.concurrency
    [] attribute \in {"row_array_size", "rowset_size"} -> s.row_array_size
    [] attribute = "paramset_size"      -> s.paramset_size
    [] attribute = "use_bookmarks"      -> s.use_bookmarks
    [] attribute = "metadata_id"        -> IF s.metadata_id THEN "on" ELSE "off"
    [] attribute = "async_enable"       -> "off"
    [] OTHER                            -> s.stored[attribute]

SetStmt(attribute, value, answer, s) ==
  /\ statement' = s
  /\ Answered(attribute, value, answer)
  /\ UNCHANGED <<connection, link, txn, session>>

\* Keyset-driven and dynamic cursors are served as static ones, and a keyset-driven
\* one can be updated through; asking for another type does not take that back.
SetCursorType(value) ==
  IF value \in {"forward_only", "static"}
  THEN SetStmt("cursor_type", value, "success", [statement EXCEPT !.cursor_type = value])
  ELSE SetStmt("cursor_type", value, "success_with_info",
               [statement EXCEPT !.cursor_type = "static",
                                 !.is_updatable_cursor = @ \/ value = "keyset_driven"])

SetCursorScrollable(value) ==
  IF value \in {"scrollable", "nonscrollable"}
  THEN SetStmt("cursor_scrollable", value, "success",
               [statement EXCEPT !.cursor_type =
                  IF value = "scrollable" THEN "static" ELSE "forward_only"])
  ELSE SetStmt("cursor_scrollable", value, "error", statement)

\* What is not supported is changed, with a warning.
SetConcurrency(value) ==
  SetStmt("concurrency", value,
          IF value = "read_only" THEN "success" ELSE "success_with_info",
          [statement EXCEPT !.concurrency = "read_only"])
SetCursorSensitivity(value) ==
  SetStmt("cursor_sensitivity", value,
          IF value = "unspecified" THEN "success" ELSE "success_with_info", statement)

\* SQL_ROWSET_SIZE, of ODBC 2, is the same as SQL_ATTR_ROW_ARRAY_SIZE.
SetRowArraySize(attribute, value) ==
  IF value = 0 THEN SetStmt(attribute, value, "error", statement)
  ELSE SetStmt(attribute, value, "success", [statement EXCEPT !.row_array_size = value])

SetParamsetSize(value) ==
  IF value = 0 THEN SetStmt("paramset_size", value, "error", statement)
  ELSE SetStmt("paramset_size", value, "success", [statement EXCEPT !.paramset_size = value])

\* SQL_UB_ON is treated as SQL_UB_VARIABLE is.
SetUseBookmarks(value) ==
  IF value \in {"off", "variable"}
  THEN SetStmt("use_bookmarks", value, "success", [statement EXCEPT !.use_bookmarks = value])
  ELSE SetStmt("use_bookmarks", value, "error", statement)

\* Whatever is not off is on, and is said to be taken.
SetMetadataId(value) ==
  SetStmt("metadata_id", value, "success", [statement EXCEPT !.metadata_id = value # "off"])

\* Whatever is not on is said to be taken, and is off.
SetAsyncEnable(value) ==
  SetStmt("async_enable", value, IF value = "on" THEN "error" ELSE "success", statement)

SetStored(attribute, value) ==
  SetStmt(attribute, value, "success", [statement EXCEPT !.stored[attribute] = value])

SetStmtAttr ==
  \/ \E v \in {"forward_only", "static", "keyset_driven", "dynamic"} : SetCursorType(v)
  \/ \E v \in {"scrollable", "nonscrollable", "unknown"} : SetCursorScrollable(v)
  \/ \E v \in {"read_only", "lock"} : SetConcurrency(v)
  \/ \E v \in {"unspecified", "sensitive"} : SetCursorSensitivity(v)
  \/ \E a \in {"row_array_size", "rowset_size"}, v \in Sizes : SetRowArraySize(a, v)
  \/ \E v \in Sizes : SetParamsetSize(v)
  \/ \E v \in {"off", "variable", "unknown"} : SetUseBookmarks(v)
  \/ \E v \in Asked : SetMetadataId(v) \/ SetAsyncEnable(v)
  \/ \E a \in Stored, v \in Value : SetStored(a, v)

----------------------------------------------------------------------------
\* The server's side of a transaction: what a rollback undoes.

BlockOpened == [session EXCEPT !.block = "open"]
Undone == [session EXCEPT !.block = "idle", !.in_force = session.before]
Kept   == [session EXCEPT !.block = "idle", !.before = session.in_force]

\* A COMMIT keeps what was set in an open block, unless the server refuses it (a
\* deferred constraint); a block ends either way.
Ended(completion, refused) ==
  IF session.block = "idle" THEN session
  ELSE IF completion = "commit" /\ session.block = "open" /\ ~refused THEN Kept ELSE Undone

----------------------------------------------------------------------------
\* Attributes of a connection.

GetConnectAttr(c, attribute) ==
  CASE attribute = "txn_isolation" -> c.txn_isolation
    [] attribute = "access_mode"   -> c.access_mode
    [] attribute = "autocommit"    -> IF c.autocommit THEN "on" ELSE "off"
    [] attribute = "batch_size"    -> c.batch_size
    [] OTHER                       -> c.reported[attribute]

SetConnect(attribute, value, answer, c) ==
  /\ connection' = c
  /\ Answered(attribute, value, answer)
  /\ UNCHANGED <<link, statement>>

\* The driver keeps the value before it asks the server, and whatever the server says.
SetCharacteristic(attribute, value, held, sent, answer) ==
  LET c == [connection EXCEPT ![attribute] = held]
  IN  /\ Careful => link = "up" /\ txn = "idle"
      /\ \/ /\ link = "none"
            /\ SetConnect(attribute, value, answer, c)
            /\ UNCHANGED session
         \/ /\ link = "up" /\ session.block # "aborted"
            /\ SetConnect(attribute, value, answer, c)
            /\ session' = [session EXCEPT !.in_force[attribute] = sent,
                 !.before[attribute] = IF session.block = "idle" THEN sent ELSE @]
         \/ /\ link = "lost" \/ (link = "up" /\ session.block = "aborted")
            /\ SetConnect(attribute, value, "error", c)
            /\ UNCHANGED session
      /\ UNCHANGED txn

\* READ UNCOMMITTED is READ COMMITTED, in what is sent and in what is kept.
IsolationSent(value) == IF value = "read_uncommitted" THEN "read_committed" ELSE value

\* Mutant: the level that was asked for is kept.
IsolationAsked(value) == value

IsolationHeld(value) == IF value = "read_uncommitted" THEN "read_committed" ELSE value

SetTxnIsolation(value) ==
  IF value \in Isolation \union {"read_uncommitted"}
  THEN SetCharacteristic("txn_isolation", value, IsolationHeld(value), IsolationSent(value),
         IF value = "read_uncommitted" THEN "success_with_info" ELSE "success")
  ELSE /\ SetConnect("txn_isolation", value, "error", connection)
       /\ UNCHANGED <<txn, session>>

SetAccessMode(value) ==
  IF value \in Modes THEN SetCharacteristic("access_mode", value, value, value, "success")
  ELSE /\ SetConnect("access_mode", value, "error", connection)
       /\ UNCHANGED <<txn, session>>

\* Whatever is not on is said to be taken, and is off.  Turning autocommit on ends the
\* transaction; a COMMIT that fails leaves it off.
SetAutocommit(value, refused) ==
  LET on   == value = "on"
      ends == on /\ ~connection.autocommit /\ txn # "idle" /\ link # "none"
      completion == IF txn = "failed" THEN "rollback" ELSE "commit"
  IN  /\ txn' = IF ends THEN "idle" ELSE txn
      /\ session' = IF ends THEN Ended(completion, refused) ELSE session
      /\ IF ends /\ completion = "commit"
            /\ (link = "lost" \/ (refused /\ session.block = "open"))
         THEN SetConnect("autocommit", value, "error", connection)
         ELSE SetConnect("autocommit", value, "success", [connection EXCEPT !.autocommit = on])

\* No size is said to be taken, and is the default one.
SetBatchSize(value) ==
  /\ Careful => value # 0
  /\ SetConnect("batch_size", value, "success",
       [connection EXCEPT !.batch_size = IF value = 0 THEN DEFAULT_BATCH_SIZE ELSE value])
  /\ UNCHANGED <<txn, session>>

SetReported(attribute, value) ==
  /\ SetConnect(attribute, value, "success", [connection EXCEPT !.reported[attribute] = value])
  /\ UNCHANGED <<txn, session>>

SetConnectAttr ==
  \/ \E v \in Isolation \union {"read_uncommitted", "unknown"} : SetTxnIsolation(v)
  \/ \E v \in Modes \union {"unknown"} : SetAccessMode(v)
  \/ \E v \in Asked, refused \in BOOLEAN : SetAutocommit(v, refused)
  \/ \E v \in Sizes : SetBatchSize(v)
  \/ \E a \in Reported, v \in Value : SetReported(a, v)

----------------------------------------------------------------------------
\* Connecting, working, ending transactions.

\* Nothing the driver holds is sent to the new session.
Connect ==
  /\ link = "none"
  /\ link' = "up" /\ session' = FreshSession
  /\ last' = NotSet /\ UNCHANGED <<connection, txn, statement>>

\* The driver keeps its record of the transaction, as Connection.Disconnect does.
Disconnect ==
  /\ link # "none"
  /\ Careful => Held = Defaults /\ txn = "idle"
  /\ link' = "none" /\ session' = FreshSession
  /\ last' = NotSet /\ UNCHANGED <<connection, txn, statement>>

Lose ==
  /\ link = "up"
  /\ link' = "lost" /\ session' = FreshSession
  /\ last' = NotSet /\ UNCHANGED <<connection, txn, statement>>

\* A statement, which may fail; errors are left to the application.
Work ==
  /\ link = "up"
  /\ LET opens == ~connection.autocommit /\ txn = "idle"
         now   == IF opens THEN BlockOpened ELSE session
     IN  \/ /\ now.block # "aborted"
            /\ session' = now
            /\ txn' = IF opens THEN "active" ELSE txn
         \/ /\ session' = IF now.block = "idle" THEN now ELSE [now EXCEPT !.block = "aborted"]
            /\ txn' = IF opens \/ txn = "active" THEN "failed" ELSE txn
  /\ last' = NotSet /\ UNCHANGED <<connection, link, statement>>

EndTran(completion, refused) ==
  /\ link # "none" /\ txn # "idle"
  /\ session' = Ended(completion, refused)
  /\ txn' = "idle"
  /\ last' = NotSet /\ UNCHANGED <<connection, link, statement>>

Next ==
  \/ SetStmtAttr
  \/ SetConnectAttr
  \/ Connect \/ Disconnect \/ Lose \/ Work
  \/ \E completion \in {"commit", "rollback"}, refused \in BOOLEAN : EndTran(completion, refused)

Spec == Init /\ [][Next]_vars

----------------------------------------------------------------------------
\* Properties.

\* What SQLGetConnectAttr reports of isolation level and access mode is in force
\* in the session.  It is about careful applications: otherwise a value set before
\* the connection, or undone with a transaction, is reported and not in force
\* (odbc_api.c:2351-2409, 2426-2468).
ReportedIsInForce == link = "up" => Held = session.in_force

\* Of every modelled attribute, SQL_SUCCESS says that the value set is read back, and
\* SQL_SUCCESS_WITH_INFO that another one is; SQL_ERROR leaves a statement as it was.
\* Setting and reading are switches of their own, some attributes share a place, and one
\* is worked out from another.  It is about careful applications: of another one,
\* autocommit, metadata_id, async_enable and the batch size take any value with
\* SQL_SUCCESS and put one of their own in its place (odbc_api.c:2326, 2478-2486, 2861,
\* 2970-2984; the rest 2751-2987, 3034-3280).
AnswerTellsTheValue ==
  [][/\ last'.answer \in {"success", "success_with_info"} =>
          LET now == IF last'.attribute \in ConnectionAttributes \union Reported
                     THEN GetConnectAttr(connection', last'.attribute)
                     ELSE GetStmtAttr(statement', last'.attribute)
          IN  last'.answer = "success" <=> now = last'.value
     /\ last'.answer = "error" => UNCHANGED statement]_vars
=============================================================================
