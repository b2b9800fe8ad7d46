--------------------------- MODULE AttributesProofs ---------------------------
(***************************************************************************)
(* What the attributes of connections and statements are read back as, for *)
(* any set of attributes that are stored as they are given.                *)
(***************************************************************************)
EXTENDS Attributes, TLAPS

Links == {"none", "up", "lost"}
Transactions == {"idle", "active", "failed"}

ConnectionType ==
  [autocommit: BOOLEAN, txn_isolation: Isolation, access_mode: Modes, batch_size: Nat,
   reported: [Reported -> Value]]

SessionType ==
  [in_force: Characteristics, before: Characteristics, block: {"idle", "open", "aborted"}]

StatementType ==
  [cursor_type: {"forward_only", "static"}, is_updatable_cursor: BOOLEAN,
   concurrency: {"read_only"}, row_array_size: Sizes, paramset_size: Sizes,
   use_bookmarks: {"off", "variable"}, metadata_id: BOOLEAN, stored: [Stored -> Value]]

TypeOK ==
  /\ connection \in ConnectionType
  /\ link \in Links
  /\ txn \in Transactions
  /\ session \in SessionType
  /\ statement \in StatementType

\* The driver knows of every block; with a careful application no characteristic is set
\* inside one, so that a rollback brings back what is in force, and a session that is
\* opened has the characteristics the driver holds.
Inv ==
  /\ TypeOK
  /\ session.block # "idle" => txn # "idle"
  /\ Careful => session.before = session.in_force
  /\ Careful /\ link = "up" => Held = session.in_force
  /\ Careful /\ link = "none" => Held = Defaults /\ txn = "idle"

\* What AnswerTellsTheValue says of one step, of a careful application.
Read(attribute) ==
  IF attribute \in ConnectionAttributes \union Reported
  THEN GetConnectAttr(connection, attribute)
  ELSE GetStmtAttr(statement, attribute)

Told ==
  /\ Careful /\ last'.answer \in {"success", "success_with_info"} =>
       (last'.answer = "success" <=> Read(last.attribute)' = last'.value)
  /\ last'.answer = "error" => UNCHANGED statement

----------------------------------------------------------------------------
(* Attributes of a statement.                                              *)

\* What setting an attribute of a statement has to see to.
LEMMA StatementSet ==
  ASSUME Inv, NEW attribute, attribute \in StatementAttributes \union Stored, NEW value,
         NEW answer, NEW s \in StatementType, SetStmt(attribute, value, answer, s),
         Careful /\ answer \in {"success", "success_with_info"} =>
           (answer = "success" <=> GetStmtAttr(s, attribute) = value),
         answer = "error" => s = statement
  PROVE  Inv' /\ Told
<1>1. attribute \notin ConnectionAttributes \union Reported
  BY AttributesAssumption DEF StatementAttributes, ConnectionAttributes
<1>2. Inv'
  BY DEF Inv, TypeOK, SetStmt, Held
<1> QED
  BY <1>1, <1>2 DEF SetStmt, Answered, Told, Read

\* Every attribute of a statement.
LEMMA SetStmtAttrTold ==
  ASSUME Inv, SetStmtAttr
  PROVE  Inv' /\ Told
<1>0. statement \in StatementType
  BY DEF Inv, TypeOK
<1>1. CASE \E v \in {"forward_only", "static", "keyset_driven", "dynamic"} : SetCursorType(v)
  <2>1. PICK v \in {"forward_only", "static", "keyset_driven", "dynamic"} : SetCursorType(v)
    BY <1>1
  <2>2. CASE v \in {"forward_only", "static"}
    <3> DEFINE s == [statement EXCEPT !.cursor_type = v]
    <3>1. s \in StatementType /\ GetStmtAttr(s, "cursor_type") = v
      BY <1>0, <2>2 DEF StatementType, GetStmtAttr
    <3>2. SetStmt("cursor_type", v, "success", s)
      BY <2>1, <2>2 DEF SetCursorType
    <3> QED
      BY <3>1, <3>2, StatementSet DEF StatementAttributes
  <2>3. CASE v \in {"keyset_driven", "dynamic"}
    <3> DEFINE s == [statement EXCEPT !.cursor_type = "static",
                                      !.is_updatable_cursor = @ \/ v = "keyset_driven"]
    <3>1. s \in StatementType /\ GetStmtAttr(s, "cursor_type") = "static"
      BY <1>0 DEF StatementType, GetStmtAttr
    <3>2. SetStmt("cursor_type", v, "success_with_info", s)
      BY <2>1, <2>3 DEF SetCursorType
    <3> QED
      BY <3>1, <3>2, <2>3, StatementSet DEF StatementAttributes
  <2> QED
    BY <2>2, <2>3
<1>2. CASE \E v \in {"scrollable", "nonscrollable", "unknown"} : SetCursorScrollable(v)
  <2>1. PICK v \in {"scrollable", "nonscrollable", "unknown"} : SetCursorScrollable(v)
    BY <1>2
  <2> DEFINE s == [statement EXCEPT !.cursor_type =
                     IF v = "scrollable" THEN "static" ELSE "forward_only"]
  <2>2. s \in StatementType
    BY <1>0 DEF StatementType
  <2>3. CASE v \in {"scrollable", "nonscrollable"}
    <3>1. GetStmtAttr(s, "cursor_scrollable") = v
      BY <1>0, <2>3 DEF StatementType, GetStmtAttr, Scrollable
    <3>2. SetStmt("cursor_scrollable", v, "success", s)
      BY <2>1, <2>3 DEF SetCursorScrollable
    <3> QED
      BY <2>2, <3>1, <3>2, StatementSet DEF StatementAttributes
  <2>4. CASE v = "unknown"
    BY <1>0, <2>1, <2>4, StatementSet DEF SetCursorScrollable, StatementAttributes
  <2> QED
    BY <2>3, <2>4
<1>3. CASE \E v \in {"read_only", "lock"} : SetConcurrency(v)
  <2>1. PICK v \in {"read_only", "lock"} : SetConcurrency(v)
    BY <1>3
  <2> DEFINE s == [statement EXCEPT !.concurrency = "read_only"]
             answer == IF v = "read_only" THEN "success" ELSE "success_with_info"
  <2>2. s \in StatementType /\ GetStmtAttr(s, "concurrency") = "read_only"
    BY <1>0 DEF StatementType, GetStmtAttr
  <2>3. SetStmt("concurrency", v, answer, s)
    BY <2>1 DEF SetConcurrency
  <2> QED
    BY <2>2, <2>3, StatementSet DEF StatementAttributes
<1>4. CASE \E v \in {"unspecified", "sensitive"} : SetCursorSensitivity(v)
  <2>1. PICK v \in {"unspecified", "sensitive"} : SetCursorSensitivity(v)
    BY <1>4
  <2>2. GetStmtAttr(statement, "cursor_sensitivity") = "unspecified"
    BY DEF GetStmtAttr
  <2> QED
    BY <1>0, <2>1, <2>2, StatementSet DEF StatementAttributes, SetCursorSensitivity
<1>5. CASE \E a \in {"row_array_size", "rowset_size"}, v \in Sizes : SetRowArraySize(a, v)
  <2>1. PICK a \in {"row_array_size", "rowset_size"}, v \in Sizes : SetRowArraySize(a, v)
    BY <1>5
  <2> DEFINE s == [statement EXCEPT !.row_array_size = v]
  <2>2. s \in StatementType /\ GetStmtAttr(s, a) = v
    BY <1>0 DEF StatementType, GetStmtAttr
  <2>3. a \in StatementAttributes
    BY DEF StatementAttributes
  <2>4. CASE v = 0
    BY <1>0, <2>1, <2>3, <2>4, StatementSet DEF SetRowArraySize
  <2>5. CASE v # 0
    <3>1. SetStmt(a, v, "success", s)
      BY <2>1, <2>5 DEF SetRowArraySize
    <3> QED
      BY <3>1, <2>2, <2>3, StatementSet
  <2> QED
    BY <2>4, <2>5
<1>6. CASE \E v \in Sizes : SetParamsetSize(v)
  <2>1. PICK v \in Sizes : SetParamsetSize(v)
    BY <1>6
  <2> DEFINE s == [statement EXCEPT !.paramset_size = v]
  <2>2. s \in StatementType /\ GetStmtAttr(s, "paramset_size") = v
    BY <1>0 DEF StatementType, GetStmtAttr
  <2>3. CASE v = 0
    BY <1>0, <2>1, <2>3, StatementSet DEF SetParamsetSize, StatementAttributes
  <2>4. CASE v # 0
    <3>1. SetStmt("paramset_size", v, "success", s)
      BY <2>1, <2>4 DEF SetParamsetSize
    <3> QED
      BY <3>1, <2>2, StatementSet DEF StatementAttributes
  <2> QED
    BY <2>3, <2>4
<1>7. CASE \E v \in {"off", "variable", "unknown"} : SetUseBookmarks(v)
  <2>1. PICK v \in {"off", "variable", "unknown"} : SetUseBookmarks(v)
    BY <1>7
  <2> DEFINE s == [statement EXCEPT !.use_bookmarks = v]
  <2>2. CASE v = "unknown"
    BY <1>0, <2>1, <2>2, StatementSet DEF SetUseBookmarks, StatementAttributes
  <2>3. CASE v \in {"off", "variable"}
    <3>1. s \in StatementType /\ GetStmtAttr(s, "use_bookmarks") = v
      BY <1>0, <2>3 DEF StatementType, GetStmtAttr
    <3>2. SetStmt("use_bookmarks", v, "success", s)
      BY <2>1, <2>3 DEF SetUseBookmarks
    <3> QED
      BY <3>1, <3>2, StatementSet DEF StatementAttributes
  <2> QED
    BY <2>2, <2>3
<1>8. CASE \E v \in Asked : SetMetadataId(v) \/ SetAsyncEnable(v)
  <2>1. PICK v \in Asked : SetMetadataId(v) \/ SetAsyncEnable(v)
    BY <1>8
  <2>2. Careful => v \in {"off", "on"}
    BY DEF Asked, Switch
  <2>3. CASE SetAsyncEnable(v)
    <3>1. GetStmtAttr(statement, "async_enable") = "off"
      BY DEF GetStmtAttr
    <3> QED
      BY <1>0, <2>2, <2>3, <3>1, StatementSet DEF StatementAttributes, SetAsyncEnable
  <2>4. CASE SetMetadataId(v)
    <3> DEFINE on == v # "off"
               s == [statement EXCEPT !.metadata_id = on]
    <3>1. on \in BOOLEAN
      OBVIOUS
    <3>2. SetStmt("metadata_id", v, "success", s)
      BY <2>4 DEF SetMetadataId
    <3> HIDE DEF on
    <3>3. s \in StatementType /\ s.metadata_id = on
      BY <1>0, <3>1 DEF StatementType
    <3>4. GetStmtAttr(s, "metadata_id") = IF on THEN "on" ELSE "off"
      BY <3>3 DEF GetStmtAttr
    <3>5. Careful => GetStmtAttr(s, "metadata_id") = v
      BY <2>2, <3>4 DEF on
    <3> HIDE DEF s
    <3> QED
      BY <3>2, <3>3, <3>5, StatementSet DEF StatementAttributes
  <2> QED
    BY <2>1, <2>3, <2>4
<1>9. CASE \E a \in Stored, v \in Value : SetStored(a, v)
  <2>1. PICK a \in Stored, v \in Value : SetStored(a, v)
    BY <1>9
  <2> DEFINE kept == [statement.stored EXCEPT ![a] = v]
             s == [statement EXCEPT !.stored = kept]
  <2>2. statement.stored \in [Stored -> Value]
    BY <1>0 DEF StatementType
  <2>3. kept \in [Stored -> Value] /\ kept[a] = v
    BY <2>2
  <2>4. a \notin StatementAttributes
    BY AttributesAssumption
  <2>5. SetStmt(a, v, "success", s)
    BY <2>1 DEF SetStored
  <2> HIDE DEF kept
  <2>6. s \in StatementType /\ s.stored = kept
    BY <1>0, <2>3 DEF StatementType
  <2>7. GetStmtAttr(s, a) = v
    BY <2>3, <2>4, <2>6 DEF GetStmtAttr, StatementAttributes
  <2> QED
    BY <2>5, <2>6, <2>7, StatementSet
<1> QED
  BY <1>1, <1>2, <1>3, <1>4, <1>5, <1>6, <1>7, <1>8, <1>9 DEF SetStmtAttr

----------------------------------------------------------------------------
(* Attributes of a connection.                                             *)

\* An attribute of a connection that is stored and not sent.
LEMMA ConnectionSet ==
  ASSUME Inv, NEW attribute, attribute \in ConnectionAttributes \union Reported, NEW value,
         NEW answer, NEW c \in ConnectionType, SetConnect(attribute, value, answer, c),
         Careful /\ answer \in {"success", "success_with_info"} =>
           (answer = "success" <=> GetConnectAttr(c, attribute) = value)
  PROVE  Told
BY DEF SetConnect, Answered, Told, Read

\* What is held, of a connection that keeps its characteristics.
LEMMA SameHeld ==
  ASSUME Inv, NEW c \in ConnectionType, c.txn_isolation = connection.txn_isolation,
         c.access_mode = connection.access_mode, connection' = c,
         UNCHANGED <<link, txn, session, statement>>
  PROVE  Inv'
BY DEF Inv, TypeOK, Held

\* A characteristic is sent as it is held, and only a session that can take it takes it.
LEMMA CharacteristicSet ==
  ASSUME Inv,
         NEW attribute \in {"txn_isolation", "access_mode"}, NEW value, NEW kept,
         kept \in (IF attribute = "txn_isolation" THEN Isolation ELSE Modes),
         NEW answer \in {"success", "success_with_info"},
         answer = "success" <=> kept = value,
         SetCharacteristic(attribute, value, kept, kept, answer)
  PROVE  Inv' /\ Told
<1> DEFINE c == [connection EXCEPT ![attribute] = kept]
<1>0. /\ connection \in ConnectionType /\ session \in SessionType /\ link \in Links
      /\ txn \in Transactions /\ statement \in StatementType
  BY DEF Inv, TypeOK
<1>1. c \in ConnectionType
  BY <1>0 DEF ConnectionType
<1>2. GetConnectAttr(c, attribute) = kept
  BY <1>0 DEF ConnectionType, GetConnectAttr
<1>3. attribute \in ConnectionAttributes
  BY DEF ConnectionAttributes
<1>4. UNCHANGED txn /\ (Careful => link = "up" /\ txn = "idle")
  BY DEF SetCharacteristic
<1>5. CASE link = "up" /\ session.block # "aborted" /\ SetConnect(attribute, value, answer, c)
           /\ session' = [session EXCEPT !.in_force[attribute] = kept,
                !.before[attribute] = IF session.block = "idle" THEN kept ELSE @]
  <2> DEFINE now  == [session.in_force EXCEPT ![attribute] = kept]
             back == IF session.block = "idle"
                     THEN [session.before EXCEPT ![attribute] = kept] ELSE session.before
  <2>1. session.in_force \in Characteristics /\ session.before \in Characteristics
    BY <1>0 DEF SessionType
  <2>2. now \in Characteristics /\ back \in Characteristics
    BY <2>1 DEF Characteristics
  <2>3. session' = [session EXCEPT !.in_force = now, !.before = back]
    <3>1. CASE session.block = "idle"
      BY <1>5, <1>0, <3>1 DEF SessionType
    <3>2. CASE session.block # "idle"
      <4>1. [session.before EXCEPT ![attribute] = session.before[attribute]] = session.before
        BY <2>1 DEF Characteristics
      <4> QED
        BY <1>5, <1>0, <3>2, <4>1 DEF SessionType
    <3> QED
      BY <3>1, <3>2
  <2>4. connection' = c /\ UNCHANGED <<link, statement>>
    BY <1>5 DEF SetConnect
  <2>5. TypeOK'
    <3> HIDE DEF now, back, c
    <3> QED
      BY <1>0, <1>1, <1>4, <2>2, <2>3, <2>4 DEF TypeOK, SessionType
  <2>6. Careful => now = back /\ Held' = now
    <3> SUFFICES ASSUME Careful PROVE now = back /\ Held' = now
      OBVIOUS
    <3>1. session.block = "idle"
      BY <1>4 DEF Inv
    <3>2. session.before = session.in_force /\ Held = session.in_force
      BY <1>4 DEF Inv
    <3>3. now = back
      BY <3>1, <3>2
    <3>4. Held' = [txn_isolation |-> c.txn_isolation, access_mode |-> c.access_mode]
      BY <2>4 DEF Held
    <3>5. [txn_isolation |-> c.txn_isolation, access_mode |-> c.access_mode] = now
      BY <3>2, <1>0 DEF Held, Characteristics, ConnectionType
    <3> QED
      BY <3>3, <3>4, <3>5
  <2>7. /\ session'.block = session.block /\ session'.in_force = now
        /\ session'.before = back
    <3> HIDE DEF now, back
    <3> QED
      BY <1>0, <2>3 DEF SessionType
  <2>8. Inv'
    <3> HIDE DEF now, back
    <3> QED
      BY <1>4, <1>5, <2>4, <2>5, <2>6, <2>7 DEF Inv
  <2>9. Told
    BY <1>1, <1>2, <1>3, <1>5, ConnectionSet
  <2> QED
    BY <2>8, <2>9
<1>6. CASE link = "none" /\ SetConnect(attribute, value, answer, c) /\ UNCHANGED session
  <2>1. Told
    BY <1>1, <1>2, <1>3, <1>6, ConnectionSet
  <2>2. Inv'
    BY <1>0, <1>1, <1>4, <1>6 DEF SetConnect, Inv, TypeOK, Held
  <2> QED
    BY <2>1, <2>2
<1>7. CASE /\ link = "lost" \/ (link = "up" /\ session.block = "aborted")
           /\ SetConnect(attribute, value, "error", c)
           /\ UNCHANGED session
  <2>1. Told
    BY <1>1, <1>3, <1>7, ConnectionSet
  <2>2. Inv'
    BY <1>0, <1>1, <1>4, <1>7 DEF SetConnect, Inv, TypeOK, Held
  <2> QED
    BY <2>1, <2>2
<1> QED
  BY <1>5, <1>6, <1>7 DEF SetCharacteristic

\* The end of the block of a transaction leaves what is in force and what a rollback
\* would bring back alike, if they were.
LEMMA EndedSession ==
  ASSUME session \in SessionType, NEW completion, NEW refused
  PROVE  /\ Ended(completion, refused) \in SessionType
         /\ Ended(completion, refused).block = "idle"
         /\ session.before = session.in_force =>
              /\ Ended(completion, refused).before = session.before
              /\ Ended(completion, refused).in_force = session.in_force
BY DEF SessionType, Ended, Undone, Kept

\* Every attribute of a connection.
LEMMA SetConnectAttrTold ==
  ASSUME Inv, SetConnectAttr
  PROVE  Inv' /\ Told
<1>0. /\ connection \in ConnectionType /\ session \in SessionType /\ link \in Links
      /\ txn \in Transactions /\ statement \in StatementType
  BY DEF Inv, TypeOK
<1>1. \A a, v : SetConnect(a, v, "error", connection) /\ UNCHANGED <<txn, session>>
                => Inv' /\ Told
  BY <1>0, SameHeld DEF SetConnect, Answered, Told
<1>2. CASE \E v \in Isolation \union {"read_uncommitted", "unknown"} : SetTxnIsolation(v)
  <2>1. PICK v \in Isolation \union {"read_uncommitted", "unknown"} : SetTxnIsolation(v)
    BY <1>2
  <2>2. CASE v \in Isolation \union {"read_uncommitted"}
    <3> DEFINE answer == IF v = "read_uncommitted" THEN "success_with_info" ELSE "success"
    <3>1. SetCharacteristic("txn_isolation", v, IsolationHeld(v), IsolationSent(v), answer)
      BY <2>1, <2>2 DEF SetTxnIsolation
    <3>2. /\ IsolationHeld(v) = IsolationSent(v) /\ IsolationHeld(v) \in Isolation
          /\ answer = "success" <=> IsolationHeld(v) = v
      BY <2>2 DEF IsolationHeld, IsolationSent, Isolation
    <3> QED
      BY <3>1, <3>2, CharacteristicSet
  <2>3. CASE v = "unknown"
    <3>1. SetConnect("txn_isolation", v, "error", connection) /\ UNCHANGED <<txn, session>>
      BY <2>1, <2>3 DEF SetTxnIsolation, Isolation
    <3> QED
      BY <3>1, <1>1
  <2> QED
    BY <2>2, <2>3
<1>3. CASE \E v \in Modes \union {"unknown"} : SetAccessMode(v)
  <2>1. PICK v \in Modes \union {"unknown"} : SetAccessMode(v)
    BY <1>3
  <2>2. CASE v \in Modes
    <3>1. SetCharacteristic("access_mode", v, v, v, "success")
      BY <2>1, <2>2 DEF SetAccessMode
    <3> QED
      BY <3>1, <2>2, CharacteristicSet
  <2>3. CASE v = "unknown"
    <3>1. SetConnect("access_mode", v, "error", connection) /\ UNCHANGED <<txn, session>>
      BY <2>1, <2>3 DEF SetAccessMode, Modes
    <3> QED
      BY <3>1, <1>1
  <2> QED
    BY <2>2, <2>3
<1>4. CASE \E v \in Asked, refused \in BOOLEAN : SetAutocommit(v, refused)
  <2>1. PICK v \in Asked, refused \in BOOLEAN : SetAutocommit(v, refused)
    BY <1>4
  <2> DEFINE on == v = "on"
             ends == on /\ ~connection.autocommit /\ txn # "idle" /\ link # "none"
             completion == IF txn = "failed" THEN "rollback" ELSE "commit"
             c == [connection EXCEPT !.autocommit = on]
  <2>2. /\ txn' = IF ends THEN "idle" ELSE txn
        /\ session' = IF ends THEN Ended(completion, refused) ELSE session
        /\ \/ SetConnect("autocommit", v, "error", connection)
           \/ SetConnect("autocommit", v, "success", c)
    BY <2>1 DEF SetAutocommit
  <2>3. c \in ConnectionType /\ (Careful => GetConnectAttr(c, "autocommit") = v)
    <3>1. on \in BOOLEAN
      OBVIOUS
    <3>2. Careful => v = IF on THEN "on" ELSE "off"
      BY DEF Asked, Switch
    <3> HIDE DEF on
    <3>3. c \in ConnectionType /\ c.autocommit = on
      BY <1>0, <3>1 DEF ConnectionType
    <3> QED
      BY <3>2, <3>3 DEF GetConnectAttr
  <2>4. UNCHANGED <<link, statement>> /\ connection' \in {connection, c}
    BY <2>2 DEF SetConnect
  <2>5. Told
    BY <1>0, <2>2, <2>3, ConnectionSet DEF ConnectionAttributes
  <2>6. Held' = Held /\ connection' \in ConnectionType
    BY <1>0, <2>3, <2>4 DEF Held, ConnectionType
  <2>7. /\ Ended(completion, refused) \in SessionType
        /\ Ended(completion, refused).block = "idle"
        /\ session.before = session.in_force =>
             /\ Ended(completion, refused).before = session.before
             /\ Ended(completion, refused).in_force = session.in_force
    BY <1>0, EndedSession
  <2>8. Inv'
    <3> HIDE DEF completion, ends
    <3> QED
      BY <1>0, <2>2, <2>4, <2>6, <2>7 DEF Inv, TypeOK, Transactions
  <2> QED
    BY <2>5, <2>8
<1>5. CASE \E v \in Sizes : SetBatchSize(v)
  <2>1. PICK v \in Sizes : SetBatchSize(v)
    BY <1>5
  <2> DEFINE size == IF v = 0 THEN DEFAULT_BATCH_SIZE ELSE v
             c == [connection EXCEPT !.batch_size = size]
  <2>2. size \in Nat
    BY AttributesAssumption DEF Sizes
  <2>3. SetConnect("batch_size", v, "success", c) /\ UNCHANGED <<txn, session>>
    BY <2>1 DEF SetBatchSize
  <2>4. /\ c \in ConnectionType /\ c.txn_isolation = connection.txn_isolation
        /\ c.access_mode = connection.access_mode
        /\ Careful => GetConnectAttr(c, "batch_size") = v
    <3>1. Careful => size = v
      BY <2>1 DEF SetBatchSize
    <3> HIDE DEF size
    <3> QED
      BY <1>0, <2>2, <3>1 DEF ConnectionType, GetConnectAttr
  <2> HIDE DEF c
  <2> QED
    BY <2>3, <2>4, ConnectionSet, SameHeld DEF SetConnect, ConnectionAttributes
<1>6. CASE \E a \in Reported, v \in Value : SetReported(a, v)
  <2>1. PICK a \in Reported, v \in Value : SetReported(a, v)
    BY <1>6
  <2> DEFINE kept == [connection.reported EXCEPT ![a] = v]
             c == [connection EXCEPT !.reported = kept]
  <2>2. connection.reported \in [Reported -> Value]
    BY <1>0 DEF ConnectionType
  <2>3. kept \in [Reported -> Value] /\ kept[a] = v
    BY <2>2
  <2>4. SetConnect(a, v, "success", c) /\ UNCHANGED <<txn, session>>
    BY <2>1 DEF SetReported
  <2> HIDE DEF kept
  <2>5. /\ c \in ConnectionType /\ c.txn_isolation = connection.txn_isolation
        /\ c.access_mode = connection.access_mode /\ c.reported = kept
    BY <1>0, <2>3 DEF ConnectionType
  <2>6. a \notin ConnectionAttributes
    BY AttributesAssumption
  <2>7. GetConnectAttr(c, a) = v
    BY <2>3, <2>5, <2>6 DEF GetConnectAttr, ConnectionAttributes
  <2> HIDE DEF c
  <2> QED
    BY <2>4, <2>5, <2>7, ConnectionSet, SameHeld DEF SetConnect
<1> QED
  BY <1>2, <1>3, <1>4, <1>5, <1>6 DEF SetConnectAttr

----------------------------------------------------------------------------
(* Connecting, working, ending transactions.                               *)

\* A call that sets nothing tells of nothing.
LEMMA NothingSet == ASSUME last' = NotSet PROVE Told
BY DEF NotSet, Told

\* The link comes and goes, and with it the session.
LEMMA LinkKeeps ==
  ASSUME Inv, Connect \/ Disconnect \/ Lose
  PROVE  Inv'
<1>1. FreshSession \in SessionType /\ FreshSession.block = "idle"
      /\ FreshSession.before = Defaults /\ FreshSession.in_force = Defaults
  BY DEF FreshSession, SessionType, Characteristics, Defaults, Isolation, Modes
<1>2. UNCHANGED <<connection, txn, statement>> /\ Held' = Held
  BY DEF Connect, Disconnect, Lose, Held
<1>3. session' = FreshSession
  BY DEF Connect, Disconnect, Lose
<1>4. TypeOK'
  BY <1>1, <1>2, <1>3 DEF Inv, TypeOK, Links, Connect, Disconnect, Lose
<1>5. CASE Connect
  BY <1>1, <1>2, <1>3, <1>4, <1>5 DEF Inv, Connect
<1>6. CASE Disconnect
  BY <1>1, <1>2, <1>3, <1>4, <1>6 DEF Inv, Disconnect
<1>7. CASE Lose
  BY <1>1, <1>2, <1>3, <1>4, <1>7 DEF Inv, Lose
<1> QED
  BY <1>5, <1>6, <1>7

\* A statement opens a block, or works in one, and the driver knows.
LEMMA WorkKeeps ==
  ASSUME Inv, Work
  PROVE  Inv'
<1> DEFINE opens == ~connection.autocommit /\ txn = "idle"
           now   == IF opens THEN BlockOpened ELSE session
<1>0. /\ connection \in ConnectionType /\ session \in SessionType /\ link \in Links
      /\ txn \in Transactions /\ statement \in StatementType
  BY DEF Inv, TypeOK
<1>1. /\ now \in SessionType /\ now.before = session.before /\ now.in_force = session.in_force
      /\ now.block = IF opens THEN "open" ELSE session.block
  BY <1>0 DEF SessionType, BlockOpened
<1>2. /\ link = "up" /\ UNCHANGED <<connection, link, statement>>
      /\ \/ /\ now.block # "aborted"
            /\ session' = now
            /\ txn' = IF opens THEN "active" ELSE txn
         \/ /\ session' = IF now.block = "idle" THEN now ELSE [now EXCEPT !.block = "aborted"]
            /\ txn' = IF opens \/ txn = "active" THEN "failed" ELSE txn
  BY DEF Work
<1>3. Held' = Held
  BY <1>2 DEF Held
<1> HIDE DEF now
<1>4. /\ session' \in SessionType /\ txn' \in Transactions
      /\ session'.before = session.before /\ session'.in_force = session.in_force
      /\ session'.block # "idle" => now.block # "idle"
  BY <1>0, <1>1, <1>2 DEF SessionType, Transactions
<1>5. session'.block # "idle" => txn' # "idle"
  BY <1>1, <1>2, <1>4 DEF Inv
<1> QED
  BY <1>0, <1>2, <1>3, <1>4, <1>5 DEF Inv, TypeOK

\* SQLEndTran.
LEMMA EndTranKeeps ==
  ASSUME Inv, NEW completion, NEW refused, EndTran(completion, refused)
  PROVE  Inv'
<1>1. /\ session' = Ended(completion, refused) /\ txn' = "idle"
      /\ UNCHANGED <<connection, link, statement>> /\ Held' = Held
  BY DEF EndTran, Held
<1>2. session \in SessionType
  BY DEF Inv, TypeOK
<1> QED
  BY <1>1, <1>2, EndedSession DEF Inv, TypeOK, Transactions

\* The first state.
LEMMA StartGood == ASSUME Init PROVE Inv
<1>1. connection \in ConnectionType
  BY AttributesAssumption DEF Init, ConnectionType, Isolation, Modes, Value
<1>2. session \in SessionType /\ session.block = "idle" /\ session.before = session.in_force
  BY DEF Init, FreshSession, SessionType, Characteristics, Defaults, Isolation, Modes
<1>3. statement \in StatementType
  BY DEF Init, StatementType, Sizes, Value
<1>4. link = "none" /\ txn = "idle" /\ Held = Defaults
  BY DEF Init, Held, Defaults
<1> QED
  BY <1>1, <1>2, <1>3, <1>4 DEF Inv, TypeOK, Links, Transactions

\* Every step.
LEMMA StepGood == ASSUME Inv, [Next]_vars PROVE Inv' /\ [Told]_vars
<1>1. CASE UNCHANGED vars
  BY <1>1 DEF vars, Inv, TypeOK, Held
<1>2. CASE SetStmtAttr
  BY <1>2, SetStmtAttrTold
<1>3. CASE SetConnectAttr
  BY <1>3, SetConnectAttrTold
<1>4. CASE Connect \/ Disconnect \/ Lose
  BY <1>4, LinkKeeps, NothingSet DEF Connect, Disconnect, Lose
<1>5. CASE Work
  BY <1>5, WorkKeeps, NothingSet DEF Work
<1>6. CASE \E completion \in {"commit", "rollback"}, refused \in BOOLEAN :
             EndTran(completion, refused)
  BY <1>6, EndTranKeeps, NothingSet DEF EndTran
<1> QED
  BY <1>1, <1>2, <1>3, <1>4, <1>5, <1>6 DEF Next

\* What the driver knows of the session of its connection, and the types.
THEOREM AttributesInvariance == Spec => []Inv
<1> QED
  BY StartGood, StepGood, PTL DEF Spec

\* Isolation level and access mode, as SQLGetConnectAttr reports them, are in force for
\* an application that sets them only while connected and outside transactions
\* (odbc_api.c:2351-2409, 2426-2468).
THEOREM InForce == ASSUME Careful PROVE Spec => []ReportedIsInForce
<1>1. Inv => ReportedIsInForce
  BY DEF Inv, ReportedIsInForce
<1> QED
  BY <1>1, AttributesInvariance, PTL

\* For an application that asks an attribute only for values that attribute has, the answer of
\* SQLSetConnectAttr and SQLSetStmtAttr tells whether the value will be read back, for every
\* attribute that is modelled, the batch size among them (odbc_api.c:2306-2487, 2751-2987,
\* 3034-3280).  Without that, batch_size, autocommit, metadata_id and async_enable answer
\* SQL_SUCCESS to a value that is not the one read back.
THEOREM AnswersTold == ASSUME Careful PROVE Spec => AnswerTellsTheValue
<1> DEFINE Tells == /\ last'.answer \in {"success", "success_with_info"} =>
                         LET now == IF last'.attribute \in ConnectionAttributes \union Reported
                                    THEN GetConnectAttr(connection', last'.attribute)
                                    ELSE GetStmtAttr(statement', last'.attribute)
                         IN  last'.answer = "success" <=> now = last'.value
                    /\ last'.answer = "error" => UNCHANGED statement
<1>1. Inv /\ [Next]_vars => [Tells]_vars
  BY StepGood DEF Told, Read
<1> QED
  BY <1>1, AttributesInvariance, PTL DEF Spec, AnswerTellsTheValue
=============================================================================
