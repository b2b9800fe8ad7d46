----------------------------- MODULE Diagnostics -----------------------------
(***************************************************************************)
(* The diagnostic records of the handles (diagnostics.c), the notices that *)
(* a connection captures while the server runs a command (connection.c)    *)
(* and that become records of the statement which ran it (statement.c),    *)
(* and SQLGetDiagRec, which pages a long message (odbc_api.c).             *)
(*                                                                         *)
(* A message is its length and where it comes from; running out of memory  *)
(* is left out.                                                            *)
(***************************************************************************)
EXTENDS Integers, FiniteSets, SequencesExt

CONSTANTS Statement,
          Lengths,        \* of messages; a notice without text is not captured
          BufferLengths,  \* of the buffers an application passes
          MAX_RAISED,     \* bound: notices the server raises in one command
          MAX_DIAGNOSTIC_RECORDS, MAX_CAPTURED_NOTICES, DIAGNOSTIC_DEFAULT_PAGE_SIZE,
          Readers,        \* the handles whose records are read
          Interleaved,    \* whether other statements run while one waits for data
          Resultless,     \* whether a command may fail and leave no result: the link
                          \* is dead, or a large object of its set was not stored
          CursorsOutside  \* whether a CALL outside a transaction may return cursors,
                          \* with FetchRefcursors

ASSUME DiagnosticsAssumption ==
  /\ "call" \notin Statement /\ "connection" \notin Statement /\ "environment" \notin Statement
  /\ Lengths \subseteq Nat \ {0} /\ \E n \in Lengths : \A k \in Lengths : k <= n
  /\ BufferLengths \subseteq Nat
  /\ MAX_RAISED \in Nat /\ MAX_DIAGNOSTIC_RECORDS \in Nat \ {0}
  /\ MAX_CAPTURED_NOTICES \in Nat \ {0} /\ DIAGNOSTIC_DEFAULT_PAGE_SIZE \in Nat \ {0}
  /\ Readers \subseteq Statement \union {"connection", "environment"}
  /\ Interleaved \in BOOLEAN /\ Resultless \in BOOLEAN /\ CursorsOutside \in BOOLEAN

VARIABLES diagnostics,        \* per handle: its records
          captured_notices,   \* of the connection, not yet made records
          waiting,            \* the statements that have answered SQL_NEED_DATA
          last,               \* the call just made: its handle, name and answer
          reader              \* an application reading the records of a handle

vars == <<diagnostics, captured_notices, waiting, last, reader>>

connection  == "connection"
environment == "environment"
Handle == Statement \union {connection, environment}

MessageLength == CHOOSE n \in Lengths : \A k \in Lengths : k <= n  \* of an error

\* recent: of the last execution of the statement, or the last call on the handle.
Error        == [of |-> "call", recent |-> TRUE, length |-> MessageLength]
Notice(h, n) == [of |-> h, recent |-> TRUE, length |-> n]
Old(h, records)  == [i \in DOMAIN records |->
                      IF records[i].of = h THEN [records[i] EXCEPT !.recent = FALSE]
                      ELSE records[i]]

NoRecords == [records |-> <<>>, paging_chunk_size |-> 0]
NoCall    == [handle |-> connection, answer |-> "none"]
NoReader  == [handle |-> connection, next |-> 0, index |-> 0, offset |-> 0, state |-> "none"]

Init ==
  /\ diagnostics = [h \in Handle |-> NoRecords]
  /\ captured_notices = <<>>
  /\ waiting = {}
  /\ last = NoCall
  /\ reader = NoReader

----------------------------------------------------------------------------
\* The lists.

\* What a full list has no room for is dropped.
Filled(list, more, limit) ==
  SubSeq(list \o more, 1,
         IF Len(list) + Len(more) < limit THEN Len(list) + Len(more) ELSE limit)

\* diagnostics_add_record.
Add(list, record) == [list EXCEPT !.records = Filled(@, <<record>>, MAX_DIAGNOSTIC_RECORDS)]

\* notice_receiver_callback, for each notice that is raised.
Capture(notices, raised) == Filled(notices, raised, MAX_CAPTURED_NOTICES)

\* The captured notices become records, one diagnostics_add_record each.
Promote(list, notices) == [list EXCEPT !.records = Filled(@, notices, MAX_DIAGNOSTIC_RECORDS)]

Raised(h) == {[i \in DOMAIN lengths |-> Notice(h, lengths[i])] :
                lengths \in BoundedSeq(Lengths, MAX_RAISED)}

\* Mutant: an entry point that does not begin by clearing the records.
StartKeeping(list) ==
  [list EXCEPT !.records = [i \in DOMAIN @ |-> [@[i] EXCEPT !.recent = FALSE]]]

\* diagnostics_clear, with which an entry point begins.
Start(list) == NoRecords

----------------------------------------------------------------------------
\* Calls.

\* A call on handle h has answered, with these records.
Answer(h, answer, list) ==
  /\ diagnostics' = [diagnostics EXCEPT ![h] = list]
  /\ last' = [handle |-> h, answer |-> answer]
  /\ reader' = IF reader.handle = h THEN NoReader ELSE reader

\* A failing statement reports its error alone; its notices stay captured.  Of fragments
\* and sets only the message of a result is reported: with no result there is no record.
Succeed(s, notices) ==
  /\ \E answer \in {IF notices = <<>> THEN "success" ELSE "success_with_info", "no_data"} :
       Answer(s, answer, Promote(Start(diagnostics[s]), notices))
  /\ captured_notices' = <<>>
FromResult == {Add(NoRecords, Error)} \union (IF Resultless THEN {NoRecords} ELSE {})
Fail(s, notices) ==
  /\ \E list \in FromResult : Answer(s, "error", list)
  /\ captured_notices' = notices

MayRun(s) == s \notin waiting /\ (Interleaved \/ waiting = {})

\* Mutant: what an earlier execution left behind is kept.
LeftBehindKept(s) == Old(s, captured_notices)

\* connection_clear_notices, as an execution begins.
LeftBehind(s) == <<>>

\* SQLExecute and SQLExecDirect of one statement or of several fragments.
Execute(s) ==
  /\ MayRun(s)
  /\ \E raised \in Raised(s) :
       LET notices == Capture(LeftBehind(s), raised)
       IN  Succeed(s, notices) \/ Fail(s, notices)
  /\ UNCHANGED waiting

\* An error after the notices were promoted: outside a transaction the cursors are
\* refused behind them, and the empty result for cursors that are all NULL may fail to
\* arrive, which adds no record.
BehindNotices(list) ==
  (IF CursorsOutside THEN {Add(list, Error)} ELSE {}) \union (IF Resultless THEN {list} ELSE {})

\* A plain CALL that succeeded and returned cursors: the driver fetches from each, and
\* nobody makes records of what that raises.  A FETCH that fails clears the records.
ExecuteCall(s) ==
  /\ MayRun(s)
  /\ \E raised \in Raised(s) : \E n \in 0 .. Len(raised) :
       LET called   == SubSeq(raised, 1, n)
           promoted == Promote(Start(diagnostics[s]), Capture(LeftBehind(s), called))
       IN  /\ captured_notices' = Capture(<<>>, SubSeq(raised, n + 1, Len(raised)))
           /\ \/ Answer(s, "success", promoted)
              \/ Answer(s, "error", Add(NoRecords, Error))
              \/ \E list \in BehindNotices(promoted) : Answer(s, "error", list)
  /\ UNCHANGED waiting

\* Refused before it begins: not prepared, not connected, or an empty text.
ExecuteRefused(s) ==
  /\ MayRun(s)
  /\ Answer(s, "error", Add(Start(diagnostics[s]), Error))
  /\ UNCHANGED <<captured_notices, waiting>>

\* An array of parameter sets: notices only show in the answer.
ExecuteArray(s) ==
  /\ MayRun(s)
  /\ captured_notices' = <<>>
  /\ \/ \E answer \in {"success", "success_with_info"} :
          Answer(s, answer, Start(diagnostics[s]))
     \/ \E list \in FromResult : Answer(s, "error", list)
  /\ UNCHANGED waiting

ExecuteNeedsData(s) ==
  /\ MayRun(s)
  /\ captured_notices' = LeftBehind(s)
  /\ waiting' = waiting \union {s}
  /\ Answer(s, "need_data", Start(diagnostics[s]))

\* SQLParamData hands out the next parameter, or runs the set that is complete:
\* the only one, one of several with more to follow, or the last of several.
ParamData(s) ==
  /\ s \in waiting
  /\ \/ /\ Answer(s, "need_data", Start(diagnostics[s]))
        /\ UNCHANGED <<captured_notices, waiting>>
     \/ \E raised \in Raised(s) :
          LET notices == Capture(captured_notices, raised)
          IN  \/ /\ Succeed(s, notices) \/ Fail(s, notices)
                 /\ waiting' = waiting \ {s}
              \/ /\ \/ /\ waiting' = waiting
                       /\ Answer(s, "need_data", Start(diagnostics[s]))
                    \/ /\ waiting' = waiting \ {s}
                       /\ Answer(s, "success", Start(diagnostics[s]))
                 /\ captured_notices' = notices

PutData(s) ==
  /\ s \in waiting
  /\ \/ Answer(s, "success", Start(diagnostics[s]))
     \/ Answer(s, "error", Add(Start(diagnostics[s]), Error))
  /\ UNCHANGED <<captured_notices, waiting>>

\* SQLEndTran and SQLSetConnectAttr on the connection send commands of their own,
\* whose notices nobody makes records of.
ConnectionCall ==
  /\ Interleaved \/ waiting = {}
  /\ \E raised \in Raised(connection) :
       captured_notices' = Capture(captured_notices, raised)
  /\ \/ Answer(connection, "success", Start(diagnostics[connection]))
     \/ Answer(connection, "error", Add(Start(diagnostics[connection]), Error))
  /\ UNCHANGED <<waiting>>

\* SQLSetEnvAttr, SQLGetEnvAttr and SQLEndTran on an environment do not begin by
\* clearing its records; only a refused SQLFreeHandle does.
EnvironmentCall ==
  /\ \/ Answer(environment, "success", diagnostics[environment])
     \/ Answer(environment, "error", Add(diagnostics[environment], Error))
     \/ Answer(environment, "error", Add(NoRecords, Error))
  /\ UNCHANGED <<captured_notices, waiting>>

----------------------------------------------------------------------------
\* SQLGetDiagRec.

\* The chunk is agreed with the first reader, and again at record number 1.
ChunkSize(list, record_number, buffer_length) ==
  LET agreed == list.paging_chunk_size
  IN  IF agreed # 0 /\ record_number # 1 THEN agreed
      ELSE IF buffer_length > 1 THEN buffer_length - 1
      ELSE IF agreed = 0 THEN DIAGNOSTIC_DEFAULT_PAGE_SIZE
      ELSE agreed

\* Mutant: the rest of a message that does not fill a chunk is not counted.
ChunkCountFull(length, chunk_size) ==
  IF length < chunk_size THEN 1 ELSE length \div chunk_size

\* An empty message takes one record number, as a short one does.
ChunkCount(length, chunk_size) ==
  IF length = 0 THEN 1 ELSE (length + chunk_size - 1) \div chunk_size

\* The pieces of the message of a record, and how many the first n records have.
PiecesOf(list, i, chunk_size) ==
  {i} \X (0 .. ChunkCount(list.records[i].length, chunk_size) - 1)
NumbersOf(list, n, chunk_size) ==
  Cardinality(UNION {PiecesOf(list, i, chunk_size) : i \in 1 .. n})

\* The piece of a message that a record number stands for, if there is one.
Pieces(list, record_number, chunk_size) ==
  {piece \in [index: 1 .. Len(list.records), chunk: 0 .. record_number - 1] :
     /\ piece.chunk < ChunkCount(list.records[piece.index].length, chunk_size)
     /\ NumbersOf(list, piece.index - 1, chunk_size) + piece.chunk + 1 = record_number}

\* How much of it there is, and how much of that goes into the buffer.
PieceLength(list, piece, chunk_size) ==
  LET offset == piece.chunk * chunk_size
      left   == list.records[piece.index].length - offset
  IN  IF left < 0 THEN 0 ELSE IF left > chunk_size THEN chunk_size ELSE left
Written(length, buffer_length) ==
  IF buffer_length = 0 THEN 0
  ELSE IF length > buffer_length - 1 THEN buffer_length - 1 ELSE length

AgreeOn(h, chunk_size) ==
  diagnostics' = [diagnostics EXCEPT ![h].paging_chunk_size = chunk_size]

\* The piece begins where the reader has got to.
Continues(list, piece, chunk_size) ==
  IF piece.chunk = 0
  THEN /\ piece.index = reader.index + 1
       /\ reader.index > 0 => reader.offset = list.records[reader.index].length
  ELSE piece.index = reader.index /\ piece.chunk * chunk_size = reader.offset

AllRead(list) ==
  /\ reader.index = Len(list.records)
  /\ reader.index > 0 => reader.offset = list.records[reader.index].length

\* The reader asks for one record number after the other until there are no more.
Read(buffer_length) ==
  LET list   == diagnostics[reader.handle]
      chunk  == ChunkSize(list, reader.next, buffer_length)
      pieces == Pieces(list, reader.next, chunk)
  IN  /\ reader.state = "reading"
      /\ AgreeOn(reader.handle, chunk)
      /\ \/ /\ pieces = {}
            /\ reader' = [reader EXCEPT !.state = IF AllRead(list) THEN "done" ELSE "garbled"]
         \/ \E piece \in pieces :
              LET length  == PieceLength(list, piece, chunk)
                  written == Written(length, buffer_length)
              IN  reader' = [reader EXCEPT
                    !.next = @ + 1, !.index = piece.index,
                    !.offset = piece.chunk * chunk + length,
                    !.state = IF ~Continues(list, piece, chunk) THEN "garbled"
                              ELSE IF written < length THEN "truncated" ELSE "reading"]
      /\ UNCHANGED <<captured_notices, waiting, last>>

BeginReading(h) ==
  /\ h \in Readers /\ last.handle = h /\ last # NoCall
  /\ reader' = [handle |-> h, next |-> 1, index |-> 0, offset |-> 0, state |-> "reading"]
  /\ last' = NoCall
  /\ UNCHANGED <<diagnostics, captured_notices, waiting>>

\* A look at another record number, with a buffer of whatever length.
Peek(h, record_number, buffer_length) ==
  /\ reader.handle = h /\ reader.state = "reading"
  /\ AgreeOn(h, ChunkSize(diagnostics[h], record_number, buffer_length))
  /\ UNCHANGED <<captured_notices, waiting, last, reader>>

----------------------------------------------------------------------------

Next ==
  \/ \E s \in Statement : \/ Execute(s) \/ ExecuteCall(s) \/ ExecuteRefused(s)
                          \/ ExecuteArray(s) \/ ExecuteNeedsData(s)
                          \/ ParamData(s) \/ PutData(s)
  \/ ConnectionCall
  \/ EnvironmentCall
  \/ \E h \in Handle : BeginReading(h)
  \/ \E buffer_length \in BufferLengths : Read(buffer_length)
  \/ \E h \in Handle, buffer_length \in BufferLengths : Peek(h, 2, buffer_length)

Spec == Init /\ [][Next]_vars

----------------------------------------------------------------------------
\* Properties.

\* The notices among the records of a statement were raised by its own last
\* execution, whatever failed or was committed in between on the connection
\* (statement.c:1630 "this run only reports the NOTICE/WARNING messages it actually
\* produces").  It is about statements that are not interrupted while they wait.
NoticesAreOwn ==
  \A s \in Statement : \A i \in DOMAIN diagnostics[s].records :
    LET record == diagnostics[s].records[i]
    IN  record.of \in Handle => record.of = s /\ record.recent

\* After SQL_ERROR from a call on a statement or a connection, record 1 is the
\* error of that call and not that of an earlier one or a notice (diagnostics.h:60).
\* It is about commands that get a result (Resultless) and about cursors returned inside
\* a transaction (CursorsOutside).
ErrorIsReported ==
  (last.answer = "error" /\ last.handle # environment) =>
    /\ diagnostics[last.handle].records # <<>>
    /\ diagnostics[last.handle].records[1] = Error

\* Whoever reads the record numbers in order, in buffers of any lengths and while
\* others look at records beyond the first, and is told SQL_SUCCESS each time, has
\* each message once and whole by the time of SQL_NO_DATA (odbc_api.c:703-726).
MessagesReassemble == reader.state # "garbled"
=============================================================================
