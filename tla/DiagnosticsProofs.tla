-------------------------- MODULE DiagnosticsProofs --------------------------
(***************************************************************************)
(* The records of a call are its own, an error stands first, and a message *)
(* read in pieces comes out whole: for any number of statements, any caps, *)
(* messages of any length and buffers of any size.                         *)
(***************************************************************************)
EXTENDS Diagnostics, TLAPS, FiniteSetTheorems, SequenceTheorems, WellFoundedInduction

Record  == [of : Handle \union {"call"}, recent : BOOLEAN, length : Nat \ {0}]
Records == [records : Seq(Record), paging_chunk_size : Nat]
Answers == {"none", "success", "success_with_info", "no_data", "need_data", "error"}
States  == {"none", "reading", "done", "truncated", "garbled"}

\* The types of the variables.
Types ==
  /\ diagnostics \in [Handle -> Records]
  /\ captured_notices \in Seq(Record)
  /\ waiting \in SUBSET Statement
  /\ last \in [handle : Handle, answer : Answers]
  /\ reader \in [handle : Handle, next : Nat, index : Nat, offset : Nat, state : States]

----------------------------------------------------------------------------
(* Lists of records                                                        *)

\* A notice of the last execution of s, or an error.
OwnRecord(s) == {record \in Record : record.of \in Handle => record.of = s /\ record.recent}

\* Filling a list adds nothing but what it is filled with.
LEMMA FilledKeeps ==
  ASSUME NEW S, NEW list \in Seq(S), NEW more \in Seq(S), NEW limit \in Nat
  PROVE  Filled(list, more, limit) \in Seq(S)
<1> DEFINE all == list \o more
           n == IF Len(list) + Len(more) < limit THEN Len(list) + Len(more) ELSE limit
<1>1. /\ Len(list) \in Nat /\ Len(more) \in Nat
      /\ all \in Seq(S) /\ Len(all) = Len(list) + Len(more)
  BY ConcatProperties, LenProperties
<1>2. n \in Int /\ \A i \in 1 .. n : i \in 1 .. Len(all)
  BY <1>1
<1>3. \A i \in 1 .. n : all[i] \in S
  BY <1>1, <1>2, ElementOfSeq
<1>4. Filled(list, more, limit) = SubSeq(all, 1, n)
  BY DEF Filled
<1> HIDE DEF all, n
<1> QED
  BY <1>2, <1>3, <1>4, SubSeqProperties

\* An error alone.
LEMMA ErrorAlone ==
  /\ Error \in Record /\ \A s \in Handle : Error \in OwnRecord(s)
  /\ Add(NoRecords, Error).records = <<Error>>
  /\ Add(NoRecords, Error).paging_chunk_size = 0
<1>1. Error \in Record /\ "call" \notin Handle
  BY DiagnosticsAssumption DEF Error, MessageLength, Record, Handle, connection, environment
<1>2. \A s \in Handle : Error \in OwnRecord(s)
  BY <1>1 DEF OwnRecord, Error
<1>3. Filled(<<>>, <<Error>>, MAX_DIAGNOSTIC_RECORDS) = <<Error>>
  <2>1. <<>> \o <<Error>> = <<Error>>
    BY <1>1, ConcatEmptySeq
  <2>2. (IF Len(<<>>) + Len(<<Error>>) < MAX_DIAGNOSTIC_RECORDS
         THEN Len(<<>>) + Len(<<Error>>) ELSE MAX_DIAGNOSTIC_RECORDS) = 1
    BY DiagnosticsAssumption
  <2>3. SubSeq(<<Error>>, 1, 1) = <<Error>>
    <3>1. <<Error>> \in Seq(Record) /\ Len(<<Error>>) = 1
      BY <1>1
    <3> QED
      BY <3>1, SubSeqFull
  <2> QED
    BY <2>1, <2>2, <2>3 DEF Filled
<1> QED
  BY <1>1, <1>2, <1>3 DEF Add, NoRecords

\* The notices the server raises while it serves h.
LEMMA RaisedAreOwn ==
  ASSUME NEW h \in Handle, NEW raised \in Raised(h)
  PROVE  raised \in Seq(OwnRecord(h))
<1>1. PICK m \in 0 .. MAX_RAISED : \E lengths \in [1 .. m -> Lengths] :
        raised = [i \in DOMAIN lengths |-> Notice(h, lengths[i])]
  BY DEF Raised, BoundedSeq, SeqOf
<1>2. \A n \in Lengths : Notice(h, n) \in OwnRecord(h)
  BY DiagnosticsAssumption DEF Notice, OwnRecord, Record
<1>3. PICK lengths \in [1 .. m -> Lengths] :
        raised = [i \in 1 .. m |-> Notice(h, lengths[i])]
  BY <1>1
<1>4. \A i \in 1 .. m : Notice(h, lengths[i]) \in OwnRecord(h)
  <2>1. \A i \in 1 .. m : lengths[i] \in Lengths
    OBVIOUS
  <2> QED
    BY <1>2, <2>1
<1>5. m \in Nat
  BY DiagnosticsAssumption
<1> QED
  BY <1>3, <1>4, <1>5, IsASeq

\* What is of a handle is a record like any other.
LEMMA OwnAreRecords ==
  \A h \in Handle : Seq(OwnRecord(h)) \subseteq Seq(Record)
<1>1. \A h \in Handle : OwnRecord(h) \subseteq Record
  BY DEF OwnRecord
<1> QED
  BY <1>1, SeqMonotonic

\* Promoting and capturing, whosever the notices are.
LEMMA PromoteKeeps ==
  ASSUME NEW S \in SUBSET Record, NEW notices \in Seq(S)
  PROVE  /\ Promote(NoRecords, notices) \in Records
         /\ Promote(NoRecords, notices).records \in Seq(S)
         /\ \A raised \in Seq(S) : Capture(notices, raised) \in Seq(S)
<1>1. <<>> \in Seq(S) /\ Seq(S) \subseteq Seq(Record)
  BY SeqMonotonic, EmptySeq
<1>2. Filled(<<>>, notices, MAX_DIAGNOSTIC_RECORDS) \in Seq(S)
  BY <1>1, FilledKeeps, DiagnosticsAssumption
<1>3. \A raised \in Seq(S) : Filled(notices, raised, MAX_CAPTURED_NOTICES) \in Seq(S)
  BY FilledKeeps, DiagnosticsAssumption
<1>4. Promote(NoRecords, notices) =
        [records |-> Filled(<<>>, notices, MAX_DIAGNOSTIC_RECORDS), paging_chunk_size |-> 0]
  BY DEF Promote, NoRecords
<1> QED
  BY <1>1, <1>2, <1>3, <1>4 DEF Capture, Records

\* Adding an error to whatever there is.
LEMMA AddKeeps ==
  ASSUME NEW list \in Records
  PROVE  Add(list, Error) \in Records
<1>1. list.records \in Seq(Record) /\ <<Error>> \in Seq(Record)
  BY ErrorAlone DEF Records
<1>2. Filled(list.records, <<Error>>, MAX_DIAGNOSTIC_RECORDS) \in Seq(Record)
  BY <1>1, FilledKeeps, DiagnosticsAssumption
<1> QED
  BY <1>2 DEF Add, Records

----------------------------------------------------------------------------
(* Calls                                                                   *)

\* What has been captured for a statement that waits is its own, and no other waits.
Waits ==
  ~Interleaved => /\ \A s \in waiting : captured_notices \in Seq(OwnRecord(s))
                  /\ \A s, t \in waiting : s = t

\* Every error has a record, and no notice is promoted before one.
Recorded == ~Resultless /\ ~CursorsOutside

\* A call on h has answered; an error stands first, and a statement has records of its own.
Answered(h) ==
  \E answer \in Answers, list \in Records :
    /\ Answer(h, answer, list)
    /\ Recorded /\ answer = "error" /\ h # environment => list.records = <<Error>>
    /\ h \in Statement /\ ~Interleaved => list.records \in Seq(OwnRecord(h))

Called ==
  /\ \E h \in Handle : Answered(h)
  /\ captured_notices' \in Seq(Record)
  /\ waiting' \in SUBSET Statement
  /\ Waits'

\* The answers that come with no record, and with an error alone.
LEMMA PlainAnswers ==
  ASSUME NEW h \in Handle
  PROVE  /\ \A answer \in Answers \ {"error"} : Answer(h, answer, NoRecords) => Answered(h)
         /\ Answer(h, "error", Add(NoRecords, Error)) => Answered(h)
         /\ \A list \in FromResult : Answer(h, "error", list) => Answered(h)
<1>1. NoRecords \in Records /\ NoRecords.records = <<>>
  BY EmptySeq DEF NoRecords, Records
<1>2. \A s \in Handle : <<>> \in Seq(OwnRecord(s)) /\ <<Error>> \in Seq(OwnRecord(s))
  BY ErrorAlone
<1>3. Add(NoRecords, Error) \in Records
  BY <1>1, AddKeeps
<1>4. ASSUME NEW answer \in Answers \ {"error"}, Answer(h, answer, NoRecords)
      PROVE  Answered(h)
  BY <1>1, <1>2, <1>4 DEF Answered
<1>5. ASSUME Answer(h, "error", Add(NoRecords, Error)) PROVE Answered(h)
  <2>1. "error" \in Answers
    BY DEF Answers
  <2> QED
    BY <1>2, <1>3, <1>5, <2>1, ErrorAlone DEF Answered
<1>6. ASSUME NEW list \in FromResult, Answer(h, "error", list) PROVE Answered(h)
  <2>1. CASE list = Add(NoRecords, Error)
    BY <1>5, <1>6, <2>1
  <2>2. CASE list # Add(NoRecords, Error)
    <3>1. list = NoRecords /\ ~Recorded
      BY <1>6, <2>2 DEF FromResult, Recorded
    <3>2. "error" \in Answers
      BY DEF Answers
    <3> QED
      BY <1>1, <1>2, <1>6, <3>1, <3>2 DEF Answered
  <2> QED
    BY <2>1, <2>2
<1> QED
  BY <1>4, <1>5, <1>6

\* An execution that ends with these notices.
LEMMA EndOfExecution ==
  ASSUME NEW s \in Statement, NEW notices \in Seq(Record),
         ~Interleaved => notices \in Seq(OwnRecord(s)),
         Succeed(s, notices) \/ Fail(s, notices)
  PROVE  Answered(s) /\ captured_notices' \in {<<>>, notices}
<1>1. s \in Handle
  BY DEF Handle
<1>2. CASE Fail(s, notices)
  BY <1>1, <1>2, PlainAnswers DEF Fail
<1>3. CASE Succeed(s, notices)
  <2> DEFINE list == Promote(NoRecords, notices)
  <2>1. list \in Records
    BY PromoteKeeps
  <2>2. ~Interleaved => list.records \in Seq(OwnRecord(s))
    <3>1. OwnRecord(s) \in SUBSET Record
      BY DEF OwnRecord
    <3> QED
      BY <3>1, PromoteKeeps
  <2>3. PICK answer \in {"success", "success_with_info", "no_data"} : Answer(s, answer, list)
    BY <1>3 DEF Succeed, Start
  <2>4. answer \in Answers /\ answer # "error"
    BY DEF Answers
  <2> HIDE DEF list
  <2>5. Answered(s)
    BY <2>1, <2>2, <2>3, <2>4 DEF Answered
  <2> QED
    BY <1>3, <2>5 DEF Succeed
<1> QED
  BY <1>2, <1>3

\* A call whose cursors are fetched after its notices were made records.
LEMMA CallWithCursors ==
  ASSUME Types, NEW s \in Statement, ExecuteCall(s)
  PROVE  Answered(s) /\ captured_notices' \in Seq(Record)
<1>1. /\ s \in Handle /\ "success" \in Answers /\ "error" \in Answers
      /\ OwnRecord(s) \in SUBSET Record /\ <<>> \in Seq(OwnRecord(s)) /\ <<>> \in Seq(Record)
  BY EmptySeq DEF Handle, Answers, OwnRecord
<1> DEFINE OfCall(raised, n)   == SubSeq(raised, 1, n)
           Promoted(raised, n) == Promote(NoRecords, Capture(<<>>, OfCall(raised, n)))
           Rest(raised, n)     == SubSeq(raised, n + 1, Len(raised))
<1>0. PICK raised \in Raised(s) :
        \E n \in 0 .. Len(raised) :
          /\ captured_notices' = Capture(<<>>, Rest(raised, n))
          /\ \/ Answer(s, "success", Promoted(raised, n))
             \/ Answer(s, "error", Add(NoRecords, Error))
             \/ \E list \in BehindNotices(Promoted(raised, n)) : Answer(s, "error", list)
  BY DEF ExecuteCall, Start, LeftBehind
<1>2. PICK n \in 0 .. Len(raised) :
        /\ captured_notices' = Capture(<<>>, Rest(raised, n))
        /\ \/ Answer(s, "success", Promoted(raised, n))
           \/ Answer(s, "error", Add(NoRecords, Error))
           \/ \E list \in BehindNotices(Promoted(raised, n)) : Answer(s, "error", list)
  BY <1>0
<1> DEFINE called   == OfCall(raised, n)
           rest     == Rest(raised, n)
           promoted == Promoted(raised, n)
<1>3. called \in Seq(OwnRecord(s)) /\ called \in Seq(Record) /\ rest \in Seq(Record)
  <2>1. raised \in Seq(OwnRecord(s)) /\ raised \in Seq(Record) /\ Len(raised) \in Nat
    BY <1>1, RaisedAreOwn, LenProperties
  <2> QED
    BY <2>1, SubSeqProperties
<1>4. captured_notices' \in Seq(Record)
  BY <1>1, <1>2, <1>3, PromoteKeeps
<1>5. /\ promoted \in Records
      /\ promoted.records \in Seq(OwnRecord(s))
      /\ Add(promoted, Error) \in Records
      /\ Add(promoted, Error).records \in Seq(OwnRecord(s))
  <2>1. Capture(<<>>, called) \in Seq(OwnRecord(s)) /\ Capture(<<>>, called) \in Seq(Record)
    BY <1>1, <1>3, PromoteKeeps
  <2>2. promoted \in Records /\ promoted.records \in Seq(OwnRecord(s))
    BY <1>1, <2>1, PromoteKeeps
  <2> HIDE DEF promoted
  <2>3. Add(promoted, Error) \in Records
    BY <2>2, AddKeeps
  <2>4. Add(promoted, Error).records = Filled(promoted.records, <<Error>>, MAX_DIAGNOSTIC_RECORDS)
    BY <2>2 DEF Add, Records
  <2>5. <<Error>> \in Seq(OwnRecord(s))
    BY <1>1, ErrorAlone
  <2>6. Filled(promoted.records, <<Error>>, MAX_DIAGNOSTIC_RECORDS) \in Seq(OwnRecord(s))
    BY <2>2, <2>5, FilledKeeps, DiagnosticsAssumption
  <2> QED
    BY <2>2, <2>3, <2>4, <2>6
<1> HIDE DEF promoted
<1>6. CASE Answer(s, "success", promoted)
  BY <1>1, <1>4, <1>5, <1>6 DEF Answered
<1>7. CASE Answer(s, "error", Add(NoRecords, Error))
  BY <1>1, <1>4, <1>7, PlainAnswers
<1>8. CASE \E list \in BehindNotices(promoted) : Answer(s, "error", list)
  <2>1. PICK list \in BehindNotices(promoted) : Answer(s, "error", list)
    BY <1>8
  <2>2. /\ ~Recorded
        /\ list \in Records /\ list.records \in Seq(OwnRecord(s))
    BY <1>5, <2>1 DEF BehindNotices, Recorded
  <2> QED
    BY <1>1, <1>4, <2>1, <2>2 DEF Answered
<1> QED
  BY <1>2, <1>6, <1>7, <1>8 DEF promoted

\* Executing, whole or refused, with one set of parameters or an array of them.
LEMMA ExecuteCalls ==
  ASSUME Types, Waits, NEW s \in Statement,
         Execute(s) \/ ExecuteCall(s) \/ ExecuteRefused(s) \/ ExecuteArray(s)
  PROVE  Called
<1>1. /\ s \in Handle /\ waiting' = waiting
      /\ ~Interleaved => waiting = {}
  BY DEF Execute, ExecuteCall, ExecuteRefused, ExecuteArray, MayRun, Handle
<1>2. Waits' /\ waiting' \in SUBSET Statement
  BY <1>1 DEF Waits, Types
<1>3. ASSUME Answered(s), captured_notices' \in Seq(Record) PROVE Called
  BY <1>1, <1>2, <1>3 DEF Called
<1>4. CASE Execute(s)
  <2>1. PICK raised \in Raised(s) :
          Succeed(s, Capture(<<>>, raised)) \/ Fail(s, Capture(<<>>, raised))
    BY <1>4 DEF Execute, LeftBehind
  <2>2. /\ Capture(<<>>, raised) \in Seq(OwnRecord(s))
        /\ Capture(<<>>, raised) \in Seq(Record)
    <3>1. raised \in Seq(OwnRecord(s))
      BY <1>1, RaisedAreOwn
    <3>2. OwnRecord(s) \in SUBSET Record /\ <<>> \in Seq(OwnRecord(s))
      BY EmptySeq DEF OwnRecord
    <3> QED
      BY <1>1, <3>1, <3>2, PromoteKeeps, OwnAreRecords
  <2>3. Answered(s) /\ captured_notices' \in {<<>>, Capture(<<>>, raised)}
    BY <2>1, <2>2, EndOfExecution
  <2> QED
    BY <1>3, <2>2, <2>3, EmptySeq
<1>5. CASE ExecuteRefused(s)
  <2>1. Answered(s)
    BY <1>1, <1>5, PlainAnswers DEF ExecuteRefused, Start
  <2> QED
    BY <1>3, <1>5, <2>1 DEF ExecuteRefused, Types
<1>6. CASE ExecuteArray(s)
  <2>1. "success" \in Answers \ {"error"} /\ "success_with_info" \in Answers \ {"error"}
    BY DEF Answers
  <2>2. Answered(s)
    BY <1>1, <1>6, <2>1, PlainAnswers DEF ExecuteArray, Start
  <2> QED
    BY <1>3, <1>6, <2>2, EmptySeq DEF ExecuteArray
<1>7. CASE ExecuteCall(s)
  BY <1>3, <1>7, CallWithCursors
<1> QED
  BY <1>4, <1>5, <1>6, <1>7

\* A statement that waits, or begins to wait, for data.
LEMMA DataAtExecutionCalls ==
  ASSUME Types, Waits, NEW s \in Statement,
         ExecuteNeedsData(s) \/ ParamData(s) \/ PutData(s)
  PROVE  Called
<1>1. /\ s \in Handle /\ "need_data" \in Answers \ {"error"} /\ "success" \in Answers \ {"error"}
      /\ OwnRecord(s) \in SUBSET Record
      /\ <<>> \in Seq(OwnRecord(s)) /\ <<>> \in Seq(Record)
      /\ Seq(OwnRecord(s)) \subseteq Seq(Record)
  BY EmptySeq, SeqMonotonic DEF Answers, Handle, OwnRecord
<1>2. CASE ExecuteNeedsData(s)
  <2>1. Answered(s)
    BY <1>1, <1>2, PlainAnswers DEF ExecuteNeedsData, Start
  <2>2. /\ captured_notices' = <<>> /\ waiting' = waiting \union {s}
        /\ ~Interleaved => waiting = {}
    BY <1>2 DEF ExecuteNeedsData, LeftBehind, MayRun
  <2>3. Waits'
    <3> SUFFICES ASSUME ~Interleaved
                 PROVE  /\ \A r \in waiting' : captured_notices' \in Seq(OwnRecord(r))
                        /\ \A r, t \in waiting' : r = t
      BY DEF Waits
    <3>1. waiting' = {s} /\ captured_notices' \in Seq(OwnRecord(s))
      BY <1>1, <2>2
    <3> QED
      BY <3>1
  <2> QED
    BY <1>1, <2>1, <2>2, <2>3 DEF Called, Types
<1>3. ASSUME s \in waiting, waiting' \in {waiting, waiting \ {s}},
             captured_notices' \in Seq(Record),
             ~Interleaved => captured_notices' \in Seq(OwnRecord(s)),
             Answered(s)
      PROVE  Called
  <2>1. \A r \in waiting' : r \in waiting
    BY <1>3
  <2>2. waiting' \in SUBSET Statement
    BY <2>1 DEF Types
  <2>3. Waits'
    BY <1>3, <2>1 DEF Waits
  <2> QED
    BY <1>1, <1>3, <2>2, <2>3 DEF Called
<1>4. s \in waiting => /\ captured_notices \in Seq(Record)
                       /\ ~Interleaved => captured_notices \in Seq(OwnRecord(s))
  BY DEF Waits, Types
<1>5. CASE PutData(s)
  <2>1. Answered(s)
    BY <1>1, <1>5, PlainAnswers DEF PutData, Start
  <2> QED
    BY <1>3, <1>4, <1>5, <2>1 DEF PutData
<1>6. CASE ParamData(s)
  <2>1. s \in waiting
    BY <1>6 DEF ParamData
  <2>2. CASE /\ Answer(s, "need_data", Start(diagnostics[s]))
             /\ UNCHANGED <<captured_notices, waiting>>
    <3>1. Answered(s)
      BY <1>1, <2>2, PlainAnswers DEF Start
    <3> QED
      BY <1>3, <1>4, <2>1, <2>2, <3>1
  <2>3. ASSUME NEW raised \in Raised(s),
               LET notices == Capture(captured_notices, raised)
               IN  \/ /\ Succeed(s, notices) \/ Fail(s, notices)
                      /\ waiting' = waiting \ {s}
                   \/ /\ \/ /\ waiting' = waiting
                            /\ Answer(s, "need_data", Start(diagnostics[s]))
                         \/ /\ waiting' = waiting \ {s}
                            /\ Answer(s, "success", Start(diagnostics[s]))
                      /\ captured_notices' = notices
        PROVE  Called
    <3> DEFINE notices == Capture(captured_notices, raised)
    <3>1. raised \in Seq(OwnRecord(s)) /\ raised \in Seq(Record)
      BY <1>1, RaisedAreOwn
    <3>2. /\ notices \in Seq(Record)
          /\ ~Interleaved => notices \in Seq(OwnRecord(s))
      <4>1. notices \in Seq(Record)
        BY <1>4, <2>1, <3>1, PromoteKeeps
      <4>2. ~Interleaved => notices \in Seq(OwnRecord(s))
        BY <1>1, <1>4, <2>1, <3>1, PromoteKeeps
      <4> QED
        BY <4>1, <4>2
    <3> HIDE DEF notices
    <3>3. CASE Succeed(s, notices) \/ Fail(s, notices)
      <4>1. Answered(s) /\ captured_notices' \in {<<>>, notices}
        BY <3>2, <3>3, EndOfExecution
      <4>2. waiting' \in {waiting, waiting \ {s}}
        BY <2>3 DEF notices
      <4> QED
        BY <1>1, <1>3, <2>1, <3>2, <4>1, <4>2
    <3>4. CASE /\ waiting' \in {waiting, waiting \ {s}}
               /\ \/ Answer(s, "need_data", NoRecords) \/ Answer(s, "success", NoRecords)
               /\ captured_notices' = notices
      <4>1. Answered(s)
        BY <1>1, <3>4, PlainAnswers
      <4> QED
        BY <1>3, <2>1, <3>2, <3>4, <4>1
    <3> QED
      BY <2>3, <3>3, <3>4 DEF notices, Start
  <2> QED
    BY <1>6, <2>2, <2>3 DEF ParamData
<1> QED
  BY <1>2, <1>5, <1>6

\* Calls on the connection and on the environment.
LEMMA OtherCalls ==
  ASSUME Types, Waits, ConnectionCall \/ EnvironmentCall
  PROVE  Called
<1>1. /\ connection \in Handle /\ environment \in Handle
      /\ connection \notin Statement /\ environment \notin Statement
  BY DiagnosticsAssumption DEF Handle, connection, environment
<1>2. /\ "success" \in Answers \ {"error"} /\ "error" \in Answers
  BY DEF Answers
<1>3. CASE ConnectionCall
  <2>1. PICK raised \in Raised(connection) : captured_notices' = Capture(captured_notices, raised)
    BY <1>3 DEF ConnectionCall
  <2>2. captured_notices' \in Seq(Record)
    <3>1. raised \in Seq(Record) /\ captured_notices \in Seq(Record)
      BY <1>1, RaisedAreOwn, OwnAreRecords DEF Types
    <3> QED
      BY <2>1, <3>1, PromoteKeeps
  <2>3. Answered(connection)
    BY <1>1, <1>2, <1>3, PlainAnswers DEF ConnectionCall, Start
  <2>4. waiting' = waiting /\ (~Interleaved => waiting = {})
    BY <1>3 DEF ConnectionCall
  <2>5. Waits'
    BY <2>4 DEF Waits
  <2> QED
    BY <1>1, <2>2, <2>3, <2>4, <2>5 DEF Called, Types
<1>4. CASE EnvironmentCall
  <2>1. UNCHANGED <<captured_notices, waiting>>
    BY <1>4 DEF EnvironmentCall
  <2>2. diagnostics[environment] \in Records /\ NoRecords \in Records
    BY <1>1, EmptySeq DEF Types, NoRecords, Records
  <2>3. /\ Add(diagnostics[environment], Error) \in Records
        /\ Add(NoRecords, Error) \in Records
    BY <2>2, AddKeeps
  <2>4. \A answer \in Answers, list \in Records :
          Answer(environment, answer, list) => Answered(environment)
    BY <1>1 DEF Answered
  <2>5. Answered(environment)
    BY <1>2, <1>4, <2>2, <2>3, <2>4 DEF EnvironmentCall
  <2> QED
    BY <1>1, <2>1, <2>5 DEF Called, Types, Waits
<1> QED
  BY <1>3, <1>4

\* Every call of an application but those that read records.
Call == \/ \E s \in Statement : \/ Execute(s) \/ ExecuteCall(s) \/ ExecuteRefused(s)
                                \/ ExecuteArray(s) \/ ExecuteNeedsData(s)
                                \/ ParamData(s) \/ PutData(s)
        \/ ConnectionCall
        \/ EnvironmentCall

\* What every such call does.
LEMMA EveryCall == ASSUME Types, Waits, Call PROVE Called
BY ExecuteCalls, DataAtExecutionCalls, OtherCalls DEF Call

----------------------------------------------------------------------------
(* Pieces of messages                                                      *)

\* The pieces of a message cover it, and none is empty.
LEMMA ChunksCover ==
  ASSUME NEW length \in Nat \ {0}, NEW c \in Nat \ {0}
  PROVE  LET count == ChunkCount(length, c)
         IN  /\ count \in Nat \ {0}
             /\ (count - 1) * c < length /\ length <= count * c
<1> DEFINE q == (length + c - 1) \div c
<1>1. q \in Int /\ q * c <= length + c - 1 /\ length + c - 1 < (q + 1) * c
  OBVIOUS
<1>2. ChunkCount(length, c) = q
  BY DEF ChunkCount
<1> HIDE DEF q
<1>3. (q - 1) * c = q * c - c /\ (q + 1) * c = q * c + c
  BY <1>1
<1>4. q >= 1
  <2>1. q * c > 0
    BY <1>1, <1>3
  <2> QED
    BY <1>1, <2>1
<1> QED
  BY <1>1, <1>2, <1>3, <1>4

\* No message is empty.
LEMMA MessagesHaveText ==
  ASSUME NEW list \in Records, NEW i \in 1 .. Len(list.records)
  PROVE  list.records[i].length \in Nat \ {0}
<1>1. list.records \in Seq(Record)
  BY DEF Records
<1>2. list.records[i] \in Record
  BY <1>1, ElementOfSeq
<1> QED
  BY <1>2 DEF Record

\* Where a piece ends: where the next one begins, or the last with the message.
LEMMA PieceEnds ==
  ASSUME NEW list \in Records, NEW c \in Nat \ {0}, NEW i \in 1 .. Len(list.records),
         NEW k \in 0 .. ChunkCount(list.records[i].length, c) - 1
  PROVE  LET length == list.records[i].length
             piece  == PieceLength(list, [index |-> i, chunk |-> k], c)
         IN  /\ piece \in Nat
             /\ k * c + piece = IF k = ChunkCount(length, c) - 1 THEN length ELSE (k + 1) * c
<1> DEFINE length == list.records[i].length
           count == ChunkCount(length, c)
           left == length - k * c
<1>1. length \in Nat \ {0}
  BY MessagesHaveText
<1>2. count \in Nat \ {0} /\ (count - 1) * c < length /\ length <= count * c
  BY <1>1, ChunksCover
<1>3. PieceLength(list, [index |-> i, chunk |-> k], c) =
        IF left < 0 THEN 0 ELSE IF left > c THEN c ELSE left
  BY DEF PieceLength
<1>4. k \in 0 .. count - 1
  OBVIOUS
<1> HIDE DEF length, count
<1>5. (k + 1) * c = k * c + c /\ k * c \in Nat
  BY <1>4, <1>2
<1>6. CASE k = count - 1
  <2>1. k + 1 = count
    BY <1>2, <1>4, <1>6
  <2>2. k * c < length /\ length <= (k + 1) * c
    BY <1>2, <1>6, <2>1
  <2>3. left > 0 /\ left <= c /\ left \in Int
    BY <1>1, <1>5, <2>2
  <2>4. PieceLength(list, [index |-> i, chunk |-> k], c) = left
    BY <1>3, <2>3
  <2>5. left \in Nat /\ k * c + left = length
    BY <1>1, <1>5, <2>3
  <2> QED
    BY <1>6, <2>4, <2>5 DEF length, count
<1>7. CASE k # count - 1
  <2>1. k + 1 <= count - 1 /\ k + 1 \in Nat /\ count - 1 \in Nat
    BY <1>2, <1>4, <1>7
  <2>2. (k + 1) * c <= (count - 1) * c
    BY <2>1
  <2>3. left > c
    BY <1>1, <1>2, <1>5, <2>2
  <2> QED
    BY <1>1, <1>3, <1>5, <1>7, <2>3 DEF length, count
<1> QED
  BY <1>6, <1>7

\* The pieces of one message are as many as it has chunks.
LEMMA PiecesCounted ==
  ASSUME NEW list \in Records, NEW c \in Nat \ {0}, NEW i \in 1 .. Len(list.records)
  PROVE  /\ IsFiniteSet(PiecesOf(list, i, c))
         /\ Cardinality(PiecesOf(list, i, c)) = ChunkCount(list.records[i].length, c)
         /\ ChunkCount(list.records[i].length, c) \in Nat \ {0}
<1> DEFINE count == ChunkCount(list.records[i].length, c)
<1>1. count \in Nat \ {0}
  BY MessagesHaveText, ChunksCover
<1> HIDE DEF count
<1>2. IsFiniteSet(0 .. count - 1) /\ Cardinality(0 .. count - 1) = count
  BY <1>1, FS_Interval
<1>3. IsFiniteSet({i}) /\ Cardinality({i}) = 1
  BY FS_Singleton
<1>4. /\ IsFiniteSet({i} \X (0 .. count - 1))
      /\ Cardinality({i} \X (0 .. count - 1)) = Cardinality({i}) * Cardinality(0 .. count - 1)
  BY <1>2, <1>3, FS_Product
<1> QED
  BY <1>1, <1>2, <1>3, <1>4 DEF PiecesOf, count

AllPieces(list, n, c) == UNION {PiecesOf(list, i, c) : i \in 1 .. n}

\* The pieces of some messages are finitely many.
LEMMA PiecesFinite ==
  ASSUME NEW list \in Records, NEW c \in Nat \ {0}, NEW n \in 0 .. Len(list.records)
  PROVE  IsFiniteSet(AllPieces(list, n, c)) /\ NumbersOf(list, n, c) \in Nat
<1>1. Len(list.records) \in Nat /\ n \in Nat
  BY LenProperties DEF Records
<1>2. IsFiniteSet({PiecesOf(list, i, c) : i \in 1 .. n})
  <2>1. IsFiniteSet(1 .. n)
    BY <1>1, FS_Interval
  <2> DEFINE T == {PiecesOf(list, i, c) : i \in 1 .. n}
             f == [i \in 1 .. n |-> PiecesOf(list, i, c)]
  <2>2. f \in Surjection(1 .. n, T)
    BY DEF Surjection
  <2> HIDE DEF f
  <2> QED
    BY <2>1, <2>2, FS_Surjection
<1>3. \A T \in {PiecesOf(list, i, c) : i \in 1 .. n} : IsFiniteSet(T)
  BY <1>1, PiecesCounted
<1>4. IsFiniteSet(AllPieces(list, n, c))
  BY <1>2, <1>3, FS_UNION DEF AllPieces
<1> QED
  BY <1>4, FS_CardinalityType DEF NumbersOf, AllPieces

\* The numbers begin at nothing, and a message takes as many as it has chunks.
LEMMA NumbersGrow ==
  ASSUME NEW list \in Records, NEW c \in Nat \ {0}
  PROVE  /\ NumbersOf(list, 0, c) = 0
         /\ \A n \in 1 .. Len(list.records) :
              NumbersOf(list, n, c)
              = NumbersOf(list, n - 1, c) + ChunkCount(list.records[n].length, c)
<1>1. Len(list.records) \in Nat
  BY LenProperties DEF Records
<1>2. NumbersOf(list, 0, c) = 0
  <2>1. UNION {PiecesOf(list, i, c) : i \in 1 .. 0} = {}
    OBVIOUS
  <2> QED
    BY <2>1, FS_EmptySet DEF NumbersOf
<1>3. ASSUME NEW n \in 1 .. Len(list.records)
      PROVE  NumbersOf(list, n, c)
             = NumbersOf(list, n - 1, c) + ChunkCount(list.records[n].length, c)
  <2> DEFINE before == AllPieces(list, n - 1, c)
             these == PiecesOf(list, n, c)
  <2>1. /\ IsFiniteSet(before) /\ Cardinality(before) \in Nat
        /\ NumbersOf(list, n - 1, c) = Cardinality(before)
        /\ NumbersOf(list, n, c) = Cardinality(AllPieces(list, n, c))
    <3>1. n - 1 \in 0 .. Len(list.records)
      BY <1>1
    <3>2. IsFiniteSet(before)
      BY <3>1, PiecesFinite
    <3> QED
      BY <3>2, FS_CardinalityType DEF NumbersOf, AllPieces
  <2>2. /\ IsFiniteSet(these)
        /\ Cardinality(these) = ChunkCount(list.records[n].length, c)
        /\ Cardinality(these) \in Nat
    BY PiecesCounted
  <2>3. AllPieces(list, n, c) = before \union these
    <3>1. \A i : i \in 1 .. n <=> i \in 1 .. n - 1 \/ i = n
      BY <1>1
    <3> QED
      BY <3>1 DEF AllPieces
  <2>4. before \intersect these = {}
    <3>1. \A i \in 1 .. n - 1 : i # n
      BY <1>1
    <3>2. \A i \in 1 .. n - 1 : PiecesOf(list, i, c) \intersect these = {}
      BY <3>1 DEF PiecesOf
    <3> QED
      BY <3>2 DEF AllPieces
  <2>5. Cardinality(before \intersect these) = 0
    BY <2>4, FS_EmptySet
  <2> HIDE DEF before, these
  <2>6. Cardinality(before \union these)
        = Cardinality(before) + Cardinality(these) - Cardinality(before \intersect these)
    BY <2>1, <2>2, FS_Union
  <2> QED
    BY <2>1, <2>2, <2>3, <2>5, <2>6
<1> QED
  BY <1>2, <1>3

\* More messages have no fewer pieces.
LEMMA NumbersMonotonic ==
  ASSUME NEW list \in Records, NEW c \in Nat \ {0},
         NEW m \in 0 .. Len(list.records), NEW n \in 0 .. m
  PROVE  NumbersOf(list, n, c) <= NumbersOf(list, m, c)
<1>1. Len(list.records) \in Nat
  BY LenProperties DEF Records
<1>2. \A i \in 1 .. n : i \in 1 .. m
  BY <1>1
<1>3. AllPieces(list, n, c) \in SUBSET AllPieces(list, m, c)
  BY <1>2 DEF AllPieces
<1>4. IsFiniteSet(AllPieces(list, m, c))
  BY PiecesFinite
<1> QED
  BY <1>3, <1>4, FS_Subset DEF NumbersOf, AllPieces

\* Whatever is in a message comes before what is in a later one.
LEMMA EarlierNumbers ==
  ASSUME NEW list \in Records, NEW c \in Nat \ {0},
         NEW i \in 1 .. Len(list.records), NEW m \in i .. Len(list.records),
         NEW k \in 0 .. ChunkCount(list.records[i].length, c) - 1
  PROVE  NumbersOf(list, i - 1, c) + k < NumbersOf(list, m, c)
<1>1. Len(list.records) \in Nat
  BY LenProperties DEF Records
<1>2. NumbersOf(list, i, c)
      = NumbersOf(list, i - 1, c) + ChunkCount(list.records[i].length, c)
  BY NumbersGrow
<1>3. i \in 0 .. m /\ m \in 0 .. Len(list.records) /\ i - 1 \in 0 .. Len(list.records)
      /\ i \in 0 .. Len(list.records)
  BY <1>1
<1>4. NumbersOf(list, i, c) <= NumbersOf(list, m, c)
  BY <1>3, NumbersMonotonic
<1>5. /\ NumbersOf(list, i, c) \in Nat /\ NumbersOf(list, i - 1, c) \in Nat
      /\ NumbersOf(list, m, c) \in Nat
  BY <1>3, PiecesFinite
<1>6. ChunkCount(list.records[i].length, c) \in Nat
  BY PiecesCounted
<1> QED
  BY <1>2, <1>4, <1>5, <1>6

\* A record number stands for one piece at most.
LEMMA NumberNamesPiece ==
  ASSUME NEW list \in Records, NEW c \in Nat \ {0},
         NEW i \in 1 .. Len(list.records), NEW j \in 1 .. Len(list.records),
         NEW k \in 0 .. ChunkCount(list.records[i].length, c) - 1,
         NEW l \in 0 .. ChunkCount(list.records[j].length, c) - 1,
         NEW number, number = NumbersOf(list, i - 1, c) + k + 1,
                     number = NumbersOf(list, j - 1, c) + l + 1
  PROVE  i = j /\ k = l
<1>1. Len(list.records) \in Nat
  BY LenProperties DEF Records
<1>2. i - 1 \in 0 .. Len(list.records) /\ j - 1 \in 0 .. Len(list.records)
  BY <1>1
<1>3. NumbersOf(list, i - 1, c) \in Nat /\ NumbersOf(list, j - 1, c) \in Nat
  BY <1>2, PiecesFinite
<1>4. k \in Nat /\ l \in Nat
  BY PiecesCounted
<1>5. ~(i < j)
  <2> SUFFICES ASSUME i < j PROVE FALSE
    OBVIOUS
  <2>1. j - 1 \in i .. Len(list.records)
    BY <1>1
  <2>2. NumbersOf(list, i - 1, c) + k < NumbersOf(list, j - 1, c)
    BY <2>1, EarlierNumbers
  <2> QED
    BY <1>3, <1>4, <2>2
<1>6. ~(j < i)
  <2> SUFFICES ASSUME j < i PROVE FALSE
    OBVIOUS
  <2>1. i - 1 \in j .. Len(list.records)
    BY <1>1
  <2>2. NumbersOf(list, j - 1, c) + l < NumbersOf(list, i - 1, c)
    BY <2>1, EarlierNumbers
  <2> QED
    BY <1>3, <1>4, <2>2
<1>7. i = j
  BY <1>1, <1>5, <1>6
<1> QED
  BY <1>3, <1>4, <1>7

----------------------------------------------------------------------------
(* Readers                                                                 *)

\* Between two messages, or before the first.
Between(list, c, next, index, offset) ==
  /\ index \in 0 .. Len(list.records)
  /\ next = NumbersOf(list, index, c) + 1
  /\ index > 0 => offset = list.records[index].length

\* Inside a message, before its piece k.
Inside(list, c, next, index, offset) ==
  /\ index \in 1 .. Len(list.records)
  /\ \E k \in 1 .. ChunkCount(list.records[index].length, c) - 1 :
       /\ next = NumbersOf(list, index - 1, c) + k + 1
       /\ offset = k * c

At(list, c, next, index, offset) ==
  \/ Between(list, c, next, index, offset)
  \/ Inside(list, c, next, index, offset)

\* What is read next follows what has been read, and nothing is read at the end only.
LEMMA NextPiece ==
  ASSUME NEW list \in Records, NEW c \in Nat \ {0},
         NEW next \in Nat \ {0}, NEW index \in Nat, NEW offset \in Nat,
         At(list, c, next, index, offset)
  PROVE  /\ \A piece \in Pieces(list, next, c) :
              IF piece.chunk = 0
              THEN /\ piece.index = index + 1
                   /\ index > 0 => offset = list.records[index].length
              ELSE piece.index = index /\ piece.chunk * c = offset
         /\ Pieces(list, next, c) = {} =>
              /\ index = Len(list.records)
              /\ index > 0 => offset = list.records[index].length
<1>1. Len(list.records) \in Nat
  BY LenProperties DEF Records
<1>2. ASSUME NEW piece \in Pieces(list, next, c)
      PROVE  /\ piece.index \in 1 .. Len(list.records)
             /\ piece.chunk \in 0 .. ChunkCount(list.records[piece.index].length, c) - 1
             /\ NumbersOf(list, piece.index - 1, c) + piece.chunk + 1 = next
             /\ NumbersOf(list, piece.index - 1, c) \in Nat
  <2>1. /\ piece.index \in 1 .. Len(list.records) /\ piece.chunk \in Nat
        /\ piece.chunk < ChunkCount(list.records[piece.index].length, c)
        /\ NumbersOf(list, piece.index - 1, c) + piece.chunk + 1 = next
    BY DEF Pieces
  <2>2. ChunkCount(list.records[piece.index].length, c) \in Nat
    BY <2>1, PiecesCounted
  <2>3. piece.index - 1 \in 0 .. Len(list.records)
    BY <1>1, <2>1
  <2>4. NumbersOf(list, piece.index - 1, c) \in Nat
    BY <2>3, PiecesFinite
  <2>5. piece.chunk \in 0 .. ChunkCount(list.records[piece.index].length, c) - 1
    BY <2>1, <2>2
  <2> QED
    BY <2>1, <2>4, <2>5
<1>3. ASSUME NEW i \in 1 .. Len(list.records),
             NEW k \in 0 .. ChunkCount(list.records[i].length, c) - 1,
             next = NumbersOf(list, i - 1, c) + k + 1
      PROVE  /\ [index |-> i, chunk |-> k] \in Pieces(list, next, c)
             /\ \A piece \in Pieces(list, next, c) : piece.index = i /\ piece.chunk = k
  <2>1. i - 1 \in 0 .. Len(list.records)
    BY <1>1
  <2>2. NumbersOf(list, i - 1, c) \in Nat /\ ChunkCount(list.records[i].length, c) \in Nat
    BY <2>1, PiecesFinite, PiecesCounted
  <2>3. [index |-> i, chunk |-> k] \in Pieces(list, next, c)
    BY <1>3, <2>2 DEF Pieces
  <2>4. ASSUME NEW piece \in Pieces(list, next, c) PROVE piece.index = i /\ piece.chunk = k
    <3>1. \A j \in 1 .. Len(list.records) :
            \A l \in 0 .. ChunkCount(list.records[j].length, c) - 1 :
              next = NumbersOf(list, j - 1, c) + l + 1 => i = j /\ k = l
      BY <1>3, NumberNamesPiece
    <3> QED
      BY <1>2, <3>1
  <2> QED
    BY <2>3, <2>4
<1>4. CASE Inside(list, c, next, index, offset)
  <2>1. PICK k \in 1 .. ChunkCount(list.records[index].length, c) - 1 :
          /\ index \in 1 .. Len(list.records)
          /\ next = NumbersOf(list, index - 1, c) + k + 1
          /\ offset = k * c
    BY <1>4 DEF Inside
  <2>2. k \in 0 .. ChunkCount(list.records[index].length, c) - 1 /\ k # 0
    BY <2>1
  <2> QED
    BY <1>3, <2>1, <2>2
<1>5. CASE Between(list, c, next, index, offset)
  <2>1. /\ index \in 0 .. Len(list.records) /\ next = NumbersOf(list, index, c) + 1
        /\ index > 0 => offset = list.records[index].length
        /\ NumbersOf(list, index, c) \in Nat
    BY <1>5, PiecesFinite DEF Between
  <2>2. CASE index < Len(list.records)
    <3>1. index + 1 \in 1 .. Len(list.records) /\ (index + 1) - 1 = index
      BY <1>1, <2>1, <2>2
    <3>2. 0 \in 0 .. ChunkCount(list.records[index + 1].length, c) - 1
      BY <3>1, PiecesCounted
    <3>3. next = NumbersOf(list, (index + 1) - 1, c) + 0 + 1
      BY <2>1, <3>1
    <3> QED
      BY <1>3, <2>1, <3>1, <3>2, <3>3
  <2>3. CASE index = Len(list.records)
    <3>1. ASSUME NEW piece \in Pieces(list, next, c) PROVE FALSE
      <4>1. index \in piece.index .. Len(list.records)
        BY <1>1, <1>2, <2>3
      <4>2. NumbersOf(list, piece.index - 1, c) + piece.chunk < NumbersOf(list, index, c)
        BY <1>2, <4>1, EarlierNumbers
      <4>3. piece.chunk \in Nat
        BY <1>2
      <4> QED
        BY <1>2, <2>1, <4>2, <4>3
    <3> QED
      BY <2>1, <2>3, <3>1
  <2> QED
    BY <1>1, <2>1, <2>2, <2>3
<1> QED
  BY <1>4, <1>5 DEF At

\* After a piece, the reader is inside a message or between two.
LEMMA AfterPiece ==
  ASSUME NEW list \in Records, NEW c \in Nat \ {0}, NEW next \in Nat \ {0},
         NEW piece \in Pieces(list, next, c)
  PROVE  /\ PieceLength(list, piece, c) \in Nat
         /\ piece.index \in Nat /\ piece.chunk \in Nat
         /\ At(list, c, next + 1, piece.index, piece.chunk * c + PieceLength(list, piece, c))
<1> DEFINE i == piece.index
           k == piece.chunk
           count == ChunkCount(list.records[i].length, c)
<1>1. Len(list.records) \in Nat
  BY LenProperties DEF Records
<1>2. /\ piece = [index |-> i, chunk |-> k]
      /\ i \in 1 .. Len(list.records) /\ k \in Nat /\ k < count
      /\ NumbersOf(list, i - 1, c) + k + 1 = next
  <2>1. /\ piece \in [index : 1 .. Len(list.records), chunk : 0 .. next - 1]
        /\ piece.chunk < ChunkCount(list.records[piece.index].length, c)
        /\ NumbersOf(list, piece.index - 1, c) + piece.chunk + 1 = next
    BY DEF Pieces
  <2>2. piece = [index |-> piece.index, chunk |-> piece.chunk]
    BY <2>1
  <2> QED
    BY <2>1, <2>2
<1>3. count \in Nat \ {0}
  BY <1>2, PiecesCounted
<1>4. k \in 0 .. count - 1
  BY <1>2, <1>3
<1>5. /\ PieceLength(list, piece, c) \in Nat
      /\ k * c + PieceLength(list, piece, c)
         = IF k = count - 1 THEN list.records[i].length ELSE (k + 1) * c
  BY <1>2, <1>4, PieceEnds
<1>6. /\ NumbersOf(list, i, c) = NumbersOf(list, i - 1, c) + count
      /\ NumbersOf(list, i - 1, c) \in Nat
  <2>1. i - 1 \in 0 .. Len(list.records)
    BY <1>1, <1>2
  <2> QED
    BY <1>2, <2>1, NumbersGrow, PiecesFinite
<1> HIDE DEF i, k, count
<1>7. CASE k = count - 1
  <2>1. k * c + PieceLength(list, piece, c) = list.records[i].length
    BY <1>5, <1>7
  <2>2. next + 1 = NumbersOf(list, i, c) + 1 /\ i \in 0 .. Len(list.records)
    BY <1>1, <1>2, <1>3, <1>6, <1>7
  <2>3. Between(list, c, next + 1, i, k * c + PieceLength(list, piece, c))
    BY <2>1, <2>2 DEF Between
  <2> QED
    BY <1>1, <1>2, <1>5, <2>3 DEF At, i, k
<1>8. CASE k # count - 1
  <2>1. k + 1 \in 1 .. count - 1
    BY <1>3, <1>4, <1>8
  <2>2. next + 1 = NumbersOf(list, i - 1, c) + (k + 1) + 1
    BY <1>2, <1>6
  <2>3. Inside(list, c, next + 1, i, k * c + PieceLength(list, piece, c))
    BY <1>2, <1>5, <1>8, <2>1, <2>2 DEF Inside, count
  <2> QED
    BY <1>1, <1>2, <1>5, <2>3 DEF At, i, k
<1> QED
  BY <1>7, <1>8

\* A reader is where the record numbers it has read end.
Position ==
  reader.state = "reading" =>
    LET list == diagnostics[reader.handle]
        c    == list.paging_chunk_size
    IN  \/ reader.next = 1 /\ reader.index = 0 /\ reader.offset = 0
        \/ /\ reader.next > 1 /\ c # 0
           /\ At(list, c, reader.next, reader.index, reader.offset)

\* The chunk that was agreed has no part in how records are numbered with another.
LEMMA Repaged ==
  ASSUME NEW list \in Records, NEW agreed \in Nat, NEW c, NEW next, NEW index, NEW offset
  PROVE  LET other == [list EXCEPT !.paging_chunk_size = agreed]
         IN  /\ other \in Records /\ other.records = list.records
             /\ other.paging_chunk_size = agreed
             /\ At(list, c, next, index, offset) => At(other, c, next, index, offset)
<1> DEFINE other == [list EXCEPT !.paging_chunk_size = agreed]
<1>1. /\ other \in Records /\ other.records = list.records
      /\ other.paging_chunk_size = agreed
  BY DEF Records
<1> HIDE DEF other
<1>2. \A i : PiecesOf(other, i, c) = PiecesOf(list, i, c)
  BY <1>1 DEF PiecesOf
<1>3. \A n : NumbersOf(other, n, c) = NumbersOf(list, n, c)
  BY <1>2 DEF NumbersOf
<1>4. Between(list, c, next, index, offset) => Between(other, c, next, index, offset)
  BY <1>1, <1>3 DEF Between
<1>5. Inside(list, c, next, index, offset) => Inside(other, c, next, index, offset)
  BY <1>1, <1>3 DEF Inside
<1> QED
  BY <1>1, <1>4, <1>5 DEF At, other

\* The chunk is never nothing, and stays once a reader has begun.
LEMMA ChunkAgreed ==
  ASSUME NEW list \in Records, NEW number \in Nat \ {0}, NEW buffer_length \in Nat
  PROVE  /\ ChunkSize(list, number, buffer_length) \in Nat \ {0}
         /\ list.paging_chunk_size # 0 /\ number # 1 =>
              ChunkSize(list, number, buffer_length) = list.paging_chunk_size
<1>1. list.paging_chunk_size \in Nat
  BY DEF Records
<1> QED
  BY <1>1, DiagnosticsAssumption DEF ChunkSize

\* SQLGetDiagRec reads on where it stopped, and stops at the end.
LEMMA ReadOn ==
  ASSUME Types, Position, MessagesReassemble, NEW buffer_length \in BufferLengths,
         Read(buffer_length)
  PROVE  /\ diagnostics' \in [Handle -> Records] /\ reader' \in [handle : Handle, next : Nat,
                                 index : Nat, offset : Nat, state : States]
         /\ Position' /\ MessagesReassemble'
         /\ \A h \in Handle : diagnostics'[h].records = diagnostics[h].records
<1> DEFINE list == diagnostics[reader.handle]
           c == ChunkSize(list, reader.next, buffer_length)
           pieces == Pieces(list, reader.next, c)
<1>1. /\ reader \in [handle : Handle, next : Nat, index : Nat, offset : Nat, state : States]
      /\ reader.state = "reading" /\ reader.handle \in Handle
      /\ diagnostics \in [Handle -> Records] /\ list \in Records /\ buffer_length \in Nat
  BY DiagnosticsAssumption DEF Types, Read
<1>2. reader.next \in Nat \ {0} /\ reader.index \in Nat /\ reader.offset \in Nat
  BY <1>1 DEF Position
<1>3. /\ c \in Nat \ {0}
      /\ list.paging_chunk_size # 0 /\ reader.next # 1 => c = list.paging_chunk_size
  BY <1>1, <1>2, ChunkAgreed
<1>4. At(list, c, reader.next, reader.index, reader.offset)
  <2>1. CASE reader.next = 1 /\ reader.index = 0 /\ reader.offset = 0
    <3>1. NumbersOf(list, 0, c) = 0
      BY <1>1, <1>3, NumbersGrow
    <3>2. Len(list.records) \in Nat
      BY <1>1, LenProperties DEF Records
    <3>3. Between(list, c, reader.next, reader.index, reader.offset)
      BY <2>1, <3>1, <3>2 DEF Between
    <3> QED
      BY <3>3 DEF At
  <2>2. CASE /\ reader.next > 1 /\ list.paging_chunk_size # 0
             /\ At(list, list.paging_chunk_size, reader.next, reader.index, reader.offset)
    BY <1>2, <1>3, <2>2
  <2> QED
    BY <1>1, <2>1, <2>2 DEF Position
<1>5. /\ AgreeOn(reader.handle, c)
      /\ \/ /\ pieces = {}
            /\ reader' = [reader EXCEPT !.state = IF AllRead(list) THEN "done" ELSE "garbled"]
         \/ \E piece \in pieces :
              LET length  == PieceLength(list, piece, c)
                  written == Written(length, buffer_length)
              IN  reader' = [reader EXCEPT
                    !.next = @ + 1, !.index = piece.index,
                    !.offset = piece.chunk * c + length,
                    !.state = IF ~Continues(list, piece, c) THEN "garbled"
                              ELSE IF written < length THEN "truncated" ELSE "reading"]
  BY DEF Read
<1> DEFINE other == [list EXCEPT !.paging_chunk_size = c]
<1>6. diagnostics' = [diagnostics EXCEPT ![reader.handle] = other]
  BY <1>5 DEF AgreeOn
<1> HIDE DEF list, c, pieces, other
<1>7. /\ other \in Records /\ other.records = list.records /\ other.paging_chunk_size = c
      /\ \A next, index, offset :
           At(list, c, next, index, offset) => At(other, c, next, index, offset)
  BY <1>1, <1>3, Repaged DEF other
<1>8. /\ diagnostics' \in [Handle -> Records] /\ diagnostics'[reader.handle] = other
      /\ \A h \in Handle : diagnostics'[h].records = diagnostics[h].records
  BY <1>1, <1>6, <1>7 DEF list
<1>9. /\ \A piece \in pieces :
           IF piece.chunk = 0
           THEN /\ piece.index = reader.index + 1
                /\ reader.index > 0 => reader.offset = list.records[reader.index].length
           ELSE piece.index = reader.index /\ piece.chunk * c = reader.offset
      /\ pieces = {} =>
           /\ reader.index = Len(list.records)
           /\ reader.index > 0 => reader.offset = list.records[reader.index].length
  BY <1>1, <1>2, <1>3, <1>4, NextPiece DEF pieces
<1>10. CASE /\ pieces = {}
            /\ reader' = [reader EXCEPT !.state = IF AllRead(list) THEN "done" ELSE "garbled"]
  <2>1. AllRead(list)
    BY <1>9, <1>10 DEF AllRead
  <2>2. reader' = [reader EXCEPT !.state = "done"]
    BY <1>10, <2>1
  <2>3. /\ reader'.state = "done"
        /\ reader' \in [handle : Handle, next : Nat, index : Nat, offset : Nat, state : States]
    BY <1>1, <2>2 DEF States
  <2> QED
    BY <1>8, <2>3 DEF Position, MessagesReassemble
<1>11. ASSUME NEW piece \in pieces,
              LET length  == PieceLength(list, piece, c)
                  written == Written(length, buffer_length)
              IN  reader' = [reader EXCEPT
                    !.next = @ + 1, !.index = piece.index,
                    !.offset = piece.chunk * c + length,
                    !.state = IF ~Continues(list, piece, c) THEN "garbled"
                              ELSE IF written < length THEN "truncated" ELSE "reading"]
       PROVE  /\ reader' \in [handle : Handle, next : Nat, index : Nat, offset : Nat,
                              state : States]
              /\ Position' /\ MessagesReassemble'
  <2> DEFINE length == PieceLength(list, piece, c)
             offset == piece.chunk * c + length
             state == IF Written(length, buffer_length) < length
                      THEN "truncated" ELSE "reading"
  <2>1. /\ length \in Nat /\ piece.index \in Nat /\ piece.chunk \in Nat
        /\ At(list, c, reader.next + 1, piece.index, offset)
    BY <1>1, <1>2, <1>3, AfterPiece DEF pieces
  <2>2. offset \in Nat
    <3>1. piece.chunk * c \in Nat
      BY <1>3, <2>1
    <3> QED
      BY <2>1, <3>1
  <2>3. Continues(list, piece, c)
    BY <1>9 DEF Continues
  <2>4. reader' = [reader EXCEPT !.next = @ + 1, !.index = piece.index,
                                 !.offset = offset, !.state = state]
    BY <1>11, <2>3
  <2>5. state \in {"truncated", "reading"}
    OBVIOUS
  <2> HIDE DEF length, offset, state
  <2>6. /\ reader' \in [handle : Handle, next : Nat, index : Nat, offset : Nat, state : States]
        /\ reader'.next = reader.next + 1 /\ reader'.index = piece.index
        /\ reader'.offset = offset /\ reader'.state = state /\ reader'.handle = reader.handle
    <3>1. reader' = [handle |-> reader.handle, next |-> reader.next + 1,
                     index |-> piece.index, offset |-> offset, state |-> state]
      BY <1>1, <2>4
    <3>2. state \in States /\ reader.next + 1 \in Nat
      BY <1>2, <2>5 DEF States
    <3> QED
      BY <1>1, <2>1, <2>2, <3>1, <3>2
  <2>7. At(other, c, reader'.next, reader'.index, reader'.offset)
    BY <1>7, <2>1, <2>6
  <2>8. Position'
    BY <1>2, <1>3, <1>7, <1>8, <2>6, <2>7 DEF Position
  <2> QED
    BY <2>5, <2>6, <2>8 DEF MessagesReassemble
<1> QED
  BY <1>5, <1>8, <1>10, <1>11

----------------------------------------------------------------------------
(* The invariant                                                           *)

\* The records of a statement are those of its own last execution.
Own == ~Interleaved => \A s \in Statement : diagnostics[s].records \in Seq(OwnRecord(s))

Inv ==
  /\ Types /\ Waits /\ Own /\ Position /\ MessagesReassemble
  /\ Recorded => ErrorIsReported

\* There are no records before the first call.
LEMMA NothingYet == ASSUME Init PROVE Inv
<1>1. NoRecords \in Records /\ NoRecords.records = <<>> /\ <<>> \in Seq(Record)
  BY EmptySeq DEF NoRecords, Records
<1>2. connection \in Handle /\ Statement \subseteq Handle
  BY DEF Handle
<1>3. Types
  <2>1. NoCall \in [handle : Handle, answer : Answers]
    BY <1>2 DEF NoCall, Answers
  <2>2. NoReader \in [handle : Handle, next : Nat, index : Nat, offset : Nat, state : States]
    BY <1>2 DEF NoReader, States
  <2> QED
    BY <1>1, <2>1, <2>2 DEF Init, Types
<1>4. Waits
  BY DEF Init, Waits
<1>5. Own
  <2>1. \A s \in Statement : diagnostics[s].records = <<>>
    BY <1>1, <1>2 DEF Init
  <2>2. \A s \in Statement : <<>> \in Seq(OwnRecord(s))
    BY EmptySeq
  <2> QED
    BY <2>1, <2>2 DEF Own
<1>6. ErrorIsReported /\ Position /\ MessagesReassemble
  BY DEF Init, NoCall, NoReader, ErrorIsReported, Position, MessagesReassemble
<1> QED
  BY <1>3, <1>4, <1>5, <1>6 DEF Inv

\* A call replaces the records of its handle, and whoever was reading them starts again.
LEMMA CallKeeps == ASSUME Inv, Called PROVE Inv'
<1>1. PICK h \in Handle, answer \in Answers, list \in Records :
        /\ Answer(h, answer, list)
        /\ Recorded /\ answer = "error" /\ h # environment => list.records = <<Error>>
        /\ h \in Statement /\ ~Interleaved => list.records \in Seq(OwnRecord(h))
  BY DEF Called, Answered
<1>2. /\ diagnostics' = [diagnostics EXCEPT ![h] = list]
      /\ last' = [handle |-> h, answer |-> answer]
      /\ reader' = IF reader.handle = h THEN NoReader ELSE reader
  BY <1>1 DEF Answer
<1>3. /\ diagnostics \in [Handle -> Records]
      /\ reader \in [handle : Handle, next : Nat, index : Nat, offset : Nat, state : States]
  BY DEF Inv, Types
<1>4. Types'
  <2>1. NoReader \in [handle : Handle, next : Nat, index : Nat, offset : Nat, state : States]
    BY DEF NoReader, States, Handle
  <2>2. diagnostics' \in [Handle -> Records] /\ last' \in [handle : Handle, answer : Answers]
    BY <1>2, <1>3
  <2> QED
    BY <1>2, <1>3, <2>1, <2>2 DEF Called, Types
<1>5. Own'
  <2> SUFFICES ASSUME ~Interleaved, NEW s \in Statement
               PROVE  diagnostics'[s].records \in Seq(OwnRecord(s))
    BY DEF Own
  <2>1. s \in Handle
    BY DEF Handle
  <2>2. CASE s = h
    BY <1>1, <1>2, <1>3, <2>1, <2>2
  <2>3. CASE s # h
    BY <1>2, <1>3, <2>1, <2>3 DEF Inv, Own
  <2> QED
    BY <2>2, <2>3
<1>6. Recorded => ErrorIsReported'
  <2> SUFFICES ASSUME Recorded, last'.answer = "error", last'.handle # environment
               PROVE  /\ diagnostics'[last'.handle].records # <<>>
                      /\ diagnostics'[last'.handle].records[1] = Error
    BY DEF ErrorIsReported
  <2>1. last'.handle = h /\ diagnostics'[h].records = <<Error>>
    BY <1>1, <1>2, <1>3
  <2> QED
    BY <2>1
<1>7. Position' /\ MessagesReassemble'
  <2>1. CASE reader.handle = h
    BY <1>2, <2>1 DEF NoReader, Position, MessagesReassemble
  <2>2. CASE reader.handle # h
    <3>1. reader' = reader /\ diagnostics'[reader.handle] = diagnostics[reader.handle]
      BY <1>2, <1>3, <2>2
    <3> QED
      BY <3>1 DEF Inv, Position, MessagesReassemble
  <2> QED
    BY <2>1, <2>2
<1>8. Waits'
  BY DEF Called
<1> QED
  BY <1>4, <1>5, <1>6, <1>7, <1>8 DEF Inv

\* Reading changes no record.
LEMMA RecordsStay ==
  ASSUME Inv, UNCHANGED <<captured_notices, waiting>>, last' \in {last, NoCall},
         \A h \in Handle : diagnostics'[h].records = diagnostics[h].records
  PROVE  Own' /\ Waits' /\ (Recorded => ErrorIsReported')
<1>1. Statement \subseteq Handle /\ last.handle \in Handle
  BY DEF Handle, Inv, Types
<1>2. Own'
  BY <1>1 DEF Inv, Own
<1>3. Waits'
  BY DEF Inv, Waits
<1>4. Recorded => ErrorIsReported'
  BY <1>1 DEF Inv, ErrorIsReported, NoCall
<1> QED
  BY <1>2, <1>3, <1>4

\* SQLGetDiagRec, in order or at random.
LEMMA ReadingKeeps ==
  ASSUME Inv,
         \/ \E h \in Handle : BeginReading(h)
         \/ \E buffer_length \in BufferLengths : Read(buffer_length)
         \/ \E h \in Handle, buffer_length \in BufferLengths : Peek(h, 2, buffer_length)
  PROVE  Inv'
<1>1. CASE \E buffer_length \in BufferLengths : Read(buffer_length)
  <2>1. PICK buffer_length \in BufferLengths : Read(buffer_length)
    BY <1>1
  <2>2. /\ diagnostics' \in [Handle -> Records] /\ Position' /\ MessagesReassemble'
        /\ reader' \in [handle : Handle, next : Nat, index : Nat, offset : Nat, state : States]
        /\ \A h \in Handle : diagnostics'[h].records = diagnostics[h].records
    BY <2>1, ReadOn DEF Inv
  <2>3. UNCHANGED <<captured_notices, waiting, last>>
    BY <2>1 DEF Read
  <2> QED
    BY <2>2, <2>3, RecordsStay DEF Inv, Types
<1>2. CASE \E h \in Handle : BeginReading(h)
  <2>1. PICK h \in Handle :
          /\ reader' = [handle |-> h, next |-> 1, index |-> 0, offset |-> 0,
                        state |-> "reading"]
          /\ last' = NoCall
          /\ UNCHANGED <<diagnostics, captured_notices, waiting>>
    BY <1>2 DEF BeginReading
  <2>2. /\ NoCall \in [handle : Handle, answer : Answers]
        /\ reader' \in [handle : Handle, next : Nat, index : Nat, offset : Nat, state : States]
    BY <2>1 DEF NoCall, Answers, States, Handle
  <2>3. Position' /\ MessagesReassemble'
    BY <2>1 DEF Position, MessagesReassemble
  <2> QED
    BY <2>1, <2>2, <2>3, RecordsStay DEF Inv, Types
<1>3. CASE \E h \in Handle, buffer_length \in BufferLengths : Peek(h, 2, buffer_length)
  <2>1. PICK h \in Handle, buffer_length \in BufferLengths : Peek(h, 2, buffer_length)
    BY <1>3
  <2> DEFINE list == diagnostics[h]
             c == ChunkSize(list, 2, buffer_length)
             other == [list EXCEPT !.paging_chunk_size = c]
  <2>2. /\ diagnostics \in [Handle -> Records] /\ list \in Records
        /\ reader \in [handle : Handle, next : Nat, index : Nat, offset : Nat, state : States]
        /\ reader.handle = h /\ buffer_length \in Nat
        /\ UNCHANGED <<captured_notices, waiting, last, reader>>
        /\ diagnostics' = [diagnostics EXCEPT ![h] = other]
    BY <2>1, DiagnosticsAssumption DEF Inv, Types, Peek, AgreeOn
  <2>3. /\ c \in Nat
        /\ list.paging_chunk_size # 0 => c = list.paging_chunk_size
    BY <2>2, ChunkAgreed
  <2> HIDE DEF c
  <2>4. /\ other \in Records /\ other.records = list.records /\ other.paging_chunk_size = c
        /\ \A b, next, index, offset :
             At(list, b, next, index, offset) => At(other, b, next, index, offset)
    BY <2>2, <2>3, Repaged
  <2> HIDE DEF other
  <2>5. /\ diagnostics' \in [Handle -> Records] /\ diagnostics'[h] = other
        /\ \A x \in Handle : diagnostics'[x].records = diagnostics[x].records
    BY <2>2, <2>4
  <2>6. Position' /\ MessagesReassemble'
    BY <2>2, <2>3, <2>4, <2>5 DEF Inv, Position, MessagesReassemble
  <2> QED
    BY <2>2, <2>5, <2>6, RecordsStay DEF Inv, Types
<1> QED
  BY <1>1, <1>2, <1>3

\* The inductive invariant: in what a handle has, in what is captured for a statement that
\* waits, and in where a reader stands.
THEOREM DiagnosticsInvariance == Spec => []Inv
<1>1. Init => Inv
  BY NothingYet
<1>2. ASSUME Inv, [Next]_vars PROVE Inv'
  <2>1. CASE UNCHANGED vars
    <3>1. UNCHANGED <<diagnostics, captured_notices, waiting, last, reader>>
      BY <2>1 DEF vars
    <3>2. Types' /\ Waits' /\ Own'
      BY <1>2, <3>1 DEF Inv, Types, Waits, Own
    <3>3. Position' /\ MessagesReassemble'
      BY <1>2, <3>1 DEF Inv, Position, MessagesReassemble
    <3>4. Recorded => ErrorIsReported'
      BY <1>2, <3>1 DEF Inv, ErrorIsReported
    <3> QED
      BY <3>2, <3>3, <3>4 DEF Inv, Recorded
  <2>2. CASE Call
    BY <1>2, <2>2, EveryCall, CallKeeps DEF Inv
  <2>3. CASE \/ \E h \in Handle : BeginReading(h)
             \/ \E buffer_length \in BufferLengths : Read(buffer_length)
             \/ \E h \in Handle, buffer_length \in BufferLengths : Peek(h, 2, buffer_length)
    BY <1>2, <2>3, ReadingKeeps
  <2> QED
    BY <1>2, <2>1, <2>2, <2>3 DEF Next, Call
<1> QED
  BY <1>1, <1>2, PTL DEF Spec

\* As long as no other statement runs while one waits for data, the notices among the records
\* of a statement are those its own last execution raised (connection.c:170-180,
\* statement.c:331-388).
THEOREM NoticesOwn == ASSUME ~Interleaved PROVE Spec => []NoticesAreOwn
<1>1. ASSUME Inv PROVE NoticesAreOwn
  <2> SUFFICES ASSUME NEW s \in Statement, NEW i \in DOMAIN diagnostics[s].records,
                      diagnostics[s].records[i].of \in Handle
               PROVE  /\ diagnostics[s].records[i].of = s
                      /\ diagnostics[s].records[i].recent
    BY DEF NoticesAreOwn
  <2>1. diagnostics[s].records \in Seq(OwnRecord(s))
    BY <1>1 DEF Inv, Own
  <2>2. diagnostics[s].records[i] \in OwnRecord(s)
    BY <2>1, ElementOfSeq, LenProperties
  <2> QED
    BY <2>2 DEF OwnRecord
<1> QED
  BY <1>1, DiagnosticsInvariance, PTL

\* As long as every failing command has a result and cursors are returned only inside a
\* transaction, record 1 after an error of a call on a statement or a connection is that
\* error, and no notice of the call stands before it (diagnostics.c:38-71,
\* statement.c:389-443).
THEOREM ErrorFirst ==
  ASSUME ~Resultless, ~CursorsOutside
  PROVE  Spec => []ErrorIsReported
<1>1. Inv => ErrorIsReported
  BY DEF Inv, Recorded
<1> QED
  BY <1>1, DiagnosticsInvariance, PTL

\* Whoever reads the record numbers in order, in buffers of any lengths and with others
\* looking at later records in between, has read every message once and whole when there are
\* no more records, for messages of any length (odbc_api.c:712-819).
THEOREM MessagesWhole == Spec => []MessagesReassemble
<1>1. Inv => MessagesReassemble
  BY DEF Inv
<1> QED
  BY <1>1, DiagnosticsInvariance, PTL

=============================================================================
