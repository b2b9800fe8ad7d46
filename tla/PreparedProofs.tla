---------------------------- MODULE PreparedProofs ----------------------------
(***************************************************************************)
(* What the application that looks after its statements may rely on, for    *)
(* any number of statements and texts and however often the link is lost:   *)
(* each statement runs its own text and reports its own error, and the      *)
(* names the server keeps are the ones they hold.                           *)
(***************************************************************************)
EXTENDS PreparedStatements, TLAPS

StatementRecords ==
  [is_prepared : BOOLEAN, prepared_name : Nat,
   deferred_prepare_error : Text \union {None}, sql_text : Text \union {None}]

Sessions ==
  [prepared : [Names -> Text \union {None}], unnamed : Text \union {None},
   block : {"none", "open", "aborted"}]

Types ==
  /\ statement \in [Statement -> StatementRecords]
  /\ next_statement_id \in Nat
  /\ link \in {"down", "up", "lost"}
  /\ session \in Sessions
  /\ meant \in [Statement -> Text \union {None}]

Holds(s, n) == HoldsName(s) /\ statement[s].prepared_name = n

\* Names are handed out once: a name held is one of those, and held by one statement.
NamesAreGiven ==
  /\ \A s \in Statement : HoldsName(s) => statement[s].prepared_name \in 1 .. next_statement_id
  /\ next_statement_id \in 0 .. MaxNames
  /\ \A s, t \in Statement :
       /\ HoldsName(s) /\ HoldsName(t)
       /\ statement[s].prepared_name = statement[t].prepared_name
       => s = t

\* While the link stands, what a statement holds is there under its name, and nothing else is.
ServerAgrees ==
  link = "up" =>
    /\ \A s \in Statement : HoldsName(s) => /\ meant[s] # None
                                            /\ session.prepared[statement[s].prepared_name] = meant[s]
    /\ \A n \in Names : session.prepared[n] # None => \E s \in Statement : Holds(s, n)
    /\ \A s \in Statement : statement[s].is_prepared => statement[s].sql_text = meant[s]

\* A deferred error is that of the text prepared last.
ErrorsAgree ==
  \A s \in Statement : /\ statement[s].is_prepared
                       /\ statement[s].deferred_prepare_error # None
                       => statement[s].deferred_prepare_error = meant[s]

\* Statements are not prepared across a SQLDisconnect.
NoneWhileDown == link = "down" => \A s \in Statement : ~statement[s].is_prepared

Inv ==
  /\ Types /\ NamesAreGiven /\ ServerAgrees /\ ErrorsAgree /\ NoneWhileDown
  /\ RunsItsOwnText /\ ReportsItsOwnError

----------------------------------------------------------------------------
(* The server                                                              *)

\* Commands that leave the prepared names alone.
LEMMA OpeningsKeep ==
  ASSUME NEW server \in Sessions, NEW after \in Openings(server)
  PROVE  after \in Sessions /\ after.prepared = server.prepared
<1>1. CASE after = server
  BY <1>1
<1>2. ASSUME NEW b \in {"none", "open", "aborted"},
             after = [DropUnnamed(server) EXCEPT !.block = b]
      PROVE  after \in Sessions /\ after.prepared = server.prepared
  BY <1>2 DEF Sessions, DropUnnamed
<1>3. server.block \in {"none", "open", "aborted"}
  BY DEF Sessions
<1> QED
  BY <1>1, <1>2, <1>3 DEF Openings

\* A command sent without a name leaves the names alone.
LEMMA ParsedKeeps ==
  ASSUME NEW server \in Sessions, NEW text \in Text \union {None},
         NEW after \in Parsed(server, text)
  PROVE  after \in Sessions /\ after.prepared = server.prepared
BY DEF Sessions, Parsed

\* So does the recovery after an error.
LEMMA RecoveredKeeps ==
  ASSUME NEW server \in Sessions, NEW after \in Recovered(server)
  PROVE  after \in Sessions /\ after.prepared = server.prepared
BY DEF Sessions, Recovered

\* So does describing the first of several commands, whose name is given back.
LEMMA DescribedKeeps ==
  ASSUME NEW server \in Sessions, NEW after \in DescribedFirst(server)
  PROVE  after \in Sessions /\ after.prepared = server.prepared
BY DEF Sessions, DescribedFirst, DropUnnamed, Aborted

\* A name that is held is one the connection has handed out.
LEMMA HeldIsName ==
  ASSUME Inv, NEW s \in Statement, HoldsName(s)
  PROVE  statement[s].prepared_name \in Names
BY PreparedAssumption DEF Inv, Types, NamesAreGiven, Names

\* Outside an aborted block the name a statement gives up is gone, and no other.
LEMMA DeallocatedGives ==
  ASSUME Inv, NEW s \in Statement, HoldsName(s) => session.block # "aborted"
  PROVE  /\ Deallocated(s, session) \in Sessions
         /\ link = "up" =>
              \A n \in Names : Deallocated(s, session).prepared[n]
                               = IF Holds(s, n) THEN None ELSE session.prepared[n]
<1> DEFINE name == statement[s].prepared_name
           server == Deallocated(s, session)
<1>1. session \in Sessions /\ (HoldsName(s) => name \in Names)
  BY PreparedAssumption DEF Inv, Types, NamesAreGiven, Names
<1>2. CASE ~(HoldsName(s) /\ link # "down")
  BY <1>1, <1>2 DEF Deallocated, HoldsName, Holds
<1>3. CASE HoldsName(s) /\ link # "down"
  <2>1. server = DeallocateName(session, name)
    BY <1>3 DEF Deallocated, HoldsName
  <2>2. server \in Sessions
    BY <2>1, <1>1, <1>3 DEF DeallocateName, DropUnnamed, Aborted, Sessions, Works
  <2>3. ASSUME link = "up", NEW n \in Names
        PROVE  server.prepared[n] = IF Holds(s, n) THEN None ELSE session.prepared[n]
    <3>1. Works(session.block)
      BY <2>3, <1>3 DEF Works
    <3>2. CASE session.prepared[name] = None
      BY <2>1, <3>1, <3>2, <1>1, <1>3 DEF DeallocateName, DropUnnamed, Sessions, Holds
    <3>3. CASE session.prepared[name] # None
      BY <2>1, <3>1, <3>3, <1>1, <1>3 DEF DeallocateName, DropUnnamed, Sessions, Holds
    <3> QED
      BY <3>2, <3>3
  <2> QED
    BY <2>2, <2>3
<1> QED
  BY <1>2, <1>3

----------------------------------------------------------------------------
(* The calls                                                               *)

\* Preparing: what the statement held is given back and the new name is its own.
LEMMA PrepareKeeps ==
  ASSUME Careful, Inv, NEW s \in Statement, NEW text \in Text \union {None}, Prepare(s, text)
  PROVE  Inv'
<1> DEFINE server == Deallocated(s, session)
           name == next_statement_id + 1
<1>1. /\ HoldsName(s) => session.block # "aborted"
      /\ statement[s].is_prepared => text # None
      /\ statement[s].deferred_prepare_error # None => text \notin Lazy
      /\ link # "down" /\ name \in Names /\ link' = link
      /\ ran' = Nothing /\ reported' = Nothing
  BY DEF Prepare, CarefulCall
<1>2. /\ server \in Sessions
      /\ link = "up" => \A n \in Names : server.prepared[n]
                          = IF Holds(s, n) THEN None ELSE session.prepared[n]
  BY <1>1, DeallocatedGives
<1>3. RunsItsOwnText' /\ ReportsItsOwnError' /\ NoneWhileDown'
  BY <1>1 DEF RunsItsOwnText, ReportsItsOwnError, NoneWhileDown, Nothing
<1> HIDE DEF server
<1>4. CASE text = None /\ session' = server /\ UNCHANGED <<statement, next_statement_id, meant>>
  <2>1. ~HoldsName(s)
    BY <1>1, <1>4 DEF HoldsName
  <2>2. \A t \in Statement, n \in Names : Holds(t, n)' = Holds(t, n) /\ HoldsName(t)' = HoldsName(t)
    BY <1>4 DEF Holds, HoldsName
  <2>3. link = "up" => session'.prepared = session.prepared
    BY <1>2, <1>4, <2>1 DEF Holds, Inv, Types, Sessions
  <2> QED
    BY <1>1, <1>2, <1>3, <1>4, <2>2, <2>3 DEF Inv, Types, NamesAreGiven, ServerAgrees, ErrorsAgree, HoldsName
<1>5. CASE /\ text \in Lazy
           /\ session' \in Sessions /\ session'.prepared = server.prepared
           /\ statement' = [statement EXCEPT ![s] = PreparedLazily(s, text)]
           /\ meant' = [meant EXCEPT ![s] = text]
           /\ next_statement_id' \in {next_statement_id, name}
  <2>1. PreparedLazily(s, text) \in StatementRecords
    BY <1>5 DEF Inv, Types, PreparedLazily, StatementRecords, unnamed, Lazy, Text
  <2>2. Types'
    BY <1>1, <1>5, <2>1 DEF Inv, Types, Lazy, Text
  <2>3. /\ statement'[s] = PreparedLazily(s, text) /\ meant'[s] = text
        /\ \A t \in Statement \ {s} : statement'[t] = statement[t] /\ meant'[t] = meant[t]
    BY <1>5 DEF Inv, Types
  <2>4. /\ statement'[s].sql_text = text /\ ~HoldsName(s)'
        /\ statement'[s].deferred_prepare_error = None
    BY <1>1, <1>5, <2>3 DEF PreparedLazily, HoldsName, Inv, Types, StatementRecords
  <2>5. \A t \in Statement \ {s} : HoldsName(t)' = HoldsName(t)
    BY <2>3 DEF HoldsName
  <2>6. NamesAreGiven'
    BY <1>1, <1>5, <2>3, <2>4, <2>5 DEF Inv, NamesAreGiven, Names, Types
  <2>7. ErrorsAgree'
    BY <2>3, <2>4 DEF Inv, ErrorsAgree
  <2>8. ServerAgrees'
    <3> SUFFICES ASSUME link' = "up" PROVE ServerAgrees'
      BY DEF ServerAgrees
    <3>1. \A n \in Names : session'.prepared[n] = IF Holds(s, n) THEN None ELSE session.prepared[n]
      BY <1>1, <1>2, <1>5
    <3>2. ASSUME NEW t \in Statement, HoldsName(t)'
          PROVE  meant'[t] # None /\ session'.prepared[statement'[t].prepared_name] = meant'[t]
      <4>1. t # s /\ HoldsName(t)
        BY <3>2, <2>4, <2>5
      <4>2. statement[t].prepared_name \in Names /\ ~Holds(s, statement[t].prepared_name)
        BY <4>1, HeldIsName DEF Inv, NamesAreGiven, Holds
      <4> QED
        BY <4>1, <4>2, <3>1, <1>1, <2>3 DEF Inv, ServerAgrees
    <3>3. ASSUME NEW n \in Names, session'.prepared[n] # None
          PROVE  \E t \in Statement : Holds(t, n)'
      BY <3>1, <3>3, <1>1, <2>3, <2>4, <2>5 DEF Inv, ServerAgrees, Holds
    <3>4. \A t \in Statement : statement'[t].is_prepared => statement'[t].sql_text = meant'[t]
      BY <1>1, <2>3, <2>4 DEF Inv, ServerAgrees
    <3> QED
      BY <3>2, <3>3, <3>4 DEF ServerAgrees
  <2> QED
    BY <1>3, <2>2, <2>6, <2>7, <2>8 DEF Inv
<1>6. CASE /\ text \in Single \union Broken
           /\ session' = PrepareName(server, name, text)
           /\ statement' = [statement EXCEPT ![s] =
                IF PreparesWell(text, server) THEN PreparedWell(s, name, text)
                ELSE PreparedBadly(s, text)]
           /\ meant' = [meant EXCEPT ![s] = text]
           /\ next_statement_id' = name
  <2> name \in Nat /\ name # unnamed
    BY DEF Inv, Types, unnamed
  <2> HIDE DEF name
  <2>1. /\ PreparedWell(s, name, text) \in StatementRecords
        /\ PreparedBadly(s, text) \in StatementRecords
    <3>1. statement[s] \in StatementRecords /\ text \in Text
      BY <1>6 DEF Inv, Types, Text
    <3> QED
      BY <3>1 DEF PreparedWell, PreparedBadly, StatementRecords, unnamed
  <2>2. /\ meant'[s] = text /\ text # None
        /\ statement'[s] = IF PreparesWell(text, server) THEN PreparedWell(s, name, text)
                           ELSE PreparedBadly(s, text)
        /\ \A t \in Statement \ {s} : statement'[t] = statement[t] /\ meant'[t] = meant[t]
    BY <1>6, PreparedAssumption DEF Inv, Types
  <2>3. session' \in Sessions
    BY <1>1, <1>2, <1>6 DEF PrepareName, Sessions, Aborted, Text
  <2>4. Types'
    BY <1>1, <1>6, <2>1, <2>3 DEF Inv, Types, Text
  <2>5. /\ statement'[s].sql_text = text
        /\ HoldsName(s)' <=> PreparesWell(text, server)
        /\ HoldsName(s)' => statement'[s].prepared_name = name
        /\ statement'[s].deferred_prepare_error \in {None, text}
    <3>1. statement[s] \in StatementRecords
      BY DEF Inv, Types
    <3>2. CASE PreparesWell(text, server)
      <4>1. statement'[s] = PreparedWell(s, name, text)
        BY <2>2, <3>2
      <4>2. /\ statement'[s].is_prepared /\ statement'[s].prepared_name = name
            /\ statement'[s].sql_text = text /\ statement'[s].deferred_prepare_error = None
        BY <4>1, <3>1 DEF PreparedWell, StatementRecords
      <4> QED
        BY <4>2, <3>2 DEF HoldsName, unnamed
    <3>3. CASE ~PreparesWell(text, server)
      <4>1. statement'[s] = PreparedBadly(s, text)
        BY <2>2, <3>3
      <4>2. /\ statement'[s].prepared_name = unnamed
            /\ statement'[s].sql_text = text /\ statement'[s].deferred_prepare_error = text
        BY <4>1, <3>1 DEF PreparedBadly, StatementRecords
      <4> QED
        BY <4>2, <3>3 DEF HoldsName, unnamed
    <3> QED
      BY <3>2, <3>3
  <2>6. \A t \in Statement \ {s} : HoldsName(t)' = HoldsName(t)
    BY <2>2 DEF HoldsName
  <2>7. NamesAreGiven'
    BY <1>1, <1>6, <2>2, <2>5, <2>6 DEF Inv, NamesAreGiven, Names, Types, name
  <2>8. ErrorsAgree'
    BY <2>2, <2>5 DEF Inv, ErrorsAgree
  <2>9. ServerAgrees'
    <3> SUFFICES ASSUME link' = "up" PROVE ServerAgrees'
      BY DEF ServerAgrees
    <3>1. \A n \in Names \ {name} :
             session'.prepared[n] = IF Holds(s, n) THEN None ELSE session.prepared[n]
      BY <1>1, <1>2, <1>6 DEF PrepareName, Sessions
    <3>2. session'.prepared[name] = IF PreparesWell(text, server) THEN text ELSE None
      <4>1. \A t \in Statement : ~Holds(t, name)
        BY <1>1 DEF Inv, NamesAreGiven, Holds, Types, StatementRecords, name
      <4>2. server.prepared[name] = None
        BY <1>1, <1>2, <4>1 DEF Inv, ServerAgrees
      <4> QED
        BY <1>1, <1>2, <1>6, <4>2 DEF PrepareName, Sessions
    <3>3. ASSUME NEW t \in Statement, HoldsName(t)'
          PROVE  meant'[t] # None /\ session'.prepared[statement'[t].prepared_name] = meant'[t]
      <4>1. CASE t = s
        BY <4>1, <3>2, <3>3, <2>2, <2>5
      <4>2. CASE t # s
        <5>1. HoldsName(t)
          BY <4>2, <3>3, <2>6
        <5>2. /\ statement[t].prepared_name \in Names \ {name}
              /\ ~Holds(s, statement[t].prepared_name)
          BY <4>2, <5>1, HeldIsName DEF Inv, NamesAreGiven, Holds, Types, name
        <5> QED
          BY <4>2, <5>1, <5>2, <3>1, <1>1, <2>2 DEF Inv, ServerAgrees
      <4> QED
        BY <4>1, <4>2
    <3>4. ASSUME NEW n \in Names, session'.prepared[n] # None
          PROVE  \E t \in Statement : Holds(t, n)'
      <4>1. CASE n = name
        BY <4>1, <3>2, <3>4, <2>5 DEF Holds
      <4>2. CASE n # name
        BY <4>2, <3>1, <3>4, <1>1, <2>2, <2>6 DEF Inv, ServerAgrees, Holds
      <4> QED
        BY <4>1, <4>2
    <3>5. \A t \in Statement : statement'[t].is_prepared => statement'[t].sql_text = meant'[t]
      BY <1>1, <2>2, <2>5 DEF Inv, ServerAgrees
    <3> QED
      BY <3>3, <3>4, <3>5 DEF ServerAgrees
  <2> QED
    BY <1>3, <2>4, <2>7, <2>8, <2>9 DEF Inv
<1>7. CASE /\ text \in Call
           /\ session' = server
           /\ statement' = [statement EXCEPT ![s] = PreparedLazily(s, text)]
           /\ meant' = [meant EXCEPT ![s] = text]
           /\ UNCHANGED next_statement_id
  BY <1>2, <1>5, <1>7 DEF Lazy
<1>8. CASE /\ text \in Several
           /\ session' \in DescribedFirst(server)
           /\ statement' = [statement EXCEPT ![s] = PreparedLazily(s, text)]
           /\ meant' = [meant EXCEPT ![s] = text]
           /\ next_statement_id' = name
  BY <1>2, <1>5, <1>8, DescribedKeeps DEF Lazy
<1> QED
  BY <1>4, <1>6, <1>7, <1>8 DEF Prepare, server

\* The deferred error reported is the statement's own.
LEMMA ReportKeeps ==
  ASSUME Inv, NEW s \in Statement, ReportDeferred(s)
  PROVE  Inv'
<1>1. /\ statement' = [statement EXCEPT ![s].deferred_prepare_error = None]
      /\ UNCHANGED <<next_statement_id, link, session, meant>>
      /\ link # "down"
  BY DEF ReportDeferred
<1>2. Types'
  BY <1>1 DEF Inv, Types, StatementRecords
<1>3. \A t \in Statement :
         /\ statement'[t].is_prepared = statement[t].is_prepared
         /\ statement'[t].prepared_name = statement[t].prepared_name
         /\ statement'[t].sql_text = statement[t].sql_text
         /\ HoldsName(t)' = HoldsName(t)
         /\ statement'[t].deferred_prepare_error \in {None, statement[t].deferred_prepare_error}
  BY <1>1 DEF Inv, Types, StatementRecords, HoldsName
<1>4. NamesAreGiven' /\ ErrorsAgree' /\ NoneWhileDown'
  BY <1>1, <1>3 DEF Inv, NamesAreGiven, ErrorsAgree, NoneWhileDown
<1>5. ServerAgrees'
  BY <1>1, <1>3 DEF Inv, ServerAgrees, Holds
<1>6. RunsItsOwnText' /\ ReportsItsOwnError'
  BY DEF ReportDeferred, RunsItsOwnText, ReportsItsOwnError, Nothing, Inv, ErrorsAgree
<1> QED
  BY <1>2, <1>4, <1>5, <1>6 DEF Inv

\* What the statements hold stays the same, and so do the names the server keeps.
LEMMA SameNamesKeep ==
  ASSUME Inv, session' \in Sessions, session'.prepared = session.prepared,
         UNCHANGED <<statement, next_statement_id, link, meant>>
  PROVE  /\ Types' /\ NamesAreGiven' /\ ServerAgrees' /\ ErrorsAgree' /\ NoneWhileDown'
<1>1. \A t \in Statement : HoldsName(t)' = HoldsName(t)
  BY DEF HoldsName
<1>2. Types' /\ NamesAreGiven' /\ ErrorsAgree' /\ NoneWhileDown'
  BY <1>1 DEF Inv, Types, NamesAreGiven, ErrorsAgree, NoneWhileDown
<1>3. ServerAgrees'
  BY <1>1 DEF Inv, ServerAgrees, Holds
<1> QED
  BY <1>2, <1>3

\* What runs is found under the statement's own name, or is its text sent again.
LEMMA ExecuteKeeps ==
  ASSUME Careful, Inv, NEW s \in Statement, Execute(s)
  PROVE  Inv'
<1>1. /\ statement[s].is_prepared /\ statement[s].deferred_prepare_error = None
      /\ ~SpentError(s)
      /\ reported' = Nothing
      /\ UNCHANGED <<statement, next_statement_id, link, meant>>
  BY DEF Execute
<1>2. PICK opened \in Openings(session) :
        LET found == Found(s, opened)
            sent  == IF found \in Lazy THEN Parsed(opened, found) ELSE {opened}
        IN  \/ /\ Works(opened.block) /\ found # None
               /\ session' \in sent
               /\ ran' = [text |-> found, own |-> meant[s]]
            \/ /\ session' \in UNION {Recovered(server) : server \in sent}
               /\ ran' = Nothing
  BY DEF Execute
<1> DEFINE found == Found(s, opened)
           sent == IF found \in Lazy THEN Parsed(opened, found) ELSE {opened}
<1>3. opened \in Sessions /\ opened.prepared = session.prepared
  BY OpeningsKeep DEF Inv, Types
<1>4. \A after \in sent : after \in Sessions /\ after.prepared = session.prepared
  <2>1. found \in Lazy => found \in Text \union {None}
    BY DEF Lazy, Text
  <2> HIDE DEF found
  <2> QED
    BY <1>3, <2>1, ParsedKeeps
<1> HIDE DEF sent
<1>5. session' \in Sessions /\ session'.prepared = session.prepared
  BY <1>2, <1>4, RecoveredKeeps DEF sent
<1>6. RunsItsOwnText'
  <2>1. CASE ran' = Nothing
    BY <2>1 DEF RunsItsOwnText, Nothing
  <2>2. CASE Works(opened.block) /\ ran' = [text |-> found, own |-> meant[s]]
    <3>1. link = "up"
      BY <2>2 DEF Works
    <3>2. statement[s].sql_text = meant[s]
      BY <1>1, <3>1 DEF Inv, ServerAgrees
    <3>3. CASE statement[s].sql_text \in Lazy
      BY <2>2, <3>2, <3>3 DEF Found, RunsItsOwnText
    <3>4. CASE statement[s].sql_text \notin Lazy
      <4>1. HoldsName(s)
        BY <1>1, <3>4 DEF SpentError, HoldsName
      <4>2. found = session.prepared[statement[s].prepared_name]
        BY <1>3, <3>4, <4>1 DEF Found, HoldsName
      <4>3. found = meant[s]
        BY <3>1, <4>1, <4>2 DEF Inv, ServerAgrees
      <4> QED
        BY <2>2, <4>3 DEF RunsItsOwnText
    <3> QED
      BY <3>3, <3>4
  <2> QED
    BY <1>2, <2>1, <2>2
<1>7. ReportsItsOwnError'
  BY <1>1 DEF ReportsItsOwnError, Nothing
<1> QED
  BY <1>1, <1>5, <1>6, <1>7, SameNamesKeep DEF Inv

\* A statement that holds nothing any more, when the server has let its name go.
LEMMA ReleasedKeeps ==
  ASSUME Inv, NEW s \in Statement, NEW server \in Sessions, NEW record \in StatementRecords,
         link # "down",
         link = "up" => \A n \in Names : server.prepared[n]
                          = IF Holds(s, n) THEN None ELSE session.prepared[n],
         ~record.is_prepared,
         session' \in Sessions, session'.prepared = server.prepared,
         statement' = [statement EXCEPT ![s] = record],
         meant' = [meant EXCEPT ![s] = None],
         UNCHANGED <<next_statement_id, link>>,
         ran' = Nothing, reported' = Nothing
  PROVE  Inv'
<1>1. Types'
  BY DEF Inv, Types
<1>2. /\ statement'[s] = record /\ ~HoldsName(s)'
      /\ \A t \in Statement \ {s} : /\ statement'[t] = statement[t] /\ meant'[t] = meant[t]
                                    /\ HoldsName(t)' = HoldsName(t)
  BY DEF Inv, Types, HoldsName
<1>3. NamesAreGiven' /\ ErrorsAgree' /\ NoneWhileDown'
  BY <1>2 DEF Inv, NamesAreGiven, ErrorsAgree, NoneWhileDown
<1>4. ServerAgrees'
  <2> SUFFICES ASSUME link' = "up" PROVE ServerAgrees'
    BY DEF ServerAgrees
  <2>1. \A n \in Names : session'.prepared[n] = IF Holds(s, n) THEN None ELSE session.prepared[n]
    OBVIOUS
  <2>2. ASSUME NEW t \in Statement, HoldsName(t)'
        PROVE  meant'[t] # None /\ session'.prepared[statement'[t].prepared_name] = meant'[t]
    <3>1. t # s /\ HoldsName(t)
      BY <1>2, <2>2
    <3>2. statement[t].prepared_name \in Names /\ ~Holds(s, statement[t].prepared_name)
      BY <3>1, HeldIsName DEF Inv, NamesAreGiven, Holds
    <3> QED
      BY <1>2, <2>1, <3>1, <3>2 DEF Inv, ServerAgrees
  <2>3. ASSUME NEW n \in Names, session'.prepared[n] # None
        PROVE  \E t \in Statement : Holds(t, n)'
    BY <1>2, <2>1, <2>3 DEF Inv, ServerAgrees, Holds
  <2>4. \A t \in Statement : statement'[t].is_prepared => statement'[t].sql_text = meant'[t]
    BY <1>2 DEF Inv, ServerAgrees
  <2> QED
    BY <2>2, <2>3, <2>4 DEF ServerAgrees
<1>5. RunsItsOwnText' /\ ReportsItsOwnError'
  BY DEF RunsItsOwnText, ReportsItsOwnError, Nothing
<1> QED
  BY <1>1, <1>3, <1>4, <1>5 DEF Inv

\* Direct execution: where the text is sent the statement is prepared no more, and where
\* it is not, it held nothing or the link is gone.
LEMMA ExecDirectKeeps ==
  ASSUME Careful, Inv, NEW s \in Statement, NEW text \in Text \union {None}, ExecDirect(s, text)
  PROVE  Inv'
<1> DEFINE server == Deallocated(s, session)
<1>1. /\ HoldsName(s) => session.block # "aborted"
      /\ statement[s].is_prepared => text # None
      /\ link # "down"
      /\ ran' = Nothing /\ reported' = Nothing
      /\ UNCHANGED <<next_statement_id, link>>
  BY DEF ExecDirect, CarefulCall
<1>2. /\ server \in Sessions
      /\ link = "up" => \A n \in Names : server.prepared[n]
                          = IF Holds(s, n) THEN None ELSE session.prepared[n]
  BY <1>1, DeallocatedGives
<1> HIDE DEF server
<1>3. CASE /\ text = None \/ link = "lost"
           /\ session' = server
           /\ statement' = [statement EXCEPT ![s] = Unsent(s, text)]
           /\ UNCHANGED meant
  <2>0. /\ Unsent(s, text) \in StatementRecords
        /\ Unsent(s, text).is_prepared = statement[s].is_prepared
        /\ Unsent(s, text).prepared_name = statement[s].prepared_name
        /\ Unsent(s, text).deferred_prepare_error = None
        /\ text = None => Unsent(s, text).sql_text = statement[s].sql_text
    <3>1. statement[s] \in StatementRecords
      BY DEF Inv, Types
    <3> QED
      BY <3>1 DEF Unsent, StatementRecords
  <2>1. Types'
    BY <1>1, <1>2, <1>3, <2>0 DEF Inv, Types
  <2>2. \A t \in Statement :
           /\ statement'[t].is_prepared = statement[t].is_prepared
           /\ statement'[t].prepared_name = statement[t].prepared_name
           /\ statement'[t].deferred_prepare_error \in {None, statement[t].deferred_prepare_error}
           /\ HoldsName(t)' = HoldsName(t)
    BY <1>3, <2>0 DEF Inv, Types, HoldsName
  <2>3. NamesAreGiven' /\ ErrorsAgree' /\ NoneWhileDown'
    BY <1>1, <1>3, <2>2 DEF Inv, NamesAreGiven, ErrorsAgree, NoneWhileDown
  <2>4. ServerAgrees'
    <3> SUFFICES ASSUME link' = "up" PROVE ServerAgrees'
      BY DEF ServerAgrees
    <3>1. text = None /\ ~statement[s].is_prepared
      BY <1>1, <1>3
    <3>2. \A t \in Statement : statement'[t].sql_text = statement[t].sql_text
      BY <1>3, <2>0, <3>1 DEF Inv, Types
    <3>3. \A n \in Names : session'.prepared[n] = session.prepared[n]
      BY <1>1, <1>2, <1>3, <3>1 DEF Holds, HoldsName
    <3>4. ASSUME NEW t \in Statement, HoldsName(t)'
          PROVE  meant'[t] # None /\ session'.prepared[statement'[t].prepared_name] = meant'[t]
      BY <1>1, <1>3, <2>2, <3>3, <3>4, HeldIsName DEF Inv, ServerAgrees
    <3>5. ASSUME NEW n \in Names, session'.prepared[n] # None
          PROVE  \E t \in Statement : Holds(t, n)'
      BY <1>1, <2>2, <3>3, <3>5 DEF Inv, ServerAgrees, Holds
    <3>6. \A t \in Statement : statement'[t].is_prepared => statement'[t].sql_text = meant'[t]
      BY <1>1, <1>3, <2>2, <3>2 DEF Inv, ServerAgrees
    <3> QED
      BY <3>4, <3>5, <3>6 DEF ServerAgrees
  <2>5. RunsItsOwnText' /\ ReportsItsOwnError'
    BY <1>1 DEF RunsItsOwnText, ReportsItsOwnError, Nothing
  <2> QED
    BY <2>1, <2>3, <2>4, <2>5 DEF Inv
<1>4. CASE /\ text # None
           /\ \E opened \in Openings(server) :
                LET sent == Parsed(opened, text)
                IN  \/ PreparesWell(text, opened) /\ session' \in sent
                    \/ session' \in UNION {Recovered(after) : after \in sent}
           /\ statement' = [statement EXCEPT ![s] = PreparedNoMore(s, text)]
           /\ meant' = [meant EXCEPT ![s] = None]
  <2>1. PICK opened \in Openings(server) :
          \/ session' \in Parsed(opened, text)
          \/ session' \in UNION {Recovered(after) : after \in Parsed(opened, text)}
    BY <1>4
  <2>2. opened \in Sessions /\ opened.prepared = server.prepared
    BY <1>2, OpeningsKeep
  <2>3. session' \in Sessions /\ session'.prepared = server.prepared
    BY <2>1, <2>2, ParsedKeeps, RecoveredKeeps
  <2>4. PreparedNoMore(s, text) \in StatementRecords /\ ~PreparedNoMore(s, text).is_prepared
    BY DEF Inv, Types, PreparedNoMore, StatementRecords, unnamed
  <2> QED
    BY <1>1, <1>2, <1>4, <2>3, <2>4, ReleasedKeeps
<1> QED
  BY <1>3, <1>4 DEF ExecDirect, server

\* A careful application calls a catalog function on a statement that holds no name.
LEMMA CatalogKeeps ==
  ASSUME Careful, Inv, NEW s \in Statement, Catalog(s)
  PROVE  Inv'
<1>1. /\ ~HoldsName(s) /\ link # "down"
      /\ ran' = Nothing /\ reported' = Nothing
      /\ UNCHANGED <<next_statement_id, link>>
  BY DEF Catalog
<1>2. session \in Sessions
  BY DEF Inv, Types
<1>3. CASE /\ session' = DropUnnamed(session)
           /\ statement' = [statement EXCEPT ![s].is_prepared = FALSE,
                                             ![s].prepared_name = unnamed]
           /\ meant' = [meant EXCEPT ![s] = None]
  <2> DEFINE record == [statement[s] EXCEPT !.is_prepared = FALSE, !.prepared_name = unnamed]
  <2>1. record \in StatementRecords /\ ~record.is_prepared
    BY DEF Inv, Types, StatementRecords, unnamed
  <2>2. statement' = [statement EXCEPT ![s] = record]
    BY <1>3 DEF Inv, Types, StatementRecords
  <2>3. session' \in Sessions /\ session'.prepared = session.prepared
    BY <1>2, <1>3 DEF Sessions, DropUnnamed
  <2>4. \A n \in Names : ~Holds(s, n)
    BY <1>1 DEF Holds
  <2> HIDE DEF record
  <2> QED
    BY <1>1, <1>2, <1>3, <2>1, <2>2, <2>3, <2>4, ReleasedKeeps
<1>4. CASE /\ session' = [DropUnnamed(session) EXCEPT !.block = Aborted(@)]
           /\ UNCHANGED <<statement, meant>>
  <2>1. session' \in Sessions /\ session'.prepared = session.prepared
    BY <1>2, <1>4 DEF Sessions, DropUnnamed, Aborted
  <2>2. RunsItsOwnText' /\ ReportsItsOwnError'
    BY <1>1 DEF RunsItsOwnText, ReportsItsOwnError, Nothing
  <2> QED
    BY <1>1, <1>4, <2>1, <2>2, SameNamesKeep DEF Inv
<1> QED
  BY <1>3, <1>4 DEF Catalog

\* A statement that is freed gives its name back first.
LEMMA FreeKeeps ==
  ASSUME Careful, Inv, NEW s \in Statement, Free(s)
  PROVE  Inv'
<1> DEFINE server == Deallocated(s, session)
<1>1. /\ HoldsName(s) => session.block # "aborted"
      /\ session' = server
      /\ statement' = [statement EXCEPT ![s] = Unprepared]
      /\ meant' = [meant EXCEPT ![s] = None]
      /\ ran' = Nothing /\ reported' = Nothing
      /\ UNCHANGED <<next_statement_id, link>>
  BY DEF Free, Freed
<1>2. /\ server \in Sessions
      /\ link = "up" => \A n \in Names : server.prepared[n]
                          = IF Holds(s, n) THEN None ELSE session.prepared[n]
  BY <1>1, DeallocatedGives
<1>3. Unprepared \in StatementRecords /\ ~Unprepared.is_prepared
  BY DEF Unprepared, StatementRecords, unnamed
<1>4. ASSUME link # "down" PROVE Inv'
  BY <1>1, <1>2, <1>3, <1>4, ReleasedKeeps
<1>5. ASSUME link = "down" PROVE Inv'
  <2>1. \A t \in Statement : ~statement'[t].is_prepared
    BY <1>1, <1>3, <1>5 DEF Inv, NoneWhileDown, Types
  <2>2. Types'
    BY <1>1, <1>2, <1>3 DEF Inv, Types
  <2>3. NamesAreGiven' /\ ErrorsAgree' /\ NoneWhileDown' /\ ServerAgrees'
    BY <1>1, <1>5, <2>1 DEF Inv, NamesAreGiven, ErrorsAgree, NoneWhileDown, ServerAgrees, HoldsName
  <2>4. RunsItsOwnText' /\ ReportsItsOwnError'
    BY <1>1 DEF RunsItsOwnText, ReportsItsOwnError, Nothing
  <2> QED
    BY <2>2, <2>3, <2>4 DEF Inv
<1> QED
  BY <1>4, <1>5

----------------------------------------------------------------------------
(* The connection                                                          *)

\* The end of a transaction leaves the names alone.
LEMMA EndTranKeeps ==
  ASSUME Inv, EndTran
  PROVE  Inv'
<1>1. session' \in Sessions /\ session'.prepared = session.prepared
  BY DEF EndTran, Inv, Types, Sessions, DropUnnamed
<1>2. RunsItsOwnText' /\ ReportsItsOwnError'
  BY DEF EndTran, RunsItsOwnText, ReportsItsOwnError, Nothing
<1> QED
  BY <1>1, <1>2, SameNamesKeep DEF EndTran, Inv

\* A new session has no names, and meets no statement that holds one.
LEMMA LinkKeeps ==
  ASSUME Careful, Inv, Connect \/ Lose \/ Disconnect
  PROVE  Inv'
<1>1. /\ session' = FreshSession
      /\ ran' = Nothing /\ reported' = Nothing
      /\ UNCHANGED <<statement, next_statement_id, meant>>
  BY DEF Connect, Lose, Disconnect
<1>2. FreshSession \in Sessions
  BY DEF FreshSession, Sessions
<1>3. \A t \in Statement : HoldsName(t)' = HoldsName(t)
  BY <1>1 DEF HoldsName
<1>4. link' \in {"down", "up", "lost"}
  BY DEF Connect, Lose, Disconnect
<1>5. Types' /\ NamesAreGiven' /\ ErrorsAgree'
  BY <1>1, <1>2, <1>3, <1>4 DEF Inv, Types, NamesAreGiven, ErrorsAgree
<1>6. link' \in {"up", "down"} => \A t \in Statement : ~statement'[t].is_prepared
  BY <1>1 DEF Connect, Lose, Disconnect, Inv, NoneWhileDown
<1>7. NoneWhileDown'
  BY <1>6 DEF NoneWhileDown
<1>8. ServerAgrees'
  BY <1>1, <1>6 DEF ServerAgrees, HoldsName, FreshSession
<1>9. RunsItsOwnText' /\ ReportsItsOwnError'
  BY <1>1 DEF RunsItsOwnText, ReportsItsOwnError, Nothing
<1> QED
  BY <1>5, <1>7, <1>8, <1>9 DEF Inv

----------------------------------------------------------------------------
(* The theorems                                                            *)

\* At first nothing is held.
LEMMA InitGood == ASSUME Init PROVE Inv
<1>1. Types
  BY DEF Init, Types, Unprepared, FreshSession, StatementRecords, Sessions, unnamed
<1>2. \A s \in Statement : ~statement[s].is_prepared
  BY DEF Init, Unprepared
<1>3. next_statement_id \in 0 .. MaxNames
  BY PreparedAssumption DEF Init
<1>4. NamesAreGiven /\ ServerAgrees /\ ErrorsAgree /\ NoneWhileDown
  BY <1>2, <1>3 DEF Init, NamesAreGiven, ServerAgrees, ErrorsAgree, NoneWhileDown, HoldsName
<1>5. RunsItsOwnText /\ ReportsItsOwnError
  BY DEF Init, RunsItsOwnText, ReportsItsOwnError, Nothing
<1> QED
  BY <1>1, <1>4, <1>5 DEF Inv

\* Every call keeps the invariant, and so does every change of the link.
LEMMA StepGood == ASSUME Careful, Inv, [Next]_vars PROVE Inv'
<1>1. CASE UNCHANGED vars
  BY <1>1, SameNamesKeep DEF Inv, Types, vars, RunsItsOwnText, ReportsItsOwnError
<1>2. CASE Next
  BY <1>2, PrepareKeeps, ExecDirectKeeps, ReportKeeps, ExecuteKeeps, CatalogKeeps, FreeKeeps,
     EndTranKeeps, LinkKeeps DEF Next
<1> QED
  BY <1>1, <1>2

\* The inductive invariant: types, names handed out once, and a server that holds under
\* each name what its statement means by it.
THEOREM PreparedInvariance == ASSUME Careful PROVE Spec => []Inv
<1>1. Init => Inv
  BY InitGood
<1>2. Inv /\ [Next]_vars => Inv'
  BY StepGood
<1> QED
  BY <1>1, <1>2, PTL DEF Spec

\* SQLExecute runs the statement's own text (statement.c:1589-1697).
THEOREM OwnText == ASSUME Careful PROVE Spec => []RunsItsOwnText
<1>1. Inv => RunsItsOwnText
  BY DEF Inv
<1> QED
  BY <1>1, PreparedInvariance, PTL

\* SQLExecute reports the error of its own text (statement.c:1200-1215).
THEOREM OwnError == ASSUME Careful PROVE Spec => []ReportsItsOwnError
<1>1. Inv => ReportsItsOwnError
  BY DEF Inv
<1> QED
  BY <1>1, PreparedInvariance, PTL

\* The server keeps the names that are held, and no others (statement.c:445-474).
THEOREM NamesHeld == ASSUME Careful PROVE Spec => []NamesAreHeld
<1>1. ASSUME Inv PROVE NamesAreHeld
  <2> SUFFICES ASSUME link = "up", NEW n \in Names
               PROVE  LET holders == {s \in Statement : Holds(s, n)}
                      IN  IF session.prepared[n] = None THEN holders = {}
                          ELSE \E s \in holders : holders = {s} /\ meant[s] = session.prepared[n]
    BY DEF NamesAreHeld, Holds
  <2>1. CASE session.prepared[n] = None
    BY <1>1, <2>1 DEF Inv, ServerAgrees, Holds
  <2>2. CASE session.prepared[n] # None
    <3>1. PICK s \in Statement : Holds(s, n)
      BY <1>1, <2>2 DEF Inv, ServerAgrees
    <3>2. \A t \in Statement : Holds(t, n) => t = s
      BY <1>1, <3>1 DEF Inv, NamesAreGiven, Holds
    <3>3. meant[s] = session.prepared[n]
      BY <1>1, <3>1 DEF Inv, ServerAgrees, Holds
    <3> QED
      BY <2>2, <3>1, <3>2, <3>3
  <2> QED
    BY <2>1, <2>2
<1> QED
  BY <1>1, PreparedInvariance, PTL
=============================================================================
