------------------------- MODULE PreparedStatements -------------------------
(***************************************************************************)
(* SQLPrepare, SQLExecute and SQLExecDirect of the statements of one       *)
(* connection (statement.c), as far as it matters which command the server *)
(* runs in the end: the names under which the server keeps prepared        *)
(* commands, its one unnamed command, and the error of a failed PQprepare, *)
(* which is kept until SQLExecute.  What becomes of results, transactions  *)
(* and parameters is left to Execution, Transactions and QueryParser.      *)
(***************************************************************************)
EXTENDS Naturals

CONSTANTS Statement,
          Single,    \* texts of one command, which the server can prepare
          Broken,    \* texts of one command, which it refuses
          Several,   \* texts of several commands
          Call,      \* procedure calls
          MaxNames,  \* bound: names handed out
          Careful,   \* whether the application keeps to CarefulCall
          None

ASSUME PreparedAssumption ==
  /\ MaxNames \in Nat \ {0} /\ Careful \in BOOLEAN
  /\ None \notin Single \union Broken \union Several \union Call

VARIABLES statement,          \* per statement: what the driver holds
          next_statement_id,  \* of the connection
          link,               \* "down", "up", or "lost" without the driver knowing
          session,            \* the server's side: its names and the transaction block
          meant,              \* ghost: per statement the text last prepared on it
          ran,                \* ghost: what the last SQLExecute ran, and should have run
          reported            \* ghost: the text whose error it reported, and its own text

vars == <<statement, next_statement_id, link, session, meant, ran, reported>>

Text == Single \union Broken \union Several \union Call
Lazy == Several \union Call  \* nothing stays prepared on the server
Names == 1 .. MaxNames
unnamed == 0                 \* prepared_name[0] == '\0'

Unprepared == [is_prepared |-> FALSE, prepared_name |-> unnamed,
               deferred_prepare_error |-> None, sql_text |-> None]
FreshSession == [prepared |-> [n \in Names |-> None], unnamed |-> None, block |-> "none"]
Nothing == [text |-> None, own |-> None]

Init ==
  /\ statement = [s \in Statement |-> Unprepared]
  /\ next_statement_id = 0
  /\ link = "down"
  /\ session = FreshSession
  /\ meant = [s \in Statement |-> None]
  /\ ran = Nothing
  /\ reported = Nothing

----------------------------------------------------------------------------
\* The server.  A command of the simple protocol drops the unnamed command; PQexecParams
\* replaces it; an error inside a block aborts the block.

Works(b) == link = "up" /\ b # "aborted"

Aborted(b) == IF b = "open" THEN "aborted" ELSE b

DropUnnamed(server) == [server EXCEPT !.unnamed = None]

\* DEALLOCATE, whose answer nobody looks at.
DeallocateName(server, name) ==
  IF ~Works(server.block) THEN DropUnnamed(server)
  ELSE IF server.prepared[name] = None
       THEN [DropUnnamed(server) EXCEPT !.block = Aborted(@)]
       ELSE [DropUnnamed(server) EXCEPT !.prepared[name] = None]

PreparesWell(text, server) == Works(server.block) /\ text \notin Broken

PrepareName(server, name, text) ==
  IF PreparesWell(text, server) THEN [server EXCEPT !.prepared[name] = text]
  ELSE [server EXCEPT !.block = Aborted(@)]

\* A command sent without a name: by the simple protocol or as the unnamed command.
Parsed(server, text) ==
  {[server EXCEPT !.unnamed = u] :
     u \in {None} \union {t \in {text} : PreparesWell(t, server)}}

\* BEGIN and the savepoint of a statement, or neither.
Openings(server) ==
  {server} \union (IF link # "up" THEN {}
                   ELSE {[DropUnnamed(server) EXCEPT !.block = b] :
                           b \in IF server.block = "none" THEN {"none", "open"}
                                 ELSE {server.block}})

\* What an error leaves after the recovery of the transaction logic.
Recovered(server) ==
  {[server EXCEPT !.block = b] :
     b \in IF server.block = "none" THEN {"none"} ELSE {"aborted", "open", "none"}}

----------------------------------------------------------------------------
\* The driver.

\* deallocate_server_prepared_statement.
Deallocated(s, server) ==
  IF /\ statement[s].is_prepared /\ statement[s].prepared_name # unnamed
     /\ link # "down"
  THEN DeallocateName(server, statement[s].prepared_name)
  ELSE server

\* A text that is not prepared on the server, or only to be described.
PreparedLazily(s, text) ==
  [statement[s] EXCEPT !.is_prepared = TRUE, !.prepared_name = unnamed, !.sql_text = text]

\* Mutant: the error of an earlier text is kept.
PreparedWellKeepingError(s, name, text) ==
  [statement[s] EXCEPT !.is_prepared = TRUE, !.prepared_name = name, !.sql_text = text]

PreparedWell(s, name, text) ==
  [statement[s] EXCEPT !.is_prepared = TRUE, !.prepared_name = name, !.sql_text = text,
                       !.deferred_prepare_error = None]

\* An error of PQprepare is not reported before SQLExecute.
PreparedBadly(s, text) ==
  [statement[s] EXCEPT !.is_prepared = TRUE, !.prepared_name = unnamed, !.sql_text = text,
                       !.deferred_prepare_error = text]

\* Its error reported, the statement still counts as prepared although it is not.
SpentError(s) ==
  /\ statement[s].is_prepared /\ statement[s].prepared_name = unnamed
  /\ statement[s].deferred_prepare_error = None /\ statement[s].sql_text \notin Lazy

HoldsName(s) == statement[s].is_prepared /\ statement[s].prepared_name # unnamed

\* An application that looks after its statements: it gives up what it has prepared
\* neither in an aborted block nor by an empty text, a catalog function or SQLDisconnect,
\* and prepares anew after an error.
CarefulCall(s, text) ==
  /\ HoldsName(s) => text # None /\ session.block # "aborted"
  /\ statement[s].is_prepared => text # None
  /\ statement[s].deferred_prepare_error # None => text \notin Lazy

\* The name used to describe the first command of several is given back at once; the
\* first command may itself be one the server refuses.
DescribedFirst(server) ==
  IF Works(server.block)
  THEN {DropUnnamed(server), [server EXCEPT !.block = Aborted(@)]}
  ELSE {server}

Prepare(s, text) ==
  LET server == Deallocated(s, session)
      name   == next_statement_id + 1
  IN  /\ Careful => CarefulCall(s, text)
      /\ link # "down" /\ name \in Names
      /\ \/ /\ text = None  \* an empty text: the statement stays as it is
            /\ session' = server
            /\ UNCHANGED <<statement, next_statement_id, meant>>
         \/ /\ text \in Call
            /\ session' = server
            /\ statement' = [statement EXCEPT ![s] = PreparedLazily(s, text)]
            /\ meant' = [meant EXCEPT ![s] = text]
            /\ UNCHANGED next_statement_id
         \/ /\ text \in Several  \* prepare_describe_first_fragment
            /\ session' \in DescribedFirst(server)
            /\ statement' = [statement EXCEPT ![s] = PreparedLazily(s, text)]
            /\ meant' = [meant EXCEPT ![s] = text]
            /\ next_statement_id' = name
         \/ /\ text \in Single \union Broken
            /\ session' = PrepareName(server, name, text)
            /\ statement' = [statement EXCEPT ![s] =
                 IF PreparesWell(text, server) THEN PreparedWell(s, name, text)
                 ELSE PreparedBadly(s, text)]
            /\ meant' = [meant EXCEPT ![s] = text]
            /\ next_statement_id' = name
      /\ ran' = Nothing /\ reported' = Nothing
      /\ UNCHANGED link

\* SQLExecute after a failed SQLPrepare reports its error, once.
ReportDeferred(s) ==
  /\ statement[s].is_prepared /\ link # "down"
  /\ statement[s].deferred_prepare_error # None
  /\ reported' = [text |-> statement[s].deferred_prepare_error, own |-> meant[s]]
  /\ ran' = Nothing
  /\ statement' = [statement EXCEPT ![s].deferred_prepare_error = None]
  /\ UNCHANGED <<next_statement_id, link, session, meant>>

\* What the server finds under the name it is given.
Found(s, server) ==
  IF statement[s].sql_text \in Lazy THEN statement[s].sql_text
  ELSE IF statement[s].prepared_name = unnamed THEN server.unnamed
  ELSE server.prepared[statement[s].prepared_name]

Execute(s) ==
  /\ statement[s].is_prepared /\ link # "down"
  /\ statement[s].deferred_prepare_error = None
  /\ Careful => ~SpentError(s)
  /\ \E opened \in Openings(session) :
       LET found == Found(s, opened)
           sent  == IF found \in Lazy THEN Parsed(opened, found) ELSE {opened}
       IN  \/ /\ Works(opened.block) /\ found # None
              /\ session' \in sent
              /\ ran' = [text |-> found, own |-> meant[s]]
           \/ /\ session' \in UNION {Recovered(server) : server \in sent}
              /\ ran' = Nothing
  /\ reported' = Nothing
  /\ UNCHANGED <<statement, next_statement_id, link, meant>>

\* Mutant: the statement goes on being prepared.
PreparedNoMoreByName(s, text) ==
  [statement[s] EXCEPT !.prepared_name = unnamed, !.sql_text = text,
                       !.deferred_prepare_error = None]

PreparedNoMore(s, text) ==
  [statement[s] EXCEPT !.is_prepared = FALSE, !.prepared_name = unnamed, !.sql_text = text,
                       !.deferred_prepare_error = None]

\* The text is taken over, an empty one is not, and nothing is sent.
Unsent(s, text) ==
  [statement[s] EXCEPT !.deferred_prepare_error = None,
                       !.sql_text = IF text = None THEN @ ELSE text]

\* SQLExecDirect: an empty text, and a transaction that cannot be opened, leave the
\* statement prepared under a name that has been deallocated.
ExecDirect(s, text) ==
  LET server == Deallocated(s, session)
  IN  /\ Careful => CarefulCall(s, text)
      /\ link # "down"
      /\ \/ /\ text = None \/ link = "lost"
            /\ session' = server
            /\ statement' = [statement EXCEPT ![s] = Unsent(s, text)]
            /\ UNCHANGED meant
         \/ /\ text # None
            /\ \E opened \in Openings(server) :
                 LET sent == Parsed(opened, text)
                 IN  \/ PreparesWell(text, opened) /\ session' \in sent
                     \/ session' \in UNION {Recovered(after) : after \in sent}
            /\ statement' = [statement EXCEPT ![s] = PreparedNoMore(s, text)]
            /\ meant' = [meant EXCEPT ![s] = None]
      /\ ran' = Nothing /\ reported' = Nothing
      /\ UNCHANGED <<next_statement_id, link>>

\* A catalog function has its query run by the simple protocol.  When it succeeds the
\* statement counts as prepared no more, and the server is not told.
Catalog(s) ==
  /\ link # "down"
  /\ Careful => ~HoldsName(s)
  /\ \/ /\ Works(session.block)
        /\ session' = DropUnnamed(session)
        /\ statement' = [statement EXCEPT ![s].is_prepared = FALSE,
                                          ![s].prepared_name = unnamed]
        /\ meant' = [meant EXCEPT ![s] = None]
     \/ /\ session' = [DropUnnamed(session) EXCEPT !.block = Aborted(@)]
        /\ UNCHANGED <<statement, meant>>
  /\ ran' = Nothing /\ reported' = Nothing
  /\ UNCHANGED <<next_statement_id, link>>

\* Mutant: the server is not told.
FreedSilently(s) == session

Freed(s) == Deallocated(s, session)

\* SQLFreeHandle; the address may come back as another statement.
Free(s) ==
  /\ Careful /\ HoldsName(s) => session.block # "aborted"
  /\ session' = Freed(s)
  /\ statement' = [statement EXCEPT ![s] = Unprepared]
  /\ meant' = [meant EXCEPT ![s] = None]
  /\ ran' = Nothing /\ reported' = Nothing
  /\ UNCHANGED <<next_statement_id, link>>

----------------------------------------------------------------------------
\* The connection.

EndTran ==
  /\ link = "up" /\ session.block # "none"
  /\ session' = [DropUnnamed(session) EXCEPT !.block = "none"]
  /\ ran' = Nothing /\ reported' = Nothing
  /\ UNCHANGED <<statement, next_statement_id, link, meant>>

Connect ==
  /\ link = "down"
  /\ link' = "up" /\ session' = FreshSession
  /\ ran' = Nothing /\ reported' = Nothing
  /\ UNCHANGED <<statement, next_statement_id, meant>>

Lose ==
  /\ link = "up"
  /\ link' = "lost" /\ session' = FreshSession
  /\ ran' = Nothing /\ reported' = Nothing
  /\ UNCHANGED <<statement, next_statement_id, meant>>

\* The statements keep what they hold, and next_statement_id goes on counting.
Disconnect ==
  /\ link # "down"
  /\ Careful => \A s \in Statement : ~statement[s].is_prepared
  /\ link' = "down" /\ session' = FreshSession
  /\ ran' = Nothing /\ reported' = Nothing
  /\ UNCHANGED <<statement, next_statement_id, meant>>

Next ==
  \/ \E s \in Statement, text \in Text \union {None} : Prepare(s, text) \/ ExecDirect(s, text)
  \/ \E s \in Statement : ReportDeferred(s) \/ Execute(s) \/ Catalog(s) \/ Free(s)
  \/ EndTran \/ Connect \/ Lose \/ Disconnect

Spec == Init /\ [][Next]_vars

----------------------------------------------------------------------------
\* Properties.

\* SQLExecute runs the text last prepared on its statement and no other, whatever the
\* other statements of the connection prepare and execute: never what another one left
\* behind as the unnamed command (statement.c:1697, with prepared_name empty).
RunsItsOwnText == ran.own = ran.text

\* The error SQLExecute reports for a failed SQLPrepare is that of the text last prepared
\* (statement.c:1200-1215, 1592-1600).
ReportsItsOwnError == reported.own = reported.text

\* The names the server keeps are those the prepared statements hold, one each, with
\* their texts: none is left behind on a long-lived connection and none is missing
\* (statement.c:445-474).
NamesAreHeld ==
  link = "up" =>
    \A n \in Names :
      LET holders == {s \in Statement : HoldsName(s) /\ statement[s].prepared_name = n}
      IN  IF session.prepared[n] = None THEN holders = {}
          ELSE \E s \in holders : holders = {s} /\ meant[s] = session.prepared[n]
=============================================================================
