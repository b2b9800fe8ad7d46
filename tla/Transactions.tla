---------------------------- MODULE Transactions ----------------------------
(***************************************************************************)
(* The transactions of one connection, driven by an application that calls *)
(* ODBC functions on several statement handles.  A call is synchronous and *)
(* runs to its end, so each call is one action; what interleaves is the    *)
(* calls on different statements, the sets of a data-at-execution that     *)
(* spans calls, and the breaking of the link.                              *)
(*                                                                         *)
(* Beside the connection the module keeps what the application was told:   *)
(* which work is in force in the open transaction, which was confirmed as  *)
(* committed, and which was confirmed as rolled back.                      *)
(***************************************************************************)
EXTENDS Statement, FiniteSets

CONSTANTS Stmts,     \* statement handles of the connection
          Modes,     \* the settings of "Rollback on error" to consider
          Ops,       \* what the application does, see OpNames
          MaxDepth   \* bound on the levels of a block when a statement starts

OpNames == {"single", "multi", "array", "call", "fetch_error", "exempt",
            "savepoint", "text", "prepare", "dae", "dae_array", "lo_inline",
            "lo_put", "lo_read", "unmanaged", "interleave", "reconnect", "link"}

ASSUME OpsAssumption == Ops \subseteq OpNames
ASSUME ModesAssumption == Modes \subseteq RollbackModes
ASSUME MaxDepthAssumption == MaxDepth \in Nat

VARIABLES conn,      \* the connection
          phase,     \* what is unfinished on each statement
          executed,  \* work of the sets a data-at-execution has already run
          app        \* what the application was told

vars == <<conn, phase, executed, app>>

\* Nothing unfinished; a deferred prepare error; SQL_NEED_DATA with one or with
\* several parameter sets; a large-object descriptor whose transaction is still
\* open, or is over.
Phases == {"idle", "deferred", "data", "data_array", "lo_open", "lo_stale"}

AppRecord == [acked     : SUBSET Work,   \* in force in the open transaction
              confirmed : SUBSET Work,   \* said to be committed
              discarded : SUBSET Work,   \* said to be rolled back
              marked    : BOOLEAN]       \* its savepoint is in force

TypeOK ==
  /\ conn \in ConnectionRecord
  /\ phase \in [Stmts -> Phases]
  /\ executed \in [Stmts -> SUBSET Work]
  /\ app \in AppRecord

Init ==
  /\ \E mode \in Modes :
       conn = [state |-> "connected", autocommit |-> TRUE,
               rollback_on_error |-> mode, transaction_state |-> "idle",
               statement_savepoint_active |-> FALSE, ret |-> "success",
               pg |-> FreshSession({})]
  /\ phase = [s \in Stmts |-> "idle"]
  /\ executed = [s \in Stmts |-> {}]
  /\ app = [acked |-> {}, confirmed |-> {}, discarded |-> {}, marked |-> FALSE]

----------------------------------------------------------------------------

Fresh == Work \ (Pending(conn.pg) \union conn.pg.durable \union app.acked
                 \union app.confirmed \union app.discarded
                 \union UNION {executed[s] : s \in Stmts})

\* A statement changes nothing, or something not changed before.
Changes == {{}} \union {{w} : w \in Fresh}

\* On a link libpq knows to be dead no command is sent, and none has an outcome.
Outcomes == IF conn.pg.up THEN RunOutcomes ELSE {"ok"}

\* COPY takes no parameters, and lo_* calls are not COPY.
NoCopy == Outcomes \ {"copy_out"}

\* How the FETCH commands after a CALL end: with "fetch_error", also in an error.
FetchOutcomes == IF "fetch_error" \in Ops THEN NoCopy ELSE NoCopy \ {"error"}

\* What comes after a step has an outcome of its own only when it is reached.
After(reached, outcomes) == IF reached /\ conn.pg.up THEN outcomes ELSE {"ok"}

InData(s) == phase[s] \in {"data", "data_array"}

\* The Driver Manager rejects a second execution of a statement that needs data,
\* and ending the transaction or the connection under one (HY010).
NoneInData == \A s \in Stmts : ~InData(s)

MayExecute(s) ==
  /\ Connected(conn)
  /\ ~InData(s)
  /\ "interleave" \in Ops \/ NoneInData
  /\ Len(conn.pg.stack) <= MaxDepth

Unmarked(a) == [a EXCEPT !.acked = {}, !.marked = FALSE]

\* What the application learns from the return code of an execution: when the
\* statement was a transaction of its own, success is a commit.  After an error
\* it counts on nothing unless the link stands and errors are undone one by one.
Learned(c, alone, work) ==
  IF c.ret = "success"
  THEN IF alone THEN [app EXCEPT !.confirmed = @ \union work]
                ELSE [app EXCEPT !.acked = @ \union work]
  ELSE IF ~c.pg.up \/ c.rollback_on_error # "statement" THEN Unmarked(app)
  ELSE app

Told(c, work) == Learned(c, c.autocommit, work)

\* What it learns when the end of its transaction has been asked for: whether all
\* of it is committed, or rolled back, or neither is known.
Finished(ret, commit) ==
  IF ret = "error" THEN Unmarked(app)
  ELSE IF commit THEN [Unmarked(app) EXCEPT !.confirmed = @ \union app.acked]
  ELSE [Unmarked(app) EXCEPT !.discarded = @ \union app.acked]

\* A large-object descriptor lives as long as the block it was opened in.
Outlived(c, phases) ==
  [s \in Stmts |-> IF phases[s] = "lo_open" /\ c.pg.block = "idle"
                   THEN "lo_stale" ELSE phases[s]]

\* The driver keeps nothing of the last answer of the server.
Forget(c) == [c EXCEPT !.pg = Answer(@, "ok")]

\* The call on statement s ends with connection c and leaves s in phase p.
Becomes(s, c, p) ==
  /\ conn' = Forget(c)
  /\ phase' = Outlived(c, [phase EXCEPT ![s] = p])

\* An execution that is over, whether or not it got past its opening.
Executed(s, opened, ran, direct, work) ==
  /\ Becomes(s, ran, IF opened.ret = "error" /\ ~direct THEN phase[s] ELSE "idle")
  /\ app' = Told(ran, work)
  /\ UNCHANGED executed

----------------------------------------------------------------------------
(* Executions                                                              *)

ExecuteSingle(s) ==
  /\ "single" \in Ops /\ MayExecute(s)
  /\ \E w \in Changes, outcome \in Outcomes, direct \in BOOLEAN :
       LET opened == Open(conn, "plain", phase[s], direct)
           ran    == RunSingle(opened, [work |-> w, outcome |-> outcome])
       IN  /\ direct \/ phase[s] # "deferred"
           /\ Executed(s, opened, ran, direct, w)

\* A plain CALL that returns refcursors, with FetchRefcursors on; without either it
\* is a single command.
ExecuteCall(s) ==
  /\ "call" \in Ops /\ MayExecute(s)
  /\ \E w \in Changes, outcome \in NoCopy, direct \in BOOLEAN :
     \E fetched \in After(outcome = "ok", FetchOutcomes) :
       LET opened == Open(conn, "plain", phase[s], direct)
           ran    == RunCall(opened, [work |-> w, outcome |-> outcome],
                             [work |-> {}, outcome |-> fetched])
       IN  /\ direct \/ phase[s] # "deferred"
           /\ Executed(s, opened, ran, direct, w)

\* Two fragments or two parameter sets; name says which.
RunBoth(name, c, steps) ==
  IF name = "multi" THEN RunFragments(c, steps) ELSE RunParameterSets(c, steps)

ExecutePair(s, name, first, second, direct) ==
  LET opened == Open(conn, "plain", phase[s], direct)
  IN  Executed(s, opened, RunBoth(name, opened, <<first, second>>), direct,
               first.work \union second.work)

ExecuteBoth(s, name, outcomes) ==
  /\ name \in Ops /\ MayExecute(s)
  /\ \E w, v \in Changes, o \in outcomes, direct \in BOOLEAN :
     \E p \in After(o = "ok", outcomes) :
       /\ w \intersect v = {}
       /\ direct \/ phase[s] # "deferred"
       /\ ExecutePair(s, name, [work |-> w, outcome |-> o],
                               [work |-> v, outcome |-> p], direct)

\* A text with a COPY among its commands does not return: see README.
ExecuteMultiStatement(s) == ExecuteBoth(s, "multi", NoCopy)

ExecuteParameterArray(s) == ExecuteBoth(s, "array", NoCopy)

\* VACUUM and its like, which the server refuses inside a block, and CLUSTER,
\* which it does not.
ExecuteExempt(s) ==
  /\ "exempt" \in Ops /\ MayExecute(s)
  /\ \E w \in Changes, outcome \in NoCopy, direct \in BOOLEAN :
       LET opened == Open(conn, "exempt", phase[s], direct)
           ran    == RunSingle(opened, [work |-> w, outcome |-> outcome])
           alone  == conn.autocommit \/ conn.transaction_state = "idle"
       IN  /\ direct \/ phase[s] # "deferred"
           /\ Becomes(s, ran, "idle")
           /\ app' = Learned(ran, alone, w)
           /\ UNCHANGED executed

\* The application's own SAVEPOINT, RELEASE or ROLLBACK TO, sent with
\* SQLExecDirect.  It keeps at most one savepoint and knows what ROLLBACK TO
\* undoes.
SavepointCommands == {"set", "release", "rewind"}

Command(command, pg) ==
  CASE command = "set"     -> Savepoint(pg, "user")
    [] command = "release" -> Release(pg, "user")
    [] OTHER               -> RollbackTo(pg, "user")

RunSavepointCommand(opened, command) ==
  RunCommand(opened, Command(command, opened.pg))

ToldOfSavepoint(c, command) ==
  IF c.ret = "success"
  THEN [app EXCEPT !.marked = (command # "release"),
                   !.acked = @ \intersect Pending(c.pg)]
  ELSE Told(c, {})

ExecuteSavepointCommand(s) ==
  /\ "savepoint" \in Ops /\ MayExecute(s)
  /\ \E command \in SavepointCommands :
       LET opened == Open(conn, "savepoint_control", phase[s], TRUE)
           ran    == RunSavepointCommand(opened, command)
       IN  /\ command = "set" => ~app.marked
           /\ Becomes(s, ran, "idle")
           /\ app' = ToldOfSavepoint(ran, command)
           /\ UNCHANGED executed

\* COMMIT or ROLLBACK as statement text: the driver runs it like any statement.
RunTransactionText(opened, commit, outcome) ==
  RunCommand(opened, IF commit THEN Commit(opened.pg, outcome)
                               ELSE Rollback(opened.pg))

ExecuteTransactionText(s) ==
  /\ "text" \in Ops /\ MayExecute(s)
  /\ \E commit \in BOOLEAN, outcome \in CommitOutcomes :
       LET opened == Open(conn, "plain", phase[s], TRUE)
           ran    == RunTransactionText(opened, commit, outcome)
       IN  /\ Becomes(s, ran, "idle")
           /\ app' = Finished(ran.ret, commit)
           /\ UNCHANGED executed

\* SQLPrepare parses on the server at once, outside the opening, and keeps an
\* error for SQLExecute; that of the first of several fragments it drops.
Prepare(s) ==
  /\ "prepare" \in Ops /\ MayExecute(s)
  /\ \E outcome \in {"ok", "error"}, whole \in BOOLEAN :
       LET sent == Send(CloseResult(conn, phase[s]),
                        [work |-> {}, outcome |-> outcome])
       IN  /\ Becomes(s, Return(sent, "success"),
                      IF whole /\ sent.pg.reply = "error" THEN "deferred"
                                                          ELSE "idle")
           /\ UNCHANGED <<executed, app>>

ExecuteDeferred(s) ==
  /\ MayExecute(s) /\ phase[s] = "deferred"
  /\ Becomes(s, Return(conn, "error"), "idle")
  /\ app' = Told(Return(conn, "error"), {})
  /\ UNCHANGED executed

\* A catalog function or SQLSetPos: its query goes straight to the server.
ExecuteUnmanaged(s) ==
  /\ "unmanaged" \in Ops /\ MayExecute(s)
  /\ \E w \in Changes, outcome \in NoCopy :
       LET sent == Send(conn, [work |-> w, outcome |-> outcome])
           ran  == UnmarkedAnswer(sent)
       IN  /\ Becomes(s, ran, phase[s])
           /\ app' = Told(ran, w)
           /\ UNCHANGED executed

\* A prepared execution with a large object bound in line.
ExecuteWithLargeObject(s) ==
  /\ "lo_inline" \in Ops /\ MayExecute(s) /\ phase[s] # "deferred"
  /\ \E w \in Changes, stored \in NoCopy :
     \E outcome \in After(stored = "ok", NoCopy) :
     \E end \in After(conn.autocommit /\ outcome = "ok", CommitOutcomes) :
       LET opened == Open(conn, "plain", phase[s], FALSE)
           ran    == RunWithLargeObject(opened,
                                        [work |-> w, outcome |-> stored],
                                        [work |-> w, outcome |-> outcome], end)
       IN  Executed(s, opened, ran, FALSE, w)

----------------------------------------------------------------------------
(* Data at execution                                                       *)

\* SQLExecDirect or SQLExecute answers SQL_NEED_DATA: the transaction and the
\* savepoint are set, and nothing has been sent.
BeginDataAtExec(s) ==
  /\ MayExecute(s)
  /\ \E p \in {"data", "data_array"}, direct \in BOOLEAN :
       LET opened == Open(conn, "plain", phase[s], direct)
       IN  /\ (IF p = "data" THEN "dae" ELSE "dae_array") \in Ops
           /\ direct \/ phase[s] # "deferred"
           /\ IF opened.ret = "success"
              THEN Becomes(s, opened, p)
              ELSE Becomes(s, opened, IF direct THEN "idle" ELSE phase[s])
           /\ app' = Told(opened, {})
           /\ executed' = [executed EXCEPT ![s] = {}]

\* The first SQLPutData for a large object.  When it fails the Driver Manager
\* takes the statement out of SQL_NEED_DATA.
PutLargeObject(s) ==
  /\ "lo_put" \in Ops /\ InData(s)
  /\ \E w \in Changes, outcome \in NoCopy :
       LET put == UseLargeObject(conn, [work |-> w, outcome |-> outcome])
       IN  IF put.ret = "success"
           THEN /\ Becomes(s, put, phase[s])
                /\ executed' = [executed EXCEPT ![s] = @ \union w]
                /\ UNCHANGED app
           ELSE /\ Becomes(s, put, "idle")
                /\ app' = Told(put, {})
                /\ UNCHANGED executed

\* SQLParamData once the last value of a set is there: the set is run, and either
\* the execution is over or the next set needs its data.
RunDataAtExecSet(s) ==
  /\ InData(s)
  /\ \E w \in Changes, outcome \in NoCopy, last \in BOOLEAN :
     \E end \in After(conn.autocommit /\ last /\ outcome = "ok", CommitOutcomes) :
       LET ran  == RunSuppliedSet(conn, [work |-> w, outcome |-> outcome], last,
                                  phase[s] = "data_array", end)
           more == ~last /\ ran.ret = "success"
           work == executed[s] \union w
       IN  /\ phase[s] = "data" => last
           /\ Becomes(s, ran, IF more THEN phase[s] ELSE "idle")
           /\ executed' = [executed EXCEPT ![s] = IF more THEN work ELSE {}]
           /\ app' = IF more THEN app ELSE Told(ran, work)

----------------------------------------------------------------------------
(* Large objects read in pieces                                            *)

\* The first SQLGetData on a large-object column, over in one call or not.
ReadLargeObject(s) ==
  /\ "lo_read" \in Ops /\ MayExecute(s) /\ phase[s] = "idle"
  /\ \E outcome \in NoCopy, all \in BOOLEAN :
     \E end \in After(conn.autocommit /\ all /\ outcome = "ok", CommitOutcomes) :
       LET read == UseLargeObject(conn, [work |-> {}, outcome |-> outcome])
           done == IF all /\ read.ret = "success"
                   THEN CommitLargeObject(read, end) ELSE read
       IN  /\ Becomes(s, done, IF ~all /\ read.ret = "success" THEN "lo_open"
                                                               ELSE "idle")
           /\ app' = Told(done, {})
           /\ UNCHANGED executed

\* The SQLGetData that reaches the end, or fails.
ReadRest(s) ==
  /\ Connected(conn) /\ phase[s] \in {"lo_open", "lo_stale"}
  /\ \E outcome \in NoCopy :
     \E end \in After(conn.autocommit /\ outcome = "ok", CommitOutcomes) :
       LET read == ReadOn(conn, phase[s], [work |-> {}, outcome |-> outcome])
           done == IF read.ret = "success" THEN CommitLargeObject(read, end)
                                           ELSE read
       IN  /\ Becomes(s, done, "idle")
           /\ app' = Told(done, {})
           /\ UNCHANGED executed

\* SQLCloseCursor or SQLFreeStmt(SQL_CLOSE) before the end is reached.
CloseCursor(s) ==
  /\ Connected(conn) /\ phase[s] \in {"lo_open", "lo_stale"}
  /\ Becomes(s, Return(CloseResult(conn, phase[s]), "success"), "idle")
  /\ UNCHANGED <<executed, app>>

----------------------------------------------------------------------------
(* The connection                                                          *)

EndTransaction ==
  /\ Connected(conn) /\ NoneInData
  /\ \E commit \in BOOLEAN, outcome \in CommitOutcomes :
       LET ended == IF commit THEN CommitTransaction(conn, outcome)
                              ELSE RollbackTransaction(conn)
       IN  /\ conn' = Forget(ended)
           /\ phase' = Outlived(ended, phase)
           /\ app' = Finished(ended.ret, commit)
           /\ UNCHANGED executed

\* Turning autocommit on tells the application that its transaction, unless it
\* had failed, is committed.
ChangeAutocommit ==
  /\ Connected(conn) /\ NoneInData
  /\ \E outcome \in CommitOutcomes :
       LET changed == SetAutocommit(conn, ~conn.autocommit, outcome)
           commits == changed.ret = "success" /\ conn.transaction_state = "active"
       IN  /\ conn' = Forget(changed)
           /\ phase' = Outlived(changed, phase)
           /\ app' = IF conn.autocommit THEN app
                     ELSE Finished(IF commits THEN "success" ELSE "error", TRUE)
           /\ UNCHANGED executed

\* The link breaks between two calls; the driver has not noticed yet.
BreakLink ==
  /\ "link" \in Ops /\ conn.pg.up
  /\ conn' = Forget([conn EXCEPT !.pg = Lost(@)])
  /\ phase' = Outlived(conn', phase)
  /\ app' = Unmarked(app)
  /\ UNCHANGED executed

\* SQLDisconnect; an orderly application has ended its transaction before.
DisconnectLink ==
  /\ Connected(conn) /\ NoneInData
  /\ "reconnect" \in Ops \/ conn.transaction_state = "idle"
  /\ conn' = Forget(Disconnect(conn))
  /\ phase' = Outlived(conn', phase)
  /\ app' = Unmarked(app)
  /\ UNCHANGED executed

ConnectLink ==
  /\ ~Connected(conn)
  /\ conn' = Connect(conn)
  /\ UNCHANGED <<phase, executed, app>>

----------------------------------------------------------------------------

OnStatement(s) ==
  \/ ExecuteSingle(s)
  \/ ExecuteCall(s)
  \/ ExecuteMultiStatement(s)
  \/ ExecuteParameterArray(s)
  \/ ExecuteExempt(s)
  \/ ExecuteSavepointCommand(s)
  \/ ExecuteTransactionText(s)
  \/ Prepare(s)
  \/ ExecuteDeferred(s)
  \/ ExecuteUnmanaged(s)
  \/ ExecuteWithLargeObject(s)
  \/ BeginDataAtExec(s)
  \/ PutLargeObject(s)
  \/ RunDataAtExecSet(s)
  \/ ReadLargeObject(s)
  \/ ReadRest(s)
  \/ CloseCursor(s)

Next ==
  \/ \E s \in Stmts : OnStatement(s)
  \/ EndTransaction
  \/ ChangeAutocommit
  \/ BreakLink
  \/ DisconnectLink
  \/ ConnectLink

Spec == Init /\ [][Next]_vars

----------------------------------------------------------------------------
(* What the runs check                                                     *)

\* The driver never loses track of a block it opened: while the link is up, a
\* connection whose transaction_state is IDLE has no block on the server, so the
\* no-op of SQLEndTran on IDLE strands nothing.
NoOrphanTransaction ==
  conn.pg.up /\ conn.transaction_state = "idle" => conn.pg.block = "idle"

\* statement_savepoint_active belongs to a transaction under statement-level
\* rollback: it never outlives the transaction in the driver's own record, or
\* the next transaction would rewind to a savepoint it never set.
SavepointInsideTransaction ==
  conn.statement_savepoint_active =>
    /\ conn.transaction_state # "idle"
    /\ conn.rollback_on_error = "statement"

\* What a statement reported as done inside the open transaction is still there:
\* a later statement that fails, of the same handle or of another, takes nothing
\* of it away (docs/connection-options.md, "Rollback on error").
AcknowledgedWorkStands ==
  conn.pg.up => app.acked \subseteq Pending(conn.pg)

\* What was confirmed as committed, by SQLEndTran, by turning autocommit on or by
\* a success under autocommit, is durable.
CommitIsDurable == app.confirmed \subseteq conn.pg.durable

\* What SQLEndTran(SQL_ROLLBACK) confirmed as rolled back never becomes durable.
RollbackIsFinal == app.discarded \intersect conn.pg.durable = {}

\* With a recovery configured, a failed call leaves a transaction the next
\* statement can run in: handle_statement_error has rewound it or ended it.
ErrorsAreRecovered ==
  conn.pg.up /\ conn.rollback_on_error # "nothing" =>
    /\ conn.transaction_state # "failed"
    /\ conn.pg.block # "aborted"

\* The RELEASE before each new savepoint works: a long transaction keeps one
\* subtransaction of the driver, not one for each statement.
OneDriverSavepoint == Cardinality(Levels(conn.pg, "driver")) <= 1

\* A savepoint the application set and neither released nor ended stands until
\* it is used: the driver leaves savepoint-control commands unwrapped for it.
UserSavepointStands ==
  conn.pg.up /\ app.marked => Levels(conn.pg, "user") # {}

\* The connection implements the unit of work an application takes it for.  The
\* sets of an unfinished data-at-execution are not yet part of the unit.
Unit == INSTANCE UnitOfWork WITH
          durable <- conn.pg.durable,
          pending <- Pending(conn.pg) \ UNION {executed[s] : s \in Stmts},
          answer  <- conn.ret

ImplementsUnitOfWork == Unit!Spec
=============================================================================
