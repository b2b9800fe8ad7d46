----------------------------- MODULE Connection -----------------------------
(***************************************************************************)
(* The transaction side of src/src/connection.c: one operator per          *)
(* function, from the connection before the call to the connection after   *)
(* it.  A connection is what OdbcConnection keeps about the transaction,   *)
(* the return code of the last function, and the session behind it.        *)
(***************************************************************************)
EXTENDS PgSession

\* The effective "Rollback on error" setting (Protocol=7.4-N in the DSN).
RollbackModes == {"nothing", "transaction", "statement"}
TransactionStates == {"idle", "active", "failed"}

ConnectionRecord ==
  [state                      : {"not_connected", "connected"},
   autocommit                 : BOOLEAN,
   rollback_on_error          : RollbackModes,
   transaction_state          : TransactionStates,
   statement_savepoint_active : BOOLEAN,
   ret                        : {"success", "error"},
   pg                         : Session]

Connected(c) == c.state = "connected"

Return(c, code) == [c EXCEPT !.ret = code]

\* Mutant: the status of libpq is returned as it is.
ReturnAnswerUnmapped(c, pg) == [c EXCEPT !.pg = pg, !.ret = pg.reply]

\* The session has answered a command whose only good answer is "ok".
ReturnAnswer(c, pg) ==
  [c EXCEPT !.pg = pg, !.ret = IF pg.reply = "ok" THEN "success" ELSE "error"]

EnterTransactionState(c, state) ==
  [c EXCEPT !.transaction_state = state, !.statement_savepoint_active = FALSE]

----------------------------------------------------------------------------

Begun(c) == IF c.ret = "error" THEN c ELSE EnterTransactionState(c, "active")

BeginTransaction(c) ==
  IF ~Connected(c) THEN Return(c, "error")
  ELSE IF c.transaction_state = "active" THEN Return(c, "success")
  ELSE Begun(ReturnAnswer(c, Begin(c.pg)))

\* Mutant: the savepoint flag survives the commit.
CommitTransactionKeepingFlag(c, outcome) ==
  IF c.transaction_state = "idle" THEN Return(c, "success")
  ELSE IF ~Connected(c) THEN Return(c, "error")
  ELSE [ReturnAnswer(c, Commit(c.pg, outcome)) EXCEPT !.transaction_state = "idle"]

\* Mutant: a failed transaction is taken to be over already.
RollbackTransactionUnlessFailed(c) ==
  IF c.transaction_state = "active"
  THEN EnterTransactionState(ReturnAnswer(c, Rollback(c.pg)), "idle")
  ELSE EnterTransactionState(Return(c, "success"), "idle")

\* COMMIT and ROLLBACK: whatever the session answers, the driver takes the
\* transaction to be over.
CommitTransaction(c, outcome) ==
  IF c.transaction_state = "idle" THEN Return(c, "success")
  ELSE IF ~Connected(c) THEN Return(c, "error")
  ELSE EnterTransactionState(ReturnAnswer(c, Commit(c.pg, outcome)), "idle")

RollbackTransaction(c) ==
  IF c.transaction_state = "idle" THEN Return(c, "success")
  ELSE IF ~Connected(c) THEN Return(c, "error")
  ELSE EnterTransactionState(ReturnAnswer(c, Rollback(c.pg)), "idle")

\* Mutant: no BEGIN when autocommit is off.
EnsureTransactionNever(c) == Return(c, "success")

EnsureTransaction(c) ==
  IF c.autocommit \/ c.transaction_state # "idle"
  THEN Return(c, "success")
  ELSE BeginTransaction(c)

\* large_object_ensure_transaction: an explicit block, autocommit or not.
EnsureLargeObjectTransaction(c) ==
  IF c.autocommit THEN BeginTransaction(c) ELSE EnsureTransaction(c)

WantsStatementSavepoint(c) ==
  /\ Connected(c)
  /\ c.transaction_state = "active"
  /\ c.rollback_on_error = "statement"

\* The savepoint is active when the last command of its setting was answered ok.
SavepointAnswered(c, pg) ==
  [c EXCEPT !.pg = pg, !.statement_savepoint_active = (pg.reply = "ok")]

\* Mutant: a savepoint that stands is taken to be good enough.
BeginStatementSavepointOnce(c) ==
  IF WantsStatementSavepoint(c) /\ ~c.statement_savepoint_active
  THEN SavepointAnswered(c, Savepoint(c.pg, "driver"))
  ELSE c

\* Mutant: the standing savepoint is shadowed, not released.
BeginStatementSavepointShadowing(c) ==
  IF WantsStatementSavepoint(c)
  THEN SavepointAnswered(c, Savepoint(c.pg, "driver"))
  ELSE c

\* A savepoint that stands is released and set again; whatever is refused is
\* followed by a plain SAVEPOINT.
SetAgain(pg) == IF pg.reply = "ok" THEN pg ELSE Savepoint(pg, "driver")

\* connection_begin_statement_savepoint returns nothing: ret is untouched.
BeginStatementSavepoint(c) ==
  IF ~WantsStatementSavepoint(c) THEN c
  ELSE IF c.statement_savepoint_active
       THEN SavepointAnswered(c, SetAgain(ReleaseThenSavepoint(c.pg, "driver")))
  ELSE SavepointAnswered(c, SetAgain(Savepoint(c.pg, "driver")))

\* A statement has failed inside an explicit transaction.
MarkFailed(c) ==
  [c EXCEPT !.transaction_state = IF @ = "active" THEN "failed" ELSE @]

\* connection_handle_statement_error returns nothing either.
HandleStatementError(c) ==
  LET rewound == RollbackTo(c.pg, "driver")
  IN  IF ~Connected(c) \/ c.transaction_state # "failed" THEN c
      ELSE IF c.rollback_on_error = "transaction"
           THEN Return(RollbackTransaction(c), c.ret)
      ELSE IF c.rollback_on_error = "statement" /\ c.statement_savepoint_active
           THEN [c EXCEPT !.pg = rewound,
                          !.transaction_state =
                             IF rewound.reply = "ok" THEN "active" ELSE @]
      ELSE c

----------------------------------------------------------------------------

\* Mutant: turning autocommit on leaves the open transaction alone.
SetAutocommitOnly(c, on, outcome) == [Return(c, "success") EXCEPT !.autocommit = on]

\* SQLSetConnectAttr(SQL_ATTR_AUTOCOMMIT).  Turning it on ends a transaction; the
\* result of a rollback is ignored, a failed commit leaves autocommit off.
SetAutocommit(c, on, outcome) ==
  LET ends == on /\ ~c.autocommit /\ c.transaction_state # "idle" /\ Connected(c)
      ended == IF c.transaction_state = "failed"
               THEN Return(RollbackTransaction(c), "success")
               ELSE CommitTransaction(c, outcome)
  IN  IF ~ends THEN [Return(c, "success") EXCEPT !.autocommit = on]
      ELSE IF ended.ret = "error" THEN ended
      ELSE [ended EXCEPT !.autocommit = on]

\* connection_connect and connection_disconnect, for a connection in the state
\* they accept.  A disconnect closes the session and leaves the driver's own
\* record of the transaction as it was.
Connect(c) ==
  [Return(c, "success") EXCEPT !.state = "connected",
                               !.pg = FreshSession(c.pg.durable)]

Disconnect(c) ==
  [Return(c, "success") EXCEPT !.state = "not_connected", !.pg = Lost(c.pg)]
=============================================================================
