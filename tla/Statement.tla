------------------------------ MODULE Statement ------------------------------
(***************************************************************************)
(* How src/src/statement.c carries a statement through the connection: the *)
(* opening every execution shares, the four ways of running it, data at    *)
(* execution, and large objects.  Each operator takes the connection       *)
(* before the step to the connection after it; ret is then what the ODBC   *)
(* call returns.                                                           *)
(***************************************************************************)
EXTENDS Connection

\* One command to the server, with the work it would do and how it ends.
Steps == [work : SUBSET Work, outcome : RunOutcomes]

Send(c, step) == [c EXCEPT !.pg = Run(@, step.work, step.outcome)]

\* handle_execution_result for the answer to the statement itself.
HandleExecutionResult(c, reply) ==
  IF reply = "ok" THEN Return(c, "success")
  ELSE Return(IF reply = "error" THEN MarkFailed(c) ELSE c, "error")

\* "On error inside an explicit transaction, apply the configured recovery."
Recover(c) == IF c.ret = "error" THEN HandleStatementError(c) ELSE c

\* clear_current_result closes a large-object descriptor left open on the
\* statement.  The server refuses to close one whose transaction is over.
CloseResult(c, phase) ==
  IF phase = "lo_stale" /\ c.pg.up THEN [c EXCEPT !.pg = Refuse(@)] ELSE c

\* The opening of statement_execute and statement_exec_direct: an exempt command
\* skips it, a savepoint-control command gets a transaction but no savepoint.
Kinds == {"plain", "savepoint_control", "exempt"}

\* Mutant: the savepoint is asked for before the transaction is made sure of.
EnterSavepointFirst(c, kind) ==
  IF kind = "exempt" THEN Return(c, "success")
  ELSE EnsureTransaction(IF kind = "plain" THEN BeginStatementSavepoint(c) ELSE c)

Protect(ensured, kind) ==
  IF kind = "plain" /\ ensured.ret = "success"
  THEN BeginStatementSavepoint(ensured)
  ELSE ensured

Enter(c, kind) ==
  IF kind = "exempt" THEN Return(c, "success")
  ELSE Protect(EnsureTransaction(c), kind)

\* SQLExecDirect drops the previous result before it enters the transaction,
\* SQLExecute after, and not at all when it could not enter.
CloseWhenEntered(entered, phase) ==
  IF entered.ret = "success" THEN CloseResult(entered, phase) ELSE entered

Open(c, kind, phase, direct) ==
  IF direct THEN Enter(CloseResult(c, phase), kind)
  ELSE CloseWhenEntered(Enter(c, kind), phase)

----------------------------------------------------------------------------

\* Each way of running starts from the connection the opening left, and runs
\* nothing when that could not enter a transaction.
\* A single command, a procedure call by {call} too, that the session answers
\* with pg.
RunCommand(c, pg) ==
  IF c.ret = "error" THEN c
  ELSE Recover(HandleExecutionResult([c EXCEPT !.pg = pg], pg.reply))

RunSingle(c, step) == RunCommand(c, Run(c.pg, step.work, step.outcome))

\* The answer to a command whose failure does not mark the transaction.
UnmarkedAnswer(c) == Return(c, IF c.pg.reply = "ok" THEN "success" ELSE "error")

\* handle_call_result of a plain CALL that returned refcursors, which comes after
\* the recovery: fetch_refcursor_results is refused outside a transaction, and the
\* failure of a FETCH is neither marked nor recovered from.
FetchRefcursorResults(c, fetch) ==
  IF c.transaction_state = "active" THEN UnmarkedAnswer(Send(c, fetch))
  ELSE Return(c, "error")

HandleCallResult(c, fetch) ==
  IF c.ret = "error" THEN c ELSE FetchRefcursorResults(c, fetch)

\* A procedure call by CALL, with FetchRefcursors on.
RunCall(c, step, fetch) == HandleCallResult(RunSingle(c, step), fetch)

\* Two commands in a row; the second is sent only when the first succeeds.
SendNext(c, step) == IF c.pg.reply = "ok" THEN Send(c, step) ELSE c

SendBoth(c, steps) == SendNext(Send(c, steps[1]), steps[2])

\* Every answer but ok is an error, and marks the transaction.
MarkUnlessOk(sent) ==
  IF sent.pg.reply = "ok" THEN Return(sent, "success")
  ELSE Return(MarkFailed(sent), "error")

\* Mutant: the failure of a fragment is marked and not recovered from.
RunFragmentsUnrecovered(c, steps) ==
  IF c.ret = "error" THEN c ELSE MarkUnlessOk(SendBoth(c, steps))

\* execute_multi_statement: the fragments of one SQL text.  A missing result is
\* an error that does not mark the transaction.
HandleFragments(sent) ==
  IF sent.pg.reply = "null" THEN Return(sent, "error") ELSE MarkUnlessOk(sent)

RunFragments(c, steps) ==
  IF c.ret = "error" THEN c ELSE Recover(HandleFragments(SendBoth(c, steps)))

\* statement_execute_parameter_array: a batch of parameter sets.  A failure marks
\* the transaction and leaves the recovery to the caller, which does none.
RunParameterSets(c, steps) ==
  IF c.ret = "error" THEN c ELSE MarkUnlessOk(SendBoth(c, steps))

----------------------------------------------------------------------------

\* statement_commit_large_object_transaction and its rollback: only a block the
\* driver opened under autocommit is theirs, and what they return is not used.
CommitLargeObject(c, outcome) ==
  IF c.autocommit /\ c.transaction_state = "active"
  THEN Return(CommitTransaction(c, outcome), c.ret)
  ELSE c

RollbackLargeObject(c) ==
  IF c.autocommit /\ c.transaction_state # "idle"
  THEN Return(RollbackTransaction(c), c.ret)
  ELSE c

\* Making sure of a transaction, then one lo_* command in it: nothing marks the
\* transaction when that command fails.
SendWhenEnsured(ensured, step) ==
  IF ensured.ret = "error" THEN ensured ELSE UnmarkedAnswer(Send(ensured, step))

UseLargeObject(c, step) == SendWhenEnsured(EnsureLargeObjectTransaction(c), step)

\* A prepared execution with a large object bound in line: store the object, run
\* the statement, commit what autocommit opened, and only then look at the
\* result of the statement.
CommitThenHandle(sent, outcome) ==
  Recover(HandleExecutionResult(CommitLargeObject(sent, outcome), sent.pg.reply))

RunWhenStored(stored, step, outcome) ==
  IF stored.ret = "error" THEN HandleStatementError(RollbackLargeObject(stored))
  ELSE CommitThenHandle(Send(stored, step), outcome)

RunWithLargeObject(c, store, step, outcome) ==
  IF c.ret = "error" THEN c
  ELSE RunWhenStored(UseLargeObject(c, store), step, outcome)

\* data_at_exec_execute_current_row for a single parameter set, and for one set
\* of an array, where any answer but ok marks the transaction.
HandleSuppliedSet(sent, array) ==
  IF array THEN MarkUnlessOk(sent) ELSE HandleExecutionResult(sent, sent.pg.reply)

FinishSuppliedSet(result, last, outcome) ==
  IF result.ret = "error" THEN RollbackLargeObject(HandleStatementError(result))
  ELSE IF last THEN CommitLargeObject(result, outcome)
  ELSE result

RunSuppliedSet(c, step, last, array, outcome) ==
  FinishSuppliedSet(HandleSuppliedSet(Send(c, step), array), last, outcome)

\* statement_get_large_object_data on a descriptor that is already open.
ReadOn(c, phase, step) ==
  IF phase = "lo_stale" THEN Return(CloseResult(c, phase), "error")
  ELSE UnmarkedAnswer(Send(c, step))
=============================================================================
