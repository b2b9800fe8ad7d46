-------------------------- MODULE TransactionProofs --------------------------
(***************************************************************************)
(* What the commands of a session keep, for any set of work; then the      *)
(* type invariant of Transactions and the two invariants of run            *)
(* txn_all, for any statements, work and settings.  The inductive          *)
(* invariant says of the connection what none of the three says alone: a   *)
(* driver that takes no transaction to be open has no block on the server. *)
(* Each operator of Connection and Statement keeps it, so each action      *)
(* does, whatever order the application calls them in.                     *)
(*                                                                         *)
(* The second part proves, the same way, that the driver keeps at most one *)
(* savepoint in a block, for applications that set none of their own; the  *)
(* third what an application may rely on after an error, a refused COMMIT  *)
(* or a lost link, and that Transactions implements UnitOfWork.            *)
(***************************************************************************)
EXTENDS Transactions, TLAPS, WellFoundedInduction, SequenceTheorems, FiniteSetTheorems

----------------------------------------------------------------------------
(* The session                                                             *)

\* The links that are gone carry no block.
SessionInv(pg) == pg \in Session /\ (~pg.up => pg.block = "idle")

\* A command led from pg to next without opening a block.
Kept(pg, next) ==
  /\ SessionInv(next)
  /\ pg.block = "idle" => next.block = "idle"
  /\ next.up => pg.up

\* The newest savepoint of a name exists when any does.
LEMMA TopmostExists ==
  ASSUME NEW pg, pg \in Session, NEW name, Levels(pg, name) # {}
  PROVE  Topmost(pg, name) \in 1 .. Len(pg.stack)
<1>1. /\ Len(pg.stack) \in Nat
      /\ DOMAIN pg.stack = 1 .. Len(pg.stack)
  BY DEF Session
<1> DEFINE L == Levels(pg, name)
           T == {Len(pg.stack) - i : i \in L}
<1>2. L \subseteq 1 .. Len(pg.stack)
  BY <1>1 DEF Levels
<1>3. T \subseteq Nat /\ T # {}
  BY <1>1, <1>2
<1>4. PICK m \in T : \A k \in T : <<k, m>> \notin OpToRel(<, Nat)
  BY <1>3, NatLessThanWellFounded, WFMin
<1>5. \A k \in T : ~(k < m)
  BY <1>3, <1>4 DEF OpToRel
<1>6. PICK i \in L : m = Len(pg.stack) - i
  BY <1>4
<1>7. \A j \in L : j <= i
  <2> TAKE j \in L
  <2>1. Len(pg.stack) - j \in T
    OBVIOUS
  <2>2. ~(Len(pg.stack) - j < Len(pg.stack) - i)
    BY <2>1, <1>5, <1>6
  <2> HIDE DEF L, T
  <2> QED
    BY <2>2, <1>1, <1>2, <1>6
<1>8. Topmost(pg, name) \in L
  BY <1>6, <1>7 DEF Topmost
<1> QED
  BY <1>8, <1>2

----------------------------------------------------------------------------
(* Type and shape, command by command                                      *)

\* An error is an answer, and opens no block.
LEMMA RefuseKept ==
  ASSUME NEW pg, SessionInv(pg), pg.up
  PROVE  Kept(pg, Refuse(pg)) /\ Refuse(pg).reply = "error"
BY DEF SessionInv, Session, Replies, Kept, Refuse

\* Nor does an answer that changes nothing.
LEMMA AnswerKept ==
  ASSUME NEW pg, SessionInv(pg), NEW reply \in Replies
  PROVE  Kept(pg, Answer(pg, reply)) /\ Answer(pg, reply).reply = reply
BY DEF SessionInv, Session, Kept, Answer

\* A link that breaks leaves no block, whatever was open.
LEMMA LostKept ==
  ASSUME NEW pg, pg \in Session
  PROVE  SessionInv(Lost(pg)) /\ ~Lost(pg).up /\ Lost(pg).block = "idle"
BY EmptySeq DEF SessionInv, Session, Replies, Lost

\* The end of a block leaves none.
LEMMA EndBlockKept ==
  ASSUME NEW pg, SessionInv(pg), pg.up, NEW made \in SUBSET Work
  PROVE  /\ Kept(pg, EndBlock(pg, made))
         /\ EndBlock(pg, made).up
         /\ EndBlock(pg, made).block = "idle"
         /\ EndBlock(pg, made).reply = "ok"
BY EmptySeq DEF SessionInv, Session, Replies, Kept, EndBlock

\* The work of the open levels is work.
LEMMA PendingType ==
  ASSUME NEW pg, pg \in Session
  PROVE  Pending(pg) \in SUBSET Work
<1>1. pg.stack \in [1 .. Len(pg.stack) -> Level]
  BY LenProperties DEF Session
<1>2. \A i \in DOMAIN pg.stack : pg.stack[i].work \in SUBSET Work
  BY <1>1 DEF Level
<1> QED
  BY <1>2 DEF Pending

\* ROLLBACK leaves no block, and neither does it on a link that is gone.
LEMMA RollbackKept ==
  ASSUME NEW pg, SessionInv(pg)
  PROVE  /\ Kept(pg, Rollback(pg))
         /\ Rollback(pg).block = "idle"
<1>1. CASE pg.up
  BY <1>1, EndBlockKept DEF Rollback
<1>2. CASE ~pg.up
  <2>1. Rollback(pg) = Answer(pg, "null")
    BY <1>2 DEF Rollback
  <2>2. Kept(pg, Answer(pg, "null"))
    BY AnswerKept DEF Replies
  <2> QED
    BY <1>2, <2>1, <2>2 DEF Kept, SessionInv
<1> QED
  BY <1>1, <1>2

\* COMMIT leaves no block however it ends: carried out, refused, or cut off.
LEMMA CommitKept ==
  ASSUME NEW pg, SessionInv(pg), NEW outcome \in CommitOutcomes
  PROVE  /\ Kept(pg, Commit(pg, outcome))
         /\ Commit(pg, outcome).block = "idle"
<1> DEFINE made == IF pg.block = "open" THEN Pending(pg) ELSE {}
<1>1. made \in SUBSET Work /\ {} \in SUBSET Work
  BY PendingType DEF SessionInv
<1>2. CASE ~pg.up
  BY <1>2, AnswerKept DEF Commit, SessionInv, Replies, Answer, Session
<1>3. CASE pg.up
  <2>1. CASE outcome = "lost_before"
    BY <1>3, <2>1, LostKept DEF Commit, Kept, SessionInv
  <2>2. CASE outcome = "lost_after"
    <3>1. Commit(pg, outcome) = Lost(EndBlock(pg, made))
      BY <1>3, <2>2 DEF Commit
    <3> QED
      BY <1>1, <1>3, <3>1, EndBlockKept, LostKept DEF Kept, SessionInv
  <2>3. CASE outcome = "refused" /\ pg.block = "open"
    <3>1. Commit(pg, outcome) = Answer(EndBlock(pg, {}), "error")
      BY <1>3, <2>3 DEF Commit
    <3>2. SessionInv(EndBlock(pg, {})) /\ EndBlock(pg, {}).block = "idle"
      BY <1>1, <1>3, EndBlockKept DEF Kept
    <3> QED
      BY <1>3, <3>1, <3>2, AnswerKept DEF Kept, Replies, SessionInv
  <2>4. CASE /\ outcome \notin {"lost_before", "lost_after"}
             /\ ~(outcome = "refused" /\ pg.block = "open")
    <3>1. Commit(pg, outcome) = EndBlock(pg, made)
      BY <1>3, <2>4 DEF Commit
    <3> QED
      BY <1>1, <1>3, <3>1, EndBlockKept
  <2> QED
    BY <2>1, <2>2, <2>3, <2>4
<1> QED
  BY <1>2, <1>3

\* BEGIN is the one command that opens a block, and only when it succeeds.
LEMMA BeginKept ==
  ASSUME NEW pg, SessionInv(pg)
  PROVE  /\ SessionInv(Begin(pg))
         /\ Begin(pg).up => pg.up
         /\ Begin(pg).reply # "ok" /\ pg.block = "idle" => Begin(pg).block = "idle"
<1> DEFINE first == [name |-> "transaction", work |-> {}]
<1>1. <<first>> \in Seq(Level)
  BY DEF Level, Names
<1> QED
  BY <1>1, RefuseKept, AnswerKept
     DEF Begin, Kept, SessionInv, Session, Replies, Answer, Refuse

----------------------------------------------------------------------------
(* Savepoints                                                              *)

\* SAVEPOINT adds a level to the block there is.
LEMMA SavepointKept ==
  ASSUME NEW pg, SessionInv(pg), NEW name \in Names
  PROVE  Kept(pg, Savepoint(pg, name))
<1> DEFINE level == [name |-> name, work |-> {}]
<1>1. level \in Level
  BY DEF Level
<1>2. Append(pg.stack, level) \in Seq(Level)
  BY <1>1, AppendProperties DEF SessionInv, Session
<1>3. CASE ~pg.up
  BY <1>3, AnswerKept DEF Savepoint, Replies
<1>4. CASE pg.up /\ pg.block = "open"
  <2> HIDE DEF level
  <2>1. Savepoint(pg, name) =
          [pg EXCEPT !.stack = Append(@, level), !.reply = "ok"]
    BY <1>4 DEF Savepoint, level
  <2> QED
    BY <1>2, <1>4, <2>1 DEF Kept, SessionInv, Session, Replies
<1>5. CASE pg.up /\ pg.block # "open"
  BY <1>5, RefuseKept DEF Savepoint
<1> QED
  BY <1>3, <1>4, <1>5

\* RELEASE folds the freed levels into the one below, which stays a level.
LEMMA ReleaseKept ==
  ASSUME NEW pg, SessionInv(pg), NEW name \in Names
  PROVE  Kept(pg, Release(pg, name))
<1>1. CASE ~pg.up
  BY <1>1, AnswerKept DEF Release, Replies
<1>2. CASE pg.up /\ pg.block = "open" /\ Levels(pg, name) # {}
  <2> DEFINE top   == Topmost(pg, name)
             freed == UNION {pg.stack[i].work : i \in top .. Len(pg.stack)}
             below == [i \in 1 .. (top - 1) |->
                         IF i = top - 1
                         THEN [pg.stack[i] EXCEPT !.work = @ \union freed]
                         ELSE pg.stack[i]]
  <2>1. pg.stack \in [1 .. Len(pg.stack) -> Level] /\ Len(pg.stack) \in Nat
    BY LenProperties DEF SessionInv, Session
  <2>2. top \in 1 .. Len(pg.stack)
    BY <1>2, TopmostExists DEF SessionInv
  <2> HIDE DEF top
  <2>3. freed \in SUBSET Work
    BY <2>1, <2>2 DEF Level
  <2> HIDE DEF freed
  <2>4. below \in [1 .. (top - 1) -> Level]
    BY <2>1, <2>2, <2>3 DEF Level
  <2>5. below \in Seq(Level)
    <3>1. top - 1 \in Nat
      BY <2>1, <2>2
    <3> HIDE DEF below
    <3> QED
      BY <2>4, <3>1, SeqDef
  <2>6. Release(pg, name) = [pg EXCEPT !.stack = below, !.reply = "ok"]
    BY <1>2 DEF Release, below, freed, top
  <2> HIDE DEF below
  <2> QED
    BY <1>2, <2>5, <2>6 DEF Kept, SessionInv, Session, Replies
<1>3. CASE pg.up /\ ~(pg.block = "open" /\ Levels(pg, name) # {})
  BY <1>3, RefuseKept DEF Release
<1> QED
  BY <1>1, <1>2, <1>3

\* ROLLBACK TO may revive an aborted block, and never makes one.
LEMMA RollbackToKept ==
  ASSUME NEW pg, SessionInv(pg), NEW name \in Names
  PROVE  Kept(pg, RollbackTo(pg, name))
<1>1. CASE ~pg.up
  BY <1>1, AnswerKept DEF RollbackTo, Replies
<1>2. CASE pg.up /\ pg.block # "idle" /\ Levels(pg, name) # {}
  <2> DEFINE top  == Topmost(pg, name)
             left == [i \in 1 .. top |->
                        IF i = top THEN [pg.stack[i] EXCEPT !.work = {}]
                        ELSE pg.stack[i]]
  <2>1. pg.stack \in [1 .. Len(pg.stack) -> Level] /\ Len(pg.stack) \in Nat
    BY LenProperties DEF SessionInv, Session
  <2>2. top \in 1 .. Len(pg.stack)
    BY <1>2, TopmostExists DEF SessionInv
  <2> HIDE DEF top
  <2>3. left \in [1 .. top -> Level]
    BY <2>1, <2>2 DEF Level
  <2>4. left \in Seq(Level)
    BY <2>2, <2>1, <2>3, SeqDef
  <2>5. RollbackTo(pg, name) =
          [pg EXCEPT !.block = "open", !.stack = left, !.reply = "ok"]
    BY <1>2 DEF RollbackTo, left, top
  <2> HIDE DEF left
  <2> QED
    BY <1>2, <2>4, <2>5 DEF Kept, SessionInv, Session, Replies
<1>3. CASE pg.up /\ ~(pg.block # "idle" /\ Levels(pg, name) # {})
  BY <1>3, RefuseKept DEF RollbackTo
<1> QED
  BY <1>1, <1>2, <1>3

\* Two commands in a row keep what each keeps.
LEMMA KeptTwice ==
  ASSUME NEW pg, NEW middle, NEW next, Kept(pg, middle), Kept(middle, next)
  PROVE  Kept(pg, next)
BY DEF Kept

\* The driver's RELEASE and SAVEPOINT in one query string.
LEMMA ReleaseThenSavepointKept ==
  ASSUME NEW pg, SessionInv(pg), NEW name \in Names
  PROVE  Kept(pg, ReleaseThenSavepoint(pg, name))
<1> DEFINE released == Release(pg, name)
<1>1. Kept(pg, released) /\ SessionInv(released)
  BY ReleaseKept DEF Kept
<1>2. Kept(released, Savepoint(released, name))
  BY <1>1, SavepointKept
<1> HIDE DEF released
<1>3. Kept(pg, SavepointAfter(released, name))
  BY <1>1, <1>2, KeptTwice DEF SavepointAfter
<1> QED
  BY <1>3 DEF ReleaseThenSavepoint, released

----------------------------------------------------------------------------
(* Any other statement                                                     *)

\* The work of a statement joins the innermost level, or is durable at once.
LEMMA MadeKept ==
  ASSUME NEW pg, SessionInv(pg), pg.up, NEW work \in SUBSET Work
  PROVE  Kept(pg, Made(pg, work))
<1>1. CASE pg.block = "idle"
  BY <1>1 DEF Made, Kept, SessionInv, Session, Replies
<1>2. CASE pg.block = "open"
  <2> DEFINE n == Len(pg.stack)
             stack == [pg.stack EXCEPT ![n].work = @ \union work]
  <2>1. pg.stack \in [1 .. n -> Level] /\ n \in Nat
    BY LenProperties DEF SessionInv, Session
  <2>2. stack \in [1 .. n -> Level]
    BY <2>1 DEF Level
  <2>3. stack \in Seq(Level)
    BY <2>1, <2>2, SeqDef
  <2>4. Made(pg, work) = [pg EXCEPT !.stack = stack, !.reply = "ok"]
    BY <1>2 DEF Made, SessionInv, Session
  <2> HIDE DEF stack
  <2> QED
    BY <1>2, <2>3, <2>4 DEF Kept, SessionInv, Session, Replies
<1>3. CASE pg.block \notin {"idle", "open"}
  BY <1>3, RefuseKept DEF Made
<1> QED
  BY <1>1, <1>2, <1>3

\* A statement never opens a block, whatever it does and however it ends.
LEMMA RunKept ==
  ASSUME NEW pg, SessionInv(pg), NEW work \in SUBSET Work,
         NEW outcome \in RunOutcomes
  PROVE  Kept(pg, Run(pg, work, outcome))
<1>1. CASE ~pg.up
  BY <1>1, AnswerKept DEF Run, Replies
<1>2. CASE pg.up
  <2>1. /\ Kept(pg, Refuse(pg))
        /\ Kept(pg, Made(pg, work))
        /\ Kept(pg, Answer(pg, "copy_out"))
    BY <1>2, RefuseKept, MadeKept, AnswerKept DEF Replies
  <2>2. Kept(pg, Lost(pg))
    BY <1>2, LostKept DEF Kept, SessionInv
  <2>3. Kept(pg, Lost(Made(pg, work)))
    BY <1>2, <2>1, LostKept DEF Kept, SessionInv
  <2> QED
    BY <1>2, <2>1, <2>2, <2>3 DEF Run
<1> QED
  BY <1>1, <1>2

----------------------------------------------------------------------------
(* The inductive invariant                                                 *)

Good(c) ==
  /\ c \in ConnectionRecord
  /\ SessionInv(c.pg)
  /\ ~Connected(c) => ~c.pg.up
  /\ c.transaction_state = "idle" => c.pg.block = "idle"
  /\ c.statement_savepoint_active =>
       c.transaction_state # "idle" /\ c.rollback_on_error = "statement"

Inv == TypeOK /\ Good(conn)

----------------------------------------------------------------------------
(* The operators of Connection                                             *)

\* A command that opens no block may replace the session.
LEMMA SessionReplaced ==
  ASSUME NEW c, Good(c), NEW pg, Kept(c.pg, pg)
  PROVE  Good([c EXCEPT !.pg = pg])
BY DEF Good, Kept, SessionInv, ConnectionRecord, Connected

\* The return code is of no consequence.
LEMMA ReturnGood ==
  ASSUME NEW c, Good(c), NEW code \in {"success", "error"}
  PROVE  Good(Return(c, code)) /\ Return(c, code).ret = code
BY DEF Good, ConnectionRecord, Connected, Return

\* The same with the answer as the return code.
LEMMA ReturnAnswerGood ==
  ASSUME NEW c, Good(c), NEW pg, Kept(c.pg, pg)
  PROVE  Good(ReturnAnswer(c, pg))
BY DEF Good, Kept, SessionInv, ConnectionRecord, Connected, ReturnAnswer

\* A driver may take the transaction to be over once there is no block.
LEMMA EndedGood ==
  ASSUME NEW c, Good(c), c.pg.block = "idle"
  PROVE  Good(EnterTransactionState(c, "idle"))
BY DEF Good, ConnectionRecord, Connected, EnterTransactionState,
       TransactionStates

\* connection_begin_transaction: a block on the server only together with ACTIVE.
LEMMA BeginTransactionGood ==
  ASSUME NEW c, Good(c)
  PROVE  Good(BeginTransaction(c))
<1>1. CASE ~Connected(c) \/ c.transaction_state = "active"
  BY <1>1, ReturnGood DEF BeginTransaction
<1>2. CASE Connected(c) /\ c.transaction_state # "active"
  <2> DEFINE pg == Begin(c.pg)
  <2>1. /\ SessionInv(pg)
        /\ pg.up => c.pg.up
        /\ pg.reply # "ok" /\ c.pg.block = "idle" => pg.block = "idle"
    BY BeginKept DEF Good
  <2> HIDE DEF pg
  <2>2. BeginTransaction(c) = Begun(ReturnAnswer(c, pg))
    BY <1>2 DEF BeginTransaction, pg
  <2>3. Good(Begun(ReturnAnswer(c, pg)))
    BY <1>2, <2>1 DEF Good, SessionInv, ConnectionRecord, Connected, Begun,
       ReturnAnswer, EnterTransactionState, TransactionStates
  <2> QED
    BY <2>2, <2>3
<1> QED
  BY <1>1, <1>2

\* connection_commit: whatever the server answers, IDLE is true afterwards.
LEMMA CommitTransactionGood ==
  ASSUME NEW c, Good(c), NEW outcome \in CommitOutcomes
  PROVE  Good(CommitTransaction(c, outcome))
<1> DEFINE pg == Commit(c.pg, outcome)
<1>1. Kept(c.pg, pg) /\ pg.block = "idle"
  BY CommitKept DEF Good
<1> HIDE DEF pg
<1>2. Good(ReturnAnswer(c, pg)) /\ ReturnAnswer(c, pg).pg.block = "idle"
  BY <1>1, ReturnAnswerGood DEF ReturnAnswer, Good, ConnectionRecord
<1>3. Good(EnterTransactionState(ReturnAnswer(c, pg), "idle"))
  BY <1>2, EndedGood
<1> QED
  BY <1>3, ReturnGood DEF CommitTransaction, pg

\* connection_rollback likewise.
LEMMA RollbackTransactionGood ==
  ASSUME NEW c, Good(c)
  PROVE  Good(RollbackTransaction(c))
<1> DEFINE pg == Rollback(c.pg)
<1>1. Kept(c.pg, pg) /\ pg.block = "idle"
  BY RollbackKept DEF Good
<1> HIDE DEF pg
<1>2. Good(ReturnAnswer(c, pg)) /\ ReturnAnswer(c, pg).pg.block = "idle"
  BY <1>1, ReturnAnswerGood DEF ReturnAnswer, Good, ConnectionRecord
<1>3. Good(EnterTransactionState(ReturnAnswer(c, pg), "idle"))
  BY <1>2, EndedGood
<1> QED
  BY <1>3, ReturnGood DEF RollbackTransaction, pg

\* connection_ensure_transaction, and its form for large objects.
LEMMA EnsureGood ==
  ASSUME NEW c, Good(c)
  PROVE  Good(EnsureTransaction(c)) /\ Good(EnsureLargeObjectTransaction(c))
BY ReturnGood, BeginTransactionGood DEF EnsureTransaction,
   EnsureLargeObjectTransaction

\* connection_begin_statement_savepoint: the flag is set only under a transaction
\* and statement-level rollback.
LEMMA SavepointGood ==
  ASSUME NEW c, Good(c)
  PROVE  Good(BeginStatementSavepoint(c))
<1>0. "driver" \in Names
  BY DEF Names
<1>1. ASSUME NEW pg, Kept(c.pg, pg), WantsStatementSavepoint(c)
      PROVE  Good(SavepointAnswered(c, SetAgain(pg)))
  <2>1. Kept(c.pg, SetAgain(pg))
    <3>1. Kept(pg, Savepoint(pg, "driver"))
      BY <1>0, <1>1, SavepointKept DEF Kept
    <3> QED
      BY <1>1, <3>1, KeptTwice DEF SetAgain
  <2> DEFINE last == SetAgain(pg)
  <2>2. Kept(c.pg, last)
    BY <2>1
  <2> HIDE DEF last
  <2>3. Good(SavepointAnswered(c, last))
    BY <1>1, <2>2 DEF Good, Kept, SessionInv, ConnectionRecord, Connected,
       SavepointAnswered, WantsStatementSavepoint
  <2> QED
    BY <2>3 DEF last
<1>2. /\ Kept(c.pg, Savepoint(c.pg, "driver"))
      /\ Kept(c.pg, ReleaseThenSavepoint(c.pg, "driver"))
  BY <1>0, SavepointKept, ReleaseThenSavepointKept DEF Good
<1> QED
  BY <1>1, <1>2 DEF BeginStatementSavepoint

\* A failed statement marks a transaction that is open.
LEMMA MarkFailedGood ==
  ASSUME NEW c, Good(c)
  PROVE  Good(MarkFailed(c))
BY DEF Good, ConnectionRecord, Connected, MarkFailed, TransactionStates

\* connection_handle_statement_error: to ACTIVE by a rewind, or to IDLE by a
\* rollback.
LEMMA HandleStatementErrorGood ==
  ASSUME NEW c, Good(c)
  PROVE  Good(HandleStatementError(c))
<1> DEFINE pg == RollbackTo(c.pg, "driver")
           state == IF pg.reply = "ok" THEN "active" ELSE c.transaction_state
           rewound == [c EXCEPT !.pg = pg, !.transaction_state = state]
<1>1. Kept(c.pg, pg)
  BY RollbackToKept DEF Good, Names
<1> HIDE DEF pg
<1>2. c.transaction_state = "failed" => Good(rewound)
  BY <1>1 DEF Good, Kept, SessionInv, ConnectionRecord, Connected,
     TransactionStates
<1>3. Good(Return(RollbackTransaction(c), c.ret))
  BY ReturnGood, RollbackTransactionGood DEF Good, ConnectionRecord
<1>4. c.transaction_state = "failed" =>
        HandleStatementError(c) \in {c, rewound, Return(RollbackTransaction(c), c.ret)}
  BY DEF HandleStatementError, pg
<1> QED
  BY <1>2, <1>3, <1>4 DEF HandleStatementError

\* SQLSetConnectAttr(SQL_ATTR_AUTOCOMMIT).
LEMMA SetAutocommitGood ==
  ASSUME NEW c, Good(c), NEW on \in BOOLEAN, NEW outcome \in CommitOutcomes
  PROVE  Good(SetAutocommit(c, on, outcome))
<1>1. ASSUME NEW d, Good(d)
      PROVE  Good([d EXCEPT !.autocommit = on])
  BY <1>1 DEF Good, ConnectionRecord, Connected
<1>2. Good(Return(c, "success")) /\ Good(CommitTransaction(c, outcome))
  BY ReturnGood, CommitTransactionGood
<1>3. Good(Return(RollbackTransaction(c), "success"))
  BY ReturnGood, RollbackTransactionGood
<1> QED
  BY <1>1, <1>2, <1>3 DEF SetAutocommit

\* A disconnect and a connect leave no block, whatever the driver remembers.
LEMMA LinkGood ==
  ASSUME NEW c, Good(c)
  PROVE  /\ Good(Disconnect(c))
         /\ ~Connected(c) => Good(Connect(c))
         /\ Good([c EXCEPT !.pg = Lost(@)])
<1>1. SessionInv(Lost(c.pg)) /\ ~Lost(c.pg).up /\ Lost(c.pg).block = "idle"
  BY LostKept DEF Good, SessionInv
<1>2. LET pg == FreshSession(c.pg.durable)
      IN  SessionInv(pg) /\ pg.block = "idle"
  BY EmptySeq DEF Good, ConnectionRecord, Session, SessionInv, FreshSession,
     Replies
<1>3. Good(Disconnect(c)) /\ Good([c EXCEPT !.pg = Lost(@)])
  BY <1>1 DEF Good, ConnectionRecord, Connected, Disconnect, Return, SessionInv
<1>4. Good(Connect(c))
  BY <1>2 DEF Good, ConnectionRecord, Connected, Connect, Return, SessionInv
<1> QED
  BY <1>3, <1>4

----------------------------------------------------------------------------
(* The operators of Statement                                              *)

\* One statement sent to the server.
LEMMA SendGood ==
  ASSUME NEW c, Good(c), NEW step \in Steps
  PROVE  Good(Send(c, step))
<1>1. Kept(c.pg, Run(c.pg, step.work, step.outcome))
  BY RunKept DEF Good, Steps
<1> QED
  BY <1>1, SessionReplaced DEF Send

\* Marking and recovering, in the ways the callers combine them.
LEMMA HandlingGood ==
  ASSUME NEW c, Good(c), NEW reply
  PROVE  /\ Good(HandleExecutionResult(c, reply))
         /\ Good(Recover(c))
         /\ Good(MarkUnlessOk(c))
         /\ Good(HandleFragments(c))
         /\ Good(UnmarkedAnswer(c))
<1>1. Good(MarkFailed(c))
  BY MarkFailedGood
<1> QED
  BY <1>1, ReturnGood, HandleStatementErrorGood
     DEF HandleExecutionResult, Recover, MarkUnlessOk, HandleFragments,
         UnmarkedAnswer

\* A descriptor of an earlier transaction may abort the one it is closed in.
LEMMA CloseResultGood ==
  ASSUME NEW c, Good(c), NEW p
  PROVE  Good(CloseResult(c, p))
<1>1. c.pg.up => Kept(c.pg, Refuse(c.pg))
  BY RefuseKept DEF Good
<1> QED
  BY <1>1, SessionReplaced DEF CloseResult

\* The opening of an execution.
LEMMA OpenGood ==
  ASSUME NEW c, Good(c), NEW kind, NEW p, NEW direct
  PROVE  Good(Open(c, kind, p, direct))
<1>1. ASSUME NEW d, Good(d)
      PROVE  Good(Enter(d, kind))
  BY <1>1, ReturnGood, EnsureGood, SavepointGood DEF Enter, Protect
<1>2. ASSUME NEW d, Good(d)
      PROVE  Good(CloseWhenEntered(d, p))
  BY <1>2, CloseResultGood DEF CloseWhenEntered
<1> QED
  BY <1>1, <1>2, CloseResultGood DEF Open

\* One command, whatever the session makes of it.
LEMMA RunCommandGood ==
  ASSUME NEW c, Good(c), NEW pg, Kept(c.pg, pg)
  PROVE  Good(RunCommand(c, pg))
<1>1. Good([c EXCEPT !.pg = pg])
  BY SessionReplaced
<1> QED
  BY <1>1, HandlingGood DEF RunCommand

\* A single statement.
LEMMA RunSingleGood ==
  ASSUME NEW c, Good(c), NEW step \in Steps
  PROVE  Good(RunSingle(c, step))
<1>1. Kept(c.pg, Run(c.pg, step.work, step.outcome))
  BY RunKept DEF Good, Steps
<1> QED
  BY <1>1, RunCommandGood DEF RunSingle

\* A call and the fetching of its cursors.
LEMMA RunCallGood ==
  ASSUME NEW c, Good(c), NEW step \in Steps, NEW fetch \in Steps
  PROVE  Good(RunCall(c, step, fetch))
<1> DEFINE called == RunSingle(c, step)
<1>1. Good(called)
  BY RunSingleGood
<1> HIDE DEF called
<1>2. Good(FetchRefcursorResults(called, fetch))
  BY <1>1, SendGood, HandlingGood, ReturnGood DEF FetchRefcursorResults
<1> QED
  BY <1>1, <1>2 DEF RunCall, HandleCallResult, called

\* Fragments and parameter sets.
LEMMA RunBothGood ==
  ASSUME NEW c, Good(c), NEW first \in Steps, NEW second \in Steps
  PROVE  /\ Good(RunFragments(c, <<first, second>>))
         /\ Good(RunParameterSets(c, <<first, second>>))
<1> DEFINE steps == <<first, second>>
<1>1. steps[1] = first /\ steps[2] = second
  OBVIOUS
<1> HIDE DEF steps
<1>2. Good(SendBoth(c, steps))
  BY <1>1, SendGood DEF SendBoth, SendNext
<1>3. Good(RunFragments(c, steps)) /\ Good(RunParameterSets(c, steps))
  BY <1>2, HandlingGood DEF RunFragments, RunParameterSets
<1> QED
  BY <1>3 DEF steps

\* Large objects: the driver ends only a block it opened, and one lo_* command
\* is a command like any other.
LEMMA LargeObjectGood ==
  ASSUME NEW c, Good(c), NEW step \in Steps, NEW outcome \in CommitOutcomes
  PROVE  /\ Good(CommitLargeObject(c, outcome))
         /\ Good(RollbackLargeObject(c))
         /\ Good(UseLargeObject(c, step))
<1>1. c.ret \in {"success", "error"}
  BY DEF Good, ConnectionRecord
<1>2. Good(CommitLargeObject(c, outcome)) /\ Good(RollbackLargeObject(c))
  BY <1>1, ReturnGood, CommitTransactionGood, RollbackTransactionGood
     DEF CommitLargeObject, RollbackLargeObject
<1>3. Good(UseLargeObject(c, step))
  BY EnsureGood, SendGood, HandlingGood DEF UseLargeObject, SendWhenEnsured
<1> QED
  BY <1>2, <1>3

\* A large object bound in line.
LEMMA RunWithLargeObjectGood ==
  ASSUME NEW c, Good(c), NEW store \in Steps, NEW step \in Steps,
         NEW outcome \in CommitOutcomes
  PROVE  Good(RunWithLargeObject(c, store, step, outcome))
<1>1. ASSUME NEW d, Good(d)
      PROVE  Good(CommitThenHandle(d, outcome))
  BY <1>1, LargeObjectGood, HandlingGood DEF CommitThenHandle
<1>2. ASSUME NEW d, Good(d)
      PROVE  Good(RunWhenStored(d, step, outcome))
  BY <1>1, <1>2, SendGood, LargeObjectGood, HandleStatementErrorGood
     DEF RunWhenStored
<1> QED
  BY <1>2, LargeObjectGood DEF RunWithLargeObject

\* One set of a data-at-execution.
LEMMA RunSuppliedSetGood ==
  ASSUME NEW c, Good(c), NEW step \in Steps, NEW last, NEW array,
         NEW outcome \in CommitOutcomes
  PROVE  Good(RunSuppliedSet(c, step, last, array, outcome))
<1>1. Good(HandleSuppliedSet(Send(c, step), array))
  BY SendGood, HandlingGood DEF HandleSuppliedSet
<1>2. ASSUME NEW d, Good(d)
      PROVE  Good(FinishSuppliedSet(d, last, outcome))
  BY <1>2, LargeObjectGood, HandleStatementErrorGood DEF FinishSuppliedSet
<1> QED
  BY <1>1, <1>2 DEF RunSuppliedSet

\* Reading on from a descriptor.
LEMMA ReadOnGood ==
  ASSUME NEW c, Good(c), NEW p, NEW step \in Steps
  PROVE  Good(ReadOn(c, p, step))
BY SendGood, HandlingGood, CloseResultGood, ReturnGood DEF ReadOn

----------------------------------------------------------------------------
(* The inputs of the actions, and what the application learns              *)

\* What the actions choose from are steps and outcomes.
LEMMA Inputs ==
  /\ Changes \subseteq SUBSET Work
  /\ NoCopy \subseteq Outcomes /\ Outcomes \subseteq RunOutcomes
  /\ \A reached : After(reached, Outcomes) \subseteq RunOutcomes
  /\ \A reached : After(reached, NoCopy) \subseteq RunOutcomes
  /\ \A reached : After(reached, FetchOutcomes) \subseteq RunOutcomes
  /\ \A reached : After(reached, CommitOutcomes) \subseteq CommitOutcomes
  /\ \A work \in Changes, outcome \in RunOutcomes :
       [work |-> work, outcome |-> outcome] \in Steps
  /\ \A outcome \in RunOutcomes :
       [work |-> {}, outcome |-> outcome] \in Steps
BY DEF Changes, Fresh, NoCopy, FetchOutcomes, Outcomes, RunOutcomes, CommitOutcomes,
   After, Steps

\* What the application keeps has its type, whatever it is told.
LEMMA AppTyped ==
  ASSUME app \in AppRecord, NEW c, NEW work \in SUBSET Work, NEW alone,
         NEW ret, NEW commit, NEW command
  PROVE  /\ Learned(c, alone, work) \in AppRecord
         /\ Told(c, work) \in AppRecord
         /\ Finished(ret, commit) \in AppRecord
         /\ ToldOfSavepoint(c, command) \in AppRecord
         /\ Unmarked(app) \in AppRecord
<1>1. /\ Unmarked(app) \in AppRecord
      /\ Finished(ret, commit) \in AppRecord
  BY DEF AppRecord, Unmarked, Finished
<1>2. ASSUME NEW made \in SUBSET Work, NEW how
      PROVE  Learned(c, how, made) \in AppRecord
  BY <1>1, <1>2 DEF AppRecord, Learned
<1>3. Told(c, work) \in AppRecord /\ Told(c, {}) \in AppRecord
  BY <1>2 DEF Told
<1>4. ToldOfSavepoint(c, command) \in AppRecord
  BY <1>3 DEF AppRecord, ToldOfSavepoint
<1> QED
  BY <1>1, <1>2, <1>3, <1>4

\* Forgetting the answer changes nothing that is kept.
LEMMA ForgetGood ==
  ASSUME NEW c, Good(c)
  PROVE  Good(Forget(c))
<1>1. Kept(c.pg, Answer(c.pg, "ok"))
  BY AnswerKept DEF Good, Replies
<1> QED
  BY <1>1, SessionReplaced DEF Forget

\* A call that ends with a good connection keeps the invariant.
LEMMA CallKeepsInv ==
  ASSUME NEW c, Good(c), NEW phases \in [Stmts -> Phases],
         conn' = Forget(c), phase' = Outlived(c, phases),
         executed' \in [Stmts -> SUBSET Work], app' \in AppRecord
  PROVE  Inv'
<1>1. Good(Forget(c))
  BY ForgetGood
<1>2. Outlived(c, phases) \in [Stmts -> Phases]
  BY DEF Outlived, Phases
<1>3. Good(conn')
  BY <1>1
<1>4. Good(conn)'
  BY <1>3 DEF Good, SessionInv, Connected, ConnectionRecord, Session, Level,
     Replies, Names, TransactionStates, RollbackModes
<1>5. TypeOK'
  BY <1>2, <1>3 DEF TypeOK, Good
<1> QED
  BY <1>4, <1>5 DEF Inv

----------------------------------------------------------------------------
(* The actions                                                             *)

\* The same for a call on a statement, as its actions write it.
LEMMA BecomesKeepsInv ==
  ASSUME Inv, NEW s \in Stmts, NEW c, Good(c), NEW p \in Phases,
         Becomes(s, c, p), executed' \in [Stmts -> SUBSET Work],
         app' \in AppRecord
  PROVE  Inv'
<1>1. [phase EXCEPT ![s] = p] \in [Stmts -> Phases]
  BY DEF Inv, TypeOK
<1> QED
  BY <1>1, CallKeepsInv DEF Becomes

\* An execution that has run.
LEMMA ExecutedKeepsInv ==
  ASSUME Inv, NEW s \in Stmts, NEW opened, NEW ran, Good(ran), NEW direct,
         NEW work \in SUBSET Work, Executed(s, opened, ran, direct, work)
  PROVE  Inv'
<1> DEFINE p == IF opened.ret = "error" /\ ~direct THEN phase[s] ELSE "idle"
<1>1. p \in Phases
  BY DEF Inv, TypeOK, Phases
<1> HIDE DEF p
<1>2. app' \in AppRecord /\ executed' \in [Stmts -> SUBSET Work]
  BY AppTyped DEF Executed, Inv, TypeOK
<1>3. Becomes(s, ran, p)
  BY DEF Executed, p
<1> QED
  BY <1>1, <1>2, <1>3, BecomesKeepsInv

\* The initial connection has no transaction on either side.
LEMMA InitInv == Init => Inv
<1> SUFFICES ASSUME Init PROVE Inv
  OBVIOUS
<1>1. PICK mode \in Modes :
        conn = [state |-> "connected", autocommit |-> TRUE,
                rollback_on_error |-> mode, transaction_state |-> "idle",
                statement_savepoint_active |-> FALSE, ret |-> "success",
                pg |-> FreshSession({})]
  BY DEF Init
<1>2. mode \in RollbackModes
  BY ModesAssumption
<1>3. LET pg == FreshSession({})
      IN  SessionInv(pg) /\ pg.block = "idle" /\ pg.up
  BY EmptySeq DEF SessionInv, FreshSession, Session, Replies
<1>4. Good(conn)
  BY <1>1, <1>2, <1>3 DEF Good, ConnectionRecord, TransactionStates, Connected,
     SessionInv
<1>5. TypeOK
  BY <1>4 DEF TypeOK, Init, Good, Phases, AppRecord
<1> QED
  BY <1>4, <1>5 DEF Inv

\* The executions of one statement, one by one.
LEMMA ExecutionsKeepInv ==
  ASSUME Inv, NEW s \in Stmts,
         \/ ExecuteSingle(s)
         \/ ExecuteCall(s)
         \/ ExecuteMultiStatement(s)
         \/ ExecuteParameterArray(s)
         \/ ExecuteWithLargeObject(s)
  PROVE  Inv'
<1>0. Good(conn)
  BY DEF Inv
<1>1. CASE ExecuteSingle(s)
  <2>1. PICK w \in Changes, outcome \in Outcomes, direct \in BOOLEAN :
          LET opened == Open(conn, "plain", phase[s], direct)
          IN  Executed(s, opened,
                       RunSingle(opened, [work |-> w, outcome |-> outcome]),
                       direct, w)
    BY <1>1 DEF ExecuteSingle
  <2>2. Good(RunSingle(Open(conn, "plain", phase[s], direct),
                       [work |-> w, outcome |-> outcome]))
    BY <1>0, OpenGood, Inputs, RunSingleGood
  <2> QED
    BY <2>1, <2>2, Inputs, ExecutedKeepsInv
<1>2. ASSUME NEW name, NEW outcomes \in {Outcomes, NoCopy},
             ExecuteBoth(s, name, outcomes)
      PROVE  Inv'
  <2>1. ASSUME NEW first \in Steps, NEW second \in Steps, NEW direct,
               ExecutePair(s, name, first, second, direct)
        PROVE  Inv'
    <3>1. Good(RunBoth(name, Open(conn, "plain", phase[s], direct),
                       <<first, second>>))
      BY <1>0, OpenGood, RunBothGood DEF RunBoth
    <3>2. first.work \union second.work \in SUBSET Work
      BY DEF Steps
    <3> QED
      BY <2>1, <3>1, <3>2, ExecutedKeepsInv DEF ExecutePair
  <2>2. \E first, second \in Steps, direct \in BOOLEAN :
          ExecutePair(s, name, first, second, direct)
    BY <1>2, Inputs DEF ExecuteBoth
  <2> QED
    BY <2>1, <2>2
<1>3. CASE ExecuteMultiStatement(s) \/ ExecuteParameterArray(s)
  BY <1>2, <1>3 DEF ExecuteMultiStatement, ExecuteParameterArray
<1>4. CASE ExecuteWithLargeObject(s)
  <2>1. PICK w \in Changes, stored \in NoCopy :
        \E outcome \in After(stored = "ok", NoCopy) :
        \E end \in After(conn.autocommit /\ outcome = "ok", CommitOutcomes) :
          LET opened == Open(conn, "plain", phase[s], FALSE)
          IN  Executed(s, opened,
                       RunWithLargeObject(opened,
                                          [work |-> w, outcome |-> stored],
                                          [work |-> w, outcome |-> outcome], end),
                       FALSE, w)
    BY <1>4 DEF ExecuteWithLargeObject
  <2>2. PICK outcome \in After(stored = "ok", NoCopy) :
        \E end \in After(conn.autocommit /\ outcome = "ok", CommitOutcomes) :
          LET opened == Open(conn, "plain", phase[s], FALSE)
          IN  Executed(s, opened,
                       RunWithLargeObject(opened,
                                          [work |-> w, outcome |-> stored],
                                          [work |-> w, outcome |-> outcome], end),
                       FALSE, w)
    BY <2>1
  <2>3. PICK end \in After(conn.autocommit /\ outcome = "ok", CommitOutcomes) :
          LET opened == Open(conn, "plain", phase[s], FALSE)
          IN  Executed(s, opened,
                       RunWithLargeObject(opened,
                                          [work |-> w, outcome |-> stored],
                                          [work |-> w, outcome |-> outcome], end),
                       FALSE, w)
    BY <2>2
  <2>4. Good(RunWithLargeObject(Open(conn, "plain", phase[s], FALSE),
                                [work |-> w, outcome |-> stored],
                                [work |-> w, outcome |-> outcome], end))
    BY <1>0, OpenGood, Inputs, RunWithLargeObjectGood
  <2> QED
    BY <2>3, <2>4, Inputs, ExecutedKeepsInv
<1>5. CASE ExecuteCall(s)
  <2> DEFINE opened(direct) == Open(conn, "plain", phase[s], direct)
             ran(w, outcome, fetched, direct) ==
               RunCall(opened(direct), [work |-> w, outcome |-> outcome],
                       [work |-> {}, outcome |-> fetched])
  <2>1. PICK w \in Changes, outcome \in NoCopy, direct \in BOOLEAN :
        \E fetched \in After(outcome = "ok", FetchOutcomes) :
          Executed(s, opened(direct), ran(w, outcome, fetched, direct), direct, w)
    BY <1>5 DEF ExecuteCall
  <2>2. PICK fetched \in RunOutcomes :
          Executed(s, opened(direct), ran(w, outcome, fetched, direct), direct, w)
    BY <2>1, Inputs
  <2>3. Good(ran(w, outcome, fetched, direct))
    BY <1>0, OpenGood, Inputs, RunCallGood
  <2> HIDE DEF ran, opened
  <2> QED
    BY <2>2, <2>3, Inputs, ExecutedKeepsInv
<1> QED
  BY <1>1, <1>3, <1>4, <1>5

\* Commands sent as statement text: exempt, savepoint and transaction commands.
LEMMA CommandsKeepInv ==
  ASSUME Inv, NEW s \in Stmts,
         \/ ExecuteExempt(s)
         \/ ExecuteSavepointCommand(s)
         \/ ExecuteTransactionText(s)
         \/ ExecuteUnmanaged(s)
  PROVE  Inv'
<1>0. /\ Good(conn) /\ phase[s] \in Phases /\ "idle" \in Phases
      /\ app \in AppRecord /\ executed \in [Stmts -> SUBSET Work]
      /\ {} \in SUBSET Work
  BY DEF Inv, TypeOK, Phases
<1>1. CASE ExecuteExempt(s)
  <2>1. PICK w \in Changes, outcome \in NoCopy, direct \in BOOLEAN :
          LET opened == Open(conn, "exempt", phase[s], direct)
              ran    == RunSingle(opened, [work |-> w, outcome |-> outcome])
              alone  == conn.autocommit \/ conn.transaction_state = "idle"
          IN  /\ Becomes(s, ran, "idle")
              /\ app' = Learned(ran, alone, w)
              /\ UNCHANGED executed
    BY <1>1 DEF ExecuteExempt
  <2>2. Good(RunSingle(Open(conn, "exempt", phase[s], direct),
                       [work |-> w, outcome |-> outcome]))
    BY <1>0, OpenGood, Inputs, RunSingleGood
  <2>3. app' \in AppRecord
    BY <1>0, <2>1, Inputs, AppTyped
  <2> QED
    BY <1>0, <2>1, <2>2, <2>3, BecomesKeepsInv
<1>2. CASE ExecuteSavepointCommand(s)
  <2>1. PICK command \in SavepointCommands :
          LET opened == Open(conn, "savepoint_control", phase[s], TRUE)
              ran    == RunSavepointCommand(opened, command)
          IN  /\ Becomes(s, ran, "idle")
              /\ app' = ToldOfSavepoint(ran, command)
              /\ UNCHANGED executed
    BY <1>2 DEF ExecuteSavepointCommand
  <2>2. ASSUME NEW c, Good(c)
        PROVE  Good(RunSavepointCommand(c, command))
    <3>1. Kept(c.pg, Command(command, c.pg))
      BY <2>2, SavepointKept, ReleaseKept, RollbackToKept DEF Command, Good, Names
    <3> QED
      BY <2>2, <3>1, RunCommandGood DEF RunSavepointCommand
  <2>3. Good(Open(conn, "savepoint_control", phase[s], TRUE))
    BY <1>0, OpenGood
  <2>4. app' \in AppRecord
    BY <1>0, <2>1, AppTyped
  <2> QED
    BY <1>0, <2>1, <2>2, <2>3, <2>4, BecomesKeepsInv
<1>3. CASE ExecuteTransactionText(s)
  <2>1. PICK commit \in BOOLEAN, outcome \in CommitOutcomes :
          LET opened == Open(conn, "plain", phase[s], TRUE)
              ran    == RunTransactionText(opened, commit, outcome)
          IN  /\ Becomes(s, ran, "idle")
              /\ app' = Finished(ran.ret, commit)
              /\ UNCHANGED executed
    BY <1>3 DEF ExecuteTransactionText
  <2>2. ASSUME NEW c, Good(c)
        PROVE  Good(RunTransactionText(c, commit, outcome))
    <3>1. /\ Kept(c.pg, Commit(c.pg, outcome))
          /\ Kept(c.pg, Rollback(c.pg))
      BY <2>2, CommitKept, RollbackKept DEF Good
    <3> QED
      BY <2>2, <3>1, RunCommandGood DEF RunTransactionText
  <2>3. Good(Open(conn, "plain", phase[s], TRUE))
    BY <1>0, OpenGood
  <2>4. app' \in AppRecord
    BY <1>0, <2>1, AppTyped
  <2> QED
    BY <1>0, <2>1, <2>2, <2>3, <2>4, BecomesKeepsInv
<1>4. CASE ExecuteUnmanaged(s)
  <2>1. PICK w \in Changes, outcome \in NoCopy :
          LET ran == UnmarkedAnswer(Send(conn, [work |-> w, outcome |-> outcome]))
          IN  /\ Becomes(s, ran, phase[s])
              /\ app' = Told(ran, w)
              /\ UNCHANGED executed
    BY <1>4 DEF ExecuteUnmanaged
  <2>2. Good(UnmarkedAnswer(Send(conn, [work |-> w, outcome |-> outcome])))
    BY <1>0, Inputs, SendGood, HandlingGood
  <2>3. app' \in AppRecord
    BY <1>0, <2>1, Inputs, AppTyped
  <2> QED
    BY <1>0, <2>1, <2>2, <2>3, BecomesKeepsInv
<1> QED
  BY <1>1, <1>2, <1>3, <1>4

\* Preparing, and the execution that only reports its error.
LEMMA PrepareKeepsInv ==
  ASSUME Inv, NEW s \in Stmts, Prepare(s) \/ ExecuteDeferred(s)
  PROVE  Inv'
<1>0. /\ Good(conn) /\ "idle" \in Phases /\ "deferred" \in Phases
      /\ app \in AppRecord /\ executed \in [Stmts -> SUBSET Work]
      /\ {} \in SUBSET Work
  BY DEF Inv, TypeOK, Phases
<1>1. CASE Prepare(s)
  <2>1. PICK outcome \in {"ok", "error"}, p \in {"idle", "deferred"} :
          /\ Becomes(s, Return(Send(CloseResult(conn, phase[s]),
                                    [work |-> {}, outcome |-> outcome]),
                               "success"), p)
          /\ UNCHANGED <<executed, app>>
    BY <1>1 DEF Prepare
  <2>2. [work |-> {}, outcome |-> outcome] \in Steps
    BY DEF Steps, RunOutcomes
  <2>3. Good(Return(Send(CloseResult(conn, phase[s]),
                         [work |-> {}, outcome |-> outcome]), "success"))
    BY <1>0, <2>2, CloseResultGood, SendGood, ReturnGood
  <2> QED
    BY <1>0, <2>1, <2>3, BecomesKeepsInv
<1>2. CASE ExecuteDeferred(s)
  <2>1. Good(Return(conn, "error"))
    BY <1>0, ReturnGood
  <2>2. app' \in AppRecord
    BY <1>0, <1>2, AppTyped DEF ExecuteDeferred
  <2> QED
    BY <1>0, <1>2, <2>1, <2>2, BecomesKeepsInv DEF ExecuteDeferred
<1> QED
  BY <1>1, <1>2

\* Data at execution: the opening, the values, and the sets.
LEMMA DataAtExecKeepsInv ==
  ASSUME Inv, NEW s \in Stmts,
         BeginDataAtExec(s) \/ PutLargeObject(s) \/ RunDataAtExecSet(s)
  PROVE  Inv'
<1>0. /\ Good(conn) /\ phase[s] \in Phases /\ "idle" \in Phases
      /\ {"data", "data_array"} \subseteq Phases
      /\ app \in AppRecord /\ executed \in [Stmts -> SUBSET Work]
      /\ {} \in SUBSET Work
  BY DEF Inv, TypeOK, Phases
<1>1. CASE BeginDataAtExec(s)
  <2>1. PICK p \in {"data", "data_array"}, direct \in BOOLEAN :
          LET opened == Open(conn, "plain", phase[s], direct)
          IN  /\ IF opened.ret = "success"
                 THEN Becomes(s, opened, p)
                 ELSE Becomes(s, opened, IF direct THEN "idle" ELSE phase[s])
              /\ app' = Told(opened, {})
              /\ executed' = [executed EXCEPT ![s] = {}]
    BY <1>1 DEF BeginDataAtExec
  <2>2. Good(Open(conn, "plain", phase[s], direct))
    BY <1>0, OpenGood
  <2>3. PICK q \in Phases : Becomes(s, Open(conn, "plain", phase[s], direct), q)
    BY <1>0, <2>1
  <2>4. app' \in AppRecord /\ executed' \in [Stmts -> SUBSET Work]
    BY <1>0, <2>1, AppTyped
  <2> QED
    BY <2>2, <2>3, <2>4, BecomesKeepsInv
<1>2. CASE PutLargeObject(s)
  <2>1. PICK w \in Changes, outcome \in NoCopy :
          LET put == UseLargeObject(conn, [work |-> w, outcome |-> outcome])
          IN  IF put.ret = "success"
              THEN /\ Becomes(s, put, phase[s])
                   /\ executed' = [executed EXCEPT ![s] = @ \union w]
                   /\ UNCHANGED app
              ELSE /\ Becomes(s, put, "idle")
                   /\ app' = Told(put, {})
                   /\ UNCHANGED executed
    BY <1>2 DEF PutLargeObject
  <2> DEFINE put == UseLargeObject(conn, [work |-> w, outcome |-> outcome])
  <2>2. Good(put)
    <3>1. "ok" \in CommitOutcomes
      BY DEF CommitOutcomes
    <3> QED
      BY <1>0, <3>1, Inputs, LargeObjectGood
  <2>3. w \in SUBSET Work
    BY Inputs
  <2> HIDE DEF put
  <2>4. CASE put.ret = "success"
    <3>1. executed' = [executed EXCEPT ![s] = @ \union w] /\ Becomes(s, put, phase[s])
          /\ app' = app
      BY <2>1, <2>4 DEF put
    <3>2. executed' \in [Stmts -> SUBSET Work]
      BY <1>0, <2>3, <3>1
    <3> QED
      BY <1>0, <2>2, <3>1, <3>2, BecomesKeepsInv
  <2>5. CASE put.ret # "success"
    <3>1. executed' = executed /\ Becomes(s, put, "idle") /\ app' = Told(put, {})
      BY <2>1, <2>5 DEF put
    <3>2. app' \in AppRecord
      BY <1>0, <3>1, AppTyped
    <3> QED
      BY <1>0, <2>2, <3>1, <3>2, BecomesKeepsInv
  <2> QED
    BY <2>4, <2>5
<1>3. CASE RunDataAtExecSet(s)
  <2>1. PICK w \in Changes, outcome \in NoCopy, last \in BOOLEAN :
        \E end \in After(conn.autocommit /\ last /\ outcome = "ok", CommitOutcomes) :
          LET ran  == RunSuppliedSet(conn, [work |-> w, outcome |-> outcome], last,
                                     phase[s] = "data_array", end)
              more == ~last /\ ran.ret = "success"
              work == executed[s] \union w
          IN  /\ phase[s] = "data" => last
              /\ Becomes(s, ran, IF more THEN phase[s] ELSE "idle")
              /\ executed' = [executed EXCEPT ![s] = IF more THEN work ELSE {}]
              /\ app' = IF more THEN app ELSE Told(ran, work)
    BY <1>3 DEF RunDataAtExecSet
  <2> DEFINE work == executed[s] \union w
             ran(end) == RunSuppliedSet(conn, [work |-> w, outcome |-> outcome],
                                        last, phase[s] = "data_array", end)
  <2>2. PICK end \in CommitOutcomes :
          LET more == ~last /\ ran(end).ret = "success"
          IN  /\ Becomes(s, ran(end), IF more THEN phase[s] ELSE "idle")
              /\ executed' = [executed EXCEPT ![s] = IF more THEN work ELSE {}]
              /\ app' = IF more THEN app ELSE Told(ran(end), work)
    BY <2>1, Inputs
  <2>3. Good(ran(end))
    BY <1>0, Inputs, RunSuppliedSetGood
  <2>4. work \in SUBSET Work
    BY <1>0, Inputs
  <2> HIDE DEF work, ran
  <2>5. PICK q \in Phases : Becomes(s, ran(end), q)
    BY <1>0, <2>2
  <2>6. app' \in AppRecord /\ executed' \in [Stmts -> SUBSET Work]
    BY <1>0, <2>2, <2>4, AppTyped
  <2> QED
    BY <2>3, <2>5, <2>6, BecomesKeepsInv
<1> QED
  BY <1>1, <1>2, <1>3

\* Reading a large object, and leaving it.
LEMMA ReadingKeepsInv ==
  ASSUME Inv, NEW s \in Stmts,
         ReadLargeObject(s) \/ ReadRest(s) \/ CloseCursor(s)
  PROVE  Inv'
<1>0. /\ Good(conn) /\ phase[s] \in Phases
      /\ {"idle", "lo_open"} \subseteq Phases
      /\ app \in AppRecord /\ executed \in [Stmts -> SUBSET Work]
      /\ {} \in SUBSET Work
  BY DEF Inv, TypeOK, Phases
<1>1. ASSUME NEW c, Good(c), NEW end \in CommitOutcomes, NEW p \in Phases,
             \/ Becomes(s, c, p)
             \/ Becomes(s, CommitLargeObject(c, end), p),
             app' \in AppRecord, UNCHANGED executed
      PROVE  Inv'
  <2>1. [work |-> {}, outcome |-> "ok"] \in Steps
    BY Inputs DEF RunOutcomes
  <2>2. Good(CommitLargeObject(c, end))
    BY <1>1, <2>1, LargeObjectGood
  <2> QED
    BY <1>0, <1>1, <2>2, BecomesKeepsInv
<1>2. CASE ReadLargeObject(s)
  <2>1. PICK outcome \in NoCopy, all \in BOOLEAN :
        \E end \in After(conn.autocommit /\ all /\ outcome = "ok", CommitOutcomes) :
          LET read == UseLargeObject(conn, [work |-> {}, outcome |-> outcome])
              done == IF all /\ read.ret = "success"
                      THEN CommitLargeObject(read, end) ELSE read
          IN  /\ Becomes(s, done, IF ~all /\ read.ret = "success" THEN "lo_open"
                                                                  ELSE "idle")
              /\ app' = Told(done, {})
              /\ UNCHANGED executed
    BY <1>2 DEF ReadLargeObject
  <2> DEFINE read == UseLargeObject(conn, [work |-> {}, outcome |-> outcome])
  <2>2. PICK end \in CommitOutcomes :
          LET done == IF all /\ read.ret = "success"
                      THEN CommitLargeObject(read, end) ELSE read
          IN  /\ Becomes(s, done, IF ~all /\ read.ret = "success" THEN "lo_open"
                                                                  ELSE "idle")
              /\ app' = Told(done, {})
              /\ UNCHANGED executed
    BY <2>1, Inputs
  <2>3. Good(read)
    BY <1>0, Inputs, LargeObjectGood
  <2> HIDE DEF read
  <2>4. app' \in AppRecord
    BY <1>0, <2>2, AppTyped
  <2> QED
    BY <1>0, <1>1, <2>2, <2>3, <2>4
<1>3. CASE ReadRest(s)
  <2>1. PICK outcome \in NoCopy :
        \E end \in After(conn.autocommit /\ outcome = "ok", CommitOutcomes) :
          LET read == ReadOn(conn, phase[s], [work |-> {}, outcome |-> outcome])
              done == IF read.ret = "success" THEN CommitLargeObject(read, end)
                                              ELSE read
          IN  /\ Becomes(s, done, "idle")
              /\ app' = Told(done, {})
              /\ UNCHANGED executed
    BY <1>3 DEF ReadRest
  <2> DEFINE read == ReadOn(conn, phase[s], [work |-> {}, outcome |-> outcome])
  <2>2. PICK end \in CommitOutcomes :
          LET done == IF read.ret = "success" THEN CommitLargeObject(read, end)
                                              ELSE read
          IN  /\ Becomes(s, done, "idle")
              /\ app' = Told(done, {})
              /\ UNCHANGED executed
    BY <2>1, Inputs
  <2>3. Good(read)
    BY <1>0, Inputs, ReadOnGood
  <2> HIDE DEF read
  <2>4. app' \in AppRecord
    BY <1>0, <2>2, AppTyped
  <2> QED
    BY <1>0, <1>1, <2>2, <2>3, <2>4
<1>4. CASE CloseCursor(s)
  <2>1. Good(Return(CloseResult(conn, phase[s]), "success"))
    BY <1>0, CloseResultGood, ReturnGood
  <2> QED
    BY <1>0, <1>4, <2>1, BecomesKeepsInv DEF CloseCursor
<1> QED
  BY <1>2, <1>3, <1>4

\* The calls on the connection itself, and the breaking of the link.
LEMMA ConnectionKeepsInv ==
  ASSUME Inv,
         \/ EndTransaction
         \/ ChangeAutocommit
         \/ BreakLink
         \/ DisconnectLink
         \/ ConnectLink
  PROVE  Inv'
<1>0. /\ Good(conn) /\ phase \in [Stmts -> Phases]
      /\ app \in AppRecord /\ executed \in [Stmts -> SUBSET Work]
      /\ {} \in SUBSET Work /\ conn.autocommit \in BOOLEAN
  BY DEF Inv, TypeOK, Good, ConnectionRecord
<1>1. CASE EndTransaction
  <2>1. PICK commit \in BOOLEAN, outcome \in CommitOutcomes :
          LET ended == IF commit THEN CommitTransaction(conn, outcome)
                                 ELSE RollbackTransaction(conn)
          IN  /\ conn' = Forget(ended)
              /\ phase' = Outlived(ended, phase)
              /\ app' = Finished(ended.ret, commit)
              /\ UNCHANGED executed
    BY <1>1 DEF EndTransaction
  <2> DEFINE ended == IF commit THEN CommitTransaction(conn, outcome)
                                ELSE RollbackTransaction(conn)
  <2>2. Good(ended)
    BY <1>0, CommitTransactionGood, RollbackTransactionGood
  <2>3. app' \in AppRecord
    BY <1>0, <2>1, AppTyped
  <2> QED
    BY <1>0, <2>1, <2>2, <2>3, CallKeepsInv
<1>2. CASE ChangeAutocommit
  <2>1. PICK outcome \in CommitOutcomes :
          /\ conn' = Forget(SetAutocommit(conn, ~conn.autocommit, outcome))
          /\ phase' = Outlived(SetAutocommit(conn, ~conn.autocommit, outcome), phase)
          /\ app' \in {app} \union {Finished(ret, TRUE) : ret \in {"success", "error"}}
          /\ UNCHANGED executed
    BY <1>2 DEF ChangeAutocommit
  <2>2. Good(SetAutocommit(conn, ~conn.autocommit, outcome))
    BY <1>0, SetAutocommitGood
  <2>3. app' \in AppRecord
    BY <1>0, <2>1, AppTyped
  <2> QED
    BY <1>0, <2>1, <2>2, <2>3, CallKeepsInv
<1>3. CASE BreakLink
  <2> DEFINE broken == [conn EXCEPT !.pg = Lost(@)]
  <2>1. Good(broken)
    BY <1>0, LinkGood
  <2>2. /\ conn' = Forget(broken)
        /\ phase' = Outlived(conn', phase)
        /\ app' = Unmarked(app) /\ UNCHANGED executed
    BY <1>3 DEF BreakLink
  <2> HIDE DEF broken
  <2>3. Outlived(conn', phase) = Outlived(broken, phase)
    BY <2>1, <2>2 DEF Outlived, Forget, Answer, Good, ConnectionRecord, Session
  <2>4. app' \in AppRecord
    BY <1>0, <2>2, AppTyped
  <2> QED
    BY <1>0, <2>1, <2>2, <2>3, <2>4, CallKeepsInv
<1>4. CASE DisconnectLink
  <2> DEFINE closed == Disconnect(conn)
  <2>1. Good(closed)
    BY <1>0, LinkGood
  <2>2. /\ conn' = Forget(closed)
        /\ phase' = Outlived(conn', phase)
        /\ app' = Unmarked(app) /\ UNCHANGED executed
    BY <1>4 DEF DisconnectLink
  <2> HIDE DEF closed
  <2>3. Outlived(conn', phase) = Outlived(closed, phase)
    BY <2>1, <2>2 DEF Outlived, Forget, Answer, Good, ConnectionRecord, Session
  <2>4. app' \in AppRecord
    BY <1>0, <2>2, AppTyped
  <2> QED
    BY <1>0, <2>1, <2>2, <2>3, <2>4, CallKeepsInv
<1>5. CASE ConnectLink
  <2>1. Good(Connect(conn))
    BY <1>0, <1>5, LinkGood DEF ConnectLink
  <2>2. Good(conn')
    BY <1>5, <2>1 DEF ConnectLink
  <2>3. Good(conn)'
    BY <2>2 DEF Good, SessionInv, Connected, ConnectionRecord, Session, Level,
       Replies, Names, TransactionStates, RollbackModes
  <2> QED
    BY <1>0, <1>5, <2>2, <2>3 DEF ConnectLink, Inv, TypeOK, Good
<1> QED
  BY <1>1, <1>2, <1>3, <1>4, <1>5

----------------------------------------------------------------------------
(* The theorems                                                            *)

\* Every step keeps the inductive invariant.
LEMMA NextKeepsInv == Inv /\ [Next]_vars => Inv'
<1> SUFFICES ASSUME Inv, [Next]_vars PROVE Inv'
  OBVIOUS
<1>1. ASSUME NEW s \in Stmts, OnStatement(s)
      PROVE  Inv'
  BY <1>1, ExecutionsKeepInv, CommandsKeepInv, PrepareKeepsInv,
     DataAtExecKeepsInv, ReadingKeepsInv DEF OnStatement
<1>2. CASE UNCHANGED vars
  BY <1>2 DEF vars, Inv, TypeOK, Good, SessionInv, Connected, ConnectionRecord,
     Session, Level, Replies, Names, TransactionStates, RollbackModes, AppRecord,
     Phases
<1> QED
  BY <1>1, <1>2, ConnectionKeepsInv DEF Next

\* The driver and the server agree on whether there is a block, as far as the
\* driver can know.
THEOREM Invariance == Spec => []Inv
BY InitInv, NextKeepsInv, PTL DEF Spec

\* The state of a connection, of its statements and of what the application was
\* told keeps its type whatever calls are made.
THEOREM TypeCorrect == Spec => []TypeOK
<1>1. Inv => TypeOK
  BY DEF Inv
<1> QED
  BY <1>1, Invariance, PTL

\* connection_commit and connection_rollback return at once when the driver is
\* IDLE: there is then no block on the server they would leave behind.
THEOREM NoOrphan == Spec => []NoOrphanTransaction
<1>1. Inv => NoOrphanTransaction
  BY DEF Inv, Good, NoOrphanTransaction
<1> QED
  BY <1>1, Invariance, PTL

\* statement_savepoint_active is reset with the transaction it belongs to.
THEOREM SavepointInside == Spec => []SavepointInsideTransaction
<1>1. Inv => SavepointInsideTransaction
  BY DEF Inv, Good, SavepointInsideTransaction
<1> QED
  BY <1>1, Invariance, PTL
----------------------------------------------------------------------------
(* The driver's one savepoint                                              *)

DriverLevels(pg) == Levels(pg, "driver")

\* A command led from pg to next without setting or reviving anything: the
\* driver's savepoints are those it had, or went with the block.
Steady(pg, next) ==
  /\ Kept(pg, next)
  /\ \/ /\ DriverLevels(next) = DriverLevels(pg)
        /\ next.up /\ next.block = "open" => pg.block = "open"
     \/ DriverLevels(next) = {} /\ next.block = "idle"

\* An open block that no error has aborted.
OpenBlock(pg) == pg.up /\ pg.block = "open"

\* Nothing happened to the stack.
LEMMA StackSteady ==
  ASSUME NEW pg, NEW next, Kept(pg, next), next.stack = pg.stack,
         next.up /\ next.block = "open" => pg.block = "open"
  PROVE  Steady(pg, next)
BY DEF Steady, DriverLevels, Levels

\* The block is over.
LEMMA EndSteady ==
  ASSUME NEW pg, NEW next, Kept(pg, next), next.stack = <<>>, next.block = "idle"
  PROVE  Steady(pg, next)
<1>1. DriverLevels(next) = {}
  BY DEF DriverLevels, Levels
<1> QED
  BY <1>1 DEF Steady

\* Two such commands are one.
LEMMA SteadyTwice ==
  ASSUME NEW pg, NEW middle, NEW next, Steady(pg, middle), Steady(middle, next)
  PROVE  Steady(pg, next)
BY DEF Steady, Kept

\* A refusal aborts the block.
LEMMA RefuseSteady ==
  ASSUME NEW pg, SessionInv(pg), pg.up
  PROVE  Steady(pg, Refuse(pg)) /\ Refuse(pg).block # "open"
<1>1. Kept(pg, Refuse(pg))
  BY RefuseKept
<1>2. Refuse(pg).stack = pg.stack /\ Refuse(pg).block # "open"
  BY DEF Refuse, SessionInv, Session
<1> QED
  BY <1>1, <1>2, StackSteady

\* An answer alone changes nothing.
LEMMA AnswerSteady ==
  ASSUME NEW pg, SessionInv(pg), NEW reply \in Replies
  PROVE  /\ Steady(pg, Answer(pg, reply))
         /\ Answer(pg, reply).reply = reply
         /\ Answer(pg, reply).block = pg.block
         /\ Answer(pg, reply).up = pg.up
<1>1. Kept(pg, Answer(pg, reply))
  BY AnswerKept
<1>2. Answer(pg, reply).stack = pg.stack /\ Answer(pg, reply).block = pg.block
      /\ Answer(pg, reply).up = pg.up /\ Answer(pg, reply).reply = reply
  BY DEF Answer, SessionInv, Session
<1> QED
  BY <1>1, <1>2, StackSteady

\* The link breaks.
LEMMA LostSteady ==
  ASSUME NEW pg, SessionInv(pg)
  PROVE  Steady(pg, Lost(pg)) /\ ~Lost(pg).up
<1>1. Kept(pg, Lost(pg)) /\ Lost(pg).block = "idle" /\ ~Lost(pg).up
  BY LostKept DEF SessionInv, Kept
<1>2. Lost(pg).stack = <<>>
  BY DEF Lost, SessionInv, Session
<1> QED
  BY <1>1, <1>2, EndSteady

\* COMMIT and ROLLBACK.
LEMMA CommitSteady ==
  ASSUME NEW pg, SessionInv(pg), NEW outcome \in CommitOutcomes
  PROVE  Steady(pg, Commit(pg, outcome)) /\ Steady(pg, Rollback(pg))
<1>1. ASSUME NEW next, Kept(pg, next), next.block = "idle",
             next.stack = pg.stack \/ next.stack = <<>>
      PROVE  Steady(pg, next)
  BY <1>1, StackSteady, EndSteady
<1>2. Kept(pg, Commit(pg, outcome)) /\ Commit(pg, outcome).block = "idle"
      /\ Kept(pg, Rollback(pg)) /\ Rollback(pg).block = "idle"
  BY CommitKept, RollbackKept
<1>3. /\ Answer(pg, "null").stack = pg.stack
      /\ \A made : EndBlock(pg, made).stack = <<>>
      /\ Lost(pg).stack = <<>>
      /\ \A made : Lost(EndBlock(pg, made)).stack = <<>>
      /\ \A made : Answer(EndBlock(pg, made), "error").stack = <<>>
  BY DEF Answer, EndBlock, Lost, SessionInv, Session
<1>4. Commit(pg, outcome).stack = pg.stack \/ Commit(pg, outcome).stack = <<>>
  BY <1>3 DEF Commit
<1>5. Rollback(pg).stack = pg.stack \/ Rollback(pg).stack = <<>>
  BY <1>3 DEF Rollback
<1> HIDE DEF SessionInv, Kept
<1> QED
  BY <1>1, <1>2, <1>4, <1>5

\* Work joins the last level, whosever it is.
LEMMA MadeSteady ==
  ASSUME NEW pg, SessionInv(pg), pg.up, NEW work \in SUBSET Work
  PROVE  /\ Steady(pg, Made(pg, work))
         /\ Made(pg, work).reply \in {"ok", "error"}
         /\ Made(pg, work).reply = "error" => Made(pg, work).block # "open"
<1>0. Kept(pg, Made(pg, work))
  BY MadeKept
<1>1. CASE pg.block = "idle"
  <2> DEFINE next == [pg EXCEPT !.durable = @ \union work, !.reply = "ok"]
  <2>1. Made(pg, work) = next
    BY <1>1 DEF Made
  <2>2. next.stack = pg.stack /\ next.block = pg.block /\ next.reply = "ok"
    BY DEF SessionInv, Session
  <2> HIDE DEF next
  <2> QED
    BY <1>0, <2>1, <2>2, StackSteady
<1>2. CASE pg.block = "open"
  <2> DEFINE n == Len(pg.stack)
             stack == [pg.stack EXCEPT ![n].work = @ \union work]
             next == [pg EXCEPT !.stack = stack, !.reply = "ok"]
  <2>1. Made(pg, work) = next
    BY <1>2 DEF Made
  <2>2. pg.stack \in [1 .. n -> Level]
    BY LenProperties DEF SessionInv, Session
  <2>3. /\ DOMAIN stack = DOMAIN pg.stack
        /\ \A i \in DOMAIN pg.stack : stack[i].name = pg.stack[i].name
    BY <2>2 DEF Level
  <2> HIDE DEF stack
  <2>4. next.stack = stack /\ next.block = pg.block /\ next.reply = "ok"
    BY DEF SessionInv, Session
  <2> HIDE DEF next
  <2>5. DriverLevels(next) = DriverLevels(pg)
    BY <2>3, <2>4 DEF DriverLevels, Levels
  <2> QED
    BY <1>0, <1>2, <2>1, <2>4, <2>5 DEF Steady
<1>3. CASE pg.block = "aborted"
  <2>1. Made(pg, work) = Refuse(pg)
    BY <1>3 DEF Made
  <2> QED
    BY <2>1, RefuseSteady, RefuseKept
<1> QED
  BY <1>1, <1>2, <1>3 DEF SessionInv, Session

\* After an error the block, if there still is one, is aborted.
Answered(pg, next) ==
  /\ Steady(pg, next)
  /\ next.reply \in Replies
  /\ next.reply = "error" => ~OpenBlock(next)
  /\ next.reply = "null" => ~next.up

\* Any statement is answered so, and only a COPY as a COPY.
LEMMA RunSteady ==
  ASSUME NEW pg, SessionInv(pg), NEW work \in SUBSET Work,
         NEW outcome \in RunOutcomes
  PROVE  /\ Answered(pg, Run(pg, work, outcome))
         /\ outcome # "copy_out" => Run(pg, work, outcome).reply # "copy_out"
<1>1. CASE ~pg.up
  <2>1. Run(pg, work, outcome) = Answer(pg, "null")
    BY <1>1 DEF Run
  <2>2. /\ Steady(pg, Answer(pg, "null")) /\ ~Answer(pg, "null").up
        /\ Answer(pg, "null").reply = "null"
    BY <1>1, AnswerSteady DEF Replies, SessionInv, Session
  <2> QED
    BY <2>1, <2>2 DEF Answered, OpenBlock, Replies
<1>2. CASE pg.up
  <2> DEFINE made == Made(pg, work)
  <2>1. /\ Steady(pg, made) /\ made.reply \in {"ok", "error"}
        /\ made.reply = "error" => made.block # "open"
    BY <1>2, MadeSteady
  <2>2. SessionInv(made) /\ made \in Session
    BY <2>1 DEF Steady, Kept, SessionInv
  <2>3. \/ Run(pg, work, outcome) \in {Lost(pg), Lost(made), Refuse(pg), made}
        \/ outcome = "copy_out" /\ Run(pg, work, outcome) = Answer(pg, "copy_out")
    BY <1>2 DEF Run, RunOutcomes
  <2> HIDE DEF made
  <2>4. Answered(pg, Lost(pg)) /\ Lost(pg).reply # "copy_out"
    BY LostSteady DEF Lost, SessionInv, Session, Replies, Answered, OpenBlock
  <2>5. Answered(pg, Lost(made)) /\ Lost(made).reply # "copy_out"
    <3>1. Steady(made, Lost(made)) /\ ~Lost(made).up
      BY <2>2, LostSteady
    <3>2. Lost(made).reply = "error"
      BY <2>2 DEF Lost, Session
    <3> QED
      BY <2>1, <3>1, <3>2, SteadyTwice DEF Replies, Answered, OpenBlock
  <2>6. Answered(pg, Refuse(pg)) /\ Refuse(pg).reply # "copy_out"
    BY <1>2, RefuseSteady, RefuseKept DEF Replies, Answered, OpenBlock
  <2>7. Answered(pg, made) /\ made.reply # "copy_out"
    BY <2>1 DEF Replies, Answered, OpenBlock
  <2>8. Answered(pg, Answer(pg, "copy_out"))
    <3>1. "copy_out" \in Replies
      BY DEF Replies
    <3> QED
      BY <3>1, AnswerSteady DEF Answered
  <2> QED
    BY <2>3, <2>4, <2>5, <2>6, <2>7, <2>8
<1> QED
  BY <1>1, <1>2 DEF SessionInv, Session

\* A command that was not carried out sets nothing, and leaves no open block.
Failed(pg, next) ==
  Steady(pg, next) /\ next.reply # "ok" /\ ~OpenBlock(next)

\* A refusal and a link that is gone are such failures.
LEMMA NotCarriedOut ==
  ASSUME NEW pg, SessionInv(pg)
  PROVE  /\ pg.up => Failed(pg, Refuse(pg))
         /\ ~pg.up => Failed(pg, Answer(pg, "null"))
<1>1. pg.up => Failed(pg, Refuse(pg))
  BY RefuseSteady, RefuseKept DEF Failed, OpenBlock
<1>2. ~pg.up => Failed(pg, Answer(pg, "null"))
  BY AnswerSteady DEF Failed, OpenBlock, Replies
<1> QED
  BY <1>1, <1>2

\* BEGIN opens a block without savepoints, or finds one open.
LEMMA BeginLevels ==
  ASSUME NEW pg, SessionInv(pg)
  PROVE  \/ Failed(pg, Begin(pg))
         \/ /\ Begin(pg).reply = "ok" /\ OpenBlock(Begin(pg)) /\ pg.up
            /\ \/ DriverLevels(Begin(pg)) = {}
               \/ OpenBlock(pg) /\ DriverLevels(Begin(pg)) = DriverLevels(pg)
<1> DEFINE first == [name |-> "transaction", work |-> {}]
           opened == [pg EXCEPT !.block = "open", !.reply = "ok",
                                !.stack = <<first>>]
<1>1. CASE ~pg.up \/ pg.block = "aborted"
  BY <1>1, NotCarriedOut DEF Begin
<1>2. CASE pg.up /\ pg.block = "open"
  <2>1. Begin(pg) = Answer(pg, "ok") /\ "ok" \in Replies
    BY <1>2 DEF Begin, Replies
  <2>2. Answer(pg, "ok").stack = pg.stack
    BY DEF Answer, SessionInv, Session
  <2> QED
    BY <1>2, <2>1, <2>2, AnswerSteady DEF OpenBlock, DriverLevels, Levels
<1>3. CASE pg.up /\ pg.block = "idle"
  <2>1. Begin(pg) = opened
    BY <1>3 DEF Begin
  <2>2. opened.stack = <<first>> /\ opened.reply = "ok" /\ OpenBlock(opened)
    BY <1>3 DEF SessionInv, Session, OpenBlock
  <2>3. DriverLevels(opened) = {}
    <3>1. \A i \in DOMAIN <<first>> : <<first>>[i].name # "driver"
      OBVIOUS
    <3> HIDE DEF opened, first
    <3> QED
      BY <2>2, <3>1 DEF DriverLevels, Levels
  <2> QED
    BY <1>3, <2>1, <2>2, <2>3
<1> QED
  BY <1>1, <1>2, <1>3 DEF SessionInv, Session

\* SAVEPOINT adds one level to an open block.
LEMMA SavepointLevels ==
  ASSUME NEW pg, SessionInv(pg)
  PROVE  /\ ~OpenBlock(pg) => Failed(pg, Savepoint(pg, "driver"))
         /\ OpenBlock(pg) /\ DriverLevels(pg) = {} =>
              /\ Savepoint(pg, "driver").reply = "ok"
              /\ DriverLevels(Savepoint(pg, "driver")) = {Len(pg.stack) + 1}
<1>1. ASSUME ~OpenBlock(pg)
      PROVE  Failed(pg, Savepoint(pg, "driver"))
  BY <1>1, NotCarriedOut DEF Savepoint, OpenBlock
<1>2. ASSUME OpenBlock(pg), DriverLevels(pg) = {}
      PROVE  /\ Savepoint(pg, "driver").reply = "ok"
             /\ DriverLevels(Savepoint(pg, "driver")) = {Len(pg.stack) + 1}
  <2> DEFINE level == [name |-> "driver", work |-> {}]
             n == Len(pg.stack)
             stack == Append(pg.stack, level)
             next == [pg EXCEPT !.stack = stack, !.reply = "ok"]
  <2>1. Savepoint(pg, "driver") = next
    BY <1>2 DEF Savepoint, OpenBlock
  <2>2. n \in Nat /\ pg.stack \in Seq(Level) /\ level \in Level
        /\ DOMAIN pg.stack = 1 .. n
    BY DEF SessionInv, Session, Level, Names
  <2>3. /\ DOMAIN stack = 1 .. (n + 1) /\ stack[n + 1] = level
        /\ \A i \in 1 .. n : stack[i] = pg.stack[i]
    BY <2>2, AppendProperties
  <2>4. level.name = "driver"
    OBVIOUS
  <2> HIDE DEF stack, level
  <2>5. next.stack = stack /\ next.reply = "ok"
    BY DEF SessionInv, Session
  <2> HIDE DEF next
  <2>6. \A i \in 1 .. n : pg.stack[i].name # "driver"
    BY <1>2, <2>2 DEF DriverLevels, Levels
  <2>7. DriverLevels(next) = {i \in 1 .. (n + 1) : stack[i].name = "driver"}
    BY <2>3, <2>5 DEF DriverLevels, Levels
  <2>8. DriverLevels(next) = {n + 1}
    BY <2>2, <2>3, <2>4, <2>6, <2>7
  <2> QED
    BY <2>1, <2>5, <2>8
<1> QED
  BY <1>1, <1>2

\* Releasing the only savepoint leaves none.
LEMMA ReleaseLevels ==
  ASSUME NEW pg, SessionInv(pg), \A i, j \in DriverLevels(pg) : i = j
  PROVE  /\ ~OpenBlock(pg) => Failed(pg, Release(pg, "driver"))
         /\ OpenBlock(pg) /\ DriverLevels(pg) # {} =>
              /\ Release(pg, "driver").reply = "ok"
              /\ OpenBlock(Release(pg, "driver"))
              /\ DriverLevels(Release(pg, "driver")) = {}
<1>1. ASSUME ~OpenBlock(pg)
      PROVE  Failed(pg, Release(pg, "driver"))
  BY <1>1, NotCarriedOut DEF Release, OpenBlock
<1>2. ASSUME OpenBlock(pg), DriverLevels(pg) # {}
      PROVE  /\ Release(pg, "driver").reply = "ok"
             /\ OpenBlock(Release(pg, "driver"))
             /\ DriverLevels(Release(pg, "driver")) = {}
  <2> DEFINE top   == Topmost(pg, "driver")
             freed == UNION {pg.stack[i].work : i \in top .. Len(pg.stack)}
             below == [i \in 1 .. (top - 1) |->
                         IF i = top - 1
                         THEN [pg.stack[i] EXCEPT !.work = @ \union freed]
                         ELSE pg.stack[i]]
             next == [pg EXCEPT !.stack = below, !.reply = "ok"]
  <2>1. Release(pg, "driver") = next
    BY <1>2 DEF Release, OpenBlock, DriverLevels
  <2>2. /\ top \in DriverLevels(pg) /\ top \in 1 .. Len(pg.stack)
        /\ DOMAIN pg.stack = 1 .. Len(pg.stack) /\ Len(pg.stack) \in Nat
        /\ pg.stack \in [1 .. Len(pg.stack) -> Level]
    BY <1>2, TopmostExists, LenProperties
       DEF DriverLevels, Levels, Topmost, SessionInv, Session
  <2> HIDE DEF top, freed
  <2>3. DOMAIN below = 1 .. (top - 1)
    OBVIOUS
  <2>4. \A i \in DOMAIN below : below[i].name = pg.stack[i].name
    BY <2>2 DEF Level
  <2> HIDE DEF below
  <2>5. next.stack = below /\ next.reply = "ok" /\ OpenBlock(next)
    BY <1>2 DEF SessionInv, Session, OpenBlock
  <2> HIDE DEF next
  <2>6. ASSUME NEW i \in DriverLevels(next)
        PROVE  FALSE
    <3>1. i \in 1 .. (top - 1) /\ pg.stack[i].name = "driver"
      BY <2>3, <2>4, <2>5, <2>6 DEF DriverLevels, Levels
    <3>2. i \in DriverLevels(pg) /\ i # top
      BY <2>2, <3>1 DEF DriverLevels, Levels
    <3> QED
      BY <2>2, <3>2
  <2> QED
    BY <2>1, <2>5, <2>6
<1> QED
  BY <1>1, <1>2

\* A rewind keeps the savepoint it goes to, and revives the block.
LEMMA RewindLevels ==
  ASSUME NEW pg, SessionInv(pg), \A i, j \in DriverLevels(pg) : i = j
  PROVE  LET rewound == RollbackTo(pg, "driver")
         IN  /\ ~(pg.up /\ pg.block # "idle" /\ DriverLevels(pg) # {})
                  => Failed(pg, rewound)
             /\ pg.up /\ pg.block # "idle" /\ DriverLevels(pg) # {} =>
                  rewound.reply = "ok" /\ DriverLevels(rewound) = DriverLevels(pg)
<1>1. ASSUME ~(pg.up /\ pg.block # "idle" /\ DriverLevels(pg) # {})
      PROVE  Failed(pg, RollbackTo(pg, "driver"))
  BY <1>1, NotCarriedOut DEF RollbackTo, DriverLevels
<1>2. ASSUME pg.up, pg.block # "idle", DriverLevels(pg) # {}
      PROVE  /\ RollbackTo(pg, "driver").reply = "ok"
             /\ DriverLevels(RollbackTo(pg, "driver")) = DriverLevels(pg)
  <2> DEFINE top  == Topmost(pg, "driver")
             left == [i \in 1 .. top |->
                        IF i = top THEN [pg.stack[i] EXCEPT !.work = {}]
                        ELSE pg.stack[i]]
             next == [pg EXCEPT !.block = "open", !.stack = left, !.reply = "ok"]
  <2>1. RollbackTo(pg, "driver") = next
    BY <1>2 DEF RollbackTo, DriverLevels
  <2>2. /\ top \in DriverLevels(pg) /\ top \in 1 .. Len(pg.stack)
        /\ DOMAIN pg.stack = 1 .. Len(pg.stack) /\ Len(pg.stack) \in Nat
        /\ pg.stack \in [1 .. Len(pg.stack) -> Level]
    BY <1>2, TopmostExists, LenProperties
       DEF DriverLevels, Levels, Topmost, SessionInv, Session
  <2> HIDE DEF top
  <2>3. DOMAIN left = 1 .. top /\ top \in Nat
    BY <2>2
  <2>4. \A i \in DOMAIN left : left[i].name = pg.stack[i].name
    BY <2>2 DEF Level
  <2> HIDE DEF left
  <2>5. next.stack = left /\ next.reply = "ok"
    BY DEF SessionInv, Session
  <2> HIDE DEF next
  <2>6. pg.stack[top].name = "driver"
    BY <2>2 DEF DriverLevels, Levels
  <2>7. top \in DriverLevels(next)
    BY <2>2, <2>3, <2>4, <2>5, <2>6 DEF DriverLevels, Levels
  <2>8. ASSUME NEW i \in DriverLevels(next)
        PROVE  i \in DriverLevels(pg)
    <3>1. i \in 1 .. top /\ pg.stack[i].name = "driver"
      BY <2>3, <2>4, <2>5, <2>8 DEF DriverLevels, Levels
    <3> QED
      BY <2>2, <3>1 DEF DriverLevels, Levels
  <2>9. DriverLevels(next) = DriverLevels(pg)
    BY <2>2, <2>7, <2>8
  <2> QED
    BY <2>1, <2>5, <2>9
<1> QED
  BY <1>1, <1>2

----------------------------------------------------------------------------
(* The operators of Connection                                             *)

\* The flag of the driver tells of an open block whether its savepoint stands,
\* and of an aborted one that it does.
Tracked(c) ==
  /\ \A i, j \in DriverLevels(c.pg) : i = j
  /\ c.rollback_on_error # "statement" => DriverLevels(c.pg) = {}
  /\ OpenBlock(c.pg) /\ ~c.statement_savepoint_active => DriverLevels(c.pg) = {}
  /\ c.pg.up /\ c.pg.block # "idle" /\ c.statement_savepoint_active =>
       DriverLevels(c.pg) # {}
  /\ c.rollback_on_error = "statement" /\ c.transaction_state = "failed"
       /\ OpenBlock(c.pg) => c.statement_savepoint_active

\* Between two calls a statement-level transaction that has failed is not open.
Unfailed(c) ==
  c.rollback_on_error = "statement" /\ c.transaction_state = "failed"
    => ~OpenBlock(c.pg)

Lone(c) == Good(c) /\ Tracked(c) /\ Unfailed(c)

\* An execution in an open block has its savepoint.
Protected(c) ==
  c.rollback_on_error = "statement" /\ c.transaction_state = "active"
    /\ OpenBlock(c.pg) => c.statement_savepoint_active

\* Such a command changes nothing the driver has to track.
LEMMA SteadyLone ==
  ASSUME NEW c, Lone(c), NEW pg, Steady(c.pg, pg)
  PROVE  /\ Lone([c EXCEPT !.pg = pg]) /\ Lone(ReturnAnswer(c, pg))
         /\ Protected(c) => Protected([c EXCEPT !.pg = pg])
<1> DEFINE d == [c EXCEPT !.pg = pg]
           e == ReturnAnswer(c, pg)
<1>0. c \in ConnectionRecord
  BY DEF Lone, Good
<1>1. Good(d) /\ Good(e)
  BY SessionReplaced, ReturnAnswerGood DEF Lone, Steady
<1>2. /\ d.pg = pg /\ d.rollback_on_error = c.rollback_on_error
      /\ d.statement_savepoint_active = c.statement_savepoint_active
      /\ d.transaction_state = c.transaction_state
      /\ e.pg = pg /\ e.rollback_on_error = c.rollback_on_error
      /\ e.statement_savepoint_active = c.statement_savepoint_active
      /\ e.transaction_state = c.transaction_state
  BY <1>0 DEF ConnectionRecord, ReturnAnswer
<1> HIDE DEF d, e
<1>3. /\ OpenBlock(pg) => OpenBlock(c.pg)
      /\ pg.up => c.pg.up
      /\ pg.block # "idle" => c.pg.block # "idle"
      /\ \/ DriverLevels(pg) = DriverLevels(c.pg)
         \/ DriverLevels(pg) = {} /\ pg.block = "idle"
  <2>1. Kept(c.pg, pg)
    BY DEF Steady
  <2>2. (pg.up => c.pg.up) /\ (pg.block # "idle" => c.pg.block # "idle")
    BY <2>1 DEF Kept
  <2>3. \/ /\ DriverLevels(pg) = DriverLevels(c.pg)
           /\ pg.up /\ pg.block = "open" => c.pg.block = "open"
        \/ DriverLevels(pg) = {} /\ pg.block = "idle"
    BY DEF Steady
  <2> QED
    BY <2>2, <2>3 DEF OpenBlock
<1>4. Tracked(d) /\ Tracked(e) /\ Unfailed(d) /\ Unfailed(e)
  BY <1>2, <1>3 DEF Lone, Tracked, Unfailed, OpenBlock
<1>5. Protected(c) => Protected(d)
  BY <1>2, <1>3 DEF Protected
<1> QED
  BY <1>1, <1>4, <1>5 DEF Lone, d, e

\* The return code is of no consequence here either.
LEMMA ReturnLone ==
  ASSUME NEW c, Good(c), NEW code \in {"success", "error"}
  PROVE  /\ Lone(c) => Lone(Return(c, code))
         /\ Tracked(c) => Tracked(Return(c, code))
         /\ Protected(c) => Protected(Return(c, code))
         /\ Return(c, code).pg = c.pg
         /\ Return(c, code).transaction_state = c.transaction_state
         /\ Return(c, code).autocommit = c.autocommit
<1> DEFINE d == Return(c, code)
<1>0. c \in ConnectionRecord /\ Good(d)
  BY ReturnGood DEF Good
<1>1. /\ d.pg = c.pg /\ d.rollback_on_error = c.rollback_on_error
      /\ d.statement_savepoint_active = c.statement_savepoint_active
      /\ d.transaction_state = c.transaction_state
      /\ d.autocommit = c.autocommit
  BY <1>0 DEF ConnectionRecord, Return
<1> HIDE DEF d
<1> QED
  BY <1>0, <1>1 DEF Lone, Tracked, Unfailed, Protected, d

\* A driver in a state of its own has no savepoint in a block without one.
LEMMA EnteredLone ==
  ASSUME NEW c, Lone(c), NEW state \in {"idle", "active"},
         Good(EnterTransactionState(c, state)),
         OpenBlock(c.pg) => DriverLevels(c.pg) = {}
  PROVE  Lone(EnterTransactionState(c, state))
<1> DEFINE d == EnterTransactionState(c, state)
<1>0. c \in ConnectionRecord
  BY DEF Lone, Good
<1>1. /\ d.pg = c.pg /\ d.rollback_on_error = c.rollback_on_error
      /\ d.statement_savepoint_active = FALSE /\ d.transaction_state # "failed"
  BY <1>0 DEF ConnectionRecord, EnterTransactionState
<1> HIDE DEF d
<1> QED
  BY <1>0, <1>1 DEF Lone, Tracked, Unfailed, d

\* BEGIN is sent from a transaction that is idle or has failed.
LEMMA BeginTransactionLone ==
  ASSUME NEW c, Lone(c)
  PROVE  Lone(BeginTransaction(c))
<1> DEFINE pg == Begin(c.pg)
           d == ReturnAnswer(c, pg)
<1>0. Good(c) /\ c \in ConnectionRecord /\ Good(BeginTransaction(c))
      /\ c.transaction_state \in {"idle", "active", "failed"}
  BY BeginTransactionGood DEF Lone, Good, ConnectionRecord, TransactionStates
<1>1. CASE ~Connected(c) \/ c.transaction_state = "active"
  BY <1>0, <1>1, ReturnLone DEF BeginTransaction
<1>2. CASE Connected(c) /\ c.transaction_state # "active"
  <2>1. BeginTransaction(c) = Begun(d)
    BY <1>2 DEF BeginTransaction
  <2>2. \/ Failed(c.pg, pg)
        \/ /\ pg.reply = "ok" /\ OpenBlock(pg)
           /\ \/ DriverLevels(pg) = {}
              \/ OpenBlock(c.pg) /\ DriverLevels(pg) = DriverLevels(c.pg)
    BY <1>0, BeginLevels DEF Good
  <2> HIDE DEF pg
  <2>3. CASE Failed(c.pg, pg)
    <3>1. Lone(d)
      BY <2>3, SteadyLone DEF Failed
    <3>2. d.ret = "error"
      BY <1>0, <2>3 DEF ReturnAnswer, ConnectionRecord, Failed
    <3> QED
      BY <2>1, <3>1, <3>2 DEF Begun
  <2>4. CASE pg.reply = "ok" /\ OpenBlock(pg)
    <3>1. DriverLevels(pg) = {}
      <4>1. OpenBlock(c.pg) => DriverLevels(c.pg) = {}
        <5>1. CASE c.transaction_state = "idle"
          BY <1>0, <5>1 DEF Good, OpenBlock
        <5>2. CASE c.transaction_state = "failed"
          BY <5>2 DEF Lone, Tracked, Unfailed
        <5> QED
          BY <1>0, <1>2, <5>1, <5>2
      <4> QED
        BY <2>2, <2>4, <4>1 DEF Failed
    <3>2. d.ret = "success"
      BY <1>0, <2>4 DEF ReturnAnswer, ConnectionRecord
    <3> DEFINE e == EnterTransactionState(d, "active")
    <3>3. BeginTransaction(c) = e
      BY <2>1, <3>2 DEF Begun
    <3>4. /\ e.pg = pg /\ e.transaction_state = "active"
          /\ e.statement_savepoint_active = FALSE
      BY <1>0 DEF ReturnAnswer, ConnectionRecord, EnterTransactionState
    <3> HIDE DEF e
    <3>5. Tracked(e) /\ Unfailed(e)
      BY <3>1, <3>4 DEF Tracked, Unfailed
    <3> QED
      BY <1>0, <3>3, <3>5 DEF Lone
  <2> QED
    BY <2>2, <2>3, <2>4
<1> QED
  BY <1>1, <1>2

\* The end of a transaction, on either side.
LEMMA EndedLone ==
  ASSUME NEW c, Lone(c), NEW outcome \in CommitOutcomes
  PROVE  /\ Lone(CommitTransaction(c, outcome)) /\ Lone(RollbackTransaction(c))
         /\ Steady(c.pg, CommitTransaction(c, outcome).pg)
         /\ ~Connected(c) \/ ~OpenBlock(CommitTransaction(c, outcome).pg)
<1>0. Good(c) /\ c \in ConnectionRecord /\ SessionInv(c.pg)
  BY DEF Lone, Good
<1>1. ASSUME NEW pg, Steady(c.pg, pg), pg.block = "idle"
      PROVE  LET d == EnterTransactionState(ReturnAnswer(c, pg), "idle")
             IN  Lone(d) /\ d.pg = pg
  <2> DEFINE d == ReturnAnswer(c, pg)
  <2>1. Lone(d) /\ d.pg = pg /\ d \in ConnectionRecord
    BY <1>0, <1>1, SteadyLone DEF ReturnAnswer, ConnectionRecord, Lone, Good
  <2> HIDE DEF d
  <2>2. Good(EnterTransactionState(d, "idle"))
    BY <1>1, <2>1, EndedGood DEF Lone
  <2>3. Lone(EnterTransactionState(d, "idle"))
    BY <1>1, <2>1, <2>2, EnteredLone DEF OpenBlock
  <2>4. EnterTransactionState(d, "idle").pg = pg
    BY <2>1 DEF EnterTransactionState, ConnectionRecord
  <2> QED
    BY <2>3, <2>4 DEF d
<1>2. /\ Steady(c.pg, Commit(c.pg, outcome)) /\ Commit(c.pg, outcome).block = "idle"
      /\ Steady(c.pg, Rollback(c.pg)) /\ Rollback(c.pg).block = "idle"
  BY <1>0, CommitSteady, CommitKept, RollbackKept
<1>3. /\ Lone(Return(c, "success")) /\ Lone(Return(c, "error"))
      /\ Return(c, "success").pg = c.pg /\ Return(c, "error").pg = c.pg
      /\ Steady(c.pg, c.pg)
  BY <1>0, ReturnLone, StackSteady DEF Kept
<1>4. CASE c.transaction_state = "idle"
  <2>1. c.pg.block = "idle"
    BY <1>0, <1>4 DEF Good
  <2> QED
    BY <1>3, <1>4, <2>1 DEF CommitTransaction, RollbackTransaction, OpenBlock
<1>5. CASE c.transaction_state # "idle" /\ ~Connected(c)
  BY <1>3, <1>5 DEF CommitTransaction, RollbackTransaction
<1>6. CASE c.transaction_state # "idle" /\ Connected(c)
  BY <1>1, <1>2, <1>6 DEF CommitTransaction, RollbackTransaction, OpenBlock
<1> QED
  BY <1>4, <1>5, <1>6

\* connection_ensure_transaction, and its form for large objects.
LEMMA EnsureLone ==
  ASSUME NEW c, Lone(c)
  PROVE  Lone(EnsureTransaction(c)) /\ Lone(EnsureLargeObjectTransaction(c))
<1>1. Lone(Return(c, "success")) /\ Lone(BeginTransaction(c))
  BY ReturnLone, BeginTransactionLone DEF Lone
<1> QED
  BY <1>1 DEF EnsureTransaction, EnsureLargeObjectTransaction

\* The standing savepoint is released before it is set again.
LEMMA SetAgainLevels ==
  ASSUME NEW pg, SessionInv(pg), \A i, j \in DriverLevels(pg) : i = j,
         NEW flag \in BOOLEAN,
         OpenBlock(pg) /\ ~flag => DriverLevels(pg) = {},
         OpenBlock(pg) /\ flag => DriverLevels(pg) # {}
  PROVE  LET next == SetAgain(IF flag THEN ReleaseThenSavepoint(pg, "driver")
                                      ELSE Savepoint(pg, "driver"))
         IN  \/ Failed(pg, next)
             \/ next.reply = "ok" /\ \E n : DriverLevels(next) = {n}
<1>0. "driver" \in Names
  BY DEF Names
<1>1. ASSUME NEW first, Failed(pg, first)
      PROVE  Failed(pg, SetAgain(first))
  <2>1. Failed(first, Savepoint(first, "driver"))
    BY <1>1, SavepointLevels DEF Failed, Steady, Kept
  <2>2. SetAgain(first) = Savepoint(first, "driver")
    BY <1>1 DEF Failed, SetAgain
  <2> QED
    BY <1>1, <2>1, <2>2, SteadyTwice DEF Failed
<1>2. ASSUME NEW next, next.reply = "ok"
      PROVE  SetAgain(next) = next
  BY <1>2 DEF SetAgain
<1>3. CASE ~OpenBlock(pg)
  <2>1. Failed(pg, Savepoint(pg, "driver")) /\ Failed(pg, Release(pg, "driver"))
    BY <1>3, SavepointLevels, ReleaseLevels
  <2>2. ReleaseThenSavepoint(pg, "driver") = Release(pg, "driver")
    BY <2>1 DEF ReleaseThenSavepoint, SavepointAfter, Failed
  <2> QED
    BY <1>1, <2>1, <2>2
<1>4. CASE OpenBlock(pg) /\ ~flag
  BY <1>2, <1>4, SavepointLevels
<1>5. CASE OpenBlock(pg) /\ flag
  <2> DEFINE released == Release(pg, "driver")
  <2>1. /\ released.reply = "ok" /\ OpenBlock(released)
        /\ DriverLevels(released) = {} /\ SessionInv(released)
    BY <1>0, <1>5, ReleaseLevels, ReleaseKept DEF Kept
  <2>2. ReleaseThenSavepoint(pg, "driver") = Savepoint(released, "driver")
    BY <2>1 DEF ReleaseThenSavepoint, SavepointAfter
  <2> HIDE DEF released
  <2>3. Savepoint(released, "driver").reply = "ok"
        /\ \E n : DriverLevels(Savepoint(released, "driver")) = {n}
    BY <2>1, SavepointLevels
  <2> QED
    BY <1>2, <1>5, <2>2, <2>3
<1> QED
  BY <1>3, <1>4, <1>5

\* connection_begin_statement_savepoint leaves at most one, and protects what an
\* active transaction runs next.
LEMMA SavepointLone ==
  ASSUME NEW c, Lone(c)
  PROVE  /\ Lone(BeginStatementSavepoint(c))
         /\ Connected(c) => Protected(BeginStatementSavepoint(c))
<1> DEFINE flag == c.statement_savepoint_active
           next == SetAgain(IF flag THEN ReleaseThenSavepoint(c.pg, "driver")
                                    ELSE Savepoint(c.pg, "driver"))
           d == SavepointAnswered(c, next)
<1>0. /\ Good(c) /\ c \in ConnectionRecord /\ SessionInv(c.pg)
      /\ Good(BeginStatementSavepoint(c)) /\ flag \in BOOLEAN
  BY SavepointGood DEF Lone, Good, ConnectionRecord
<1>1. CASE ~WantsStatementSavepoint(c)
  BY <1>1 DEF BeginStatementSavepoint, WantsStatementSavepoint, Protected
<1>2. CASE WantsStatementSavepoint(c)
  <2>1. BeginStatementSavepoint(c) = d
    BY <1>2 DEF BeginStatementSavepoint
  <2>2. \/ Failed(c.pg, next)
        \/ next.reply = "ok" /\ \E n : DriverLevels(next) = {n}
    BY <1>0, SetAgainLevels DEF Lone, Tracked, OpenBlock
  <2> HIDE DEF next
  <2>3. /\ d.pg = next /\ d.rollback_on_error = "statement"
        /\ d.statement_savepoint_active = (next.reply = "ok")
        /\ d.transaction_state = "active"
    BY <1>0, <1>2 DEF SavepointAnswered, ConnectionRecord, WantsStatementSavepoint
  <2> HIDE DEF d
  <2>4. Tracked(d) /\ Unfailed(d) /\ Protected(d)
    <3>1. CASE Failed(c.pg, next)
      <4>1. /\ ~d.statement_savepoint_active /\ ~OpenBlock(d.pg)
            /\ \/ DriverLevels(d.pg) = DriverLevels(c.pg)
               \/ DriverLevels(d.pg) = {}
        BY <2>3, <3>1 DEF Failed, Steady
      <4> QED
        BY <2>3, <4>1 DEF Lone, Tracked, Unfailed, Protected
    <3>2. CASE next.reply = "ok" /\ \E n : DriverLevels(next) = {n}
      <4>1. d.statement_savepoint_active /\ \E n : DriverLevels(d.pg) = {n}
        BY <2>3, <3>2
      <4> QED
        BY <2>3, <4>1 DEF Tracked, Unfailed, Protected
    <3> QED
      BY <2>2, <3>1, <3>2
  <2> QED
    BY <1>0, <2>1, <2>4 DEF Lone
<1> QED
  BY <1>1, <1>2

\* A statement that failed has left no open block, or it had its savepoint.
LEMMA MarkFailedLone ==
  ASSUME NEW c, Lone(c)
  PROVE  /\ ~OpenBlock(c.pg) => Lone(MarkFailed(c))
         /\ Protected(c) => Tracked(MarkFailed(c))
<1> DEFINE d == MarkFailed(c)
<1>0. Good(d) /\ c \in ConnectionRecord
  BY MarkFailedGood DEF Lone, Good
<1>1. /\ d.pg = c.pg /\ d.rollback_on_error = c.rollback_on_error
      /\ d.statement_savepoint_active = c.statement_savepoint_active
      /\ d.transaction_state = "failed" =>
           c.transaction_state \in {"active", "failed"}
  BY <1>0 DEF MarkFailed, ConnectionRecord
<1> HIDE DEF d
<1>2. ~OpenBlock(c.pg) => Lone(d)
  BY <1>0, <1>1 DEF Lone, Tracked, Unfailed
<1>3. Protected(c) => Tracked(d)
  BY <1>1 DEF Lone, Tracked, Unfailed, Protected
<1> QED
  BY <1>2, <1>3 DEF d

\* connection_handle_statement_error: what it cannot rewind is not open.
LEMMA HandleStatementErrorLone ==
  ASSUME NEW c, Good(c), Tracked(c)
  PROVE  Lone(HandleStatementError(c))
<1> DEFINE pg == RollbackTo(c.pg, "driver")
           state == IF pg.reply = "ok" THEN "active" ELSE c.transaction_state
           d == [c EXCEPT !.pg = pg, !.transaction_state = state]
<1>0. /\ c \in ConnectionRecord /\ SessionInv(c.pg) /\ c.ret \in {"success", "error"}
      /\ Good(HandleStatementError(c))
  BY HandleStatementErrorGood DEF Good, ConnectionRecord
<1>1. CASE Unfailed(c) /\ HandleStatementError(c) = c
  BY <1>1 DEF Lone
<1>2. CASE ~Connected(c) \/ c.transaction_state # "failed"
  <2>1. Unfailed(c)
    BY <1>2 DEF Unfailed, OpenBlock, Good
  <2> QED
    BY <1>1, <1>2, <2>1 DEF HandleStatementError
<1>3. CASE Connected(c) /\ c.transaction_state = "failed"
           /\ c.rollback_on_error = "transaction"
  <2>1. Lone(c)
    BY <1>3 DEF Lone, Unfailed
  <2>2. "ok" \in CommitOutcomes
    BY DEF CommitOutcomes
  <2>3. Lone(RollbackTransaction(c))
    BY <2>1, <2>2, EndedLone
  <2>4. Lone(Return(RollbackTransaction(c), c.ret))
    BY <1>0, <2>3, ReturnLone DEF Lone
  <2> QED
    BY <1>3, <2>4 DEF HandleStatementError
<1>4. CASE /\ Connected(c) /\ c.transaction_state = "failed"
           /\ c.rollback_on_error = "statement" /\ c.statement_savepoint_active
  <2>1. HandleStatementError(c) = d
    BY <1>4 DEF HandleStatementError
  <2>2. /\ ~(c.pg.up /\ c.pg.block # "idle" /\ DriverLevels(c.pg) # {})
             => Failed(c.pg, pg)
        /\ c.pg.up /\ c.pg.block # "idle" /\ DriverLevels(c.pg) # {} =>
             pg.reply = "ok" /\ DriverLevels(pg) = DriverLevels(c.pg)
    BY <1>0, RewindLevels DEF Tracked
  <2> HIDE DEF pg
  <2>3. /\ d.pg = pg /\ d.rollback_on_error = "statement"
        /\ d.statement_savepoint_active = TRUE
        /\ d.transaction_state = state
    BY <1>0, <1>4 DEF ConnectionRecord
  <2> HIDE DEF d
  <2>4. CASE c.pg.up /\ c.pg.block # "idle"
    <3>1. /\ DriverLevels(c.pg) # {} /\ pg.reply = "ok"
          /\ DriverLevels(pg) = DriverLevels(c.pg)
      BY <1>4, <2>2, <2>4 DEF Tracked
    <3>2. Tracked(d) /\ Unfailed(d)
      BY <2>3, <3>1 DEF Tracked, Unfailed
    <3> QED
      BY <1>0, <2>1, <3>2 DEF Lone
  <2>5. CASE ~(c.pg.up /\ c.pg.block # "idle")
    <3>1. Failed(c.pg, pg)
      BY <2>2, <2>5
    <3>2. /\ ~OpenBlock(pg) /\ ~(pg.up /\ pg.block # "idle")
          /\ \/ DriverLevels(pg) = DriverLevels(c.pg)
             \/ DriverLevels(pg) = {}
      BY <2>5, <3>1 DEF Failed, Steady, Kept
    <3>3. Tracked(d) /\ Unfailed(d)
      BY <2>3, <3>2 DEF Tracked, Unfailed
    <3> QED
      BY <1>0, <2>1, <3>3 DEF Lone
  <2> QED
    BY <2>4, <2>5
<1>5. CASE /\ Connected(c) /\ c.transaction_state = "failed"
           /\ c.rollback_on_error # "transaction"
           /\ ~(c.rollback_on_error = "statement" /\ c.statement_savepoint_active)
  <2>1. HandleStatementError(c) = c
    BY <1>5 DEF HandleStatementError
  <2>2. Unfailed(c)
    BY <1>5 DEF Tracked, Unfailed
  <2> QED
    BY <1>1, <2>1, <2>2
<1> QED
  BY <1>2, <1>3, <1>4, <1>5

\* SQLSetConnectAttr(SQL_ATTR_AUTOCOMMIT).
LEMMA SetAutocommitLone ==
  ASSUME NEW c, Lone(c), NEW on \in BOOLEAN, NEW outcome \in CommitOutcomes
  PROVE  Lone(SetAutocommit(c, on, outcome))
<1>1. ASSUME NEW d, Lone(d)
      PROVE  Lone([d EXCEPT !.autocommit = on])
  <2> DEFINE e == [d EXCEPT !.autocommit = on]
  <2>0. d \in ConnectionRecord /\ Good(d)
    BY <1>1 DEF Lone, Good
  <2>1. Good(e)
    BY <2>0 DEF Good, ConnectionRecord, Connected
  <2>2. /\ e.pg = d.pg /\ e.rollback_on_error = d.rollback_on_error
        /\ e.statement_savepoint_active = d.statement_savepoint_active
        /\ e.transaction_state = d.transaction_state
    BY <2>0 DEF ConnectionRecord
  <2> HIDE DEF e
  <2>3. Lone(e)
    BY <1>1, <2>1, <2>2 DEF Lone, Tracked, Unfailed
  <2> QED
    BY <2>3 DEF e
<1>2. Lone(Return(c, "success")) /\ Lone(CommitTransaction(c, outcome))
  BY ReturnLone, EndedLone DEF Lone
<1>3. Lone(Return(RollbackTransaction(c), "success"))
  BY ReturnLone, EndedLone DEF Lone
<1> QED
  BY <1>1, <1>2, <1>3 DEF SetAutocommit

\* A session that ends takes its savepoints along, and a new one has none.
LEMMA LinkLone ==
  ASSUME NEW c, Lone(c)
  PROVE  /\ Lone(Disconnect(c))
         /\ ~Connected(c) => Lone(Connect(c))
         /\ Lone([c EXCEPT !.pg = Lost(@)])
<1>0. c \in ConnectionRecord /\ Good(c) /\ SessionInv(c.pg)
  BY DEF Lone, Good
<1>1. ASSUME NEW d, Good(d), d.pg.block = "idle", DriverLevels(d.pg) = {}
      PROVE  Lone(d)
  BY <1>1 DEF Lone, Tracked, Unfailed, OpenBlock
<1>2. Lone([c EXCEPT !.pg = Lost(@)])
  BY <1>0, LostSteady, SteadyLone
<1>3. Lost(c.pg).block = "idle" /\ DriverLevels(Lost(c.pg)) = {}
  BY <1>0 DEF Lost, SessionInv, Session, DriverLevels, Levels
<1>4. LET pg == FreshSession(c.pg.durable)
      IN  pg.block = "idle" /\ DriverLevels(pg) = {}
  BY DEF FreshSession, DriverLevels, Levels
<1>5. /\ Disconnect(c).pg = Lost(c.pg)
      /\ Connect(c).pg = FreshSession(c.pg.durable)
  BY <1>0 DEF Disconnect, Connect, Return, ConnectionRecord
<1>6. Good(Disconnect(c)) /\ (~Connected(c) => Good(Connect(c)))
  BY <1>0, LinkGood
<1> QED
  BY <1>1, <1>2, <1>3, <1>4, <1>5, <1>6

----------------------------------------------------------------------------
(* The operators of Statement                                              *)

\* A connection whose last answer, but for a COPY, is borne out by its block.
Borne(c) ==
  /\ c.pg.reply \in Replies
  /\ c.pg.reply \in {"error", "null"} => ~OpenBlock(c.pg)

\* One statement sent to the server.
LEMMA SendLone ==
  ASSUME NEW c, Lone(c), NEW step \in Steps
  PROVE  /\ Lone(Send(c, step)) /\ Borne(Send(c, step))
         /\ Protected(c) => Protected(Send(c, step))
         /\ step.outcome # "copy_out" => Send(c, step).pg.reply # "copy_out"
<1> DEFINE pg == Run(c.pg, step.work, step.outcome)
<1>1. Answered(c.pg, pg) /\ (step.outcome # "copy_out" => pg.reply # "copy_out")
  BY RunSteady DEF Steps, Lone, Good
<1> HIDE DEF pg
<1>2. Send(c, step) = [c EXCEPT !.pg = pg] /\ [c EXCEPT !.pg = pg].pg = pg
  BY DEF Send, pg, Lone, Good, ConnectionRecord
<1>3. /\ Lone([c EXCEPT !.pg = pg])
      /\ Protected(c) => Protected([c EXCEPT !.pg = pg])
  BY <1>1, SteadyLone DEF Answered
<1>4. pg.reply \in Replies /\ (pg.reply \in {"error", "null"} => ~OpenBlock(pg))
  BY <1>1 DEF Answered, OpenBlock
<1> QED
  BY <1>1, <1>2, <1>3, <1>4 DEF Borne

\* Handling an answer that the block bears out.
LEMMA HandlingLone ==
  ASSUME NEW c, Lone(c)
  PROVE  /\ \A reply : (reply = "error" => ~OpenBlock(c.pg))
                         => Lone(HandleExecutionResult(c, reply))
         /\ Borne(c) /\ c.pg.reply # "copy_out" => Lone(MarkUnlessOk(c))
         /\ Lone(Recover(c)) /\ Lone(UnmarkedAnswer(c))
<1>0. Good(c) /\ Tracked(c) /\ Lone(HandleStatementError(c))
  BY HandleStatementErrorLone DEF Lone
<1>1. Lone(Return(c, "success")) /\ Lone(Return(c, "error"))
  BY <1>0, ReturnLone
<1>2. ~OpenBlock(c.pg) =>
        Lone(MarkFailed(c)) /\ Lone(Return(MarkFailed(c), "error"))
  BY MarkFailedLone, ReturnLone DEF Lone
<1>3. ASSUME NEW reply, reply = "error" => ~OpenBlock(c.pg)
      PROVE  Lone(HandleExecutionResult(c, reply))
  BY <1>1, <1>2, <1>3 DEF HandleExecutionResult
<1>4. Borne(c) /\ c.pg.reply # "copy_out" => Lone(MarkUnlessOk(c))
  BY <1>1, <1>2 DEF Borne, MarkUnlessOk, Replies
<1>5. Lone(Recover(c)) /\ Lone(UnmarkedAnswer(c))
  BY <1>0, <1>1 DEF Recover, UnmarkedAnswer
<1> QED
  BY <1>3, <1>4, <1>5

\* A failure of fragments may leave the block open: a COPY was not expected.
LEMMA FragmentsHandled ==
  ASSUME NEW c, Lone(c), Protected(c), Borne(c)
  PROVE  Lone(Recover(HandleFragments(c)))
<1>0. Good(c) /\ c \in ConnectionRecord
  BY DEF Lone, Good
<1>1. /\ Lone(Return(c, "success")) /\ Lone(Return(c, "error"))
      /\ Return(c, "success").ret = "success"
  BY <1>0, ReturnLone, ReturnGood
<1>2. Tracked(MarkFailed(c)) /\ Good(MarkFailed(c))
  BY MarkFailedLone, MarkFailedGood DEF Lone
<1> DEFINE d == Return(MarkFailed(c), "error")
<1>3. Tracked(d) /\ Good(d) /\ d.ret = "error"
  BY <1>2, ReturnLone, ReturnGood
<1>4. Lone(Recover(d))
  <2>1. Lone(HandleStatementError(d))
    BY <1>3, HandleStatementErrorLone
  <2> QED
    BY <1>3, <2>1 DEF Recover
<1>5. Lone(Recover(Return(c, "success"))) /\ Lone(Recover(Return(c, "error")))
  BY <1>1, HandlingLone
<1> QED
  BY <1>4, <1>5 DEF HandleFragments, MarkUnlessOk

\* A stale descriptor that is closed aborts the block and no more.
LEMMA CloseResultLone ==
  ASSUME NEW c, Lone(c), NEW p
  PROVE  /\ Lone(CloseResult(c, p))
         /\ Protected(c) => Protected(CloseResult(c, p))
<1>1. c.pg.up => Steady(c.pg, Refuse(c.pg))
  BY RefuseSteady DEF Lone, Good
<1> QED
  BY <1>1, SteadyLone DEF CloseResult

\* The opening of an execution; one that entered a transaction is protected.
LEMMA OpenLone ==
  ASSUME NEW c, Lone(c), Connected(c), NEW kind, NEW p, NEW direct
  PROVE  LET opened == Open(c, kind, p, direct)
         IN  /\ Lone(opened)
             /\ kind = "plain" /\ opened.ret = "success" => Protected(opened)
<1>1. ASSUME NEW d, Lone(d), Connected(d)
      PROVE  /\ Lone(Enter(d, kind))
             /\ kind = "plain" /\ Enter(d, kind).ret = "success"
                  => Protected(Enter(d, kind))
  <2>1. Lone(EnsureTransaction(d)) /\ Lone(Return(d, "success"))
    BY <1>1, EnsureLone, ReturnLone DEF Lone
  <2>2. Connected(EnsureTransaction(d))
    BY <1>1 DEF EnsureTransaction, BeginTransaction, Begun, Return, ReturnAnswer,
       EnterTransactionState, Connected, Lone, Good, ConnectionRecord
  <2> DEFINE ensured == EnsureTransaction(d)
  <2> HIDE DEF ensured
  <2>3. Lone(ensured) /\ Connected(ensured)
    BY <2>1, <2>2 DEF ensured
  <2>4. /\ Lone(BeginStatementSavepoint(ensured))
        /\ Protected(BeginStatementSavepoint(ensured))
    BY <2>3, SavepointLone
  <2>5. CASE kind = "exempt"
    BY <2>1, <2>5 DEF Enter
  <2>6. CASE kind # "exempt"
    <3>1. Enter(d, kind) = Protect(ensured, kind)
      BY <2>6 DEF Enter, ensured
    <3>2. Lone(Protect(ensured, kind))
      BY <2>3, <2>4 DEF Protect
    <3>3. kind = "plain" /\ Protect(ensured, kind).ret = "success"
            => Protected(Protect(ensured, kind))
      BY <2>4 DEF Protect
    <3> QED
      BY <3>1, <3>2, <3>3
  <2> QED
    BY <2>5, <2>6
<1>2. ASSUME NEW d, Lone(d)
      PROVE  /\ Lone(CloseWhenEntered(d, p))
             /\ CloseWhenEntered(d, p).ret = "success" =>
                  d.ret = "success"
             /\ Protected(d) => Protected(CloseWhenEntered(d, p))
  BY <1>2, CloseResultLone DEF CloseWhenEntered
<1>3. Lone(CloseResult(c, p)) /\ Connected(CloseResult(c, p))
  BY CloseResultLone DEF CloseResult, Connected, Lone, Good, ConnectionRecord
<1>4. CASE direct
  BY <1>1, <1>3, <1>4 DEF Open
<1>5. CASE ~direct
  BY <1>1, <1>2, <1>5 DEF Open
<1> QED
  BY <1>4, <1>5

\* One command, whatever the session makes of it.
LEMMA RunCommandLone ==
  ASSUME NEW c, Lone(c), NEW pg, Steady(c.pg, pg),
         pg.reply = "error" => ~OpenBlock(pg)
  PROVE  Lone(RunCommand(c, pg))
<1> DEFINE d == [c EXCEPT !.pg = pg]
<1>1. Lone(d) /\ d.pg = pg
  BY SteadyLone DEF Lone, Good, ConnectionRecord
<1> HIDE DEF d
<1>2. Lone(HandleExecutionResult(d, pg.reply))
  BY <1>1, HandlingLone
<1>3. Lone(Recover(HandleExecutionResult(d, pg.reply)))
  BY <1>2, HandlingLone
<1> QED
  BY <1>3 DEF RunCommand, d

\* A single statement.
LEMMA RunSingleLone ==
  ASSUME NEW c, Lone(c), NEW step \in Steps
  PROVE  Lone(RunSingle(c, step))
<1>1. Answered(c.pg, Run(c.pg, step.work, step.outcome))
  BY RunSteady DEF Steps, Lone, Good
<1> QED
  BY <1>1, RunCommandLone DEF RunSingle, Answered

\* A call and the fetching of its cursors.
LEMMA RunCallLone ==
  ASSUME NEW c, Lone(c), NEW step \in Steps, NEW fetch \in Steps
  PROVE  Lone(RunCall(c, step, fetch))
<1> DEFINE called == RunSingle(c, step)
<1>1. Lone(called)
  BY RunSingleLone
<1> HIDE DEF called
<1>2. Lone(FetchRefcursorResults(called, fetch))
  BY <1>1, SendLone, HandlingLone, ReturnLone DEF FetchRefcursorResults, Lone
<1> QED
  BY <1>1, <1>2 DEF RunCall, HandleCallResult, called

\* The application's COMMIT or ROLLBACK is such a command.
LEMMA RunTextLone ==
  ASSUME NEW c, Lone(c), NEW commit, NEW outcome \in CommitOutcomes
  PROVE  Lone(RunTransactionText(c, commit, outcome))
<1>1. /\ Steady(c.pg, Commit(c.pg, outcome)) /\ Commit(c.pg, outcome).block = "idle"
      /\ Steady(c.pg, Rollback(c.pg)) /\ Rollback(c.pg).block = "idle"
  BY CommitSteady, CommitKept, RollbackKept DEF Lone, Good
<1> QED
  BY <1>1, RunCommandLone DEF RunTransactionText, OpenBlock

\* Fragments, protected by the opening, and parameter sets, which take no COPY.
LEMMA RunBothLone ==
  ASSUME NEW c, Lone(c), NEW first \in Steps, NEW second \in Steps
  PROVE  /\ (c.ret = "success" => Protected(c))
              => Lone(RunFragments(c, <<first, second>>))
         /\ first.outcome # "copy_out" /\ second.outcome # "copy_out"
              => Lone(RunParameterSets(c, <<first, second>>))
<1> DEFINE steps == <<first, second>>
           sent == SendBoth(c, steps)
<1>1. steps[1] = first /\ steps[2] = second
  OBVIOUS
<1> HIDE DEF steps
<1>2. ASSUME NEW d, Lone(d), Borne(d)
      PROVE  /\ Lone(SendNext(d, second)) /\ Borne(SendNext(d, second))
             /\ Protected(d) => Protected(SendNext(d, second))
             /\ d.pg.reply # "copy_out" /\ second.outcome # "copy_out"
                  => SendNext(d, second).pg.reply # "copy_out"
  BY <1>2, SendLone DEF SendNext
<1>3. /\ Lone(Send(c, first)) /\ Borne(Send(c, first))
      /\ Protected(c) => Protected(Send(c, first))
      /\ first.outcome # "copy_out" => Send(c, first).pg.reply # "copy_out"
  BY SendLone
<1>4. sent = SendNext(Send(c, first), second)
  BY <1>1 DEF SendBoth
<1>5. /\ Lone(sent) /\ Borne(sent) /\ (Protected(c) => Protected(sent))
      /\ first.outcome # "copy_out" /\ second.outcome # "copy_out"
           => sent.pg.reply # "copy_out"
  BY <1>2, <1>3, <1>4
<1>6. c.ret \in {"success", "error"}
  BY DEF Lone, Good, ConnectionRecord
<1> HIDE DEF sent
<1>7. (c.ret = "success" => Protected(c)) => Lone(RunFragments(c, steps))
  BY <1>5, <1>6, FragmentsHandled DEF RunFragments, sent
<1>8. first.outcome # "copy_out" /\ second.outcome # "copy_out"
        => Lone(RunParameterSets(c, steps))
  BY <1>5, HandlingLone DEF RunParameterSets, sent
<1> QED
  BY <1>7, <1>8 DEF steps

\* Large objects.  A block the driver ends is not open any more.
LEMMA LargeObjectLone ==
  ASSUME NEW c, Lone(c), NEW step \in Steps, NEW outcome \in CommitOutcomes
  PROVE  /\ Lone(CommitLargeObject(c, outcome))
         /\ ~OpenBlock(c.pg) => ~OpenBlock(CommitLargeObject(c, outcome).pg)
         /\ Lone(RollbackLargeObject(c))
         /\ Lone(UseLargeObject(c, step))
<1>0. c.ret \in {"success", "error"} /\ Good(c)
  BY DEF Lone, Good, ConnectionRecord
<1> DEFINE committed == CommitTransaction(c, outcome)
<1>1. /\ Lone(committed) /\ Steady(c.pg, committed.pg)
      /\ Lone(RollbackTransaction(c))
  BY EndedLone
<1>2. ~OpenBlock(c.pg) => ~OpenBlock(committed.pg)
  BY <1>1 DEF Steady, Kept, OpenBlock
<1> HIDE DEF committed
<1>3. /\ Lone(Return(committed, c.ret)) /\ Return(committed, c.ret).pg = committed.pg
      /\ Lone(Return(RollbackTransaction(c), c.ret))
  BY <1>0, <1>1, ReturnLone DEF Lone
<1>4. Lone(UseLargeObject(c, step))
  BY EnsureLone, SendLone, HandlingLone DEF UseLargeObject, SendWhenEnsured
<1> QED
  BY <1>2, <1>3, <1>4 DEF CommitLargeObject, RollbackLargeObject, committed

\* A large object bound in line.
LEMMA RunWithLargeObjectLone ==
  ASSUME NEW c, Lone(c), NEW store \in Steps, NEW step \in Steps,
         NEW outcome \in CommitOutcomes
  PROVE  Lone(RunWithLargeObject(c, store, step, outcome))
<1>1. ASSUME NEW d, Lone(d), Borne(d)
      PROVE  Lone(CommitThenHandle(d, outcome))
  <2> DEFINE e == CommitLargeObject(d, outcome)
  <2>1. Lone(e) /\ (d.pg.reply = "error" => ~OpenBlock(e.pg))
    BY <1>1, LargeObjectLone DEF Borne
  <2> HIDE DEF e
  <2>2. Lone(Recover(HandleExecutionResult(e, d.pg.reply)))
    BY <2>1, HandlingLone
  <2> QED
    BY <2>2 DEF CommitThenHandle, e
<1>2. ASSUME NEW d, Lone(d)
      PROVE  Lone(RunWhenStored(d, step, outcome))
  <2>1. Lone(CommitThenHandle(Send(d, step), outcome))
    BY <1>1, <1>2, SendLone
  <2>2. Lone(HandleStatementError(RollbackLargeObject(d)))
    BY <1>2, LargeObjectLone, HandleStatementErrorLone DEF Lone
  <2> QED
    BY <2>1, <2>2 DEF RunWhenStored
<1> QED
  BY <1>2, LargeObjectLone DEF RunWithLargeObject

\* One set of a data-at-execution, which takes no COPY.
LEMMA RunSuppliedSetLone ==
  ASSUME NEW c, Lone(c), NEW step \in Steps, step.outcome # "copy_out", NEW last,
         NEW array, NEW outcome \in CommitOutcomes
  PROVE  Lone(RunSuppliedSet(c, step, last, array, outcome))
<1>1. Lone(HandleSuppliedSet(Send(c, step), array))
  BY SendLone, HandlingLone DEF HandleSuppliedSet, Borne
<1>2. ASSUME NEW d, Lone(d)
      PROVE  Lone(FinishSuppliedSet(d, last, outcome))
  BY <1>2, LargeObjectLone, HandleStatementErrorLone DEF FinishSuppliedSet, Lone
<1> QED
  BY <1>1, <1>2 DEF RunSuppliedSet

\* Reading on from a descriptor.
LEMMA ReadOnLone ==
  ASSUME NEW c, Lone(c), NEW p, NEW step \in Steps
  PROVE  Lone(ReadOn(c, p, step))
<1>1. Lone(Return(CloseResult(c, p), "error"))
  BY CloseResultLone, ReturnLone DEF Lone
<1> QED
  BY <1>1, SendLone, HandlingLone DEF ReadOn

----------------------------------------------------------------------------
(* The actions keep to one savepoint of the driver                         *)

\* A call ends with a connection that has no more.
EndsLone == \E c : Lone(c) /\ conn' = Forget(c)

\* COPY is left to a single statement and to fragments.
LEMMA PlainInputs ==
  /\ \A work \in Changes, outcome \in NoCopy :
       LET step == [work |-> work, outcome |-> outcome]
       IN  step \in Steps /\ step.outcome # "copy_out"
  /\ \A outcome \in NoCopy : [work |-> {}, outcome |-> outcome] \in Steps
  /\ \A reached : After(reached, NoCopy) \subseteq NoCopy \union {"ok"}
BY Inputs DEF NoCopy, Outcomes, RunOutcomes, After

\* The executions of one statement.
LEMMA ExecutionsEndLone ==
  ASSUME Inv, Lone(conn), NEW s \in Stmts,
         \/ ExecuteSingle(s)
         \/ ExecuteCall(s)
         \/ ExecuteMultiStatement(s)
         \/ ExecuteParameterArray(s)
         \/ ExecuteWithLargeObject(s)
  PROVE  EndsLone
<1>0. Connected(conn)
  BY DEF ExecuteSingle, ExecuteCall, ExecuteMultiStatement, ExecuteParameterArray,
     ExecuteBoth, ExecuteWithLargeObject, MayExecute
<1>1. ASSUME NEW direct
      PROVE  LET opened == Open(conn, "plain", phase[s], direct)
             IN  /\ Lone(opened)
                 /\ opened.ret = "success" => Protected(opened)
  BY <1>0, OpenLone
<1>2. ASSUME NEW opened, NEW ran, Lone(ran), NEW direct, NEW work,
             Executed(s, opened, ran, direct, work)
      PROVE  EndsLone
  BY <1>2 DEF Executed, Becomes, EndsLone
<1>3. CASE ExecuteSingle(s)
  <2>1. PICK w \in Changes, outcome \in Outcomes, direct \in BOOLEAN :
          LET opened == Open(conn, "plain", phase[s], direct)
          IN  Executed(s, opened,
                       RunSingle(opened, [work |-> w, outcome |-> outcome]),
                       direct, w)
    BY <1>3 DEF ExecuteSingle
  <2>2. Lone(RunSingle(Open(conn, "plain", phase[s], direct),
                       [work |-> w, outcome |-> outcome]))
    BY <1>1, Inputs, RunSingleLone
  <2> QED
    BY <1>2, <2>1, <2>2
<1>4. ASSUME NEW name, NEW outcomes \in {Outcomes, NoCopy},
             name # "multi" => outcomes = NoCopy,
             ExecuteBoth(s, name, outcomes)
      PROVE  EndsLone
  <2>1. ASSUME NEW first \in Steps, NEW second \in Steps, NEW direct,
               name # "multi" =>
                 first.outcome # "copy_out" /\ second.outcome # "copy_out",
               ExecutePair(s, name, first, second, direct)
        PROVE  EndsLone
    <3> DEFINE opened == Open(conn, "plain", phase[s], direct)
    <3>1. Lone(opened) /\ (opened.ret = "success" => Protected(opened))
      BY <1>1
    <3> HIDE DEF opened
    <3>2. Lone(RunBoth(name, opened, <<first, second>>))
      BY <2>1, <3>1, RunBothLone DEF RunBoth
    <3> QED
      BY <1>2, <2>1, <3>2 DEF ExecutePair, opened
  <2>2. \E first, second \in Steps, direct \in BOOLEAN :
          /\ name # "multi" =>
               first.outcome # "copy_out" /\ second.outcome # "copy_out"
          /\ ExecutePair(s, name, first, second, direct)
    <3>1. PICK w \in Changes, v \in Changes, o \in outcomes, direct \in BOOLEAN :
          \E p \in After(o = "ok", outcomes) :
            ExecutePair(s, name, [work |-> w, outcome |-> o],
                                 [work |-> v, outcome |-> p], direct)
      BY <1>4, ZenonT(60) DEF ExecuteBoth
    <3>2. PICK p \in After(o = "ok", outcomes) :
            ExecutePair(s, name, [work |-> w, outcome |-> o],
                                 [work |-> v, outcome |-> p], direct)
      BY <3>1
    <3> DEFINE first == [work |-> w, outcome |-> o]
               second == [work |-> v, outcome |-> p]
    <3>3. first \in Steps /\ second \in Steps
      BY Inputs
    <3>4. name # "multi" => o # "copy_out" /\ p # "copy_out"
      BY <1>4, PlainInputs DEF NoCopy
    <3> QED
      BY <3>2, <3>3, <3>4
  <2> QED
    BY <2>1, <2>2
<1>5. CASE ExecuteMultiStatement(s) \/ ExecuteParameterArray(s)
  BY <1>4, <1>5 DEF ExecuteMultiStatement, ExecuteParameterArray
<1>6. CASE ExecuteWithLargeObject(s)
  <2> DEFINE opened == Open(conn, "plain", phase[s], FALSE)
             ran(w, stored, outcome, end) ==
               RunWithLargeObject(opened, [work |-> w, outcome |-> stored],
                                  [work |-> w, outcome |-> outcome], end)
  <2>1. PICK w \in Changes, stored \in NoCopy :
        \E outcome \in After(stored = "ok", NoCopy) :
        \E end \in After(conn.autocommit /\ outcome = "ok", CommitOutcomes) :
          Executed(s, opened, ran(w, stored, outcome, end), FALSE, w)
    BY <1>6 DEF ExecuteWithLargeObject
  <2>2. PICK outcome \in RunOutcomes, end \in CommitOutcomes :
          Executed(s, opened, ran(w, stored, outcome, end), FALSE, w)
    BY <2>1, Inputs
  <2>3. Lone(ran(w, stored, outcome, end))
    BY <1>1, Inputs, RunWithLargeObjectLone
  <2> HIDE DEF ran
  <2> QED
    BY <1>2, <2>2, <2>3
<1>7. CASE ExecuteCall(s)
  <2> DEFINE opened(direct) == Open(conn, "plain", phase[s], direct)
             ran(w, outcome, fetched, direct) ==
               RunCall(opened(direct), [work |-> w, outcome |-> outcome],
                       [work |-> {}, outcome |-> fetched])
  <2>1. PICK w \in Changes, outcome \in NoCopy, direct \in BOOLEAN :
        \E fetched \in After(outcome = "ok", FetchOutcomes) :
          Executed(s, opened(direct), ran(w, outcome, fetched, direct), direct, w)
    BY <1>7 DEF ExecuteCall
  <2>2. PICK fetched \in RunOutcomes :
          Executed(s, opened(direct), ran(w, outcome, fetched, direct), direct, w)
    BY <2>1, Inputs
  <2>3. Lone(ran(w, outcome, fetched, direct))
    BY <1>1, Inputs, RunCallLone
  <2> HIDE DEF ran, opened
  <2> QED
    BY <1>2, <2>2, <2>3
<1> QED
  BY <1>3, <1>5, <1>6, <1>7

\* What is sent as it is, and preparing.
LEMMA CommandsEndLone ==
  ASSUME Inv, Lone(conn), NEW s \in Stmts,
         \/ ExecuteExempt(s)
         \/ ExecuteTransactionText(s)
         \/ ExecuteUnmanaged(s)
         \/ Prepare(s)
         \/ ExecuteDeferred(s)
  PROVE  EndsLone
<1>0. Good(conn) /\ Connected(conn)
  BY DEF Lone, ExecuteExempt, ExecuteTransactionText, ExecuteUnmanaged, Prepare,
     ExecuteDeferred, MayExecute
<1>1. ASSUME NEW c, Lone(c), NEW p, Becomes(s, c, p)
      PROVE  EndsLone
  BY <1>1 DEF Becomes, EndsLone
<1>2. CASE ExecuteExempt(s)
  <2>1. PICK w \in Changes, outcome \in NoCopy, direct \in BOOLEAN :
          Becomes(s, RunSingle(Open(conn, "exempt", phase[s], direct),
                               [work |-> w, outcome |-> outcome]), "idle")
    BY <1>2 DEF ExecuteExempt
  <2>2. Lone(RunSingle(Open(conn, "exempt", phase[s], direct),
                       [work |-> w, outcome |-> outcome]))
    BY <1>0, OpenLone, Inputs, RunSingleLone
  <2> QED
    BY <1>1, <2>1, <2>2
<1>3. CASE ExecuteTransactionText(s)
  <2>1. PICK commit \in BOOLEAN, outcome \in CommitOutcomes :
          Becomes(s, RunTransactionText(Open(conn, "plain", phase[s], TRUE),
                                        commit, outcome), "idle")
    BY <1>3 DEF ExecuteTransactionText
  <2>2. Lone(RunTransactionText(Open(conn, "plain", phase[s], TRUE),
                                commit, outcome))
    BY <1>0, OpenLone, RunTextLone
  <2> QED
    BY <1>1, <2>1, <2>2
<1>4. CASE ExecuteUnmanaged(s)
  <2>1. PICK w \in Changes, outcome \in NoCopy :
          Becomes(s, UnmarkedAnswer(Send(conn, [work |-> w, outcome |-> outcome])),
                  phase[s])
    BY <1>4 DEF ExecuteUnmanaged
  <2>2. Lone(UnmarkedAnswer(Send(conn, [work |-> w, outcome |-> outcome])))
    BY Inputs, SendLone, HandlingLone
  <2> QED
    BY <1>1, <2>1, <2>2
<1>5. CASE Prepare(s)
  <2>1. PICK outcome \in {"ok", "error"}, p \in {"idle", "deferred"} :
          Becomes(s, Return(Send(CloseResult(conn, phase[s]),
                                 [work |-> {}, outcome |-> outcome]),
                            "success"), p)
    BY <1>5 DEF Prepare
  <2>2. [work |-> {}, outcome |-> outcome] \in Steps
    BY DEF Steps, RunOutcomes
  <2>3. Lone(Return(Send(CloseResult(conn, phase[s]),
                         [work |-> {}, outcome |-> outcome]), "success"))
    BY <2>2, CloseResultLone, SendLone, ReturnLone DEF Lone
  <2> QED
    BY <1>1, <2>1, <2>3
<1>6. CASE ExecuteDeferred(s)
  BY <1>0, <1>1, <1>6, ReturnLone DEF ExecuteDeferred
<1> QED
  BY <1>2, <1>3, <1>4, <1>5, <1>6

\* Data at execution.
LEMMA DataEndsLone ==
  ASSUME Inv, Lone(conn), NEW s \in Stmts,
         \/ BeginDataAtExec(s)
         \/ PutLargeObject(s)
         \/ RunDataAtExecSet(s)
  PROVE  EndsLone
<1>1. ASSUME NEW c, Lone(c), NEW p, Becomes(s, c, p)
      PROVE  EndsLone
  BY <1>1 DEF Becomes, EndsLone
<1>2. CASE BeginDataAtExec(s)
  <2>1. Connected(conn)
    BY <1>2 DEF BeginDataAtExec, MayExecute
  <2>2. PICK direct \in BOOLEAN :
          \E p : Becomes(s, Open(conn, "plain", phase[s], direct), p)
    BY <1>2 DEF BeginDataAtExec
  <2>3. Lone(Open(conn, "plain", phase[s], direct))
    BY <2>1, OpenLone
  <2> QED
    BY <1>1, <2>2, <2>3
<1>3. CASE PutLargeObject(s)
  <2>1. PICK w \in Changes, outcome \in NoCopy :
          \E p : Becomes(s, UseLargeObject(conn,
                                           [work |-> w, outcome |-> outcome]), p)
    BY <1>3 DEF PutLargeObject
  <2>2. "ok" \in CommitOutcomes
    BY DEF CommitOutcomes
  <2>3. Lone(UseLargeObject(conn, [work |-> w, outcome |-> outcome]))
    BY <2>2, PlainInputs, LargeObjectLone
  <2> QED
    BY <1>1, <2>1, <2>3
<1>4. CASE RunDataAtExecSet(s)
  <2> DEFINE ran(w, outcome, last, end) ==
        RunSuppliedSet(conn, [work |-> w, outcome |-> outcome], last,
                       phase[s] = "data_array", end)
  <2>1. PICK w \in Changes, outcome \in NoCopy, last \in BOOLEAN :
        \E end \in After(conn.autocommit /\ last /\ outcome = "ok", CommitOutcomes) :
        \E p : Becomes(s, ran(w, outcome, last, end), p)
    BY <1>4 DEF RunDataAtExecSet
  <2>2. PICK end \in CommitOutcomes :
          \E p : Becomes(s, ran(w, outcome, last, end), p)
    BY <2>1, Inputs
  <2>3. Lone(ran(w, outcome, last, end))
    BY PlainInputs, RunSuppliedSetLone
  <2> HIDE DEF ran
  <2> QED
    BY <1>1, <2>2, <2>3
<1> QED
  BY <1>2, <1>3, <1>4

\* Reading a large object, and leaving it.
LEMMA ReadingEndsLone ==
  ASSUME Inv, Lone(conn), NEW s \in Stmts,
         ReadLargeObject(s) \/ ReadRest(s) \/ CloseCursor(s)
  PROVE  EndsLone
<1>1. ASSUME NEW c, Lone(c), NEW end \in CommitOutcomes, NEW p,
             \/ Becomes(s, c, p)
             \/ Becomes(s, CommitLargeObject(c, end), p)
      PROVE  EndsLone
  <2>1. [work |-> {}, outcome |-> "ok"] \in Steps
    BY Inputs DEF RunOutcomes
  <2>2. Lone(CommitLargeObject(c, end))
    BY <1>1, <2>1, LargeObjectLone
  <2> QED
    BY <1>1, <2>2 DEF Becomes, EndsLone
<1>2. CASE ReadLargeObject(s)
  <2> DEFINE read(outcome) == UseLargeObject(conn, [work |-> {}, outcome |-> outcome])
  <2>1. PICK outcome \in NoCopy :
        \E all \in BOOLEAN :
        \E end \in After(conn.autocommit /\ all /\ outcome = "ok", CommitOutcomes) :
          \E p : \/ Becomes(s, read(outcome), p)
                 \/ Becomes(s, CommitLargeObject(read(outcome), end), p)
    BY <1>2 DEF ReadLargeObject
  <2>2. PICK end \in CommitOutcomes :
          \E p : \/ Becomes(s, read(outcome), p)
                 \/ Becomes(s, CommitLargeObject(read(outcome), end), p)
    BY <2>1, Inputs
  <2>3. Lone(read(outcome))
    BY <2>2, PlainInputs, LargeObjectLone
  <2> HIDE DEF read
  <2> QED
    BY <1>1, <2>2, <2>3
<1>3. CASE ReadRest(s)
  <2> DEFINE read(outcome) == ReadOn(conn, phase[s],
                                     [work |-> {}, outcome |-> outcome])
  <2>1. PICK outcome \in NoCopy :
        \E end \in After(conn.autocommit /\ outcome = "ok", CommitOutcomes) :
          \E p : \/ Becomes(s, read(outcome), p)
                 \/ Becomes(s, CommitLargeObject(read(outcome), end), p)
    BY <1>3 DEF ReadRest
  <2>2. PICK end \in CommitOutcomes :
          \E p : \/ Becomes(s, read(outcome), p)
                 \/ Becomes(s, CommitLargeObject(read(outcome), end), p)
    BY <2>1, Inputs
  <2>3. Lone(read(outcome))
    BY PlainInputs, ReadOnLone
  <2> HIDE DEF read
  <2> QED
    BY <1>1, <2>2, <2>3
<1>4. CASE CloseCursor(s)
  <2>1. Lone(Return(CloseResult(conn, phase[s]), "success"))
    BY CloseResultLone, ReturnLone DEF Lone
  <2> QED
    BY <1>4, <2>1 DEF CloseCursor, Becomes, EndsLone
<1> QED
  BY <1>2, <1>3, <1>4

\* The calls on the connection itself, and the breaking of the link.
LEMMA LinkEndsLone ==
  ASSUME Inv, Lone(conn),
         \/ EndTransaction
         \/ ChangeAutocommit
         \/ BreakLink
         \/ DisconnectLink
  PROVE  EndsLone
<1>1. CASE EndTransaction
  <2>1. PICK outcome \in CommitOutcomes :
          \/ conn' = Forget(CommitTransaction(conn, outcome))
          \/ conn' = Forget(RollbackTransaction(conn))
    BY <1>1 DEF EndTransaction
  <2> QED
    BY <2>1, EndedLone DEF EndsLone
<1>2. CASE ChangeAutocommit
  <2>1. PICK outcome \in CommitOutcomes :
          conn' = Forget(SetAutocommit(conn, ~conn.autocommit, outcome))
    BY <1>2 DEF ChangeAutocommit
  <2> DEFINE on == ~conn.autocommit
  <2>2. on \in BOOLEAN
    OBVIOUS
  <2>3. Lone(SetAutocommit(conn, on, outcome))
    BY <2>2, SetAutocommitLone
  <2> QED
    BY <2>1, <2>3 DEF EndsLone
<1>3. CASE BreakLink
  BY <1>3, LinkLone DEF BreakLink, EndsLone
<1>4. CASE DisconnectLink
  BY <1>4, LinkLone DEF DisconnectLink, EndsLone
<1> QED
  BY <1>1, <1>2, <1>3, <1>4

\* The initial connection has no savepoint.
LEMMA InitLone == Init => Lone(conn)
<1> SUFFICES ASSUME Init PROVE Lone(conn)
  OBVIOUS
<1>1. Good(conn)
  BY InitInv DEF Inv
<1>2. conn.pg = FreshSession({}) /\ conn.transaction_state = "idle"
  BY DEF Init
<1>3. conn.pg.block = "idle" /\ conn.pg.stack = <<>>
  BY <1>2 DEF FreshSession
<1>4. DriverLevels(conn.pg) = {}
  BY <1>3 DEF DriverLevels, Levels
<1> QED
  BY <1>1, <1>3, <1>4 DEF Lone, Tracked, Unfailed, OpenBlock

\* Every step but a savepoint command of the application keeps it so.
LEMMA NextLone ==
  ASSUME "savepoint" \notin Ops, Inv, Lone(conn), [Next]_vars
  PROVE  Lone(conn)'
<1>1. ASSUME NEW c, Lone(c)
      PROVE  Lone(Forget(c))
  <2>1. Steady(c.pg, Answer(c.pg, "ok"))
    BY <1>1, AnswerSteady DEF Lone, Good, Replies
  <2> QED
    BY <1>1, <2>1, SteadyLone DEF Forget
<1>2. ASSUME NEW s \in Stmts, OnStatement(s)
      PROVE  EndsLone
  <2>1. ~ExecuteSavepointCommand(s)
    BY DEF ExecuteSavepointCommand
  <2> QED
    BY <1>2, <2>1, ExecutionsEndLone, CommandsEndLone, DataEndsLone,
       ReadingEndsLone DEF OnStatement
<1>3. CASE ConnectLink
  BY <1>3, LinkLone DEF ConnectLink
<1>4. CASE UNCHANGED vars
  BY <1>4 DEF vars
<1>5. ASSUME EndsLone
      PROVE  Lone(conn)'
  BY <1>1, <1>5 DEF EndsLone
<1> QED
  BY <1>2, <1>3, <1>4, <1>5, LinkEndsLone DEF Next

\* The RELEASE before each SAVEPOINT of the driver works, and so does the reset of
\* its flag: however long a transaction is and whatever fails in it, at most one
\* subtransaction of the driver is open.
THEOREM LoneSavepoint ==
  ASSUME "savepoint" \notin Ops
  PROVE  Spec => []OneDriverSavepoint
<1>1. Lone(conn) => OneDriverSavepoint
  <2> SUFFICES ASSUME Lone(conn) PROVE OneDriverSavepoint
    OBVIOUS
  <2> DEFINE levels == Levels(conn.pg, "driver")
  <2>1. \A i, j \in levels : i = j
    BY DEF Lone, Tracked, DriverLevels
  <2> HIDE DEF levels
  <2>2. Cardinality(levels) <= 1
    <3>1. CASE levels = {}
      BY <3>1, FS_EmptySet
    <3>2. CASE levels # {}
      <4>1. PICK i : levels = {i}
        BY <2>1, <3>2
      <4> QED
        BY <4>1, FS_Singleton
    <3> QED
      BY <3>1, <3>2
  <2> QED
    BY <2>2 DEF OneDriverSavepoint, levels
<1>2. Lone(conn) /\ Inv /\ [Next]_vars => Lone(conn)'
  BY NextLone
<1> QED
  BY <1>1, <1>2, InitLone, Invariance, PTL DEF Spec

----------------------------------------------------------------------------
(* Recovery.  What an application may rely on as long as it keeps to       *)
(* executions of one statement or of several, data at execution and a link *)
(* that may break: the invariants of run txn_recovery and the refinement   *)
(* of UnitOfWork, for any statements, work and settings of "Rollback on    *)
(* error".  A block then has one of two shapes: the transaction alone, or  *)
(* under statement-level rollback the transaction and one savepoint of the *)
(* driver.  With the shape known, each command is a small change of the    *)
(* work of the two levels.                                                 *)

\* The transaction alone, and the transaction with the savepoint of the driver.
Plain(pg)   == Len(pg.stack) = 1 /\ pg.stack[1].name = "transaction"
Guarded(pg) == /\ Len(pg.stack) = 2
               /\ pg.stack[1].name = "transaction"
               /\ pg.stack[2].name = "driver"

Shaped(pg) == Plain(pg) \/ Guarded(pg)

\* The work of the innermost level, and that of the level below it.
Top(pg)  == pg.stack[Len(pg.stack)].work
Base(pg) == pg.stack[1].work

----------------------------------------------------------------------------
(* The two shapes                                                          *)

\* A stack is a function on an interval, whose elements are levels.
LEMMA StackIsFunction ==
  ASSUME NEW pg \in Session
  PROVE  /\ Len(pg.stack) \in Nat
         /\ pg.stack \in [1 .. Len(pg.stack) -> Level]
         /\ DOMAIN pg.stack = 1 .. Len(pg.stack)
BY LenProperties DEF Session

\* Without a level there is no pending work; with one or two it is theirs.
LEMMA PendingOfShape ==
  ASSUME NEW pg \in Session
  PROVE  /\ pg.stack = <<>> => Pending(pg) = {}
         /\ Plain(pg) => Pending(pg) = Base(pg) /\ Base(pg) = Top(pg)
         /\ Guarded(pg) => Pending(pg) = Base(pg) \union Top(pg)
         /\ Shaped(pg) => pg.stack # <<>>
<1>1. ASSUME pg.stack = <<>> PROVE Pending(pg) = {}
  BY <1>1 DEF Pending
<1>2. ASSUME Plain(pg) PROVE Pending(pg) = Base(pg) /\ Base(pg) = Top(pg)
  <2>1. DOMAIN pg.stack = {1}
    BY <1>2, StackIsFunction DEF Plain
  <2> QED
    BY <1>2, <2>1 DEF Pending, Plain, Base, Top
<1>3. ASSUME Guarded(pg) PROVE Pending(pg) = Base(pg) \union Top(pg)
  <2>1. DOMAIN pg.stack = {1, 2}
    BY <1>3, StackIsFunction DEF Guarded
  <2>2. Pending(pg) = UNION {pg.stack[i].work : i \in {1, 2}}
    BY <2>1 DEF Pending
  <2>3. {pg.stack[i].work : i \in {1, 2}} = {pg.stack[1].work, pg.stack[2].work}
    OBVIOUS
  <2> QED
    BY <1>3, <2>2, <2>3 DEF Guarded, Base, Top
<1>4. ASSUME Shaped(pg) PROVE pg.stack # <<>>
  <2>1. Len(pg.stack) # 0
    BY <1>4 DEF Shaped, Plain, Guarded
  <2>2. Len(<<>>) = 0
    OBVIOUS
  <2> QED
    BY <2>1, <2>2
<1> QED
  BY <1>1, <1>2, <1>3, <1>4

\* In a guarded block the driver's savepoint is the second level.
LEMMA DriverLevel ==
  ASSUME NEW pg \in Session
  PROVE  /\ Plain(pg) => Levels(pg, "driver") = {}
         /\ pg.stack = <<>> => Levels(pg, "driver") = {}
         /\ Guarded(pg) => Levels(pg, "driver") = {2} /\ Topmost(pg, "driver") = 2
<1>1. ASSUME Plain(pg) PROVE Levels(pg, "driver") = {}
  BY <1>1, StackIsFunction DEF Levels, Plain
<1>2. ASSUME Guarded(pg)
      PROVE  Levels(pg, "driver") = {2} /\ Topmost(pg, "driver") = 2
  <2>1. DOMAIN pg.stack = {1, 2}
    BY <1>2, StackIsFunction DEF Guarded
  <2>2. Levels(pg, "driver") = {2}
    BY <1>2, <2>1 DEF Levels, Guarded
  <2>3. Topmost(pg, "driver") \in {2}
    BY <2>2 DEF Topmost
  <2> QED
    BY <2>2, <2>3
<1>3. ASSUME pg.stack = <<>> PROVE Levels(pg, "driver") = {}
  BY <1>3 DEF Levels
<1> QED
  BY <1>1, <1>2, <1>3

----------------------------------------------------------------------------
(* The commands on the two shapes                                          *)

\* A level set on top of the only one.
LEMMA SecondLevel ==
  ASSUME NEW stack \in Seq(Level), Len(stack) = 1, NEW level \in Level
  PROVE  LET next == Append(stack, level)
         IN  Len(next) = 2 /\ next[1] = stack[1] /\ next[2] = level
<1>1. Len(Append(stack, level)) = Len(stack) + 1
  BY AppendProperties
<1>2. \A i \in 1 .. Len(stack) : Append(stack, level)[i] = stack[i]
  BY AppendProperties
<1>3. Append(stack, level)[Len(stack) + 1] = level
  BY AppendProperties
<1> QED
  BY <1>1, <1>2, <1>3

\* SAVEPOINT in an open block without one.
LEMMA SavepointShape ==
  ASSUME NEW pg \in Session, pg.up, pg.block = "open", Plain(pg)
  PROVE  LET next == Savepoint(pg, "driver")
         IN  /\ next.reply = "ok" /\ next.block = "open" /\ next.up
             /\ Guarded(next) /\ Base(next) = Base(pg) /\ Top(next) = {}
             /\ next.durable = pg.durable
<1> DEFINE level == [name |-> "driver", work |-> {}]
           stack == Append(pg.stack, level)
<1>1. pg.stack \in Seq(Level) /\ Len(pg.stack) = 1
  BY DEF Plain, Session
<1>2. level \in Level /\ level.name = "driver" /\ level.work = {}
  BY DEF Level, Names
<1>3. Savepoint(pg, "driver") = [pg EXCEPT !.stack = stack, !.reply = "ok"]
  BY DEF Savepoint
<1> HIDE DEF level
<1>4. Len(stack) = 2 /\ stack[1] = pg.stack[1] /\ stack[2] = level
  BY <1>1, <1>2, SecondLevel
<1> HIDE DEF stack
<1> DEFINE next == [pg EXCEPT !.stack = stack, !.reply = "ok"]
<1>5. /\ next.reply = "ok" /\ next.block = "open" /\ next.up
      /\ next.stack = stack /\ next.durable = pg.durable
  BY DEF Session
<1> HIDE DEF next
<1>6. Guarded(next) /\ Base(next) = Base(pg) /\ Top(next) = {}
  BY <1>2, <1>4, <1>5 DEF Guarded, Plain, Base, Top
<1> QED
  BY <1>3, <1>5, <1>6 DEF next

\* RELEASE and SAVEPOINT in an open block that has one.
LEMMA ReleaseShape ==
  ASSUME NEW pg \in Session, pg.up, pg.block = "open", Guarded(pg)
  PROVE  LET next == ReleaseThenSavepoint(pg, "driver")
         IN  /\ next.reply = "ok" /\ next.block = "open" /\ next.up
             /\ Guarded(next) /\ Base(next) = Pending(pg) /\ Top(next) = {}
             /\ next.durable = pg.durable
<1> DEFINE freed == UNION {pg.stack[i].work : i \in 2 .. Len(pg.stack)}
           below == [i \in 1 .. (2 - 1) |->
                       IF i = 2 - 1
                       THEN [pg.stack[i] EXCEPT !.work = @ \union freed]
                       ELSE pg.stack[i]]
           released == Release(pg, "driver")
<1>1. released = [pg EXCEPT !.stack = below, !.reply = "ok"]
  BY DriverLevel DEF Release
<1>2. freed = Top(pg)
  <2>1. 2 .. Len(pg.stack) = {2}
    BY DEF Guarded
  <2>2. freed = UNION {pg.stack[2].work}
    BY <2>1
  <2> QED
    BY <2>2 DEF Guarded, Top
<1>3. pg.stack[1] \in Level
  BY StackIsFunction DEF Guarded
<1> HIDE DEF freed
<1>4. below \in [1 .. 1 -> Level] /\ below[1].name = "transaction"
      /\ below[1].work = Base(pg) \union Top(pg)
  <2>1. Top(pg) \in SUBSET Work
    BY StackIsFunction DEF Guarded, Top, Level
  <2> QED
    BY <1>2, <1>3, <2>1 DEF Guarded, Base, Level
<1>5. below \in Seq(Level) /\ Len(below) = 1
  BY <1>4, SeqDef, LenProperties
<1> HIDE DEF below
<1>6. released \in Session
  BY <1>1, <1>5 DEF Session, Replies
<1>7. /\ released.up /\ released.block = "open" /\ released.reply = "ok"
      /\ Plain(released) /\ Base(released) = Pending(pg)
      /\ released.durable = pg.durable
  BY <1>1, <1>4, <1>5, PendingOfShape DEF Plain, Base, Session
<1> HIDE DEF released
<1>8. ReleaseThenSavepoint(pg, "driver") = Savepoint(released, "driver")
  BY <1>7 DEF ReleaseThenSavepoint, SavepointAfter, released
<1> QED
  BY <1>6, <1>7, <1>8, SavepointShape

\* ROLLBACK TO in a block that has one, aborted or not.
LEMMA RewindShape ==
  ASSUME NEW pg \in Session, pg.up, pg.block # "idle", Guarded(pg)
  PROVE  LET next == RollbackTo(pg, "driver")
         IN  /\ next.reply = "ok" /\ next.block = "open" /\ next.up
             /\ Guarded(next) /\ Base(next) = Base(pg) /\ Top(next) = {}
             /\ next.durable = pg.durable
<1> DEFINE left == [i \in 1 .. 2 |->
                      IF i = 2 THEN [pg.stack[i] EXCEPT !.work = {}] ELSE pg.stack[i]]
<1>1. RollbackTo(pg, "driver") =
        [pg EXCEPT !.block = "open", !.stack = left, !.reply = "ok"]
  BY DriverLevel DEF RollbackTo
<1>2. pg.stack[1] \in Level /\ pg.stack[2] \in Level
  BY StackIsFunction DEF Guarded
<1>3. left \in [1 .. 2 -> Level] /\ left[1] = pg.stack[1]
      /\ left[2].name = "driver" /\ left[2].work = {}
  BY <1>2 DEF Level, Guarded
<1>4. left \in Seq(Level) /\ Len(left) = 2
  BY <1>3, SeqDef, LenProperties
<1> HIDE DEF left
<1> QED
  BY <1>1, <1>3, <1>4 DEF Guarded, Base, Top, Session

----------------------------------------------------------------------------
(* One statement, and two in a row                                         *)

\* A session between two calls: without a block it has no level, and a block has
\* one of the two shapes.
Tidy(pg) ==
  /\ SessionInv(pg)
  /\ pg.block = "idle" => pg.stack = <<>>
  /\ pg.up /\ pg.block # "idle" => Shaped(pg)

\* A statement that is a transaction of its own: some of its work may be durable
\* even when it fails, all of it is when it succeeds.
Alone(pg, next, work) ==
  /\ next.block = "idle"
  /\ pg.durable \subseteq next.durable
  /\ next.durable \subseteq pg.durable \union work
  /\ next.reply = "ok" => next.up /\ work \subseteq next.durable

\* A statement in a block: only the innermost level grows, unless the link breaks.
InBlock(pg, next, work) ==
  /\ next.durable = pg.durable
  /\ IF next.up
     THEN /\ next.block # "idle"
          /\ Plain(pg) => Plain(next)
          /\ Guarded(pg) => Guarded(next) /\ Base(next) = Base(pg)
          /\ Top(pg) \subseteq Top(next)
          /\ Top(next) \subseteq Top(pg) \union work
          /\ next.reply = "ok" => next.block = "open" /\ work \subseteq Top(next)
     ELSE next.reply = "error"

\* A session that has run statements with that work.
Ran(pg, next, work) ==
  /\ Tidy(next)
  /\ IF pg.up
     THEN /\ next.reply # "null"
          /\ IF pg.block = "idle" THEN Alone(pg, next, work)
                                  ELSE InBlock(pg, next, work)
     ELSE next = Answer(pg, "null")

\* The work of a statement joins the innermost level.
LEMMA MadeShape ==
  ASSUME NEW pg, Tidy(pg), pg.up, pg.block = "open", NEW work \in SUBSET Work
  PROVE  LET next == Made(pg, work)
         IN  /\ next.reply = "ok" /\ next.block = "open" /\ next.up
             /\ next.durable = pg.durable
             /\ Plain(pg) => Plain(next)
             /\ Guarded(pg) => Guarded(next) /\ Base(next) = Base(pg)
             /\ Top(next) = Top(pg) \union work
<1> DEFINE n == Len(pg.stack)
           stack == [pg.stack EXCEPT ![n].work = @ \union work]
           next == [pg EXCEPT !.stack = stack, !.reply = "ok"]
<1>1. pg \in Session /\ pg.stack \in [1 .. n -> Level] /\ n \in 1 .. 2
  BY StackIsFunction DEF Tidy, SessionInv, Shaped, Plain, Guarded
<1>2. Made(pg, work) = next
  BY <1>1 DEF Made, Session
<1>3. /\ stack \in [1 .. n -> Level] /\ stack[n].work = pg.stack[n].work \union work
      /\ stack[n].name = pg.stack[n].name
      /\ \A i \in 1 .. n : i # n => stack[i] = pg.stack[i]
  BY <1>1 DEF Level
<1>4. stack \in Seq(Level) /\ Len(stack) = n
  BY <1>1, <1>3, SeqDef, LenProperties
<1>5. /\ next.reply = "ok" /\ next.block = "open" /\ next.up
      /\ next.stack = stack /\ next.durable = pg.durable
  BY <1>1 DEF Session
<1> HIDE DEF next, stack
<1>6. Top(next) = Top(pg) \union work
  BY <1>3, <1>4, <1>5 DEF Top
<1>7. Plain(pg) => Plain(next)
  BY <1>3, <1>4, <1>5 DEF Plain
<1>8. Guarded(pg) => Guarded(next) /\ Base(next) = Base(pg)
  <2> SUFFICES ASSUME Guarded(pg) PROVE Guarded(next) /\ Base(next) = Base(pg)
    OBVIOUS
  <2>1. n = 2
    BY DEF Guarded
  <2>2. stack[1] = pg.stack[1] /\ stack[2].name = pg.stack[2].name
    BY <1>3, <2>1
  <2> QED
    BY <1>4, <1>5, <2>1, <2>2 DEF Guarded, Base
<1> QED
  BY <1>2, <1>5, <1>6, <1>7, <1>8

\* An error leaves the levels, and aborts the block.
LEMMA RefuseShape ==
  ASSUME NEW pg, Tidy(pg), pg.up
  PROVE  LET next == Refuse(pg)
         IN  /\ Tidy(next) /\ next.reply = "error" /\ next.up
             /\ next.durable = pg.durable /\ next.stack = pg.stack
             /\ next.block = "idle" <=> pg.block = "idle"
             /\ next.block # "open"
<1>1. Kept(pg, Refuse(pg))
  BY RefuseKept DEF Tidy
<1> QED
  BY <1>1 DEF Tidy, Kept, SessionInv, Session, Refuse, Shaped, Plain, Guarded

\* Nothing of a block is left when the link breaks.
LEMMA LostShape ==
  ASSUME NEW pg, pg \in Session
  PROVE  LET next == Lost(pg)
         IN  /\ Tidy(next) /\ next.reply = "error" /\ ~next.up
             /\ next.block = "idle" /\ next.stack = <<>>
             /\ next.durable = pg.durable
<1>1. SessionInv(Lost(pg))
  BY LostKept
<1> QED
  BY <1>1 DEF Tidy, Session, Lost

\* Whatever a statement does and however it ends.
LEMMA RunRan ==
  ASSUME NEW pg, Tidy(pg), NEW work \in SUBSET Work, NEW outcome \in RunOutcomes
  PROVE  LET next == Run(pg, work, outcome)
         IN  /\ Ran(pg, next, work)
             /\ next.reply = "copy_out" => outcome = "copy_out"
             /\ next.reply = "copy_out" =>
                  next.stack = pg.stack /\ next.block = pg.block
<1> DEFINE next == Run(pg, work, outcome)
<1>0. Kept(pg, next) /\ pg \in Session /\ next \in Session
  BY RunKept DEF Tidy, Kept, SessionInv
<1>1. CASE ~pg.up
  <2>1. next = Answer(pg, "null")
    BY <1>1 DEF Run
  <2> QED
    BY <1>0, <1>1, <2>1 DEF Ran, Tidy, Kept, SessionInv, Answer, Session
<1>2. CASE pg.up /\ outcome = "lost_before"
  <2>1. next = Lost(pg)
    BY <1>2 DEF Run
  <2>2. /\ Tidy(next) /\ next.reply = "error" /\ ~next.up /\ next.block = "idle"
        /\ next.durable = pg.durable
    BY <1>0, <2>1, LostShape
  <2> HIDE DEF next
  <2> QED
    BY <1>2, <2>2 DEF Ran, Alone, InBlock, next
<1>3. CASE pg.up /\ (outcome = "error" \/ pg.block = "aborted")
                 /\ outcome \notin {"lost_before", "lost_after"}
  <2>1. next = Refuse(pg)
    BY <1>3 DEF Run, Made, RunOutcomes
  <2>2. /\ Tidy(next) /\ next.reply = "error" /\ next.up
        /\ next.durable = pg.durable /\ next.stack = pg.stack
        /\ next.block = "idle" <=> pg.block = "idle"
    BY <1>3, <2>1, RefuseShape
  <2> HIDE DEF next
  <2> QED
    BY <1>3, <2>2 DEF Ran, Alone, InBlock, Plain, Guarded, Base, Top, next
<1>4. CASE pg.up /\ outcome = "copy_out" /\ pg.block # "aborted"
  <2>1. next = Answer(pg, "copy_out")
    BY <1>4 DEF Run
  <2>2. /\ next.reply = "copy_out" /\ next.up /\ next.block = pg.block
        /\ next.durable = pg.durable /\ next.stack = pg.stack
    BY <1>0, <1>4, <2>1 DEF Answer, Session
  <2> HIDE DEF next
  <2>3. Tidy(next)
    BY <1>0, <2>2 DEF Tidy, Kept, Shaped, Plain, Guarded
  <2> QED
    BY <1>4, <2>2, <2>3 DEF Ran, Alone, InBlock, Plain, Guarded, Base, Top, next
<1>5. CASE pg.up /\ outcome \in {"ok", "lost_after"}
  <2> DEFINE made == Made(pg, work)
  <2>0. Kept(pg, made) /\ made \in Session
    BY <1>5, MadeKept DEF Tidy, Kept, SessionInv
  <2>1. next = IF outcome = "ok" THEN made ELSE Lost(made)
    BY <1>5 DEF Run
  <2>2. Ran(pg, made, work) /\ made.reply # "copy_out"
    <3>1. CASE pg.block = "idle"
      <4>1. /\ made.block = "idle" /\ made.stack = pg.stack /\ made.up
            /\ made.durable = pg.durable \union work /\ made.reply = "ok"
        BY <1>0, <1>5, <3>1 DEF Made, Session
      <4> HIDE DEF made
      <4> QED
        BY <1>5, <2>0, <3>1, <4>1 DEF Ran, Alone, Tidy, Kept
    <3>2. CASE pg.block = "open"
      <4>1. /\ made.reply = "ok" /\ made.block = "open" /\ made.up
            /\ made.durable = pg.durable
            /\ Plain(pg) => Plain(made)
            /\ Guarded(pg) => Guarded(made) /\ Base(made) = Base(pg)
            /\ Top(made) = Top(pg) \union work
        BY <1>5, <3>2, MadeShape
      <4> HIDE DEF made
      <4> QED
        BY <1>5, <2>0, <3>2, <4>1 DEF Ran, InBlock, Tidy, Kept, Shaped
    <3>3. CASE pg.block = "aborted"
      <4>1. made = Refuse(pg)
        BY <3>3 DEF Made
      <4>2. /\ Tidy(made) /\ made.reply = "error" /\ made.up
            /\ made.durable = pg.durable /\ made.stack = pg.stack
            /\ made.block = "idle" <=> pg.block = "idle"
        BY <1>5, <4>1, RefuseShape
      <4> HIDE DEF made
      <4> QED
        BY <1>5, <3>3, <4>2 DEF Ran, InBlock, Plain, Guarded, Base, Top
    <3> QED
      BY <1>0, <3>1, <3>2, <3>3 DEF Session
  <2>3. Ran(pg, Lost(made), work) /\ Lost(made).reply # "copy_out"
    <3> DEFINE lost == Lost(made)
    <3>1. /\ Tidy(lost) /\ lost.reply = "error" /\ ~lost.up /\ lost.block = "idle"
          /\ lost.durable = made.durable
      BY <2>0, LostShape
    <3> HIDE DEF lost, made
    <3> QED
      BY <1>5, <2>2, <3>1 DEF Ran, Alone, InBlock, lost
  <2> HIDE DEF next, made
  <2> QED
    BY <2>1, <2>2, <2>3 DEF next
<1> QED
  BY <1>0, <1>1, <1>2, <1>3, <1>4, <1>5 DEF RunOutcomes, Session

\* A statement after one that succeeded.
LEMMA RanTwice ==
  ASSUME NEW pg, Tidy(pg), NEW middle, NEW next, NEW w, NEW v,
         Ran(pg, middle, w), middle.reply = "ok", Ran(middle, next, v)
  PROVE  Ran(pg, next, w \union v)
<1>1. pg.up
  BY DEF Ran, Answer, Tidy, SessionInv, Session
<1>2. middle.up
  BY <1>1 DEF Ran, Alone, InBlock
<1>3. CASE pg.block = "idle"
  <2>1. middle.block = "idle"
    BY <1>1, <1>3 DEF Ran, Alone
  <2> QED
    BY <1>1, <1>2, <1>3, <2>1 DEF Ran, Alone
<1>4. CASE pg.block # "idle"
  <2>1. middle.block = "open"
    BY <1>1, <1>2, <1>4 DEF Ran, InBlock
  <2> QED
    BY <1>1, <1>2, <1>4, <2>1 DEF Ran, InBlock
<1> QED
  BY <1>3, <1>4

----------------------------------------------------------------------------
(* The connection between two calls                                        *)

\* While the link is up the driver and the server agree on the transaction: there
\* is a block exactly when the driver takes one to be open, under statement-level
\* rollback it holds the savepoint of the driver, and with a recovery configured
\* it is neither failed nor aborted.
Regular(c) ==
  /\ Good(c)
  /\ c.pg.block = "idle" => c.pg.stack = <<>>
  /\ c.autocommit => c.transaction_state = "idle"
  /\ c.pg.up /\ c.transaction_state # "idle" =>
       /\ c.pg.block # "idle"
       /\ IF c.rollback_on_error = "statement"
          THEN Guarded(c.pg) /\ c.statement_savepoint_active
          ELSE Plain(c.pg)
       /\ c.rollback_on_error # "nothing" =>
            c.transaction_state = "active" /\ c.pg.block = "open"

Ready(c) == c.autocommit \/ c.transaction_state # "idle"

\* The session of a regular connection is tidy, and its pending work is that of
\* its one or two levels.
LEMMA RegularTidy ==
  ASSUME NEW c, Regular(c)
  PROVE  /\ Tidy(c.pg) /\ c.pg \in Session
         /\ ~c.pg.up => c.pg.block = "idle"
         /\ c.autocommit => c.pg.block = "idle"
         /\ c.transaction_state = "idle" => c.pg.block = "idle"
         /\ c.pg.block = "idle" => Pending(c.pg) = {}
         /\ c.pg.up /\ c.transaction_state # "idle" =>
              Shaped(c.pg) /\ Pending(c.pg) = Base(c.pg) \union Top(c.pg)
<1>1. Tidy(c.pg) /\ c.pg \in Session
  BY DEF Regular, Good, Tidy, SessionInv, Shaped
<1>2. c.pg.up /\ c.transaction_state # "idle" => Shaped(c.pg)
  BY DEF Regular, Shaped
<1>3. Shaped(c.pg) => Pending(c.pg) = Base(c.pg) \union Top(c.pg)
  BY <1>1, PendingOfShape DEF Shaped
<1>4. c.pg.block = "idle" => Pending(c.pg) = {}
  BY <1>1, PendingOfShape DEF Regular
<1> QED
  BY <1>1, <1>2, <1>3, <1>4 DEF Regular, Good, SessionInv

\* What the opening of an execution does: it may begin a block and set the
\* savepoint, which changes no work, and it fails only on a link that is gone.
Opened(c, opened) ==
  /\ Regular(opened)
  /\ opened.state = c.state
  /\ opened.autocommit = c.autocommit
  /\ opened.rollback_on_error = c.rollback_on_error
  /\ opened.pg.up = c.pg.up
  /\ opened.pg.durable = c.pg.durable
  /\ Pending(opened.pg) = Pending(c.pg)
  /\ opened.pg.block = "aborted" => c.pg.block = "aborted"
  /\ opened.ret = "success" => Ready(opened)
  /\ opened.ret = "error" => ~opened.pg.up
  /\ /\ opened.pg.up /\ opened.transaction_state # "idle"
     /\ opened.rollback_on_error = "statement"
     => Top(opened.pg) = {} /\ Base(opened.pg) = Pending(opened.pg)

\* On a link that is gone the savepoint commands are not sent.
LEMMA NoSavepointWhenDown ==
  ASSUME NEW pg \in Session, ~pg.up
  PROVE  /\ SetAgain(ReleaseThenSavepoint(pg, "driver")) = Answer(pg, "null")
         /\ SetAgain(Savepoint(pg, "driver")) = Answer(pg, "null")
<1>1. Release(pg, "driver") = Answer(pg, "null")
      /\ Savepoint(pg, "driver") = Answer(pg, "null")
  BY DEF Release, Savepoint
<1> DEFINE null == Answer(pg, "null")
<1>2. null.reply = "null" /\ ~null.up /\ Answer(null, "null") = null
  BY DEF Answer, Session
<1> HIDE DEF null
<1>3. Savepoint(null, "driver") = null
  BY <1>2 DEF Savepoint
<1> QED
  BY <1>1, <1>2, <1>3 DEF SetAgain, ReleaseThenSavepoint, SavepointAfter, null

\* connection_begin_statement_savepoint in the transaction of an earlier statement.
LEMMA SavepointOpened ==
  ASSUME NEW c, Regular(c), c.transaction_state # "idle", c.ret = "success"
  PROVE  Opened(c, BeginStatementSavepoint(c))
<1> DEFINE o == BeginStatementSavepoint(c)
<1>0. Good(o) /\ c.pg \in Session /\ Tidy(c.pg) /\ c \in ConnectionRecord
  BY SavepointGood, RegularTidy DEF Regular, Good
<1>1. CASE ~WantsStatementSavepoint(c)
  <2>1. o = c
    BY <1>1 DEF BeginStatementSavepoint
  <2>2. c.pg.up => c.rollback_on_error # "statement"
    BY <1>1 DEF Regular, WantsStatementSavepoint, Good
  <2> QED
    BY <2>1, <2>2 DEF Opened, Ready
<1>2. CASE WantsStatementSavepoint(c) /\ ~c.pg.up
  <2> DEFINE null == Answer(c.pg, "null")
  <2>1. /\ ~null.up /\ null.up = c.pg.up /\ null.block = c.pg.block
        /\ null.stack = c.pg.stack /\ null.durable = c.pg.durable /\ null \in Session
    BY <1>0, <1>2 DEF Answer, Session, Replies
  <2>2. o = SavepointAnswered(c, null)
    BY <1>0, <1>2, NoSavepointWhenDown DEF BeginStatementSavepoint
  <2>3. Pending(null) = Pending(c.pg)
    BY <2>1 DEF Pending
  <2> HIDE DEF null
  <2>4. /\ o.pg = null /\ o.state = c.state /\ o.autocommit = c.autocommit
        /\ o.rollback_on_error = c.rollback_on_error /\ o.ret = "success"
        /\ o.transaction_state = c.transaction_state
    BY <1>0, <2>2 DEF SavepointAnswered, ConnectionRecord
  <2> HIDE DEF o
  <2> QED
    BY <1>0, <1>2, <2>1, <2>3, <2>4 DEF Opened, Regular, Ready, o
<1>3. CASE WantsStatementSavepoint(c) /\ c.pg.up
  <2> DEFINE set == ReleaseThenSavepoint(c.pg, "driver")
  <2>1. /\ c.pg.block = "open" /\ Guarded(c.pg) /\ c.statement_savepoint_active
        /\ c.rollback_on_error = "statement" /\ c.transaction_state = "active"
    BY <1>3 DEF Regular, WantsStatementSavepoint
  <2>2. /\ set.reply = "ok" /\ set.block = "open" /\ set.up
        /\ Guarded(set) /\ Base(set) = Pending(c.pg) /\ Top(set) = {}
        /\ set.durable = c.pg.durable
    BY <1>0, <1>3, <2>1, ReleaseShape
  <2> HIDE DEF set
  <2>3. o = SavepointAnswered(c, set)
    BY <1>3, <2>1, <2>2 DEF BeginStatementSavepoint, SetAgain, set
  <2>4. /\ o.pg = set /\ o.state = c.state /\ o.autocommit = c.autocommit
        /\ o.rollback_on_error = c.rollback_on_error /\ o.ret = "success"
        /\ o.transaction_state = c.transaction_state
        /\ o.statement_savepoint_active
    BY <1>0, <2>2, <2>3 DEF SavepointAnswered, ConnectionRecord
  <2> HIDE DEF o
  <2>5. Pending(set) = Pending(c.pg)
    <3>1. set \in Session
      BY <1>0, <2>4 DEF Good, ConnectionRecord
    <3> QED
      BY <2>2, <3>1, PendingOfShape
  <2> QED
    BY <1>0, <1>3, <2>1, <2>2, <2>4, <2>5 DEF Opened, Regular, Ready, o
<1> QED
  BY <1>1, <1>2, <1>3

\* The first statement of a transaction: BEGIN, and under statement-level rollback
\* the savepoint.
LEMMA FirstOpened ==
  ASSUME NEW c, Regular(c), Connected(c), ~c.autocommit,
         c.transaction_state = "idle"
  PROVE  Opened(c, Protect(BeginTransaction(c), "plain"))
<1> DEFINE begun == BeginTransaction(c)
           o == Protect(begun, "plain")
           pg == Begin(c.pg)
<1>0. /\ Good(begun) /\ Good(o) /\ c.pg \in Session /\ Tidy(c.pg)
      /\ c \in ConnectionRecord /\ c.pg.block = "idle" /\ Pending(c.pg) = {}
  BY BeginTransactionGood, SavepointGood, RegularTidy DEF Regular, Good, Protect
<1>1. begun = Begun(ReturnAnswer(c, pg))
  BY DEF BeginTransaction
<1>2. CASE ~c.pg.up
  <2>1. pg = Answer(c.pg, "null")
    BY <1>2 DEF Begin
  <2>2. /\ ~pg.up /\ pg.up = c.pg.up /\ pg.block = c.pg.block
        /\ pg.stack = c.pg.stack /\ pg.durable = c.pg.durable
        /\ pg.reply = "null"
    BY <1>0, <1>2, <2>1 DEF Answer, Session
  <2>3. Pending(pg) = Pending(c.pg)
    BY <2>2 DEF Pending
  <2> HIDE DEF pg
  <2>4. begun = [c EXCEPT !.pg = pg, !.ret = "error"] /\ begun.ret = "error"
    BY <1>0, <1>1, <2>2 DEF ReturnAnswer, Begun, ConnectionRecord
  <2>5. o = begun
    BY <2>4 DEF Protect
  <2>6. /\ o.pg = pg /\ o.state = c.state /\ o.autocommit = c.autocommit
        /\ o.rollback_on_error = c.rollback_on_error /\ o.ret = "error"
        /\ o.transaction_state = c.transaction_state
    BY <1>0, <2>4, <2>5 DEF ConnectionRecord
  <2> HIDE DEF o, begun
  <2> QED
    BY <1>0, <1>2, <2>2, <2>3, <2>6 DEF Opened, Regular, Ready, o, begun
<1>3. CASE c.pg.up
  <2> DEFINE stack == <<[name |-> "transaction", work |-> {}]>>
  <2>1. pg = [c.pg EXCEPT !.block = "open", !.reply = "ok", !.stack = stack]
    BY <1>0, <1>3 DEF Begin
  <2>2. Len(stack) = 1 /\ stack[1].name = "transaction" /\ stack[1].work = {}
    OBVIOUS
  <2> HIDE DEF stack
  <2>3. /\ pg.up /\ pg.up = c.pg.up /\ pg.block = "open" /\ pg.reply = "ok"
        /\ pg.durable = c.pg.durable /\ pg.stack = stack
    BY <1>0, <1>3, <2>1 DEF Session
  <2> HIDE DEF pg
  <2>4. Plain(pg) /\ Base(pg) = {}
    BY <2>2, <2>3 DEF Plain, Base
  <2>5. begun = [c EXCEPT !.pg = pg, !.ret = "success",
                          !.transaction_state = "active",
                          !.statement_savepoint_active = FALSE]
    BY <1>0, <1>1, <2>3 DEF ReturnAnswer, Begun, EnterTransactionState,
       ConnectionRecord
  <2>6. /\ begun.pg = pg /\ begun.state = c.state
        /\ begun.autocommit = c.autocommit /\ begun.ret = "success"
        /\ begun.rollback_on_error = c.rollback_on_error
        /\ begun.transaction_state = "active"
        /\ ~begun.statement_savepoint_active
    BY <1>0, <2>5 DEF ConnectionRecord
  <2>7. begun \in ConnectionRecord /\ pg \in Session
    BY <1>0, <2>6 DEF Good, ConnectionRecord
  <2> HIDE DEF begun
  <2>8. o = BeginStatementSavepoint(begun)
    BY <2>6 DEF Protect
  <2>9. CASE c.rollback_on_error # "statement"
    <3>1. o = begun
      BY <2>6, <2>8, <2>9 DEF BeginStatementSavepoint, WantsStatementSavepoint
    <3>2. Pending(pg) = {}
      BY <2>4, <2>7, PendingOfShape
    <3> HIDE DEF o
    <3>3. Regular(o)
      BY <1>0, <2>3, <2>4, <2>6, <2>9, <3>1 DEF Regular
    <3> HIDE DEF begun
    <3>4. Opened(c, o)
      BY <1>0, <2>3, <2>6, <2>9, <3>1, <3>2, <3>3 DEF Opened, Ready
    <3> QED
      BY <3>4 DEF o, begun
  <2>10. CASE c.rollback_on_error = "statement"
    <3> DEFINE set == Savepoint(pg, "driver")
    <3>1. /\ set.reply = "ok" /\ set.block = "open" /\ set.up
          /\ Guarded(set) /\ Base(set) = Base(pg) /\ Top(set) = {}
          /\ set.durable = pg.durable
      BY <2>3, <2>4, <2>7, SavepointShape
    <3> HIDE DEF set
    <3>2. o = SavepointAnswered(begun, set)
      BY <2>6, <2>8, <2>10, <3>1
         DEF BeginStatementSavepoint, WantsStatementSavepoint, Connected,
             SetAgain, set
    <3>3. /\ o.pg = set /\ o.state = c.state /\ o.autocommit = c.autocommit
          /\ o.rollback_on_error = c.rollback_on_error /\ o.ret = "success"
          /\ o.transaction_state = "active" /\ o.statement_savepoint_active
      BY <2>6, <2>7, <3>1, <3>2 DEF SavepointAnswered, ConnectionRecord
    <3> HIDE DEF o
    <3>4. Pending(set) = {}
      <4>1. set \in Session
        BY <1>0, <3>3 DEF Good, ConnectionRecord, o
      <4> QED
        BY <2>4, <3>1, <4>1, PendingOfShape
    <3>5. set.up = c.pg.up
      <4>1. set.up \in BOOLEAN
        BY <1>0, <3>3 DEF Good, ConnectionRecord, Session, o
      <4> QED
        BY <1>0, <1>3, <3>1, <4>1 DEF Session
    <3>6. Regular(o)
      BY <1>0, <2>10, <3>1, <3>3 DEF Regular
    <3>7. Opened(c, o)
      BY <1>0, <2>3, <2>4, <3>1, <3>3, <3>4, <3>5, <3>6 DEF Opened, Ready
    <3> QED
      BY <3>7 DEF o, begun
  <2> QED
    BY <2>9, <2>10
<1> QED
  BY <1>2, <1>3

\* The opening of an ordinary execution, whichever function it comes through.
LEMMA OpenOpened ==
  ASSUME NEW c, Regular(c), Connected(c), NEW p, p # "lo_stale", NEW direct
  PROVE  Opened(c, Open(c, "plain", p, direct))
<1>1. Open(c, "plain", p, direct) = Enter(c, "plain")
  BY DEF Open, CloseResult, CloseWhenEntered
<1>2. CASE c.autocommit \/ c.transaction_state # "idle"
  <2> DEFINE r == Return(c, "success")
  <2>0. c \in ConnectionRecord
    BY DEF Regular, Good
  <2>1. /\ r.pg = c.pg /\ r.state = c.state /\ r.autocommit = c.autocommit
        /\ r.rollback_on_error = c.rollback_on_error /\ r.ret = "success"
        /\ r.transaction_state = c.transaction_state
        /\ r.statement_savepoint_active = c.statement_savepoint_active
    BY <2>0 DEF Return, ConnectionRecord
  <2>2. Good(r)
    BY ReturnGood DEF Regular
  <2>3. EnsureTransaction(c) = r
    BY <1>2 DEF EnsureTransaction
  <2> HIDE DEF r
  <2>4. Regular(r)
    BY <2>1, <2>2 DEF Regular
  <2>5. Enter(c, "plain") = BeginStatementSavepoint(r)
    BY <2>1, <2>3 DEF Enter, Protect
  <2>6. CASE c.transaction_state # "idle"
    BY <1>1, <2>1, <2>4, <2>5, <2>6, SavepointOpened DEF Opened
  <2>7. CASE c.transaction_state = "idle"
    <3>1. BeginStatementSavepoint(r) = r
      BY <2>1, <2>7 DEF BeginStatementSavepoint, WantsStatementSavepoint
    <3> QED
      BY <1>1, <1>2, <2>1, <2>4, <2>5, <2>7, <3>1 DEF Opened, Ready
  <2> QED
    BY <2>6, <2>7
<1>3. CASE ~c.autocommit /\ c.transaction_state = "idle"
  <2>1. Enter(c, "plain") = Protect(BeginTransaction(c), "plain")
    BY <1>3 DEF Enter, EnsureTransaction
  <2> QED
    BY <1>1, <1>3, <2>1, FirstOpened
<1> QED
  BY <1>2, <1>3

----------------------------------------------------------------------------
(* What a statement comes to, its error handling included                  *)

\* A failed statement leaves the work below the savepoint, or nothing when the
\* transaction is rolled back; with no recovery, what it did before it failed.
Undone(c, ran, work) ==
  /\ c.rollback_on_error = "statement"   => Pending(ran.pg) = Base(c.pg)
  /\ c.rollback_on_error = "transaction" => Pending(ran.pg) = {}
  /\ c.rollback_on_error = "nothing" =>
       /\ Pending(c.pg) \subseteq Pending(ran.pg)
       /\ Pending(ran.pg) \subseteq Pending(c.pg) \union work

\* From a connection whose opening is done to the end of the call.
Effect(c, ran, work) ==
  /\ Regular(ran)
  /\ ran.state = c.state
  /\ ran.autocommit = c.autocommit
  /\ ran.rollback_on_error = c.rollback_on_error
  /\ ran.pg.up => c.pg.up
  /\ ran.ret = "success" => ran.pg.up /\ ran.pg.block # "aborted"
  /\ IF c.autocommit
     THEN /\ c.pg.durable \subseteq ran.pg.durable
          /\ ran.pg.durable \subseteq c.pg.durable \union work
          /\ ran.ret = "success" => work \subseteq ran.pg.durable
     ELSE /\ ran.pg.durable = c.pg.durable
          /\ ran.ret = "success" =>
               /\ ran.transaction_state # "idle"
               /\ Pending(ran.pg) = Pending(c.pg) \union work
               /\ c.rollback_on_error = "statement" =>
                    Base(ran.pg) = Base(c.pg) /\ Top(ran.pg) = Top(c.pg) \union work
          /\ ran.ret = "error" /\ ran.pg.up =>
               Undone(c, ran, work) \/ Pending(ran.pg) = Pending(c.pg)

\* The session with its answer, before any handling.
Sent(c, next) == [c EXCEPT !.pg = next]

\* The ways an answer is handled: a success, an error that marks the transaction,
\* and a missing result or a COPY, which mark nothing.
Handled(c, next, handled) ==
  \/ next.reply = "ok" /\ handled = Return(Sent(c, next), "success")
  \/ next.reply # "ok" /\ handled = Return(MarkFailed(Sent(c, next)), "error")
  \/ /\ \/ next.reply = "null"
        \/ /\ next.reply = "copy_out"
           /\ next.stack = c.pg.stack /\ next.block = c.pg.block
     /\ handled = Return(Sent(c, next), "error")

\* Running statements keeps a connection good.
LEMMA HandledGood ==
  ASSUME NEW c, Regular(c), NEW next, NEW work, Ran(c.pg, next, work),
         NEW handled, Handled(c, next, handled)
  PROVE  /\ Good(handled) /\ Good(Recover(handled))
         /\ handled.pg = next /\ handled.state = c.state
         /\ handled.autocommit = c.autocommit
         /\ handled.rollback_on_error = c.rollback_on_error
         /\ handled.statement_savepoint_active = c.statement_savepoint_active
         /\ handled.ret = IF next.reply = "ok" THEN "success" ELSE "error"
         /\ handled.transaction_state \in {c.transaction_state, "failed"}
         /\ c.transaction_state # "active" =>
              handled.transaction_state = c.transaction_state
<1>0. c \in ConnectionRecord /\ c.pg \in Session /\ Tidy(c.pg)
      /\ ~c.pg.up => c.pg.block = "idle"
  BY RegularTidy DEF Regular, Good
<1>1. Kept(c.pg, next)
  <2>1. SessionInv(next)
    BY DEF Ran, Tidy
  <2>2. CASE ~c.pg.up
    <3>1. next = Answer(c.pg, "null")
      BY <2>2 DEF Ran
    <3>2. next.up = c.pg.up /\ next.block = c.pg.block
      BY <1>0, <3>1 DEF Answer, Session
    <3> QED
      BY <2>1, <2>2, <3>2 DEF Kept
  <2>3. CASE c.pg.up
    BY <2>1, <2>3 DEF Ran, Alone, Kept
  <2> QED
    BY <2>2, <2>3
<1> DEFINE sent == Sent(c, next)
<1>2. Good(sent)
  BY <1>1, SessionReplaced DEF Sent, Regular
<1>3. /\ sent.pg = next /\ sent.state = c.state
      /\ sent.autocommit = c.autocommit
      /\ sent.rollback_on_error = c.rollback_on_error
      /\ sent.statement_savepoint_active = c.statement_savepoint_active
      /\ sent.transaction_state = c.transaction_state
  BY <1>0 DEF Sent, ConnectionRecord
<1> HIDE DEF sent
<1>4. Good(MarkFailed(sent)) /\ sent \in ConnectionRecord
  BY <1>2, MarkFailedGood DEF Good
<1>5. handled \in {Return(sent, "success"), Return(sent, "error"),
                   Return(MarkFailed(sent), "error")}
  BY DEF Handled, sent
<1>6. Good(handled) /\ Good(Recover(handled))
  BY <1>2, <1>4, <1>5, ReturnGood, HandlingGood
<1>7. handled.ret = IF next.reply = "ok" THEN "success" ELSE "error"
  BY <1>2, <1>4, ReturnGood DEF Handled, sent
<1> QED
  BY <1>3, <1>4, <1>5, <1>6, <1>7 DEF Return, MarkFailed, ConnectionRecord

\* On a link that is gone the handling changes nothing on the server.
LEMMA RecoverDown ==
  ASSUME NEW h, Good(h), ~h.pg.up, h.pg.stack = <<>>
  PROVE  LET ran == Recover(h)
         IN  /\ ~ran.pg.up /\ ran.pg.stack = <<>>
             /\ ran.pg.durable = h.pg.durable
             /\ ran.state = h.state /\ ran.autocommit = h.autocommit
             /\ ran.rollback_on_error = h.rollback_on_error
             /\ ran.ret = h.ret
             /\ h.transaction_state = "idle" => ran.transaction_state = "idle"
<1> DEFINE null == Answer(h.pg, "null")
<1>0. h \in ConnectionRecord /\ h.pg \in Session
  BY DEF Good, ConnectionRecord
<1>1. ~null.up /\ null.stack = <<>> /\ null.durable = h.pg.durable
      /\ null.reply = "null"
  BY <1>0 DEF Answer, Session
<1>2. Rollback(h.pg) = null /\ RollbackTo(h.pg, "driver") = null
  BY DEF Rollback, RollbackTo
<1> HIDE DEF null
<1>3. CASE h.ret = "error" /\ h.transaction_state = "failed" /\ Connected(h)
  <2>1. RollbackTransaction(h) = EnterTransactionState(ReturnAnswer(h, null), "idle")
    BY <1>2, <1>3 DEF RollbackTransaction
  <2>2. Recover(h) \in {h, Return(EnterTransactionState(ReturnAnswer(h, null), "idle"), h.ret),
                        [h EXCEPT !.pg = null]}
    BY <1>0, <1>1, <1>2, <1>3, <2>1
       DEF Recover, HandleStatementError, ConnectionRecord
  <2> QED
    BY <1>0, <1>1, <1>3, <2>2
       DEF Return, EnterTransactionState, ReturnAnswer, ConnectionRecord
<1>4. CASE ~(h.ret = "error" /\ h.transaction_state = "failed" /\ Connected(h))
  BY <1>4 DEF Recover, HandleStatementError
<1> QED
  BY <1>3, <1>4

\* An error in a block that stands is undone as the setting says: rewound to the
\* savepoint, rolled back, or left.
LEMMA ErrorUndone ==
  ASSUME NEW c, Regular(c), Connected(c), ~c.autocommit,
         c.transaction_state # "idle", c.pg.up,
         NEW work \in SUBSET Work, NEW next, Ran(c.pg, next, work), next.up,
         next.reply # "ok",
         NEW h, Handled(c, next, h)
  PROVE  /\ Effect(c, Recover(h), work)
         /\ next.reply # "copy_out" => Undone(c, Recover(h), work)
<1> DEFINE ran == Recover(h)
<1>0. /\ Good(h) /\ Good(ran) /\ h.pg = next /\ h.state = c.state
      /\ h.autocommit = c.autocommit
      /\ h.rollback_on_error = c.rollback_on_error
      /\ h.statement_savepoint_active = c.statement_savepoint_active
      /\ h.ret = "error" /\ h.transaction_state \in {c.transaction_state, "failed"}
      /\ h \in ConnectionRecord /\ next \in Session
      /\ Tidy(next)
  BY HandledGood DEF Good, ConnectionRecord, Ran
<1>1. /\ c.pg.block # "idle" /\ InBlock(c.pg, next, work)
      /\ next.durable = c.pg.durable /\ next.block # "idle"
      /\ Pending(c.pg) = Base(c.pg) \union Top(c.pg) /\ next.reply # "null"
  BY RegularTidy DEF Ran, Regular, InBlock
<1>2. CASE h.transaction_state = "failed" /\ c.rollback_on_error = "transaction"
  <2> DEFINE over == Rollback(next)
  <2>1. over = EndBlock(next, {})
    BY DEF Rollback
  <2>2. /\ over.up /\ over.stack = <<>> /\ over.block = "idle"
        /\ over.durable = c.pg.durable /\ over.reply = "ok"
    BY <1>0, <1>1, <2>1 DEF EndBlock, Session
  <2> HIDE DEF over
  <2>3. ran = Return(EnterTransactionState(ReturnAnswer(h, over), "idle"), "error")
    BY <1>0, <1>2 DEF Recover, HandleStatementError, RollbackTransaction,
       Connected, over
  <2>4. /\ ran.pg = over /\ ran.state = c.state
        /\ ran.autocommit = c.autocommit
        /\ ran.rollback_on_error = c.rollback_on_error /\ ran.ret = "error"
        /\ ran.transaction_state = "idle"
    BY <1>0, <2>3 DEF Return, EnterTransactionState, ReturnAnswer, ConnectionRecord
  <2> HIDE DEF ran
  <2>5. Pending(over) = {}
    BY <2>2 DEF Pending
  <2>6. Regular(ran)
    BY <1>0, <2>2, <2>4 DEF Regular, ran
  <2>7. Undone(c, ran, work)
    BY <1>2, <2>4, <2>5 DEF Undone
  <2> QED
    BY <2>2, <2>4, <2>6, <2>7 DEF Effect, ran
<1>3. CASE h.transaction_state = "failed" /\ c.rollback_on_error = "statement"
  <2> DEFINE rewound == RollbackTo(next, "driver")
  <2>1. Guarded(c.pg) /\ c.statement_savepoint_active
    BY <1>3 DEF Regular
  <2>2. Guarded(next) /\ Base(next) = Base(c.pg)
    BY <1>1, <2>1 DEF InBlock
  <2>3. /\ rewound.reply = "ok" /\ rewound.block = "open" /\ rewound.up
        /\ Guarded(rewound) /\ Base(rewound) = Base(c.pg) /\ Top(rewound) = {}
        /\ rewound.durable = c.pg.durable
    BY <1>0, <1>1, <2>2, RewindShape
  <2> HIDE DEF rewound
  <2>4. ran = [h EXCEPT !.pg = rewound, !.transaction_state = "active"]
    BY <1>0, <1>3, <2>1, <2>3
       DEF Recover, HandleStatementError, Connected, rewound
  <2>5. /\ ran.pg = rewound /\ ran.state = c.state
        /\ ran.autocommit = c.autocommit
        /\ ran.rollback_on_error = c.rollback_on_error /\ ran.ret = "error"
        /\ ran.transaction_state = "active" /\ ran.statement_savepoint_active
    BY <1>0, <2>1, <2>4 DEF ConnectionRecord
  <2> HIDE DEF ran
  <2>6. Pending(rewound) = Base(c.pg)
    <3>1. rewound \in Session
      BY <1>0, <2>5 DEF Good, ConnectionRecord, ran
    <3> QED
      BY <2>3, <3>1, PendingOfShape
  <2>7. Regular(ran)
    BY <1>0, <1>3, <2>3, <2>5 DEF Regular, ran
  <2>8. Undone(c, ran, work)
    BY <1>3, <2>5, <2>6 DEF Undone
  <2> QED
    BY <2>3, <2>5, <2>7, <2>8 DEF Effect, ran
<1>4. CASE c.rollback_on_error = "nothing"
  <2>1. ran = h
    BY <1>0, <1>4 DEF Recover, HandleStatementError
  <2>2. Plain(c.pg) /\ Plain(next)
    BY <1>1, <1>4 DEF Regular, InBlock
  <2>3. /\ Pending(c.pg) = Top(c.pg) /\ Pending(next) = Top(next)
    BY <1>0, <2>2, RegularTidy, PendingOfShape
  <2>4. Top(c.pg) \subseteq Top(next) /\ Top(next) \subseteq Top(c.pg) \union work
    BY <1>1 DEF InBlock
  <2> HIDE DEF ran
  <2>5. Regular(ran)
    BY <1>0, <1>1, <1>4, <2>1, <2>2 DEF Regular
  <2>6. Undone(c, ran, work)
    BY <1>0, <1>4, <2>1, <2>3, <2>4 DEF Undone
  <2> QED
    BY <1>0, <1>1, <2>1, <2>5, <2>6 DEF Effect, ran
<1>5. CASE c.rollback_on_error # "nothing" /\ h.transaction_state # "failed"
  <2>0. c.transaction_state = "active" /\ h.transaction_state = "active"
        /\ c.pg.block = "open"
    BY <1>0, <1>5 DEF Regular
  <2>1. ran = h
    BY <1>0, <1>5 DEF Recover, HandleStatementError
  <2>2. /\ next.reply = "copy_out"
        /\ next.stack = c.pg.stack /\ next.block = c.pg.block
    <3>1. h # Return(MarkFailed(Sent(c, next)), "error")
      <4>1. c \in ConnectionRecord
        BY DEF Regular, Good
      <4>2. Return(MarkFailed(Sent(c, next)), "error").transaction_state = "failed"
        BY <2>0, <4>1 DEF Return, MarkFailed, Sent, ConnectionRecord
      <4> QED
        BY <1>5, <4>2
    <3> QED
      BY <1>1, <3>1 DEF Handled
  <2>3. Pending(next) = Pending(c.pg)
    BY <2>2 DEF Pending
  <2> HIDE DEF ran
  <2>4. Regular(ran)
    BY <1>0, <2>0, <2>1, <2>2 DEF Regular, Guarded, Plain
  <2> QED
    BY <1>0, <1>1, <2>1, <2>2, <2>3, <2>4 DEF Effect, ran
<1>6. c.rollback_on_error \in RollbackModes
  BY DEF Regular, Good, ConnectionRecord
<1> QED
  BY <1>2, <1>3, <1>4, <1>5, <1>6 DEF RollbackModes

\* Whatever a statement does, and however its answer is handled.
LEMMA HandledEffect ==
  ASSUME NEW c, Regular(c), Connected(c), Ready(c),
         NEW work \in SUBSET Work, NEW next, Ran(c.pg, next, work),
         NEW h, Handled(c, next, h)
  PROVE  /\ Effect(c, Recover(h), work)
         /\ /\ next.reply # "copy_out" /\ ~c.autocommit
            /\ Recover(h).ret = "error" /\ Recover(h).pg.up
            => Undone(c, Recover(h), work)
<1> DEFINE ran == Recover(h)
<1>0. /\ Good(h) /\ Good(ran) /\ h.pg = next /\ h.state = c.state
      /\ h.autocommit = c.autocommit
      /\ h.rollback_on_error = c.rollback_on_error
      /\ h.statement_savepoint_active = c.statement_savepoint_active
      /\ h.ret = IF next.reply = "ok" THEN "success" ELSE "error"
      /\ c.transaction_state # "active" => h.transaction_state = c.transaction_state
      /\ h \in ConnectionRecord /\ next \in Session /\ c.pg \in Session
      /\ Tidy(next)
  BY HandledGood, RegularTidy DEF Good, ConnectionRecord, Ran
<1>1. CASE ~next.up
  <2>1. next.stack = <<>> /\ next.reply # "ok"
    <3>1. next.block = "idle"
      BY <1>0, <1>1 DEF Tidy, SessionInv
    <3>2. next.reply # "ok"
      <4>1. CASE ~c.pg.up
        <5>1. next = Answer(c.pg, "null")
          BY <4>1 DEF Ran
        <5> QED
          BY <1>0, <5>1 DEF Answer, Session
      <4>2. CASE c.pg.up
        BY <1>1, <4>2 DEF Ran, Alone, InBlock
      <4> QED
        BY <4>1, <4>2
    <3> QED
      BY <1>0, <3>1, <3>2 DEF Tidy
  <2>2. /\ ~ran.pg.up /\ ran.pg.stack = <<>>
        /\ ran.pg.durable = next.durable
        /\ ran.state = c.state /\ ran.autocommit = c.autocommit
        /\ ran.rollback_on_error = c.rollback_on_error
        /\ ran.ret = "error"
        /\ h.transaction_state = "idle" => ran.transaction_state = "idle"
    BY <1>0, <1>1, <2>1, RecoverDown
  <2> HIDE DEF ran
  <2>3. Regular(ran)
    BY <1>0, <2>2 DEF Regular, ran
  <2>4. /\ c.pg.durable \subseteq next.durable
        /\ next.durable \subseteq c.pg.durable \union work
        /\ ~c.autocommit => next.durable = c.pg.durable
    <3>1. CASE ~c.pg.up
      <4>1. next = Answer(c.pg, "null")
        BY <3>1 DEF Ran
      <4> QED
        BY <1>0, <4>1 DEF Answer, Session
    <3>2. CASE c.pg.up
      BY <3>2, RegularTidy DEF Ran, Alone, InBlock, Ready, Regular
    <3> QED
      BY <3>1, <3>2
  <2> QED
    BY <2>2, <2>3, <2>4 DEF Effect, ran
<1>2. CASE next.up
  <2>0. c.pg.up
    BY <1>0, <1>2 DEF Ran, Answer, Session
  <2>1. CASE c.autocommit
    <3>1. c.transaction_state = "idle" /\ c.pg.block = "idle"
      BY <2>1, RegularTidy DEF Regular
    <3>2. Alone(c.pg, next, work)
      BY <2>0, <3>1 DEF Ran
    <3>3. ran = h /\ h.transaction_state = "idle"
      BY <1>0, <3>1 DEF Recover, HandleStatementError
    <3> HIDE DEF ran
    <3>4. Regular(ran)
      BY <1>0, <3>2, <3>3 DEF Regular, Alone, Tidy
    <3> QED
      BY <1>0, <1>2, <2>0, <2>1, <3>2, <3>3, <3>4 DEF Effect, Alone, ran
  <2>2. CASE ~c.autocommit
    <3>1. c.transaction_state # "idle"
      BY <2>2 DEF Ready
    <3>2. CASE next.reply # "ok"
      BY <1>2, <2>0, <2>2, <3>1, <3>2, ErrorUndone
    <3>3. CASE next.reply = "ok"
      <4>1. ran = h /\ h.ret = "success"
        BY <1>0, <3>3 DEF Recover
      <4>2. h.transaction_state = c.transaction_state
        <5>1. c \in ConnectionRecord
          BY DEF Regular, Good
        <5>2. h = Return(Sent(c, next), "success")
          BY <3>3 DEF Handled
        <5> QED
          BY <5>1, <5>2 DEF Return, Sent, ConnectionRecord
      <4>3. /\ InBlock(c.pg, next, work) /\ next.block = "open"
            /\ next.durable = c.pg.durable
        BY <1>2, <2>0, <3>1, <3>3 DEF Ran, Regular, InBlock
      <4>4. Top(next) = Top(c.pg) \union work
        BY <1>2, <3>3, <4>3 DEF InBlock
      <4>5. Pending(c.pg) = Base(c.pg) \union Top(c.pg)
        BY <2>0, <3>1, RegularTidy
      <4>6. Plain(c.pg) => Plain(next) /\ Pending(next) = Top(next)
                           /\ Pending(c.pg) = Top(c.pg)
        BY <1>0, <1>2, <4>3, PendingOfShape DEF InBlock
      <4>7. Guarded(c.pg) => Guarded(next) /\ Base(next) = Base(c.pg)
                             /\ Pending(next) = Base(next) \union Top(next)
        BY <1>0, <1>2, <4>3, PendingOfShape DEF InBlock
      <4>8. Shaped(c.pg)
        BY <2>0, <3>1, RegularTidy
      <4>9. Pending(next) = Pending(c.pg) \union work
        BY <4>4, <4>5, <4>6, <4>7, <4>8 DEF Shaped
      <4> HIDE DEF ran
      <4>10. Regular(ran)
        BY <1>0, <2>0, <2>2, <3>1, <4>1, <4>2, <4>3, <4>6, <4>7 DEF Regular
      <4>11. c.rollback_on_error = "statement" => Guarded(c.pg)
        BY <2>0, <3>1 DEF Regular
      <4>12. Effect(c, ran, work)
        BY <1>0, <1>2, <2>0, <2>2, <3>1, <4>1, <4>2, <4>3, <4>4, <4>7, <4>9, <4>10,
           <4>11 DEF Effect
      <4>13. ran.ret = "success"
        BY <4>1
      <4> QED
        BY <4>12, <4>13 DEF ran
    <3> QED
      BY <3>2, <3>3
  <2> QED
    BY <2>1, <2>2
<1> QED
  BY <1>1, <1>2

\* A single statement.
LEMMA SingleEffect ==
  ASSUME NEW c, Regular(c), Connected(c), Ready(c), c.ret = "success",
         NEW work \in SUBSET Work, NEW outcome \in RunOutcomes
  PROVE  Effect(c, RunSingle(c, [work |-> work, outcome |-> outcome]), work)
<1> DEFINE next == Run(c.pg, work, outcome)
           h == HandleExecutionResult(Sent(c, next), next.reply)
<1>1. /\ Ran(c.pg, next, work)
      /\ next.reply = "copy_out" =>
           next.stack = c.pg.stack /\ next.block = c.pg.block
  BY RegularTidy, RunRan
<1>2. next.reply \in Replies
  BY <1>1 DEF Ran, Tidy, SessionInv, Session
<1> HIDE DEF next
<1>3. Handled(c, next, h)
  BY <1>1, <1>2 DEF HandleExecutionResult, Handled, Replies
<1>4. RunSingle(c, [work |-> work, outcome |-> outcome]) = Recover(h)
  BY DEF RunSingle, RunCommand, Sent, next
<1> HIDE DEF h
<1> QED
  BY <1>1, <1>3, <1>4, HandledEffect

\* A FETCH that does not fail is answered ok, or finds the link gone.
LEMMA FetchAnswer ==
  ASSUME NEW pg, Tidy(pg), NEW outcome \in RunOutcomes \ {"error", "copy_out"},
         pg.block # "aborted"
  PROVE  LET next == Run(pg, {}, outcome)
         IN  /\ Ran(pg, next, {})
             /\ next.reply = "ok" \/ ~next.up
<1> DEFINE next == Run(pg, {}, outcome)
<1>1. Ran(pg, next, {})
  BY RunRan
<1>2. pg \in Session /\ pg.block # "aborted"
  BY DEF Tidy, SessionInv
<1>3. CASE ~pg.up
  BY <1>1, <1>2, <1>3 DEF Run, Answer, Session
<1>4. CASE pg.up /\ outcome # "ok"
  <2>1. outcome \in {"lost_before", "lost_after"}
    BY <1>4 DEF RunOutcomes
  <2>2. ~Lost(pg).up
    BY <1>2 DEF Lost, Session
  <2>3. ~Lost(Made(pg, {})).up
    <3>1. Made(pg, {}) \in Session
      BY <1>4, MadeKept DEF Tidy, Kept, SessionInv
    <3> QED
      BY <3>1 DEF Lost, Session
  <2> QED
    BY <1>1, <1>3, <2>1, <2>2, <2>3 DEF Run
<1>5. CASE pg.up /\ outcome = "ok"
  <2>1. next = Made(pg, {})
    BY <1>5 DEF Run
  <2>2. Made(pg, {}).reply = "ok"
    <3>1. CASE pg.block = "idle"
      BY <1>2, <3>1 DEF Made, Session
    <3>2. CASE pg.block # "idle"
      <4>1. pg.block = "open"
        BY <1>2, <3>2 DEF Session
      <4> QED
        BY <1>2, <4>1 DEF Made, Session
    <3> QED
      BY <3>1, <3>2
  <2> QED
    BY <1>1, <2>1, <2>2
<1> QED
  BY <1>1, <1>3, <1>4, <1>5

\* The cursors of a call that succeeded: fetched, refused, or lost with the link.
LEMMA FetchEffect ==
  ASSUME NEW c, NEW called, NEW work \in SUBSET Work, Effect(c, called, work),
         Regular(c), Connected(c), Ready(c), called.ret = "success",
         NEW outcome \in RunOutcomes \ {"error", "copy_out"}
  PROVE  Effect(c, FetchRefcursorResults(called, [work |-> {}, outcome |-> outcome]),
                work)
<1> DEFINE next == Run(called.pg, {}, outcome)
           sent == Sent(called, next)
           ran == FetchRefcursorResults(called, [work |-> {}, outcome |-> outcome])
<1>0. /\ Regular(called) /\ Good(called) /\ called \in ConnectionRecord
      /\ Tidy(called.pg) /\ called.pg.up /\ called.pg.block # "aborted"
      /\ c.rollback_on_error \in RollbackModes /\ c.autocommit \in BOOLEAN
      /\ called.autocommit = c.autocommit /\ called.state = c.state
      /\ called.rollback_on_error = c.rollback_on_error
  BY RegularTidy DEF Effect, Regular, Good, ConnectionRecord
<1>1. CASE called.transaction_state # "active"
  <2>1. ran = Return(called, "error")
    BY <1>1 DEF FetchRefcursorResults
  <2> HIDE DEF ran
  <2>2. /\ Regular(ran) /\ ran.pg = called.pg /\ ran.ret = "error"
        /\ ran.state = c.state /\ ran.autocommit = c.autocommit
        /\ ran.rollback_on_error = c.rollback_on_error
    BY <1>0, <2>1, ReturnGood DEF Return, ConnectionRecord, Regular
  <2>3. ~c.autocommit => Undone(c, ran, work)
    BY <1>0, <1>1, <2>2 DEF Effect, Regular, Undone, RollbackModes
  <2> QED
    BY <1>0, <2>2, <2>3 DEF Effect, ran
<1>2. CASE called.transaction_state = "active"
  <2>0. ~c.autocommit
    BY <1>0, <1>2 DEF Regular
  <2>1. /\ Ran(called.pg, next, {}) /\ (next.reply = "ok" \/ ~next.up)
    BY <1>0, FetchAnswer
  <2>2. ran = UnmarkedAnswer(sent)
    BY <1>0, <1>2 DEF FetchRefcursorResults, Send, Sent
  <2> HIDE DEF next
  <2>3. sent.pg = next /\ Connected(called) /\ Ready(called)
    BY <1>0, <1>2 DEF Sent, ConnectionRecord, Connected, Ready
  <2>4. CASE next.reply = "ok"
    <3>1. ran = Return(sent, "success") /\ Recover(ran) = ran /\ ran.ret = "success"
      <4>1. ran = Return(sent, "success")
        BY <2>2, <2>3, <2>4 DEF UnmarkedAnswer
      <4>2. ran.ret = "success"
        BY <1>0, <4>1 DEF Return, Sent, ConnectionRecord
      <4> QED
        BY <4>1, <4>2 DEF Recover
    <3> HIDE DEF ran
    <3>2. Handled(called, next, ran)
      BY <2>4, <3>1 DEF Handled, sent
    <3>3. Effect(called, ran, {})
      BY <1>0, <2>1, <2>3, <3>1, <3>2, HandledEffect
    <3> QED
      BY <1>0, <2>0, <3>1, <3>3 DEF Effect, ran
  <2>5. CASE ~next.up
    <3>1. /\ next \in Session /\ SessionInv(next) /\ next.block = "idle"
          /\ next.stack = <<>> /\ next.reply = "error"
          /\ next.durable = called.pg.durable
      BY <1>0, <1>2, <2>1, <2>5 DEF Ran, Tidy, SessionInv, InBlock, Regular
    <3>2. /\ ran.pg = next /\ ran.ret = "error" /\ ran.state = c.state
          /\ ran.autocommit = c.autocommit
          /\ ran.rollback_on_error = c.rollback_on_error
          /\ ran.transaction_state = "active"
      BY <1>0, <1>2, <2>2, <2>3, <3>1 DEF UnmarkedAnswer, Return, Sent,
         ConnectionRecord
    <3>3. Good(ran)
      <4>1. Kept(called.pg, next)
        BY <1>0, <2>5, <3>1 DEF Kept
      <4>2. Good(sent)
        BY <1>0, <4>1, SessionReplaced DEF Sent
      <4> QED
        BY <2>2, <4>2, HandlingGood
    <3> HIDE DEF ran
    <3>4. Regular(ran)
      BY <2>0, <2>5, <3>1, <3>2, <3>3 DEF Regular
    <3> QED
      BY <1>0, <2>0, <2>5, <3>1, <3>2, <3>4 DEF Effect, ran
  <2> QED
    BY <2>1, <2>4, <2>5
<1> QED
  BY <1>1, <1>2

\* Two fragments, the second sent only after the first succeeded.
LEMMA FragmentsEffect ==
  ASSUME NEW c, Regular(c), Connected(c), Ready(c), c.ret = "success",
         NEW w \in SUBSET Work, NEW o \in RunOutcomes,
         NEW v \in SUBSET Work, NEW p \in RunOutcomes
  PROVE  Effect(c, RunFragments(c, <<[work |-> w, outcome |-> o],
                                     [work |-> v, outcome |-> p]>>), w \union v)
<1> DEFINE steps == <<[work |-> w, outcome |-> o], [work |-> v, outcome |-> p]>>
           first == Run(c.pg, w, o)
           next == IF first.reply = "ok" THEN Run(first, v, p) ELSE first
           sent == Sent(c, next)
           h == HandleFragments(sent)
<1>0. c \in ConnectionRecord /\ Tidy(c.pg)
  BY RegularTidy DEF Regular, Good
<1>1. steps[1].work = w /\ steps[1].outcome = o
      /\ steps[2].work = v /\ steps[2].outcome = p
  OBVIOUS
<1>2. Ran(c.pg, first, w) /\ Tidy(first)
  BY <1>0, RunRan DEF Ran
<1>3. SendBoth(c, steps) = sent
  <2>1. Send(c, steps[1]) = Sent(c, first)
    BY <1>0, <1>1 DEF Send, Sent, ConnectionRecord
  <2>2. Sent(c, first).pg = first
    BY <1>0 DEF Sent, ConnectionRecord
  <2>3. Send(Sent(c, first), steps[2]) = Sent(c, Run(first, v, p))
    BY <1>0, <1>1, <2>2 DEF Send, Sent, ConnectionRecord
  <2> HIDE DEF steps, first
  <2> QED
    BY <2>1, <2>2, <2>3 DEF SendBoth, SendNext
<1> HIDE DEF steps
<1>4. Ran(c.pg, next, w \union v)
  <2>1. CASE first.reply = "ok"
    <3>1. Ran(first, Run(first, v, p), v)
      BY <1>2, RunRan
    <3> HIDE DEF first
    <3> QED
      BY <1>0, <1>2, <2>1, <3>1, RanTwice
  <2>2. CASE first.reply # "ok"
    <3> HIDE DEF first
    <3> QED
      BY <1>2, <2>2 DEF Ran, Alone, InBlock
  <2> QED
    BY <2>1, <2>2
<1> HIDE DEF next
<1>5. sent.pg = next
  BY <1>0 DEF Sent, ConnectionRecord
<1>6. Handled(c, next, h)
  BY <1>5 DEF HandleFragments, MarkUnlessOk, Handled
<1>7. RunFragments(c, steps) = Recover(h)
  BY <1>3 DEF RunFragments
<1> HIDE DEF h
<1> QED
  BY <1>4, <1>6, <1>7, HandledEffect DEF steps

\* One set of a data-at-execution: without a block of its own there is no large
\* object transaction to end.
LEMMA SuppliedEffect ==
  ASSUME NEW c, Regular(c), Connected(c), Ready(c),
         NEW work \in SUBSET Work, NEW outcome \in RunOutcomes,
         outcome # "copy_out", NEW last, NEW array, NEW end
  PROVE  LET ran == RunSuppliedSet(c, [work |-> work, outcome |-> outcome], last,
                                   array, end)
         IN  /\ Effect(c, ran, work)
             /\ ~c.autocommit /\ ran.ret = "error" /\ ran.pg.up
                => Undone(c, ran, work)
<1> DEFINE next == Run(c.pg, work, outcome)
           h == HandleSuppliedSet(Sent(c, next), array)
           step == [work |-> work, outcome |-> outcome]
<1>0. c \in ConnectionRecord
  BY DEF Regular, Good
<1>1. Ran(c.pg, next, work) /\ next.reply # "copy_out"
  BY RegularTidy, RunRan
<1>2. next.reply \in Replies
  BY <1>1 DEF Ran, Tidy, SessionInv, Session
<1>3. Send(c, step) = Sent(c, next)
  BY <1>0 DEF Send, Sent, ConnectionRecord
<1> HIDE DEF next
<1>4. Sent(c, next).pg = next
  BY <1>0 DEF Sent, ConnectionRecord
<1>5. Handled(c, next, h)
  BY <1>1, <1>2, <1>4
     DEF HandleSuppliedSet, MarkUnlessOk, HandleExecutionResult, Handled, Replies
<1>6. RunSuppliedSet(c, step, last, array, end) = FinishSuppliedSet(h, last, end)
  BY <1>3 DEF RunSuppliedSet
<1> HIDE DEF h
<1>7. /\ Effect(c, Recover(h), work)
      /\ ~c.autocommit /\ Recover(h).ret = "error" /\ Recover(h).pg.up
         => Undone(c, Recover(h), work)
  BY <1>1, <1>5, HandledEffect
<1>8. Recover(h).autocommit => Recover(h).transaction_state = "idle"
  BY <1>7 DEF Effect, Regular
<1>9. FinishSuppliedSet(h, last, end) = Recover(h)
  BY <1>8 DEF FinishSuppliedSet, Recover, RollbackLargeObject, CommitLargeObject
<1> QED
  BY <1>6, <1>7, <1>9

----------------------------------------------------------------------------
(* An execution as a whole                                                 *)

\* From the connection before the call to the one after it: what the work of the
\* transaction and the committed work become.
Whole(c, ran, work) ==
  /\ Regular(ran)
  /\ ran.state = c.state
  /\ ran.autocommit = c.autocommit
  /\ ran.rollback_on_error = c.rollback_on_error
  /\ ran.ret = "success" => ran.pg.block # "aborted"
  /\ IF c.autocommit
     THEN /\ Pending(ran.pg) = {}
          /\ c.pg.durable \subseteq ran.pg.durable
          /\ ran.pg.durable \subseteq c.pg.durable \union work
          /\ ran.ret = "success" => work \subseteq ran.pg.durable
     ELSE /\ ran.pg.durable = c.pg.durable
          /\ ran.ret = "success" => Pending(ran.pg) = Pending(c.pg) \union work
          /\ ran.ret = "error" =>
               IF ~ran.pg.up THEN Pending(ran.pg) = {}
               ELSE \/ Pending(ran.pg) = Pending(c.pg)
                    \/ /\ c.rollback_on_error = "transaction"
                       /\ Pending(ran.pg) = {}
                    \/ /\ c.rollback_on_error = "nothing"
                       /\ Pending(c.pg) \subseteq Pending(ran.pg)
                       /\ Pending(ran.pg) \subseteq Pending(c.pg) \union work

\* The opening and what it opens for, put together.
LEMMA ExecutionWhole ==
  ASSUME NEW c, Regular(c), NEW opened, Opened(c, opened), NEW ran, NEW work,
         IF opened.ret = "error" THEN ran = opened ELSE Effect(opened, ran, work)
  PROVE  Whole(c, ran, work)
<1>0. /\ opened.ret \in {"success", "error"} /\ c.rollback_on_error \in RollbackModes
      /\ Regular(opened) /\ opened.autocommit = c.autocommit
      /\ opened.rollback_on_error = c.rollback_on_error
  BY DEF Opened, Regular, Good, ConnectionRecord
<1>1. CASE opened.ret = "error"
  <2>1. /\ ~opened.pg.up /\ ran = opened /\ opened.pg.durable = c.pg.durable
        /\ opened.state = c.state
    BY <1>1 DEF Opened
  <2>2. Pending(opened.pg) = {}
    BY <1>0, <2>1, RegularTidy
  <2> QED
    BY <1>0, <1>1, <2>1, <2>2 DEF Whole
<1>2. CASE opened.ret = "success"
  <2>1. Effect(opened, ran, work)
    BY <1>2
  <2>2. /\ opened.state = c.state /\ opened.pg.durable = c.pg.durable
        /\ Pending(opened.pg) = Pending(c.pg) /\ Ready(opened)
        /\ opened.pg.up /\ ~opened.autocommit
           /\ opened.rollback_on_error = "statement"
           => Base(opened.pg) = Pending(c.pg)
    BY <1>2 DEF Opened, Ready
  <2>3. Regular(ran)
    BY <2>1 DEF Effect
  <2>4. /\ ~ran.pg.up => Pending(ran.pg) = {}
        /\ ran.autocommit => Pending(ran.pg) = {}
    BY <2>3, RegularTidy
  <2>5. CASE c.autocommit
    BY <1>0, <2>1, <2>2, <2>3, <2>4, <2>5 DEF Effect, Whole
  <2>6. CASE ~c.autocommit
    <3>1. ran.ret = "error" /\ ran.pg.up =>
            \/ Pending(ran.pg) = Pending(c.pg)
            \/ Undone(opened, ran, work)
      BY <1>0, <2>1, <2>2, <2>6 DEF Effect
    <3>2. opened.pg.up \/ ~ran.pg.up
      BY <2>1 DEF Effect
    <3> QED
      BY <1>0, <2>1, <2>2, <2>3, <2>4, <2>6, <3>1, <3>2
         DEF Effect, Whole, Undone, RollbackModes
  <2> QED
    BY <2>5, <2>6
<1> QED
  BY <1>0, <1>1, <1>2

----------------------------------------------------------------------------
(* The invariant                                                           *)

\* The application executes single statements, procedure calls, several statements
\* of one text, with data at execution, and ends its transactions by SQLEndTran or
\* by autocommit; the link may break, and no FETCH after a call fails otherwise.
Plainly == Ops \subseteq {"single", "multi", "call", "dae", "dae_array", "link"}

NeedsData(p) == p \in {"data", "data_array"}

\* What the application counts on agrees with the session.
Counted(pg, a) ==
  /\ a.acked \subseteq Pending(pg)
  /\ a.confirmed \subseteq pg.durable
  /\ a.discarded \intersect (pg.durable \union Pending(pg)) = {}
  /\ Pending(pg) \intersect pg.durable = {}
  /\ pg.block = "aborted" => a.acked = {}

\* The sets an unfinished data-at-execution has run, made: they are durable, or
\* the innermost level of the transaction holds them.
Supplying(c, made, a) ==
  /\ Connected(c)
  /\ Ready(c)
  /\ IF c.autocommit THEN made \subseteq c.pg.durable
     ELSE c.pg.up =>
            /\ made \subseteq Pending(c.pg)
            /\ c.rollback_on_error = "statement" =>
                 /\ Top(c.pg) \subseteq made
                 /\ Base(c.pg) \intersect made = {}
                 /\ a.acked \subseteq Base(c.pg)

\* A connection between two calls, with the statements and the application of it.
SettledAt(c, phases, made, a) ==
  /\ Regular(c)
  /\ ~Connected(c) => c.transaction_state = "idle"
  /\ Counted(c.pg, a)
  /\ \A s \in Stmts : phases[s] = "idle" \/ NeedsData(phases[s])
  /\ \A s, t \in Stmts : NeedsData(phases[s]) /\ NeedsData(phases[t]) => s = t
  /\ \A s \in Stmts : IF NeedsData(phases[s]) THEN Supplying(c, made[s], a)
                                              ELSE made[s] = {}

Settled == SettledAt(conn, phase, executed, app)

\* Forgetting the answer leaves it settled.
LEMMA ForgetSettled ==
  ASSUME NEW c, NEW phases, NEW made, NEW a, SettledAt(c, phases, made, a)
  PROVE  SettledAt(Forget(c), phases, made, a)
<1> DEFINE d == Forget(c)
<1>0. c \in ConnectionRecord /\ c.pg \in Session /\ Regular(c)
  BY RegularTidy DEF SettledAt, Regular, Good
<1>1. Good(d)
  BY <1>0, ForgetGood DEF Regular
<1>2. /\ d.state = c.state /\ d.autocommit = c.autocommit
      /\ d.rollback_on_error = c.rollback_on_error
      /\ d.transaction_state = c.transaction_state
      /\ d.statement_savepoint_active = c.statement_savepoint_active
      /\ d.pg.up = c.pg.up /\ d.pg.block = c.pg.block
      /\ d.pg.stack = c.pg.stack /\ d.pg.durable = c.pg.durable
  BY <1>0 DEF Forget, Answer, ConnectionRecord, Session
<1> HIDE DEF d
<1>3. Regular(d)
  BY <1>0, <1>1, <1>2 DEF Regular, Guarded, Plain
<1>4. /\ Pending(d.pg) = Pending(c.pg)
      /\ Top(d.pg) = Top(c.pg) /\ Base(d.pg) = Base(c.pg)
  BY <1>2 DEF Pending, Top, Base
<1>5. \A s \in Stmts : Supplying(c, made[s], a) => Supplying(d, made[s], a)
  BY <1>2, <1>4 DEF Supplying, Connected, Ready
<1>6. Counted(d.pg, a)
  BY <1>2, <1>4 DEF SettledAt, Counted
<1>7. SettledAt(d, phases, made, a)
  BY <1>2, <1>3, <1>5, <1>6 DEF SettledAt, Connected
<1> QED
  BY <1>7 DEF d

\* A call that ends with a settled connection keeps the invariant.
LEMMA CallSettles ==
  ASSUME NEW c, conn' = Forget(c), SettledAt(c, phase', executed', app')
  PROVE  Settled'
<1>1. SettledAt(conn', phase', executed', app')
  BY ForgetSettled
<1> QED
  BY <1>1 DEF Settled, SettledAt, Counted, Supplying, NeedsData, Regular, Ready,
     Good, SessionInv, Connected, ConnectionRecord, Session, Level, Replies,
     Names, TransactionStates, RollbackModes, Guarded, Plain, Pending, Top, Base

\* Phases do not change by the end of a block when no large object is open.
LEMMA NothingOutlived ==
  ASSUME NEW c, NEW phases \in [Stmts -> Phases],
         \A s \in Stmts : phases[s] # "lo_open"
  PROVE  Outlived(c, phases) = phases
BY DEF Outlived

\* What the inputs of the actions do not touch.
LEMMA FreshWork ==
  ASSUME NEW w \in Changes
  PROVE  /\ w \in SUBSET Work
         /\ w \intersect Pending(conn.pg) = {} /\ w \intersect conn.pg.durable = {}
         /\ w \intersect app.discarded = {} /\ w \intersect app.acked = {}
         /\ \A s \in Stmts : w \intersect executed[s] = {}
BY DEF Changes, Fresh

\* The application keeps counting right over a whole execution.
LEMMA WholeCounted ==
  ASSUME app \in AppRecord, Regular(conn), Counted(conn.pg, app),
         NEW work \in SUBSET Work, work \intersect app.discarded = {},
         work \intersect conn.pg.durable = {},
         NEW ran, Whole(conn, ran, work)
  PROVE  Counted(ran.pg, Told(ran, work))
<1> DEFINE told == Told(ran, work)
<1>0. /\ ran.ret \in {"success", "error"} /\ conn.autocommit \in BOOLEAN
      /\ conn.rollback_on_error \in RollbackModes
      /\ conn.autocommit => Pending(conn.pg) = {}
  BY RegularTidy DEF Whole, Regular, Good, ConnectionRecord
<1>1. CASE conn.autocommit /\ ran.ret = "success"
  <2>1. told.acked = app.acked /\ told.confirmed = app.confirmed \union work
        /\ told.discarded = app.discarded
    BY <1>1 DEF Told, Learned, Whole, AppRecord
  <2> HIDE DEF told
  <2> QED
    BY <1>0, <1>1, <2>1 DEF Whole, Counted, told
<1>2. CASE ~conn.autocommit /\ ran.ret = "success"
  <2>1. told.acked = app.acked \union work /\ told.confirmed = app.confirmed
        /\ told.discarded = app.discarded
    BY <1>2 DEF Told, Learned, Whole, AppRecord
  <2> HIDE DEF told
  <2> QED
    BY <1>2, <2>1 DEF Whole, Counted, told
<1>3. CASE ran.ret = "error"
  <2>1. /\ told.confirmed = app.confirmed /\ told.discarded = app.discarded
        /\ IF ~ran.pg.up \/ ran.rollback_on_error # "statement"
           THEN told.acked = {} ELSE told.acked = app.acked
    BY <1>3 DEF Told, Learned, Unmarked, AppRecord
  <2> HIDE DEF told
  <2>2. ran.pg.up /\ ran.rollback_on_error = "statement" => ran.pg.block # "aborted"
    <3>1. Regular(ran)
      BY DEF Whole
    <3>2. ran.transaction_state = "idle" => ran.pg.block = "idle"
      BY <3>1, RegularTidy
    <3> QED
      BY <3>1, <3>2 DEF Regular
  <2>3. CASE conn.autocommit
    BY <1>0, <1>3, <2>1, <2>2, <2>3 DEF Whole, Counted, told
  <2>4. CASE ~conn.autocommit
    <3>1. ran.pg.durable = conn.pg.durable
      BY <2>4 DEF Whole
    <3>2. ran.rollback_on_error = "statement" =>
            IF ran.pg.up THEN Pending(ran.pg) = Pending(conn.pg)
                         ELSE Pending(ran.pg) = {}
      BY <1>3, <2>4 DEF Whole
    <3>3. Pending(ran.pg) \subseteq Pending(conn.pg) \union work
      BY <1>3, <2>4 DEF Whole
    <3> QED
      BY <2>1, <2>2, <3>1, <3>2, <3>3 DEF Counted, told
  <2> QED
    BY <2>3, <2>4
<1> QED
  BY <1>0, <1>1, <1>2, <1>3

----------------------------------------------------------------------------
(* The executions                                                          *)

\* A call that has run work from its opening to its end.
Executing(ran, work) ==
  /\ Whole(conn, ran, work) /\ work \in SUBSET Work
  /\ work \intersect conn.pg.durable = {} /\ work \intersect app.discarded = {}
  /\ NoneInData /\ Connected(conn)
  /\ conn' = Forget(ran) /\ phase' = phase /\ executed' = executed
  /\ app' = Told(ran, work)

\* When an execution may start, nothing is unfinished.
LEMMA NothingUnfinished ==
  ASSUME Inv, Settled, Plainly, NEW s \in Stmts
  PROVE  /\ MayExecute(s) => NoneInData /\ Connected(conn)
         /\ NoneInData => \A t \in Stmts : phase[t] = "idle" /\ executed[t] = {}
         /\ Regular(conn) /\ conn \in ConnectionRecord
BY DEF Inv, TypeOK, Settled, SettledAt, Plainly, MayExecute, NoneInData, InData,
   NeedsData

\* Calls that leave the statement idle leave the phases as they were.
LEMMA StaysIdle ==
  ASSUME Inv, \A t \in Stmts : phase[t] = "idle", NEW s \in Stmts, NEW c,
         NEW p, p = "idle", Becomes(s, c, p)
  PROVE  conn' = Forget(c) /\ phase' = phase
<1>1. phase \in [Stmts -> Phases]
  BY DEF Inv, TypeOK
<1>2. [phase EXCEPT ![s] = p] = phase
  BY <1>1
<1>3. Outlived(c, phase) = phase
  BY <1>1, NothingOutlived
<1> QED
  BY <1>2, <1>3 DEF Becomes

\* An execution of one statement.
LEMMA SingleExecuting ==
  ASSUME Inv, Settled, Plainly, NEW s \in Stmts, ExecuteSingle(s)
  PROVE  \E ran, work : Executing(ran, work)
<1>0. /\ NoneInData /\ Connected(conn) /\ Regular(conn)
      /\ \A t \in Stmts : phase[t] = "idle"
  BY NothingUnfinished DEF ExecuteSingle
<1>1. PICK w \in Changes, outcome \in Outcomes, direct \in BOOLEAN :
        LET opened == Open(conn, "plain", phase[s], direct)
            ran    == RunSingle(opened, [work |-> w, outcome |-> outcome])
        IN  Executed(s, opened, ran, direct, w)
  BY DEF ExecuteSingle
<1> DEFINE opened == Open(conn, "plain", phase[s], direct)
           step == [work |-> w, outcome |-> outcome]
           ran == RunSingle(opened, step)
<1>2. Opened(conn, opened)
  BY <1>0, OpenOpened
<1>3. w \in SUBSET Work /\ outcome \in RunOutcomes
  BY Inputs
<1>4. Executed(s, opened, ran, direct, w)
  BY <1>1
<1> HIDE DEF opened
<1>5. opened.ret \in {"success", "error"} /\ Regular(opened)
      /\ (opened.ret = "success" => Ready(opened) /\ Connected(opened))
  BY <1>0, <1>2 DEF Opened, Regular, Good, ConnectionRecord, Connected
<1>6. IF opened.ret = "error" THEN ran = opened ELSE Effect(opened, ran, w)
  BY <1>3, <1>5, SingleEffect DEF RunSingle, RunCommand
<1> HIDE DEF ran
<1>7. Whole(conn, ran, w)
  BY <1>0, <1>2, <1>6, ExecutionWhole
<1>8. conn' = Forget(ran) /\ phase' = phase
  BY <1>0, <1>4, StaysIdle DEF Executed
<1>9. Executing(ran, w)
  BY <1>0, <1>4, <1>7, <1>8, FreshWork DEF Executing, Executed
<1> QED
  BY <1>9

\* An execution of a call with cursors.
LEMMA CallExecuting ==
  ASSUME Inv, Settled, Plainly, NEW s \in Stmts, ExecuteCall(s)
  PROVE  \E ran, work : Executing(ran, work)
<1>0. /\ NoneInData /\ Connected(conn) /\ Regular(conn)
      /\ \A t \in Stmts : phase[t] = "idle"
  BY NothingUnfinished DEF ExecuteCall
<1> DEFINE opened(direct) == Open(conn, "plain", phase[s], direct)
           step(w, outcome) == [work |-> w, outcome |-> outcome]
           ended(w, outcome, fetched, direct) ==
             RunCall(opened(direct), step(w, outcome), step({}, fetched))
<1>1. PICK w \in Changes, outcome \in NoCopy, direct \in BOOLEAN :
      \E fetched \in After(outcome = "ok", FetchOutcomes) :
        Executed(s, opened(direct), ended(w, outcome, fetched, direct), direct, w)
  BY DEF ExecuteCall
<1>2. PICK fetched \in After(outcome = "ok", FetchOutcomes) :
        Executed(s, opened(direct), ended(w, outcome, fetched, direct), direct, w)
  BY <1>1
<1>3. fetched \in RunOutcomes \ {"error", "copy_out"}
  <2>1. FetchOutcomes = NoCopy \ {"error"}
    BY DEF Plainly, FetchOutcomes
  <2> QED
    BY <2>1 DEF After, NoCopy, Outcomes, RunOutcomes
<1>4. w \in SUBSET Work /\ outcome \in RunOutcomes
  BY Inputs
<1> DEFINE first == opened(direct)
           called == RunSingle(first, step(w, outcome))
           ran == ended(w, outcome, fetched, direct)
<1>5. Opened(conn, first) /\ ran = HandleCallResult(called, step({}, fetched))
      /\ Executed(s, first, ran, direct, w)
  BY <1>0, <1>2, OpenOpened DEF RunCall
<1> HIDE DEF opened, first, ended, ran
<1>6. first.ret \in {"success", "error"} /\ Regular(first)
      /\ (first.ret = "success" => Ready(first) /\ Connected(first))
  BY <1>0, <1>5 DEF Opened, Regular, Good, ConnectionRecord, Connected
<1>7. IF first.ret = "error" THEN ran = first ELSE Effect(first, ran, w)
  <2>1. CASE first.ret = "error"
    <3>1. called = first
      BY <2>1 DEF RunSingle, RunCommand
    <3> HIDE DEF called
    <3> QED
      BY <1>5, <2>1, <3>1 DEF HandleCallResult
  <2>2. CASE first.ret = "success"
    <3>1. Effect(first, called, w)
      BY <1>4, <1>6, <2>2, SingleEffect
    <3> HIDE DEF called
    <3>2. CASE called.ret = "error"
      BY <1>5, <2>2, <3>1, <3>2 DEF HandleCallResult
    <3>3. CASE called.ret = "success"
      <4>1. ran = FetchRefcursorResults(called, step({}, fetched))
        BY <1>5, <3>3 DEF HandleCallResult
      <4>2. Effect(first, FetchRefcursorResults(called, step({}, fetched)), w)
        BY <1>3, <1>4, <1>6, <2>2, <3>1, <3>3, FetchEffect
      <4> QED
        BY <2>2, <4>1, <4>2
    <3>4. called.ret \in {"success", "error"}
      BY <3>1 DEF Effect, Regular, Good, ConnectionRecord
    <3> QED
      BY <3>2, <3>3, <3>4
  <2> QED
    BY <1>6, <2>1, <2>2
<1>8. Whole(conn, ran, w)
  BY <1>0, <1>5, <1>7, ExecutionWhole
<1>9. conn' = Forget(ran) /\ phase' = phase
  BY <1>0, <1>5, StaysIdle DEF Executed
<1>10. Executing(ran, w)
  BY <1>0, <1>5, <1>8, <1>9, FreshWork DEF Executing, Executed
<1> QED
  BY <1>10

\* An execution of two fragments.
LEMMA MultiExecuting ==
  ASSUME Inv, Settled, Plainly, NEW s \in Stmts, ExecuteMultiStatement(s)
  PROVE  \E ran, work : Executing(ran, work)
<1>0. /\ NoneInData /\ Connected(conn) /\ Regular(conn)
      /\ \A t \in Stmts : phase[t] = "idle"
  BY NothingUnfinished DEF ExecuteMultiStatement, ExecuteBoth
<1>1. PICK w \in Changes, v \in Changes, o \in NoCopy, direct \in BOOLEAN :
      \E p \in After(o = "ok", NoCopy) :
        ExecutePair(s, "multi", [work |-> w, outcome |-> o],
                                [work |-> v, outcome |-> p], direct)
  BY ZenonT(60) DEF ExecuteMultiStatement, ExecuteBoth
<1>2. PICK p \in After(o = "ok", NoCopy) :
        ExecutePair(s, "multi", [work |-> w, outcome |-> o],
                                [work |-> v, outcome |-> p], direct)
  BY <1>1
<1> DEFINE opened == Open(conn, "plain", phase[s], direct)
           first == [work |-> w, outcome |-> o]
           second == [work |-> v, outcome |-> p]
           ran == RunFragments(opened, <<first, second>>)
<1>3. Opened(conn, opened)
  BY <1>0, OpenOpened
<1>4. /\ w \in SUBSET Work /\ v \in SUBSET Work
      /\ o \in RunOutcomes /\ p \in RunOutcomes
  BY <1>2, Inputs
<1>5. Executed(s, opened, ran, direct, first.work \union second.work)
  BY <1>2 DEF ExecutePair, RunBoth
<1>6. first.work \union second.work = w \union v
  OBVIOUS
<1> HIDE DEF opened
<1>7. opened.ret \in {"success", "error"} /\ Regular(opened)
      /\ (opened.ret = "success" => Ready(opened) /\ Connected(opened))
  BY <1>0, <1>3 DEF Opened, Regular, Good, ConnectionRecord, Connected
<1>8. IF opened.ret = "error" THEN ran = opened ELSE Effect(opened, ran, w \union v)
  <2>1. CASE opened.ret = "error"
    BY <2>1 DEF RunFragments
  <2>2. CASE opened.ret = "success"
    BY <1>4, <1>7, <2>2, FragmentsEffect
  <2> QED
    BY <1>7, <2>1, <2>2
<1> HIDE DEF ran, first, second
<1>9. Whole(conn, ran, w \union v)
  BY <1>0, <1>3, <1>8, ExecutionWhole
<1>10. conn' = Forget(ran) /\ phase' = phase
  BY <1>0, <1>5, StaysIdle DEF Executed
<1>11. app' = Told(ran, w \union v) /\ executed' = executed
  BY <1>5, <1>6 DEF Executed
<1>12. Executing(ran, w \union v)
  BY <1>0, <1>4, <1>9, <1>10, <1>11, FreshWork DEF Executing
<1> QED
  BY <1>12

\* An execution keeps the invariant.
LEMMA ExecutingSettles ==
  ASSUME Inv, Settled, NEW ran, NEW work, Executing(ran, work)
  PROVE  Settled'
<1>1. Regular(conn) /\ Counted(conn.pg, app) /\ app \in AppRecord
  BY DEF Inv, TypeOK, Settled, SettledAt
<1>2. Counted(ran.pg, app')
  BY <1>1, WholeCounted DEF Executing
<1>3. Regular(ran) /\ Connected(ran)
  BY DEF Executing, Whole, Connected
<1>4. \A s \in Stmts : phase[s] = "idle" /\ executed[s] = {}
  BY DEF Executing, Settled, SettledAt, NoneInData, InData, NeedsData
<1>5. SettledAt(ran, phase', executed', app')
  BY <1>2, <1>3, <1>4 DEF Executing, SettledAt, NeedsData
<1> QED
  BY <1>5, CallSettles DEF Executing

----------------------------------------------------------------------------
(* Data at execution                                                       *)

\* The opening of an execution that needs data.
Beginning(s, opened, p) ==
  /\ Opened(conn, opened)
  /\ NoneInData /\ Connected(conn) /\ NeedsData(p)
  /\ conn' = Forget(opened)
  /\ phase' = IF opened.ret = "success" THEN [phase EXCEPT ![s] = p] ELSE phase
  /\ executed' = executed
  /\ app' = Told(opened, {})

\* The opening of a data-at-execution has sent nothing of its own.
LEMMA DataBeginning ==
  ASSUME Inv, Settled, Plainly, NEW s \in Stmts, BeginDataAtExec(s)
  PROVE  \E opened, p : Beginning(s, opened, p)
<1>0. /\ NoneInData /\ Connected(conn) /\ Regular(conn)
      /\ \A t \in Stmts : phase[t] = "idle" /\ executed[t] = {}
      /\ phase \in [Stmts -> Phases] /\ executed \in [Stmts -> SUBSET Work]
  BY NothingUnfinished DEF BeginDataAtExec, Inv, TypeOK
<1>1. PICK p \in {"data", "data_array"}, direct \in BOOLEAN :
        LET opened == Open(conn, "plain", phase[s], direct)
        IN  /\ IF opened.ret = "success"
               THEN Becomes(s, opened, p)
               ELSE Becomes(s, opened, IF direct THEN "idle" ELSE phase[s])
            /\ app' = Told(opened, {})
            /\ executed' = [executed EXCEPT ![s] = {}]
  BY DEF BeginDataAtExec
<1> DEFINE opened == Open(conn, "plain", phase[s], direct)
<1>2. Opened(conn, opened)
  BY <1>0, OpenOpened
<1>3. executed' = executed
  BY <1>0, <1>1
<1> HIDE DEF opened
<1>4. CASE opened.ret = "success"
  <2>1. Becomes(s, opened, p)
    BY <1>1, <1>4 DEF opened
  <2>2. [phase EXCEPT ![s] = p] \in [Stmts -> Phases]
    BY <1>0 DEF Phases
  <2>3. \A t \in Stmts : [phase EXCEPT ![s] = p][t] # "lo_open"
    BY <1>0
  <2>4. conn' = Forget(opened) /\ phase' = [phase EXCEPT ![s] = p]
    BY <2>1, <2>2, <2>3, NothingOutlived DEF Becomes
  <2> QED
    BY <1>0, <1>1, <1>2, <1>3, <1>4, <2>4 DEF Beginning, NeedsData, opened
<1>5. CASE opened.ret # "success"
  <2>1. Becomes(s, opened, IF direct THEN "idle" ELSE phase[s])
    BY <1>1, <1>5 DEF opened
  <2>2. conn' = Forget(opened) /\ phase' = phase
    BY <1>0, <2>1, StaysIdle
  <2> QED
    BY <1>0, <1>1, <1>2, <1>3, <1>5, <2>2 DEF Beginning, NeedsData, opened
<1> QED
  BY <1>4, <1>5

\* It keeps the invariant.
LEMMA BeginningSettles ==
  ASSUME Inv, Settled, NEW s \in Stmts, NEW opened, NEW p,
         Beginning(s, opened, p)
  PROVE  Settled'
<1>0. /\ Regular(conn) /\ Counted(conn.pg, app) /\ app \in AppRecord
      /\ \A t \in Stmts : phase[t] = "idle" /\ executed[t] = {}
      /\ phase \in [Stmts -> Phases]
  BY DEF Beginning, Inv, TypeOK, Settled, SettledAt, NoneInData, InData, NeedsData
<1>1. Regular(opened) /\ Connected(opened) /\ opened.ret \in {"success", "error"}
  BY DEF Beginning, Opened, Connected, Regular, Good, ConnectionRecord
<1>2. opened.ret = "error" => ~opened.pg.up
  BY DEF Beginning, Opened
<1>3. /\ app'.confirmed = app.confirmed /\ app'.discarded = app.discarded
      /\ app'.acked = IF opened.ret = "success" THEN app.acked ELSE {}
  BY <1>0, <1>1, <1>2 DEF Beginning, Told, Learned, Unmarked, AppRecord
<1>4. Counted(opened.pg, app')
  BY <1>0, <1>3 DEF Beginning, Opened, Counted
<1>5. CASE opened.ret = "success"
  <2>1. /\ opened.pg.up /\ ~opened.autocommit
           /\ opened.rollback_on_error = "statement" =>
             Top(opened.pg) = {} /\ Base(opened.pg) = Pending(opened.pg)
        /\ Ready(opened)
    BY <1>5 DEF Beginning, Opened, Ready
  <2>2. Supplying(opened, {}, app')
    BY <1>1, <1>4, <2>1 DEF Supplying, Counted
  <2>3. /\ \A t \in Stmts : executed'[t] = {}
        /\ phase' = [phase EXCEPT ![s] = p]
        /\ NeedsData(p)
    BY <1>0, <1>5 DEF Beginning
  <2>4. \A t \in Stmts : IF t = s THEN phase'[t] = p ELSE phase'[t] = "idle"
    BY <1>0, <2>3
  <2>5. SettledAt(opened, phase', executed', app')
    BY <1>1, <1>4, <2>2, <2>3, <2>4 DEF SettledAt, NeedsData
  <2> QED
    BY <2>5, CallSettles DEF Beginning
<1>6. CASE opened.ret = "error"
  <2>1. SettledAt(opened, phase', executed', app')
    BY <1>0, <1>1, <1>4, <1>6 DEF Beginning, SettledAt, NeedsData
  <2> QED
    BY <2>1, CallSettles DEF Beginning
<1> QED
  BY <1>1, <1>5, <1>6

\* One set of it, the last or with more to come.
Supplied(s, ran, w, more) ==
  /\ InData(s)
  /\ Effect(conn, ran, w)
  /\ ~conn.autocommit /\ ran.ret = "error" /\ ran.pg.up => Undone(conn, ran, w)
  /\ w \in Changes
  /\ more => ran.ret = "success"
  /\ conn' = Forget(ran)
  /\ phase' = [phase EXCEPT ![s] = IF more THEN phase[s] ELSE "idle"]
  /\ executed' = [executed EXCEPT ![s] = IF more THEN executed[s] \union w ELSE {}]
  /\ app' = IF more THEN app ELSE Told(ran, executed[s] \union w)

\* What RunDataAtExecSet does is such a set.
LEMMA SetSupplied ==
  ASSUME Inv, Settled, NEW s \in Stmts, RunDataAtExecSet(s)
  PROVE  \E ran, w, more : Supplied(s, ran, w, more)
<1>0. /\ InData(s) /\ Regular(conn) /\ Supplying(conn, executed[s], app)
      /\ phase \in [Stmts -> Phases]
      /\ \A t \in Stmts : phase[t] = "idle" \/ NeedsData(phase[t])
  BY DEF RunDataAtExecSet, Settled, SettledAt, InData, NeedsData, Inv, TypeOK
<1>1. PICK w \in Changes, outcome \in NoCopy, last \in BOOLEAN :
      \E end \in After(conn.autocommit /\ last /\ outcome = "ok", CommitOutcomes) :
        LET ran  == RunSuppliedSet(conn, [work |-> w, outcome |-> outcome], last,
                                   phase[s] = "data_array", end)
            more == ~last /\ ran.ret = "success"
            work == executed[s] \union w
        IN  /\ phase[s] = "data" => last
            /\ Becomes(s, ran, IF more THEN phase[s] ELSE "idle")
            /\ executed' = [executed EXCEPT ![s] = IF more THEN work ELSE {}]
            /\ app' = IF more THEN app ELSE Told(ran, work)
  BY DEF RunDataAtExecSet
<1>2. PICK end :
        LET ran  == RunSuppliedSet(conn, [work |-> w, outcome |-> outcome], last,
                                   phase[s] = "data_array", end)
            more == ~last /\ ran.ret = "success"
            work == executed[s] \union w
        IN  /\ Becomes(s, ran, IF more THEN phase[s] ELSE "idle")
            /\ executed' = [executed EXCEPT ![s] = IF more THEN work ELSE {}]
            /\ app' = IF more THEN app ELSE Told(ran, work)
  BY <1>1
<1> DEFINE array == phase[s] = "data_array"
           ran == RunSuppliedSet(conn, [work |-> w, outcome |-> outcome], last,
                                 array, end)
           more == ~last /\ ran.ret = "success"
           phases == [phase EXCEPT ![s] = IF more THEN phase[s] ELSE "idle"]
<1>3. w \in SUBSET Work /\ outcome \in RunOutcomes /\ outcome # "copy_out"
  BY Inputs DEF NoCopy
<1> HIDE DEF array
<1>4. /\ Effect(conn, ran, w)
      /\ ~conn.autocommit /\ ran.ret = "error" /\ ran.pg.up => Undone(conn, ran, w)
  BY <1>0, <1>3, SuppliedEffect DEF Supplying
<1>5. /\ Becomes(s, ran, IF more THEN phase[s] ELSE "idle")
      /\ executed' = [executed EXCEPT ![s] = IF more THEN executed[s] \union w ELSE {}]
      /\ app' = IF more THEN app ELSE Told(ran, executed[s] \union w)
  BY <1>2 DEF array
<1> HIDE DEF ran
<1>6. /\ phases \in [Stmts -> Phases]
      /\ \A t \in Stmts : phases[t] # "lo_open"
  BY <1>0 DEF Phases, NeedsData
<1>7. conn' = Forget(ran) /\ phase' = phases
  BY <1>5, <1>6, NothingOutlived DEF Becomes
<1>8. Supplied(s, ran, w, more)
  BY <1>0, <1>4, <1>5, <1>7 DEF Supplied
<1> HIDE DEF more
<1> QED
  BY <1>8

\* It keeps the invariant, with the work of all its sets told at the end.
LEMMA SuppliedSettles ==
  ASSUME Inv, Settled, NEW s \in Stmts, NEW ran, NEW w, NEW more,
         Supplied(s, ran, w, more)
  PROVE  Settled'
<1> DEFINE made == executed[s]
<1>0. /\ Regular(conn) /\ Counted(conn.pg, app) /\ app \in AppRecord
      /\ Supplying(conn, made, app) /\ Connected(conn) /\ Ready(conn)
      /\ \A t \in Stmts : t # s => phase[t] = "idle" /\ executed[t] = {}
      /\ phase \in [Stmts -> Phases] /\ executed \in [Stmts -> SUBSET Work]
      /\ NeedsData(phase[s])
  BY DEF Supplied, Inv, TypeOK, Settled, SettledAt, InData, NeedsData, Supplying
<1>1. /\ Regular(ran) /\ Connected(ran) /\ ran.ret \in {"success", "error"}
      /\ ran.autocommit = conn.autocommit
      /\ ran.rollback_on_error = conn.rollback_on_error
      /\ ran.pg.up => conn.pg.up
      /\ ran.ret = "success" => ran.pg.up /\ ran.pg.block # "aborted"
      /\ conn.autocommit \in BOOLEAN
      /\ conn.rollback_on_error \in RollbackModes
  BY <1>0 DEF Supplied, Effect, Connected, Regular, Good, ConnectionRecord
<1>2. /\ w \in SUBSET Work
      /\ w \intersect Pending(conn.pg) = {} /\ w \intersect conn.pg.durable = {}
      /\ w \intersect app.discarded = {}
  BY FreshWork DEF Supplied
<1>3. /\ conn.autocommit => Pending(conn.pg) = {} /\ Pending(ran.pg) = {}
      /\ ~ran.pg.up => Pending(ran.pg) = {}
      /\ conn.pg.up /\ ~conn.autocommit =>
           Pending(conn.pg) = Base(conn.pg) \union Top(conn.pg)
  BY <1>0, <1>1, RegularTidy DEF Ready
<1>4. CASE more
  <2>1. /\ ran.ret = "success" /\ ran.pg.up /\ conn.pg.up
        /\ executed' = [executed EXCEPT ![s] = made \union w]
        /\ phase' = phase /\ app' = app
    BY <1>0, <1>1, <1>4 DEF Supplied
  <2>2. Counted(ran.pg, app')
    BY <1>0, <1>1, <1>2, <1>3, <2>1 DEF Supplied, Effect, Counted
  <2>3. Supplying(ran, made \union w, app')
    <3>1. Ready(ran)
      BY <1>1, <2>1 DEF Supplied, Effect, Ready
    <3>2. CASE conn.autocommit
      BY <1>0, <1>1, <2>1, <3>1, <3>2 DEF Supplied, Effect, Supplying
    <3>3. CASE ~conn.autocommit
      <4>1. /\ Pending(ran.pg) = Pending(conn.pg) \union w
            /\ conn.rollback_on_error = "statement" =>
                 Base(ran.pg) = Base(conn.pg) /\ Top(ran.pg) = Top(conn.pg) \union w
        BY <2>1, <3>3 DEF Supplied, Effect
      <4> QED
        BY <1>0, <1>1, <1>2, <1>3, <2>1, <3>1, <3>3, <4>1 DEF Supplying
    <3> QED
      BY <1>1, <3>2, <3>3
  <2>4. \A t \in Stmts : IF t = s THEN executed'[t] = made \union w
                                  ELSE executed'[t] = executed[t]
    BY <1>0, <2>1
  <2> HIDE DEF made
  <2>5. SettledAt(ran, phase', executed', app')
    BY <1>0, <1>1, <2>1, <2>2, <2>3, <2>4 DEF SettledAt, NeedsData
  <2> QED
    BY <2>5, CallSettles DEF Supplied
<1>5. CASE ~more
  <2> DEFINE told == Told(ran, made \union w)
  <2>1. /\ executed' = [executed EXCEPT ![s] = {}]
        /\ phase' = [phase EXCEPT ![s] = "idle"] /\ app' = told
    BY <1>5 DEF Supplied
  <2>2. Counted(ran.pg, told)
    <3>1. CASE conn.autocommit /\ ran.ret = "success"
      <4>1. told.acked = app.acked /\ told.discarded = app.discarded
            /\ told.confirmed = app.confirmed \union made \union w
        BY <1>0, <1>1, <3>1 DEF Told, Learned, AppRecord
      <4> HIDE DEF told
      <4> QED
        BY <1>0, <1>1, <1>2, <1>3, <3>1, <4>1
           DEF Supplied, Effect, Supplying, Counted
    <3>2. CASE ~conn.autocommit /\ ran.ret = "success"
      <4>1. told.acked = app.acked \union made \union w
            /\ told.discarded = app.discarded
            /\ told.confirmed = app.confirmed
        BY <1>0, <1>1, <3>2 DEF Told, Learned, AppRecord
      <4> HIDE DEF told
      <4> QED
        BY <1>0, <1>1, <1>2, <3>2, <4>1
           DEF Supplied, Effect, Supplying, Counted
    <3>3. CASE ran.ret = "error"
      <4>1. /\ told.confirmed = app.confirmed /\ told.discarded = app.discarded
            /\ IF ~ran.pg.up \/ conn.rollback_on_error # "statement"
               THEN told.acked = {} ELSE told.acked = app.acked
        BY <1>0, <1>1, <3>3 DEF Told, Learned, Unmarked, AppRecord
      <4> HIDE DEF told
      <4>2. CASE conn.autocommit
        <5>1. ran.pg.block = "idle"
          BY <1>1, <4>2, RegularTidy
        <5> QED
          BY <1>0, <1>1, <1>2, <1>3, <4>1, <4>2, <5>1 DEF Supplied, Effect, Counted
      <4>3. CASE ~conn.autocommit /\ ~ran.pg.up
        <5>1. ran.pg.block = "idle" /\ ran.pg.durable = conn.pg.durable
          BY <1>1, <4>3, RegularTidy DEF Supplied, Effect
        <5> QED
          BY <1>0, <1>3, <4>1, <4>3, <5>1 DEF Counted
      <4>4. CASE ~conn.autocommit /\ ran.pg.up
        <5>1. Undone(conn, ran, w) /\ ran.pg.durable = conn.pg.durable
          BY <3>3, <4>4 DEF Supplied, Effect
        <5>2. conn.rollback_on_error = "statement" => ran.pg.block # "aborted"
          <6>1. ran.transaction_state = "idle" => ran.pg.block = "idle"
            BY <1>1, RegularTidy
          <6> QED
            BY <1>1, <4>4, <6>1 DEF Regular
        <5>3. Base(conn.pg) \subseteq Pending(conn.pg)
          BY <1>1, <1>3, <4>4
        <5>4. conn.rollback_on_error = "statement" => app.acked \subseteq Base(conn.pg)
          BY <1>0, <1>1, <4>4 DEF Supplying
        <5> QED
          BY <1>0, <1>1, <1>2, <4>1, <4>4, <5>1, <5>2, <5>3, <5>4
             DEF Undone, Counted, RollbackModes
      <4> QED
        BY <1>1, <4>2, <4>3, <4>4
    <3> QED
      BY <1>1, <3>1, <3>2, <3>3
  <2>3. \A t \in Stmts : phase'[t] = "idle" /\ executed'[t] = {}
    BY <1>0, <2>1
  <2> HIDE DEF told
  <2>4. SettledAt(ran, phase', executed', app')
    BY <1>1, <2>1, <2>2, <2>3 DEF SettledAt, NeedsData
  <2> QED
    BY <2>4, CallSettles DEF Supplied
<1> QED
  BY <1>4, <1>5

----------------------------------------------------------------------------
(* The ends of a transaction, and the link                                 *)

\* The transaction is over: all of its work is committed, or none.
Ends(c, ended) ==
  /\ Regular(ended) /\ ended.state = c.state
  /\ ended.autocommit = c.autocommit
  /\ ended.rollback_on_error = c.rollback_on_error
  /\ ended.transaction_state = "idle"
  /\ ended.pg.block = "idle" /\ Pending(ended.pg) = {}
  /\ ended.pg.durable \in {c.pg.durable, c.pg.durable \union Pending(c.pg)}

\* What the commands that end a block leave.
LEMMA BlockOver ==
  ASSUME NEW pg, Tidy(pg), ~pg.up => pg.block = "idle",
         NEW outcome \in CommitOutcomes
  PROVE  LET committed == Commit(pg, outcome)
             undone    == Rollback(pg)
         IN  /\ committed.stack = <<>> /\ undone.stack = <<>>
             /\ committed.durable \in {pg.durable, pg.durable \union Pending(pg)}
             /\ undone.durable = pg.durable
             /\ committed.reply = "ok" =>
                  \/ committed.durable = pg.durable \union Pending(pg)
                  \/ pg.block = "aborted"
<1>0. pg \in Session
  BY DEF Tidy, SessionInv
<1>1. pg.block = "idle" => Pending(pg) = {} /\ pg.stack = <<>>
  BY <1>0, PendingOfShape DEF Tidy
<1>2. Rollback(pg).stack = <<>> /\ Rollback(pg).durable = pg.durable
  BY <1>0, <1>1 DEF Rollback, EndBlock, Answer, Session
<1>3. CASE ~pg.up
  <2>1. Commit(pg, outcome) = Answer(pg, "null")
    BY <1>3 DEF Commit
  <2> QED
    BY <1>0, <1>1, <1>2, <1>3, <2>1 DEF Answer, Session
<1>4. CASE pg.up
  <2> DEFINE made == IF pg.block = "open" THEN Pending(pg) ELSE {}
  <2>1. Commit(pg, outcome) \in {Lost(pg), Lost(EndBlock(pg, made)),
                                 Answer(EndBlock(pg, {}), "error"),
                                 EndBlock(pg, made)}
    BY <1>4 DEF Commit
  <2>2. \/ pg.durable \union made = pg.durable \union Pending(pg)
        \/ pg.block = "aborted" /\ pg.durable \union made = pg.durable
    BY <1>0, <1>1 DEF Session
  <2> HIDE DEF made
  <2>3. /\ Lost(pg).stack = <<>> /\ Lost(pg).durable = pg.durable
        /\ Lost(pg).reply = "error"
    BY <1>0 DEF Lost, Session
  <2>4. /\ EndBlock(pg, made).stack = <<>>
        /\ EndBlock(pg, made).durable = pg.durable \union made
        /\ EndBlock(pg, {}).durable = pg.durable
        /\ EndBlock(pg, {}).stack = <<>>
    BY <1>0 DEF EndBlock, Session
  <2>5. LET lost == Lost(EndBlock(pg, made))
        IN  /\ lost.stack = <<>> /\ lost.durable = pg.durable \union made
            /\ lost.reply = "error"
    BY <1>0 DEF EndBlock, Lost, Session
  <2>6. LET refused == Answer(EndBlock(pg, {}), "error")
        IN  /\ refused.stack = <<>> /\ refused.durable = pg.durable
            /\ refused.reply = "error"
    BY <1>0 DEF EndBlock, Answer, Session
  <2> QED
    BY <1>2, <2>1, <2>2, <2>3, <2>4, <2>5, <2>6
<1> QED
  BY <1>3, <1>4

\* connection_commit and connection_rollback.
LEMMA TransactionEnds ==
  ASSUME NEW c, Regular(c), Connected(c), NEW outcome \in CommitOutcomes
  PROVE  LET committed == CommitTransaction(c, outcome)
             undone    == RollbackTransaction(c)
         IN  /\ Ends(c, committed) /\ Ends(c, undone)
             /\ committed.ret = "success" =>
                  \/ committed.pg.durable = c.pg.durable \union Pending(c.pg)
                  \/ c.pg.block = "aborted"
             /\ undone.pg.durable = c.pg.durable
<1>0. c \in ConnectionRecord /\ c.pg \in Session
      /\ Tidy(c.pg) /\ (~c.pg.up => c.pg.block = "idle")
      /\ Good(CommitTransaction(c, outcome)) /\ Good(RollbackTransaction(c))
  BY RegularTidy, CommitTransactionGood, RollbackTransactionGood DEF Regular, Good
<1>1. CASE c.transaction_state = "idle"
  <2> DEFINE r == Return(c, "success")
  <2>1. CommitTransaction(c, outcome) = r /\ RollbackTransaction(c) = r
    BY <1>1 DEF CommitTransaction, RollbackTransaction
  <2>2. /\ r.pg = c.pg /\ r.state = c.state /\ r.autocommit = c.autocommit
        /\ r.rollback_on_error = c.rollback_on_error
        /\ r.transaction_state = "idle"
    BY <1>0, <1>1 DEF Return, ConnectionRecord
  <2>3. Good(r)
    BY <1>0, <2>1
  <2> HIDE DEF r
  <2>4. c.pg.block = "idle" /\ Pending(c.pg) = {}
    BY <1>1, RegularTidy
  <2>5. Regular(r)
    BY <2>2, <2>3, <2>4 DEF Regular
  <2>6. Ends(c, r)
    BY <2>2, <2>4, <2>5 DEF Ends
  <2> QED
    BY <2>1, <2>2, <2>4, <2>6
<1>2. CASE c.transaction_state # "idle"
  <2>1. ASSUME NEW pg, NEW ended, Good(ended),
               ended = EnterTransactionState(ReturnAnswer(c, pg), "idle"),
               pg.stack = <<>>,
               pg.durable \in {c.pg.durable, c.pg.durable \union Pending(c.pg)}
        PROVE  /\ Ends(c, ended) /\ ended.pg = pg
               /\ ended.ret = "success" => pg.reply = "ok"
    <3>1. /\ ended.pg = pg /\ ended.state = c.state
          /\ ended.autocommit = c.autocommit
          /\ ended.rollback_on_error = c.rollback_on_error
          /\ ended.transaction_state = "idle"
          /\ ended.ret = IF pg.reply = "ok" THEN "success" ELSE "error"
      BY <1>0, <2>1 DEF EnterTransactionState, ReturnAnswer, ConnectionRecord
    <3>2. Pending(pg) = {} /\ pg.block = "idle"
      BY <2>1, <3>1 DEF Pending, Good
    <3>3. Regular(ended)
      BY <2>1, <3>1 DEF Regular
    <3> QED
      BY <2>1, <3>1, <3>2, <3>3 DEF Ends
  <2> DEFINE committed == Commit(c.pg, outcome)
             undone == Rollback(c.pg)
  <2>2. /\ committed.stack = <<>> /\ undone.stack = <<>>
        /\ committed.durable \in {c.pg.durable, c.pg.durable \union Pending(c.pg)}
        /\ undone.durable = c.pg.durable
        /\ committed.reply = "ok" =>
             \/ committed.durable = c.pg.durable \union Pending(c.pg)
             \/ c.pg.block = "aborted"
    BY <1>0, BlockOver
  <2>3. /\ CommitTransaction(c, outcome) =
             EnterTransactionState(ReturnAnswer(c, committed), "idle")
        /\ RollbackTransaction(c) =
             EnterTransactionState(ReturnAnswer(c, undone), "idle")
    BY <1>2 DEF CommitTransaction, RollbackTransaction
  <2> HIDE DEF committed, undone
  <2>4. /\ Ends(c, CommitTransaction(c, outcome))
        /\ CommitTransaction(c, outcome).pg = committed
        /\ CommitTransaction(c, outcome).ret = "success" => committed.reply = "ok"
    BY <1>0, <2>1, <2>2, <2>3
  <2>5. Ends(c, RollbackTransaction(c)) /\ RollbackTransaction(c).pg = undone
    BY <1>0, <2>1, <2>2, <2>3
  <2> QED
    BY <2>2, <2>4, <2>5
<1> QED
  BY <1>1, <1>2

\* SQLSetConnectAttr(SQL_ATTR_AUTOCOMMIT) ends a transaction when it turns
\* autocommit on.
LEMMA AutocommitEnds ==
  ASSUME NEW c, Regular(c), Connected(c), NEW outcome \in CommitOutcomes
  PROVE  LET changed == SetAutocommit(c, ~c.autocommit, outcome)
         IN  /\ Regular(changed) /\ changed.state = c.state
             /\ changed.rollback_on_error = c.rollback_on_error
             /\ changed.transaction_state = "idle"
             /\ changed.pg.block = "idle" /\ Pending(changed.pg) = {}
             /\ changed.pg.durable \in
                  {c.pg.durable, c.pg.durable \union Pending(c.pg)}
             /\ changed.ret = "success" =>
                  CASE c.transaction_state = "active" ->
                         \/ changed.pg.durable = c.pg.durable \union Pending(c.pg)
                         \/ c.pg.block = "aborted"
                    [] OTHER -> changed.pg.durable = c.pg.durable
<1> DEFINE on == ~c.autocommit
           changed == SetAutocommit(c, on, outcome)
<1>0. c \in ConnectionRecord /\ c.pg \in Session /\ on \in BOOLEAN
      /\ Good(changed) /\ (c.autocommit => c.transaction_state = "idle")
  <2>1. /\ Good(c) /\ c \in ConnectionRecord /\ c.pg \in Session
        /\ (c.autocommit => c.transaction_state = "idle")
    BY DEF Regular, Good, ConnectionRecord
  <2>2. on \in BOOLEAN
    OBVIOUS
  <2> HIDE DEF on
  <2>3. Good(changed)
    BY <2>1, <2>2, SetAutocommitGood
  <2> QED
    BY <2>1, <2>2, <2>3
<1>1. CASE c.transaction_state = "idle"
  <2>1. changed = [Return(c, "success") EXCEPT !.autocommit = on]
    BY <1>1 DEF SetAutocommit
  <2>2. /\ changed.pg = c.pg /\ changed.state = c.state
        /\ changed.rollback_on_error = c.rollback_on_error
        /\ changed.transaction_state = "idle"
    BY <1>0, <1>1, <2>1 DEF Return, ConnectionRecord
  <2>3. c.pg.block = "idle" /\ Pending(c.pg) = {} /\ c.pg.stack = <<>>
    BY <1>1, RegularTidy DEF Regular
  <2> HIDE DEF changed
  <2>4. Regular(changed)
    BY <1>0, <2>2, <2>3 DEF Regular
  <2> QED
    BY <1>1, <2>2, <2>3, <2>4 DEF changed
<1>2. CASE c.transaction_state # "idle"
  <2> DEFINE undone == RollbackTransaction(c)
             committed == CommitTransaction(c, outcome)
             ended == IF c.transaction_state = "failed" THEN Return(undone, "success")
                                                        ELSE committed
  <2>1. /\ Ends(c, committed) /\ Ends(c, undone)
        /\ committed.ret = "success" =>
             \/ committed.pg.durable = c.pg.durable \union Pending(c.pg)
             \/ c.pg.block = "aborted"
        /\ undone.pg.durable = c.pg.durable
    BY TransactionEnds
  <2>2. on = TRUE /\ ~c.autocommit
    BY <1>0, <1>2
  <2>3. changed = IF ended.ret = "error" THEN ended
                                         ELSE [ended EXCEPT !.autocommit = TRUE]
    BY <1>2, <2>2 DEF SetAutocommit
  <2> HIDE DEF undone, committed
  <2>4. Ends(c, Return(undone, "success"))
        /\ Return(undone, "success").pg = undone.pg
    <3> DEFINE r == Return(undone, "success")
    <3>1. undone \in ConnectionRecord /\ Good(undone) /\ Regular(undone)
      BY <2>1 DEF Ends, Regular, Good
    <3>2. /\ r.pg = undone.pg /\ r.state = undone.state
          /\ r.autocommit = undone.autocommit
          /\ r.transaction_state = undone.transaction_state
          /\ r.rollback_on_error = undone.rollback_on_error
          /\ r.statement_savepoint_active = undone.statement_savepoint_active
      BY <3>1 DEF Return, ConnectionRecord
    <3>3. Good(r)
      BY <3>1, ReturnGood
    <3> HIDE DEF r
    <3>4. Regular(r)
      BY <3>1, <3>2, <3>3 DEF Regular
    <3>5. Ends(c, r)
      BY <2>1, <3>2, <3>4 DEF Ends
    <3> QED
      BY <3>2, <3>5 DEF r
  <2>5. /\ Ends(c, ended)
        /\ ended.ret = "success" =>
             CASE c.transaction_state = "active" ->
                    \/ ended.pg.durable = c.pg.durable \union Pending(c.pg)
                    \/ c.pg.block = "aborted"
               [] OTHER -> ended.pg.durable = c.pg.durable
    <3>1. c.transaction_state \in {"active", "failed"}
      BY <1>0, <1>2 DEF ConnectionRecord, TransactionStates
    <3> QED
      BY <2>1, <2>4, <3>1
  <2> HIDE DEF ended
  <2>6. ended \in ConnectionRecord /\ Regular(ended)
    BY <2>5 DEF Ends, Regular, Good
  <2>7. /\ changed.pg = ended.pg /\ changed.state = ended.state
        /\ changed.rollback_on_error = ended.rollback_on_error
        /\ changed.transaction_state = "idle" /\ changed.ret = ended.ret
    BY <2>3, <2>5, <2>6 DEF Ends, ConnectionRecord
  <2> HIDE DEF changed
  <2>8. Regular(changed)
    <3>1. ended.pg.stack = <<>> /\ ended.pg.block = "idle"
      BY <2>5, <2>6 DEF Ends, Regular
    <3> QED
      BY <1>0, <2>7, <3>1 DEF Regular
  <2> QED
    BY <2>5, <2>7, <2>8 DEF Ends, changed
<1> QED
  BY <1>1, <1>2

\* The end of a transaction keeps the invariant, whatever the application is told
\* of it that is true.
LEMMA OverSettles ==
  ASSUME Inv, Settled, NoneInData, Connected(conn),
         NEW ended, Regular(ended), ended.state = conn.state,
         ended.pg.block = "idle", Pending(ended.pg) = {},
         ended.pg.durable \in
           {conn.pg.durable, conn.pg.durable \union Pending(conn.pg)},
         conn' = Forget(ended), phase' = Outlived(ended, phase),
         executed' = executed,
         app'.acked = {},
         \/ app'.confirmed = app.confirmed
         \/ /\ app'.confirmed = app.confirmed \union app.acked
            /\ \/ ended.pg.durable = conn.pg.durable \union Pending(conn.pg)
               \/ app.acked = {},
         \/ app'.discarded = app.discarded
         \/ /\ app'.discarded = app.discarded \union app.acked
            /\ ended.pg.durable = conn.pg.durable
  PROVE  Settled'
<1>1. /\ Counted(conn.pg, app)
      /\ \A s \in Stmts : phase[s] = "idle" /\ executed[s] = {}
      /\ phase \in [Stmts -> Phases]
  BY DEF Inv, TypeOK, Settled, SettledAt, NoneInData, InData, NeedsData
<1>2. phase' = phase
  BY <1>1, NothingOutlived
<1>3. Counted(ended.pg, app')
  BY <1>1 DEF Counted
<1>4. SettledAt(ended, phase', executed', app')
  BY <1>1, <1>2, <1>3 DEF SettledAt, NeedsData, Connected
<1> QED
  BY <1>4, CallSettles

\* SQLEndTran.
LEMMA EndSettles ==
  ASSUME Inv, Settled, EndTransaction
  PROVE  Settled'
<1>0. /\ Regular(conn) /\ Connected(conn) /\ NoneInData
      /\ Counted(conn.pg, app) /\ app \in AppRecord
  BY DEF Inv, TypeOK, Settled, SettledAt, EndTransaction
<1>1. PICK commit \in BOOLEAN, outcome \in CommitOutcomes :
        LET ended == IF commit THEN CommitTransaction(conn, outcome)
                               ELSE RollbackTransaction(conn)
        IN  /\ conn' = Forget(ended)
            /\ phase' = Outlived(ended, phase)
            /\ app' = Finished(ended.ret, commit)
            /\ UNCHANGED executed
  BY DEF EndTransaction
<1> DEFINE ended == IF commit THEN CommitTransaction(conn, outcome)
                              ELSE RollbackTransaction(conn)
<1>2. /\ Ends(conn, ended)
      /\ commit /\ ended.ret = "success" =>
           \/ ended.pg.durable = conn.pg.durable \union Pending(conn.pg)
           \/ conn.pg.block = "aborted"
      /\ ~commit => ended.pg.durable = conn.pg.durable
  BY <1>0, TransactionEnds
<1>3. /\ conn' = Forget(ended)
      /\ phase' = Outlived(ended, phase)
      /\ app' = Finished(ended.ret, commit)
      /\ executed' = executed
  BY <1>1
<1> HIDE DEF ended
<1>4. ended.ret \in {"success", "error"}
  BY <1>2 DEF Ends, Regular, Good, ConnectionRecord
<1>5. /\ app'.acked = {}
      /\ app'.confirmed = IF ended.ret = "success" /\ commit
                          THEN app.confirmed \union app.acked ELSE app.confirmed
      /\ app'.discarded = IF ended.ret = "success" /\ ~commit
                          THEN app.discarded \union app.acked ELSE app.discarded
  BY <1>0, <1>3, <1>4 DEF Finished, Unmarked, AppRecord
<1>6. conn.pg.block = "aborted" => app.acked = {}
  BY <1>0 DEF Counted
<1> QED
  BY <1>0, <1>2, <1>3, <1>5, <1>6, OverSettles DEF Ends

\* SQLSetConnectAttr(SQL_ATTR_AUTOCOMMIT).
LEMMA AutocommitSettles ==
  ASSUME Inv, Settled, ChangeAutocommit
  PROVE  Settled'
<1>0. /\ Regular(conn) /\ Connected(conn) /\ NoneInData
      /\ Counted(conn.pg, app) /\ app \in AppRecord
      /\ conn.autocommit => app.acked = {}
  <2>1. /\ Regular(conn) /\ Connected(conn) /\ NoneInData
        /\ Counted(conn.pg, app) /\ app \in AppRecord
    BY DEF Inv, TypeOK, Settled, SettledAt, ChangeAutocommit
  <2> QED
    BY <2>1, RegularTidy DEF Counted
<1>1. PICK outcome \in CommitOutcomes :
        LET changed == SetAutocommit(conn, ~conn.autocommit, outcome)
            commits == changed.ret = "success" /\ conn.transaction_state = "active"
        IN  /\ conn' = Forget(changed)
            /\ phase' = Outlived(changed, phase)
            /\ app' = IF conn.autocommit THEN app
                      ELSE Finished(IF commits THEN "success" ELSE "error", TRUE)
            /\ UNCHANGED executed
  BY DEF ChangeAutocommit
<1> DEFINE changed == SetAutocommit(conn, ~conn.autocommit, outcome)
           commits == changed.ret = "success" /\ conn.transaction_state = "active"
<1>2. /\ Regular(changed) /\ changed.state = conn.state
      /\ changed.pg.block = "idle" /\ Pending(changed.pg) = {}
      /\ changed.pg.durable \in
           {conn.pg.durable, conn.pg.durable \union Pending(conn.pg)}
      /\ commits =>
           \/ changed.pg.durable = conn.pg.durable \union Pending(conn.pg)
           \/ conn.pg.block = "aborted"
  BY <1>0, AutocommitEnds
<1>3. /\ conn' = Forget(changed)
      /\ phase' = Outlived(changed, phase)
      /\ app' = IF conn.autocommit THEN app
                ELSE Finished(IF commits THEN "success" ELSE "error", TRUE)
      /\ executed' = executed
  BY <1>1
<1> HIDE DEF changed, commits
<1>4. /\ app'.acked = {}
      /\ app'.confirmed = IF ~conn.autocommit /\ commits
                          THEN app.confirmed \union app.acked ELSE app.confirmed
      /\ app'.discarded = app.discarded
  BY <1>0, <1>3 DEF Finished, Unmarked, AppRecord
<1>5. conn.pg.block = "aborted" => app.acked = {}
  BY <1>0 DEF Counted
<1> QED
  BY <1>0, <1>2, <1>3, <1>4, <1>5, OverSettles

\* The link breaks, also in the middle of a data-at-execution.
LEMMA BreakSettles ==
  ASSUME Inv, Settled, BreakLink
  PROVE  Settled'
<1> DEFINE broken == [conn EXCEPT !.pg = Lost(@)]
           pg == Lost(conn.pg)
<1>0. /\ Regular(conn) /\ Counted(conn.pg, app) /\ app \in AppRecord
      /\ conn \in ConnectionRecord /\ conn.pg \in Session /\ Good(broken)
      /\ \A s \in Stmts : phase[s] # "lo_open"
      /\ phase \in [Stmts -> Phases]
  BY LinkGood DEF Inv, TypeOK, Settled, SettledAt, Regular, Good,
     ConnectionRecord, NeedsData
<1>1. /\ ~pg.up /\ pg.block = "idle" /\ pg.stack = <<>>
      /\ pg.durable = conn.pg.durable
  BY <1>0, LostShape
<1> HIDE DEF pg
<1>2. /\ broken.pg = pg /\ broken.state = conn.state
      /\ broken.autocommit = conn.autocommit
      /\ broken.rollback_on_error = conn.rollback_on_error
      /\ broken.transaction_state = conn.transaction_state
  BY <1>0 DEF ConnectionRecord, pg
<1>3. /\ conn' = Forget(broken) /\ app' = Unmarked(app) /\ executed' = executed
      /\ phase' = phase
  <2>1. conn' = Forget(broken) /\ app' = Unmarked(app) /\ executed' = executed
        /\ phase' = Outlived(conn', phase)
    BY DEF BreakLink
  <2> QED
    BY <1>0, <2>1, NothingOutlived
<1> HIDE DEF broken
<1>4. Regular(broken) /\ Pending(pg) = {}
  BY <1>0, <1>1, <1>2 DEF Regular, Pending
<1>5. /\ app'.acked = {} /\ app'.confirmed = app.confirmed
      /\ app'.discarded = app.discarded
  BY <1>0, <1>3 DEF Unmarked, AppRecord
<1>6. Counted(pg, app')
  BY <1>0, <1>1, <1>4, <1>5 DEF Counted
<1>7. \A s \in Stmts : Supplying(conn, executed[s], app)
                       => Supplying(broken, executed[s], app')
  BY <1>1, <1>2 DEF Supplying, Connected, Ready
<1>8. SettledAt(broken, phase', executed', app')
  BY <1>2, <1>3, <1>4, <1>6, <1>7 DEF Settled, SettledAt, Connected
<1> QED
  BY <1>3, <1>8, CallSettles

\* SQLDisconnect, outside a transaction.
LEMMA DisconnectSettles ==
  ASSUME Inv, Settled, Plainly, DisconnectLink
  PROVE  Settled'
<1> DEFINE closed == Disconnect(conn)
           pg == Lost(conn.pg)
<1>0. /\ Regular(conn) /\ Counted(conn.pg, app) /\ app \in AppRecord
      /\ conn \in ConnectionRecord /\ conn.pg \in Session /\ Good(closed)
      /\ \A s \in Stmts : phase[s] = "idle" /\ executed[s] = {}
      /\ phase \in [Stmts -> Phases] /\ conn.transaction_state = "idle"
  BY LinkGood DEF Inv, TypeOK, Settled, SettledAt, Regular, Good,
     ConnectionRecord, NeedsData, DisconnectLink, NoneInData, InData, Plainly
<1>1. /\ ~pg.up /\ pg.block = "idle" /\ pg.stack = <<>>
      /\ pg.durable = conn.pg.durable
  BY <1>0, LostShape
<1> HIDE DEF pg
<1>2. /\ closed.pg = pg /\ closed.autocommit = conn.autocommit
      /\ closed.transaction_state = "idle"
  BY <1>0 DEF Disconnect, Return, ConnectionRecord, pg
<1>3. /\ conn' = Forget(closed) /\ app' = Unmarked(app) /\ executed' = executed
      /\ phase' = phase
  <2>1. conn' = Forget(closed) /\ app' = Unmarked(app) /\ executed' = executed
        /\ phase' = Outlived(conn', phase)
    BY DEF DisconnectLink
  <2> QED
    BY <1>0, <2>1, NothingOutlived
<1> HIDE DEF closed
<1>4. Regular(closed) /\ Pending(pg) = {}
  BY <1>0, <1>1, <1>2 DEF Regular, Pending
<1>5. /\ app'.acked = {} /\ app'.confirmed = app.confirmed
      /\ app'.discarded = app.discarded
  BY <1>0, <1>3 DEF Unmarked, AppRecord
<1>6. Counted(pg, app')
  BY <1>0, <1>1, <1>4, <1>5 DEF Counted
<1>7. SettledAt(closed, phase', executed', app')
  BY <1>0, <1>2, <1>3, <1>4, <1>6 DEF SettledAt, NeedsData
<1> QED
  BY <1>3, <1>7, CallSettles

\* SQLDriverConnect begins with a fresh session and the committed work.
LEMMA ConnectSettles ==
  ASSUME Inv, Settled, ConnectLink
  PROVE  Settled'
<1> DEFINE opened == Connect(conn)
           pg == FreshSession(conn.pg.durable)
<1>0. /\ Regular(conn) /\ Counted(conn.pg, app) /\ ~Connected(conn)
      /\ conn \in ConnectionRecord /\ conn.pg \in Session /\ Good(opened)
      /\ \A s \in Stmts : phase[s] = "idle" /\ executed[s] = {}
      /\ conn.transaction_state = "idle"
  BY LinkGood DEF Inv, TypeOK, Settled, SettledAt, Regular, Good,
     ConnectionRecord, NeedsData, ConnectLink, Supplying
<1>1. /\ pg.up /\ pg.block = "idle" /\ pg.stack = <<>> /\ pg.reply = "ok"
      /\ pg.durable = conn.pg.durable
  BY DEF FreshSession
<1>2. pg = Answer(pg, "ok")
  <2>1. pg \in Session
    BY <1>0, EmptySeq DEF FreshSession, Session, Replies
  <2> HIDE DEF pg
  <2> QED
    BY <1>1, <2>1 DEF Answer, Session
<1> HIDE DEF pg
<1>3. /\ opened.pg = pg /\ opened.state = "connected"
      /\ opened.autocommit = conn.autocommit
      /\ opened.transaction_state = "idle"
  BY <1>0 DEF Connect, Return, ConnectionRecord, pg
<1>4. opened = Forget(opened)
  <2>1. opened \in ConnectionRecord
    BY <1>0 DEF Good
  <2> HIDE DEF opened
  <2> QED
    BY <1>2, <1>3, <2>1 DEF Forget, ConnectionRecord
<1>5. conn' = opened /\ phase' = phase /\ executed' = executed /\ app' = app
  BY DEF ConnectLink
<1> HIDE DEF opened
<1>6. Regular(opened) /\ Pending(pg) = {}
  BY <1>0, <1>1, <1>3 DEF Regular, Pending
<1>7. Counted(pg, app')
  <2>1. app.acked = {}
    BY <1>0, RegularTidy DEF Counted
  <2> QED
    BY <1>0, <1>1, <1>5, <1>6, <2>1 DEF Counted
<1>8. SettledAt(opened, phase', executed', app')
  BY <1>0, <1>3, <1>5, <1>6, <1>7 DEF SettledAt, NeedsData
<1>9. conn' = Forget(opened)
  BY <1>4, <1>5
<1> QED
  BY <1>8, <1>9, CallSettles

----------------------------------------------------------------------------
(* The theorems                                                            *)

\* The calls the application keeps to.
LEMMA PlainCalls ==
  ASSUME Settled, Plainly, NEW s \in Stmts, OnStatement(s)
  PROVE  \/ ExecuteSingle(s)
         \/ ExecuteCall(s)
         \/ ExecuteMultiStatement(s)
         \/ BeginDataAtExec(s)
         \/ RunDataAtExecSet(s)
<1>1. /\ "array" \notin Ops /\ "exempt" \notin Ops /\ "savepoint" \notin Ops
      /\ "text" \notin Ops /\ "prepare" \notin Ops /\ "unmanaged" \notin Ops
      /\ "lo_inline" \notin Ops /\ "lo_put" \notin Ops /\ "lo_read" \notin Ops
  BY DEF Plainly
<1>2. phase[s] \notin {"deferred", "lo_open", "lo_stale"}
  BY DEF Settled, SettledAt, NeedsData
<1> QED
  BY <1>1, <1>2 DEF OnStatement, ExecuteParameterArray, ExecuteBoth,
     ExecuteExempt, ExecuteSavepointCommand, ExecuteTransactionText, Prepare,
     ExecuteDeferred, ExecuteUnmanaged, ExecuteWithLargeObject, PutLargeObject,
     ReadLargeObject, ReadRest, CloseCursor

\* The first connection has no transaction and no work.
LEMMA InitSettled == Init => Settled
<1> SUFFICES ASSUME Init PROVE Settled
  OBVIOUS
<1>0. Good(conn)
  BY InitInv DEF Inv
<1>1. /\ conn.state = "connected" /\ conn.autocommit
      /\ conn.transaction_state = "idle" /\ conn.pg = FreshSession({})
  BY DEF Init
<1>2. /\ conn.pg.block = "idle" /\ conn.pg.stack = <<>> /\ conn.pg.durable = {}
  BY <1>1 DEF FreshSession
<1>3. Regular(conn) /\ Pending(conn.pg) = {}
  BY <1>0, <1>1, <1>2 DEF Regular, Pending
<1>4. Counted(conn.pg, app)
  BY <1>2, <1>3 DEF Init, Counted
<1>5. \A s \in Stmts : phase[s] = "idle" /\ executed[s] = {}
  BY DEF Init
<1> QED
  BY <1>1, <1>3, <1>4, <1>5 DEF Settled, SettledAt, NeedsData, Connected

\* Every step of such an application keeps the invariant.
LEMMA NextSettles ==
  ASSUME Plainly, Inv, Settled, [Next]_vars
  PROVE  Settled'
<1>1. ASSUME NEW s \in Stmts, OnStatement(s)
      PROVE  Settled'
  <2>1. CASE ExecuteSingle(s)
    BY <2>1, SingleExecuting, ExecutingSettles
  <2>2. CASE ExecuteMultiStatement(s)
    BY <2>2, MultiExecuting, ExecutingSettles
  <2>3. CASE BeginDataAtExec(s)
    BY <2>3, DataBeginning, BeginningSettles
  <2>4. CASE RunDataAtExecSet(s)
    BY <2>4, SetSupplied, SuppliedSettles
  <2>5. CASE ExecuteCall(s)
    BY <2>5, CallExecuting, ExecutingSettles
  <2> QED
    BY <1>1, <2>1, <2>2, <2>3, <2>4, <2>5, PlainCalls
<1>2. CASE UNCHANGED vars
  BY <1>2 DEF vars, Settled, SettledAt, Counted, Supplying, NeedsData, Regular,
     Ready, Good, SessionInv, Connected, ConnectionRecord, Session, Level,
     Replies, Names, TransactionStates, RollbackModes, Guarded, Plain, Pending,
     Top, Base
<1> QED
  BY <1>1, <1>2, EndSettles, AutocommitSettles, BreakSettles,
     DisconnectSettles, ConnectSettles DEF Next

\* The driver and the server agree on the transaction, and the application on its
\* work with both.
THEOREM SettledThroughout == ASSUME Plainly PROVE Spec => []Settled
<1>1. Settled /\ Inv /\ [Next]_vars => Settled'
  BY NextSettles
<1> QED
  BY <1>1, InitSettled, Invariance, PTL DEF Spec

\* A later statement that fails, of the same handle or of another, takes nothing
\* away of what an earlier one reported as done in the open transaction.
THEOREM AcknowledgedStands ==
  ASSUME Plainly PROVE Spec => []AcknowledgedWorkStands
<1>1. Settled => AcknowledgedWorkStands
  BY DEF Settled, SettledAt, Counted, AcknowledgedWorkStands
<1> QED
  BY <1>1, SettledThroughout, PTL

\* What SQLEndTran, turning autocommit on, or a success under autocommit told the
\* application is committed, is.
THEOREM ConfirmedIsDurable == ASSUME Plainly PROVE Spec => []CommitIsDurable
<1>1. Settled => CommitIsDurable
  BY DEF Settled, SettledAt, Counted, CommitIsDurable
<1> QED
  BY <1>1, SettledThroughout, PTL

\* What SQLEndTran(SQL_ROLLBACK) confirmed never becomes durable.
THEOREM DiscardedStaysAway == ASSUME Plainly PROVE Spec => []RollbackIsFinal
<1>1. Settled => RollbackIsFinal
  BY DEF Settled, SettledAt, Counted, RollbackIsFinal
<1> QED
  BY <1>1, SettledThroughout, PTL

\* With a recovery configured no error leaves a failed or aborted transaction.
THEOREM ErrorsRecovered == ASSUME Plainly PROVE Spec => []ErrorsAreRecovered
<1>1. Settled => ErrorsAreRecovered
  BY DEF Settled, SettledAt, Regular, Good, ErrorsAreRecovered
<1> QED
  BY <1>1, SettledThroughout, PTL

----------------------------------------------------------------------------
(* The refinement                                                          *)

\* The unit of work of the abstract specification.
UnitPending == Pending(conn.pg) \ UNION {executed[s] : s \in Stmts}

\* A call that ends with connection c, in the terms of the unit.
LEMMA UnitAfter ==
  ASSUME NEW c, c \in ConnectionRecord, conn' = Forget(c)
  PROVE  /\ conn'.pg.durable = c.pg.durable /\ conn'.ret = c.ret
         /\ conn'.rollback_on_error = c.rollback_on_error
         /\ UnitPending' =
              Pending(c.pg) \ UNION {executed'[s] : s \in Stmts}
<1> DEFINE d == Forget(c)
<1>1. c.pg \in Session
  BY DEF ConnectionRecord
<1>2. /\ d.pg.durable = c.pg.durable /\ d.ret = c.ret /\ d.pg.stack = c.pg.stack
      /\ d.rollback_on_error = c.rollback_on_error
  BY <1>1 DEF Forget, Answer, ConnectionRecord, Session
<1> HIDE DEF d
<1>3. Pending(d.pg) = Pending(c.pg)
  BY <1>2 DEF Pending
<1>4. conn' = d
  BY DEF d
<1>5. UnitPending' = Pending(conn'.pg) \ UNION {executed'[s] : s \in Stmts}
  BY DEF UnitPending, Pending
<1> QED
  BY <1>2, <1>3, <1>4, <1>5

\* An execution adds its work to the unit, leaves the unit as it was, or is the
\* end of it.
LEMMA ExecutingUnit ==
  ASSUME Inv, Settled, conn.rollback_on_error # "nothing",
         NEW ran, NEW work, Executing(ran, work)
  PROVE  Unit!Next /\ conn'.rollback_on_error # "nothing"
<1>0. /\ Regular(conn) /\ Regular(ran) /\ ran \in ConnectionRecord
      /\ ran.ret \in {"success", "error"} /\ work \in SUBSET Work
      /\ conn.autocommit \in BOOLEAN
      /\ conn.autocommit => Pending(conn.pg) = {}
      /\ \A s \in Stmts : executed[s] = {}
      /\ ran.rollback_on_error = conn.rollback_on_error
  BY RegularTidy DEF Executing, Whole, Regular, Good, ConnectionRecord, Settled,
     SettledAt, NoneInData, InData, NeedsData
<1>1. UNION {executed[s] : s \in Stmts} = {}
  BY <1>0
<1>2. /\ conn'.pg.durable = ran.pg.durable /\ conn'.ret = ran.ret
      /\ conn'.rollback_on_error = ran.rollback_on_error
      /\ UnitPending' = Pending(ran.pg) \ UNION {executed'[s] : s \in Stmts}
  BY <1>0, UnitAfter DEF Executing
<1>3. UnitPending = Pending(conn.pg) /\ UnitPending' = Pending(ran.pg)
  BY <1>1, <1>2 DEF UnitPending, Executing
<1>4. CASE conn.autocommit
  <2>1. Unit!AcceptAlone
    <3>1. \E new \in SUBSET Work : conn'.pg.durable = conn.pg.durable \union new
      <4>1. ran.pg.durable \ conn.pg.durable \in SUBSET Work
        BY <1>0, <1>4 DEF Executing, Whole
      <4> QED
        BY <1>2, <1>4, <4>1 DEF Executing, Whole
    <3> QED
      BY <1>0, <1>2, <1>3, <1>4, <3>1
         DEF Unit!AcceptAlone, Executing, Whole, UnitPending
  <2> QED
    BY <1>0, <1>2, <2>1 DEF Unit!Next
<1>5. CASE ~conn.autocommit /\ ran.ret = "success"
  <2>1. Unit!Accept
    BY <1>0, <1>2, <1>3, <1>5 DEF Unit!Accept, Executing, Whole, UnitPending
  <2> QED
    BY <1>0, <1>2, <2>1 DEF Unit!Next
<1>6. CASE ~conn.autocommit /\ ran.ret = "error"
  <2>1. /\ conn'.pg.durable = conn.pg.durable
        /\ UnitPending' = {} \/ UnitPending' = UnitPending
    BY <1>0, <1>2, <1>3, <1>6 DEF Executing, Whole
  <2>2. Unit!Reject \/ Unit!Fail
    BY <1>2, <1>6, <2>1 DEF Unit!Reject, Unit!Fail, UnitPending
  <2> QED
    BY <1>0, <1>2, <2>2 DEF Unit!Next
<1> QED
  BY <1>0, <1>4, <1>5, <1>6

\* The opening of a data-at-execution leaves the unit as it was.
LEMMA BeginningUnit ==
  ASSUME Inv, Settled, conn.rollback_on_error # "nothing",
         NEW s \in Stmts, NEW opened, NEW p, Beginning(s, opened, p)
  PROVE  Unit!Next /\ conn'.rollback_on_error # "nothing"
<1>1. /\ opened \in ConnectionRecord /\ opened.ret \in {"success", "error"}
      /\ opened.rollback_on_error = conn.rollback_on_error
      /\ opened.pg.durable = conn.pg.durable
      /\ Pending(opened.pg) = Pending(conn.pg)
      /\ conn' = Forget(opened) /\ executed' = executed
  BY DEF Beginning, Opened, Regular, Good, ConnectionRecord
<1>2. /\ conn'.pg.durable = opened.pg.durable /\ conn'.ret = opened.ret
      /\ conn'.rollback_on_error = opened.rollback_on_error
      /\ UnitPending' = Pending(opened.pg) \ UNION {executed'[t] : t \in Stmts}
  BY <1>1, UnitAfter
<1>3. conn'.pg.durable = conn.pg.durable /\ UnitPending' = UnitPending
  BY <1>1, <1>2 DEF UnitPending
<1>4. CASE opened.ret = "success"
  <2>1. UnitPending' = UnitPending \union {} /\ {} \in SUBSET Work
    BY <1>3
  <2>2. Unit!Accept
    BY <1>2, <1>3, <1>4, <2>1 DEF Unit!Accept, UnitPending
  <2> QED
    BY <1>1, <1>2, <2>2 DEF Unit!Next
<1>5. CASE opened.ret = "error"
  <2>1. Unit!Reject
    BY <1>2, <1>3, <1>5 DEF Unit!Reject, UnitPending
  <2> QED
    BY <1>1, <1>2, <2>1 DEF Unit!Next
<1> QED
  BY <1>1, <1>4, <1>5

\* The sets of a data-at-execution join the unit together, with the last.
LEMMA SuppliedUnit ==
  ASSUME Inv, Settled, conn.rollback_on_error # "nothing",
         NEW s \in Stmts, NEW ran, NEW w, NEW more, Supplied(s, ran, w, more)
  PROVE  Unit!Next /\ conn'.rollback_on_error # "nothing"
<1> DEFINE made == executed[s]
<1>0. /\ Regular(conn) /\ Regular(ran) /\ ran \in ConnectionRecord
      /\ ran.ret \in {"success", "error"} /\ w \in SUBSET Work /\ made \in SUBSET Work
      /\ conn.autocommit \in BOOLEAN
      /\ Supplying(conn, made, app)
      /\ executed \in [Stmts -> SUBSET Work]
      /\ \A t \in Stmts : t # s => executed[t] = {}
      /\ ran.rollback_on_error = conn.rollback_on_error
      /\ ran.autocommit = conn.autocommit
      /\ ran.pg.up => conn.pg.up
      /\ ran.ret = "success" => ran.pg.up
      /\ conn.rollback_on_error \in RollbackModes
      /\ w \intersect Pending(conn.pg) = {}
  BY FreshWork DEF Supplied, Effect, Regular, Good, ConnectionRecord, Inv, TypeOK,
     Settled, SettledAt, InData, NeedsData
<1>1. UNION {executed[t] : t \in Stmts} = made
  BY <1>0
<1>2. UNION {executed'[t] : t \in Stmts} = IF more THEN made \union w ELSE {}
  BY <1>0 DEF Supplied
<1> HIDE DEF made
<1>3. /\ conn'.pg.durable = ran.pg.durable /\ conn'.ret = ran.ret
      /\ conn'.rollback_on_error = ran.rollback_on_error
      /\ UnitPending' = Pending(ran.pg) \ (IF more THEN made \union w ELSE {})
  BY <1>0, <1>2, UnitAfter DEF Supplied
<1>4. UnitPending = Pending(conn.pg) \ made
  BY <1>1 DEF UnitPending
<1>5. /\ conn.autocommit => Pending(conn.pg) = {} /\ Pending(ran.pg) = {}
      /\ ~ran.pg.up => Pending(ran.pg) = {}
      /\ conn.pg.up /\ ~conn.autocommit =>
           Pending(conn.pg) = Base(conn.pg) \union Top(conn.pg)
  BY <1>0, RegularTidy DEF Supplying, Ready
<1>6. CASE conn.autocommit
  <2>1. \E new \in SUBSET Work : conn'.pg.durable = conn.pg.durable \union new
    <3>1. ran.pg.durable \ conn.pg.durable \in SUBSET Work
      BY <1>0, <1>6 DEF Supplied, Effect
    <3> QED
      BY <1>3, <1>6, <3>1 DEF Supplied, Effect
  <2>2. UnitPending = {} /\ UnitPending' = {}
    BY <1>3, <1>4, <1>5, <1>6
  <2>3. Unit!AcceptAlone
    BY <1>0, <1>3, <2>1, <2>2 DEF Unit!AcceptAlone, UnitPending
  <2> QED
    BY <1>0, <1>3, <2>3 DEF Unit!Next
<1>7. CASE ~conn.autocommit /\ ran.ret = "success"
  <2>1. Pending(ran.pg) = Pending(conn.pg) \union w /\ made \subseteq Pending(conn.pg)
        /\ ran.pg.durable = conn.pg.durable
    BY <1>0, <1>7 DEF Supplied, Effect, Supplying
  <2>2. \E new \in SUBSET Work : UnitPending' = UnitPending \union new
    <3>1. CASE more
      <4>1. UnitPending' = UnitPending \union {}
        BY <1>0, <1>3, <1>4, <2>1, <3>1
      <4> QED
        BY <4>1
    <3>2. CASE ~more
      <4>1. UnitPending' = UnitPending \union (made \union w)
        BY <1>0, <1>3, <1>4, <2>1, <3>2
      <4> QED
        BY <1>0, <4>1
    <3> QED
      BY <3>1, <3>2
  <2>3. Unit!Accept
    BY <1>3, <1>7, <2>1, <2>2 DEF Unit!Accept, UnitPending
  <2> QED
    BY <1>0, <1>3, <2>3 DEF Unit!Next
<1>8. CASE ~conn.autocommit /\ ran.ret = "error"
  <2>1. ~more /\ ran.pg.durable = conn.pg.durable
    BY <1>8 DEF Supplied, Effect
  <2>2. UnitPending' = {} \/ UnitPending' = UnitPending
    <3>1. CASE ~ran.pg.up
      BY <1>3, <1>5, <2>1, <3>1
    <3>2. CASE ran.pg.up
      <4>1. Undone(conn, ran, w)
        BY <1>8, <3>2 DEF Supplied
      <4>2. CASE conn.rollback_on_error = "transaction"
        BY <1>3, <2>1, <4>1, <4>2 DEF Undone
      <4>3. CASE conn.rollback_on_error = "statement"
        <5>1. Pending(ran.pg) = Base(conn.pg)
          BY <4>1, <4>3 DEF Undone
        <5>2. /\ Top(conn.pg) \subseteq made
              /\ Base(conn.pg) \intersect made = {}
          BY <1>0, <1>8, <3>2, <4>3 DEF Supplying
        <5> QED
          BY <1>0, <1>3, <1>4, <1>5, <1>8, <2>1, <3>2, <5>1, <5>2
      <4> QED
        BY <1>0, <4>2, <4>3 DEF RollbackModes
    <3> QED
      BY <3>1, <3>2
  <2>3. Unit!Reject \/ Unit!Fail
    BY <1>3, <1>8, <2>1, <2>2 DEF Unit!Reject, Unit!Fail, UnitPending
  <2> QED
    BY <1>0, <1>3, <2>3 DEF Unit!Next
<1> QED
  BY <1>0, <1>6, <1>7, <1>8

\* The end of the unit, asked for or not.
LEMMA OverUnit ==
  ASSUME Inv, Settled, conn.rollback_on_error # "nothing", NoneInData,
         NEW ended, ended \in ConnectionRecord, Pending(ended.pg) = {},
         ended.rollback_on_error = conn.rollback_on_error,
         \/ ended.pg.durable = conn.pg.durable \union Pending(conn.pg)
         \/ ended.pg.durable = conn.pg.durable,
         conn' = Forget(ended), executed' = executed
  PROVE  Unit!Next /\ conn'.rollback_on_error # "nothing"
<1>0. \A s \in Stmts : executed[s] = {}
  BY DEF Settled, SettledAt, NoneInData, InData, NeedsData
<1>1. UNION {executed[s] : s \in Stmts} = {}
  BY <1>0
<1>2. /\ conn'.pg.durable = ended.pg.durable /\ conn'.ret = ended.ret
      /\ conn'.rollback_on_error = ended.rollback_on_error
      /\ UnitPending' = Pending(ended.pg) \ UNION {executed'[s] : s \in Stmts}
  BY UnitAfter
<1>3. UnitPending = Pending(conn.pg) /\ UnitPending' = {}
  BY <1>1, <1>2 DEF UnitPending
<1>4. ended.ret \in {"success", "error"}
  BY DEF ConnectionRecord
<1>5. CASE ended.ret = "error"
  <2>1. Unit!Fail
    BY <1>2, <1>3, <1>5 DEF Unit!Fail, UnitPending
  <2> QED
    BY <1>2, <2>1 DEF Unit!Next
<1>6. CASE ended.ret = "success"
  <2>1. Unit!Commit \/ Unit!Rollback
    BY <1>2, <1>3, <1>6 DEF Unit!Commit, Unit!Rollback, UnitPending
  <2> QED
    BY <1>2, <2>1 DEF Unit!Next
<1> QED
  BY <1>4, <1>5, <1>6

\* SQLEndTran ends the unit.
LEMMA EndUnit ==
  ASSUME Inv, Settled, conn.rollback_on_error # "nothing", EndTransaction
  PROVE  Unit!Next /\ conn'.rollback_on_error # "nothing"
<1>0. Regular(conn) /\ Connected(conn) /\ NoneInData
  BY DEF Settled, SettledAt, EndTransaction
<1>1. PICK commit \in BOOLEAN, outcome \in CommitOutcomes :
        LET ended == IF commit THEN CommitTransaction(conn, outcome)
                               ELSE RollbackTransaction(conn)
        IN  /\ conn' = Forget(ended)
            /\ phase' = Outlived(ended, phase)
            /\ app' = Finished(ended.ret, commit)
            /\ UNCHANGED executed
  BY DEF EndTransaction
<1> DEFINE ended == IF commit THEN CommitTransaction(conn, outcome)
                              ELSE RollbackTransaction(conn)
<1>2. Ends(conn, ended)
  BY <1>0, TransactionEnds
<1>3. conn' = Forget(ended) /\ executed' = executed
  BY <1>1
<1> HIDE DEF ended
<1>4. /\ ended \in ConnectionRecord /\ Pending(ended.pg) = {}
      /\ ended.rollback_on_error = conn.rollback_on_error
      /\ \/ ended.pg.durable = conn.pg.durable \union Pending(conn.pg)
         \/ ended.pg.durable = conn.pg.durable
  BY <1>2 DEF Ends, Regular, Good
<1> QED
  BY <1>0, <1>3, <1>4, OverUnit

\* So does turning autocommit on.
LEMMA AutocommitUnit ==
  ASSUME Inv, Settled, conn.rollback_on_error # "nothing", ChangeAutocommit
  PROVE  Unit!Next /\ conn'.rollback_on_error # "nothing"
<1>0. Regular(conn) /\ Connected(conn) /\ NoneInData
  BY DEF Settled, SettledAt, ChangeAutocommit
<1>1. PICK outcome \in CommitOutcomes :
        LET changed == SetAutocommit(conn, ~conn.autocommit, outcome)
            commits == changed.ret = "success" /\ conn.transaction_state = "active"
        IN  /\ conn' = Forget(changed)
            /\ phase' = Outlived(changed, phase)
            /\ app' = IF conn.autocommit THEN app
                      ELSE Finished(IF commits THEN "success" ELSE "error", TRUE)
            /\ UNCHANGED executed
  BY DEF ChangeAutocommit
<1> DEFINE changed == SetAutocommit(conn, ~conn.autocommit, outcome)
<1>2. /\ Regular(changed) /\ Pending(changed.pg) = {}
      /\ changed.rollback_on_error = conn.rollback_on_error
      /\ changed.pg.durable \in
           {conn.pg.durable, conn.pg.durable \union Pending(conn.pg)}
  BY <1>0, AutocommitEnds
<1>3. conn' = Forget(changed) /\ executed' = executed
  BY <1>1
<1> HIDE DEF changed
<1>4. changed \in ConnectionRecord
  BY <1>2 DEF Regular, Good
<1> QED
  BY <1>0, <1>2, <1>3, <1>4, OverUnit

\* The link breaks, and the unit with it.
LEMMA BreakUnit ==
  ASSUME Inv, Settled, conn.rollback_on_error # "nothing", BreakLink
  PROVE  Unit!Next /\ conn'.rollback_on_error # "nothing"
<1> DEFINE pg == Lost(conn.pg)
           broken == [conn EXCEPT !.pg = pg]
<1>0. conn \in ConnectionRecord /\ conn.pg \in Session /\ Good(broken)
  <2>1. Good(conn) /\ conn \in ConnectionRecord
    BY DEF Inv, Good
  <2>2. conn.pg \in Session
    BY <2>1 DEF ConnectionRecord
  <2>3. Good(broken)
    BY <2>1, LinkGood
  <2> QED
    BY <2>1, <2>2, <2>3
<1>1. pg.stack = <<>> /\ pg.durable = conn.pg.durable
  BY <1>0, LostShape
<1> HIDE DEF pg
<1>2. /\ broken \in ConnectionRecord /\ broken.pg = pg /\ broken.ret = conn.ret
      /\ broken.rollback_on_error = conn.rollback_on_error
  BY <1>0 DEF ConnectionRecord, Good
<1>3. conn' = Forget(broken) /\ executed' = executed
  BY DEF BreakLink, pg
<1> HIDE DEF broken
<1>4. Pending(pg) = {}
  BY <1>1 DEF Pending
<1>5. /\ conn'.pg.durable = pg.durable /\ conn'.ret = conn.ret
      /\ conn'.rollback_on_error = conn.rollback_on_error
      /\ UnitPending' = {}
  BY <1>2, <1>3, <1>4, UnitAfter
<1>6. Unit!Fail
  BY <1>1, <1>5 DEF Unit!Fail, UnitPending
<1> QED
  BY <1>5, <1>6 DEF Unit!Next

\* SQLDisconnect finds no unit in progress.
LEMMA DisconnectUnit ==
  ASSUME Inv, Settled, conn.rollback_on_error # "nothing", DisconnectLink
  PROVE  Unit!Next /\ conn'.rollback_on_error # "nothing"
<1> DEFINE pg == Lost(conn.pg)
           closed == Disconnect(conn)
<1>0. conn \in ConnectionRecord /\ conn.pg \in Session /\ Good(closed)
      /\ NoneInData
  <2>1. Good(conn) /\ conn \in ConnectionRecord /\ NoneInData
    BY DEF Inv, Good, DisconnectLink
  <2>2. conn.pg \in Session
    BY <2>1 DEF ConnectionRecord
  <2>3. Good(closed)
    BY <2>1, LinkGood
  <2> QED
    BY <2>1, <2>2, <2>3
<1>1. pg.stack = <<>> /\ pg.durable = conn.pg.durable
  BY <1>0, LostShape
<1> HIDE DEF pg
<1>2. /\ closed.pg = pg /\ closed.rollback_on_error = conn.rollback_on_error
      /\ closed \in ConnectionRecord
  BY <1>0 DEF ConnectionRecord, Good, Disconnect, Return, pg
<1>3. conn' = Forget(closed) /\ executed' = executed
  BY DEF DisconnectLink
<1> HIDE DEF closed
<1>4. Pending(pg) = {}
  BY <1>1 DEF Pending
<1> QED
  BY <1>0, <1>1, <1>2, <1>3, <1>4, OverUnit

\* SQLDriverConnect begins an empty one.
LEMMA ConnectUnit ==
  ASSUME Inv, Settled, conn.rollback_on_error # "nothing", ConnectLink
  PROVE  Unit!Next /\ conn'.rollback_on_error # "nothing"
<1>0. /\ Regular(conn) /\ conn \in ConnectionRecord
      /\ conn.transaction_state = "idle"
      /\ conn' = Connect(conn) /\ executed' = executed
  BY DEF Settled, SettledAt, Regular, Good, ConnectLink
<1>1. /\ conn'.pg = FreshSession(conn.pg.durable) /\ conn'.ret = "success"
      /\ conn'.rollback_on_error = conn.rollback_on_error
  BY <1>0 DEF Connect, Return, ConnectionRecord
<1>2. conn'.pg.stack = <<>> /\ conn'.pg.durable = conn.pg.durable
  BY <1>1 DEF FreshSession
<1>3. UnitPending = {} /\ UnitPending' = {}
  BY <1>0, <1>2, RegularTidy DEF UnitPending, Pending
<1>4. Unit!Rollback
  BY <1>1, <1>2, <1>3 DEF Unit!Rollback, UnitPending
<1> QED
  BY <1>1, <1>4 DEF Unit!Next

\* Every step is one of the unit of work, or leaves it alone.
LEMMA NextUnit ==
  ASSUME Plainly, Inv, Settled, conn.rollback_on_error # "nothing", [Next]_vars
  PROVE  [Unit!Next]_(Unit!vars) /\ conn'.rollback_on_error # "nothing"
<1>1. ASSUME NEW s \in Stmts, OnStatement(s)
      PROVE  Unit!Next /\ conn'.rollback_on_error # "nothing"
  <2>1. CASE ExecuteSingle(s)
    BY <2>1, SingleExecuting, ExecutingUnit
  <2>2. CASE ExecuteMultiStatement(s)
    BY <2>2, MultiExecuting, ExecutingUnit
  <2>3. CASE BeginDataAtExec(s)
    BY <2>3, DataBeginning, BeginningUnit
  <2>4. CASE RunDataAtExecSet(s)
    BY <2>4, SetSupplied, SuppliedUnit
  <2>5. CASE ExecuteCall(s)
    BY <2>5, CallExecuting, ExecutingUnit
  <2> QED
    BY <1>1, <2>1, <2>2, <2>3, <2>4, <2>5, PlainCalls
<1>2. CASE UNCHANGED vars
  BY <1>2 DEF vars, Unit!vars, Pending
<1> QED
  BY <1>1, <1>2, EndUnit, AutocommitUnit, BreakUnit, DisconnectUnit, ConnectUnit
     DEF Next

\* Whatever blocks and savepoints the driver works with, the connection is one
\* unit of work to its application, committed or rolled back as a whole.  With
\* "nothing" an error leaves the choice of what is undone to the application.
THEOREM Implementation ==
  ASSUME Plainly, "nothing" \notin Modes
  PROVE  Spec => ImplementsUnitOfWork
<1> DEFINE Recovers == conn.rollback_on_error # "nothing"
<1>1. Init => Unit!Init /\ Recovers
  <2> SUFFICES ASSUME Init PROVE Unit!Init /\ Recovers
    OBVIOUS
  <2>1. /\ conn.pg = FreshSession({}) /\ conn.ret = "success"
        /\ conn.rollback_on_error \in Modes
    BY DEF Init
  <2>2. conn.pg.durable = {} /\ conn.pg.stack = <<>>
    BY <2>1 DEF FreshSession
  <2>3. Pending(conn.pg) = {}
    BY <2>2 DEF Pending
  <2> QED
    BY <2>1, <2>2, <2>3 DEF Unit!Init
<1>2. Inv /\ Settled /\ Recovers /\ [Next]_vars
        => [Unit!Next]_(Unit!vars) /\ Recovers'
  BY NextUnit
<1> HIDE DEF Recovers
<1> QED
  BY <1>1, <1>2, SettledThroughout, Invariance, PTL
     DEF Spec, ImplementsUnitOfWork, Unit!Spec
=============================================================================
