----------------------------- MODULE PgSession -----------------------------
(***************************************************************************)
(* One PostgreSQL session, as libpq shows it to the driver: the link, the  *)
(* transaction block with its stack of subtransactions, the work that is   *)
(* committed, and the answer to the last command.  It is not code of this  *)
(* repository: every operator is a command the driver sends, and does what *)
(* the driver relies on the server doing.                                  *)
(*                                                                         *)
(* A piece of work is whatever one SQL statement changes; two pieces are   *)
(* told apart by their tag only.  Level 1 of an open block is the          *)
(* transaction itself, each further level a savepoint, and the work of a   *)
(* level is what was done since that savepoint was set.                    *)
(***************************************************************************)
EXTENDS Naturals, Sequences

CONSTANT Work                      \* tags for the changes SQL statements make

\* The names of the levels: the block itself, the driver's per-statement
\* savepoint (PER_STATEMENT_SAVEPOINT_NAME), and a savepoint of the application.
Names == {"transaction", "driver", "user"}
Level == [name: Names, work: SUBSET Work]

\* The answer to the last command: PGRES_COMMAND_OK or PGRES_TUPLES_OK, an error
\* result, a COPY TO STDOUT the client has to drain, or no result at all because
\* libpq already knows that the link is gone.
Replies == {"ok", "error", "copy_out", "null"}

Session == [up      : BOOLEAN,
            block   : {"idle", "open", "aborted"},
            stack   : Seq(Level),
            durable : SUBSET Work,
            reply   : Replies]

FreshSession(durable) ==
  [up |-> TRUE, block |-> "idle", stack |-> <<>>, durable |-> durable,
   reply |-> "ok"]

Pending(pg) == UNION {pg.stack[i].work : i \in DOMAIN pg.stack}

----------------------------------------------------------------------------

Answer(pg, reply) == [pg EXCEPT !.reply = reply]

\* An error: inside an open block it aborts the block.
Refuse(pg) ==
  [pg EXCEPT !.block = IF @ = "open" THEN "aborted" ELSE @, !.reply = "error"]

\* The backend is gone, and with it the block; what was committed stays.
Lost(pg) ==
  [pg EXCEPT !.up = FALSE, !.block = "idle", !.stack = <<>>, !.reply = "error"]

\* The block ends, and the work in made becomes durable.
EndBlock(pg, made) ==
  [pg EXCEPT !.block = "idle", !.stack = <<>>, !.durable = @ \union made,
             !.reply = "ok"]

----------------------------------------------------------------------------

\* BEGIN.  Inside a block it only draws a warning.
Begin(pg) ==
  IF ~pg.up THEN Answer(pg, "null")
  ELSE IF pg.block = "aborted" THEN Refuse(pg)
  ELSE IF pg.block = "open" THEN Answer(pg, "ok")
  ELSE [pg EXCEPT !.block = "open", !.reply = "ok",
                  !.stack = <<[name |-> "transaction", work |-> {}]>>]

\* COMMIT.  A deferred constraint may refuse it, and the link may break before
\* or after the server has carried it out.  COMMIT of an aborted block rolls the
\* block back and still answers PGRES_COMMAND_OK.
CommitOutcomes == {"ok", "refused", "lost_before", "lost_after"}

Commit(pg, outcome) ==
  LET made == IF pg.block = "open" THEN Pending(pg) ELSE {}
  IN  IF ~pg.up THEN Answer(pg, "null")
      ELSE IF outcome = "lost_before" THEN Lost(pg)
      ELSE IF outcome = "lost_after" THEN Lost(EndBlock(pg, made))
      ELSE IF outcome = "refused" /\ pg.block = "open"
           THEN Answer(EndBlock(pg, {}), "error")
      ELSE EndBlock(pg, made)

\* ROLLBACK.
Rollback(pg) == IF pg.up THEN EndBlock(pg, {}) ELSE Answer(pg, "null")

----------------------------------------------------------------------------

\* SAVEPOINT name.
Savepoint(pg, name) ==
  IF ~pg.up THEN Answer(pg, "null")
  ELSE IF pg.block = "open"
       THEN [pg EXCEPT !.stack = Append(@, [name |-> name, work |-> {}]),
                       !.reply = "ok"]
  ELSE Refuse(pg)

Levels(pg, name) == {i \in DOMAIN pg.stack : pg.stack[i].name = name}

\* The newest savepoint of that name: an older one is shadowed, not replaced.
Topmost(pg, name) ==
  CHOOSE i \in Levels(pg, name) : \A j \in Levels(pg, name) : j <= i

\* RELEASE SAVEPOINT name: the savepoint and all above it go, and their work is
\* now that of the level below.
Release(pg, name) ==
  LET top   == Topmost(pg, name)
      freed == UNION {pg.stack[i].work : i \in top .. Len(pg.stack)}
      below == [i \in 1 .. (top - 1) |->
                  IF i = top - 1
                  THEN [pg.stack[i] EXCEPT !.work = @ \union freed]
                  ELSE pg.stack[i]]
  IN  IF ~pg.up THEN Answer(pg, "null")
      ELSE IF pg.block = "open" /\ Levels(pg, name) # {}
           THEN [pg EXCEPT !.stack = below, !.reply = "ok"]
      ELSE Refuse(pg)

\* ROLLBACK TO name: undoes the work since the savepoint, which stays; it also
\* revives an aborted block.
RollbackTo(pg, name) ==
  LET top  == Topmost(pg, name)
      left == [i \in 1 .. top |->
                 IF i = top THEN [pg.stack[i] EXCEPT !.work = {}] ELSE pg.stack[i]]
  IN  IF ~pg.up THEN Answer(pg, "null")
      ELSE IF pg.block # "idle" /\ Levels(pg, name) # {}
           THEN [pg EXCEPT !.block = "open", !.stack = left, !.reply = "ok"]
      ELSE Refuse(pg)

\* "RELEASE SAVEPOINT name;SAVEPOINT name" sent as one query string, which stops
\* at the first error.
SavepointAfter(released, name) ==
  IF released.reply = "ok" THEN Savepoint(released, name) ELSE released

ReleaseThenSavepoint(pg, name) == SavepointAfter(Release(pg, name), name)

----------------------------------------------------------------------------

\* Any other SQL statement.  It may succeed, fail, turn out to be a COPY TO
\* STDOUT, or see the link break before or after the server has run it.  Outside
\* a block it is a transaction of its own.
RunOutcomes == {"ok", "error", "copy_out", "lost_before", "lost_after"}

Made(pg, work) ==
  IF pg.block = "idle" THEN [pg EXCEPT !.durable = @ \union work, !.reply = "ok"]
  ELSE IF pg.block = "open"
       THEN [pg EXCEPT !.stack[Len(pg.stack)].work = @ \union work, !.reply = "ok"]
  ELSE Refuse(pg)

Run(pg, work, outcome) ==
  IF ~pg.up THEN Answer(pg, "null")
  ELSE IF outcome = "lost_before" THEN Lost(pg)
  ELSE IF outcome = "lost_after" THEN Lost(Made(pg, work))
  ELSE IF outcome = "error" THEN Refuse(pg)
  ELSE IF outcome = "ok" THEN Made(pg, work)
  ELSE IF pg.block = "aborted" THEN Refuse(pg) ELSE Answer(pg, "copy_out")
=============================================================================
