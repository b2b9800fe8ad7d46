------------------------------ MODULE Execution ------------------------------
(***************************************************************************)
(* One statement of the driver as it executes (statement.c): the chain of  *)
(* results it leaves for SQLMoreResults, arrays of parameter sets with     *)
(* their statuses, and data at execution, which spreads one execution over *)
(* many calls.  A call that runs several commands is taken command by      *)
(* command, each answered by the server as it likes; while it runs nothing *)
(* else happens on the statement.  Transactions has what the commands do   *)
(* to the connection.                                                      *)
(***************************************************************************)
EXTENDS Naturals, SequencesExt

CONSTANTS MaxSets,     \* bound: parameter sets of an array, fragments of a text
          MaxCursors,  \* bound: cursors a procedure returns
          Param,       \* the markers of the text, as numbers
          MaxPieces,   \* bound: pieces of a value supplied at execution
          MaxResults,  \* bound: results held at a time
          Careful      \* whether the application keeps to the guard of Catalog

ASSUME ExecutionAssumption ==
  /\ MaxSets \in Nat \ {0} /\ MaxCursors \in Nat /\ MaxPieces \in Nat
  /\ MaxResults \in Nat \ {0} /\ Param \subseteq Nat \ {0} /\ Careful \in BOOLEAN

VARIABLES statement,         \* what the driver holds of the statement's results
          data_at_exec,      \* its DataAtExecState
          loop,              \* the call under way and its local variables
          request,           \* what the application asked to be executed
          param_status,      \* the application's array of statuses
          params_processed,  \* and its count
          result,            \* the PGresults not yet cleared, with what they are of
          due,               \* ghost: the results the application is to see, in order
          outcome,           \* ghost: what became of each parameter set
          answer,            \* ghost: what the execution of an array returned
          given,             \* ghost: the pieces put for the parameter set being filled
          sent               \* ghost: the values last sent, and those given for them

vars == <<statement, data_at_exec, loop, request, param_status, params_processed,
          result, due, outcome, answer, given, sent>>

Sets == 1 .. MaxSets
NoResult == 0
NoParameter == 0

\* Bindings an application may have: which parameters of each set are deferred, which
\* sets are to be ignored, the size of a batch; or a text of several fragments.
Request ==
  {r \in [fragments: Sets, sets: Sets, deferred: [Sets -> SUBSET Param],
          ignored: SUBSET Sets, batch: Sets] :
     LET defer == {n \in Sets : r.deferred[n] # {}}
     IN  /\ r.ignored \subseteq 1 .. r.sets /\ defer \subseteq 1 .. r.sets
         /\ r.batch <= r.sets
         /\ r.fragments > 1 => r.sets = 1 /\ r.ignored = {}
         /\ defer # {} => 1 \in defer /\ r.fragments = 1 /\ r.ignored = {} /\ r.batch = 1}

NoRequest == [fragments |-> 0, sets |-> 0, deferred |-> [n \in Sets |-> {}],
              ignored |-> {}, batch |-> 1]

NoValue == [is_null |-> FALSE, pieces |-> <<>>]
NotAsking == [in_need_data |-> FALSE, row_count |-> 0, current_row |-> 0,
              current_parameter_index |-> NoParameter, needs_data |-> {},
              value |-> [p \in Param |-> NoValue], chained_results |-> <<>>]

NoCall == [call |-> "none", at |-> 0, batch_start |-> 0, rows_processed |-> 0,
           batch_had_notice |-> FALSE, batch_had_error |-> FALSE, any_notice |-> FALSE,
           chained_results |-> <<>>, call_result |-> NoResult]

Untouched == [n \in Sets |-> "untouched"]
NoPieces == [p \in Param |-> 0]
NothingSent == [values |-> <<>>, given |-> <<>>]

Init ==
  /\ statement = [is_prepared |-> FALSE, state |-> "allocated", has_result_set |-> FALSE,
                  current_result |-> NoResult, describe_result |-> NoResult,
                  pending_results |-> <<>>, pending_result_index |-> 0]
  /\ data_at_exec = NotAsking
  /\ loop = NoCall
  /\ request = NoRequest
  /\ param_status = Untouched
  /\ params_processed = 0
  /\ result = <<>>
  /\ due = <<>>
  /\ outcome = [n \in Sets |-> "none"]
  /\ answer = "none"
  /\ given = NoPieces
  /\ sent = NothingSent

----------------------------------------------------------------------------
\* Results.

Live == DOMAIN result
CanHold == \E r \in 1 .. MaxResults : r \notin Live  \* bound

NewResult(alive) ==
  CHOOSE r \in 1 .. MaxResults :
    r \notin alive /\ \A q \in 1 .. MaxResults : q < r => q \in alive

\* The n-th result of an execution: rows, the tag of a command, or an error.
Label(n, kind) == [of |-> n, kind |-> kind]

Keep(results, r, label) ==
  [q \in DOMAIN results \union {r} |-> IF q = r THEN label ELSE results[q]]

Clear(results, cleared) == [q \in DOMAIN results \ cleared |-> results[q]]

\* The results SQLMoreResults has not come to.
Unpromoted(st) ==
  SubSeq(st.pending_results, st.pending_result_index + 1, Len(st.pending_results))

\* clear_current_result, which abandons data at execution too.
HeldBy(st) ==
  ({st.current_result, st.describe_result} \union ToSet(Unpromoted(st))) \ {NoResult}

Cleared(st) ==
  [st EXCEPT !.current_result = NoResult, !.describe_result = NoResult,
             !.pending_results = <<>>, !.pending_result_index = 0,
             !.has_result_set = FALSE]

ClearCurrentResult ==
  Clear(result, HeldBy(statement) \union ToSet(data_at_exec.chained_results))

\* apply_result_as_current.  An error that is made current leaves the state alone.
Applied(st, r, kind) ==
  [st EXCEPT !.current_result = r, !.has_result_set = kind = "tuples",
             !.state = CASE kind = "tuples" -> "has_cursor"
                         [] kind = "command" -> "executed"
                         [] kind = "error" -> @]

\* Mutant: the first result of the chain is offered a second time.
PublishedWhole(st, chain) ==
  Applied([st EXCEPT !.pending_results = chain, !.pending_result_index = 0],
          chain[1], result[chain[1]].kind)

\* The first result of a chain is current, the others wait.
Published(st, chain) ==
  Applied([st EXCEPT !.pending_results = chain, !.pending_result_index = 1],
          chain[1], result[chain[1]].kind)

Idle == loop.call = "none" /\ ~data_at_exec.in_need_data

\* The application's arrays are its own: it clears them whenever it likes between two
\* executions, here with the next call.
Forget ==
  /\ request' = NoRequest /\ param_status' = Untouched /\ params_processed' = 0
  /\ outcome' = [n \in Sets |-> "none"] /\ answer' = "none"
  /\ given' = NoPieces /\ sent' = NothingSent

----------------------------------------------------------------------------
\* The calls that open and end an execution.

\* SQLPrepare: a text that could not be prepared only loses its results.
Prepare ==
  /\ Idle /\ CanHold
  /\ data_at_exec' = NotAsking
  /\ \/ /\ statement' = Cleared(statement)
        /\ result' = ClearCurrentResult
     \/ /\ statement' = [Cleared(statement) EXCEPT !.is_prepared = TRUE, !.state = "prepared"]
        /\ result' = ClearCurrentResult
     \/ LET r == NewResult(DOMAIN ClearCurrentResult)
        IN  /\ statement' = [Cleared(statement) EXCEPT
                               !.is_prepared = TRUE, !.state = "prepared",
                               !.describe_result = r]
            /\ result' = Keep(ClearCurrentResult, r, Label(0, "describe"))
  /\ due' = <<>>
  /\ Forget /\ UNCHANGED loop

\* statement_begin_data_at_exec for the first set.
Asking(r) ==
  [NotAsking EXCEPT !.in_need_data = TRUE, !.row_count = r.sets, !.current_row = 1,
                    !.needs_data = r.deferred[1]]

\* SQLExecute and SQLExecDirect: several fragments first, then data at execution, which
\* looks at the first set only, then an array, then the ordinary case.
Execute(direct, r) ==
  /\ Idle
  /\ direct \/ statement.is_prepared
  /\ statement' = [Cleared(statement) EXCEPT !.is_prepared = @ /\ ~direct]
  /\ result' = ClearCurrentResult
  /\ due' = <<>>
  /\ request' = r
  /\ outcome' = [n \in Sets |-> "none"] /\ answer' = "none"
  /\ given' = NoPieces /\ sent' = NothingSent
  /\ \/ /\ r.fragments > 1
        /\ loop' = [NoCall EXCEPT !.call = "fragments", !.at = 1]
        /\ data_at_exec' = NotAsking
        /\ param_status' = Untouched /\ params_processed' = 0
     \/ /\ r.fragments = 1 /\ r.deferred[1] # {}
        /\ data_at_exec' = Asking(r)
        /\ param_status' = IF r.sets = 1 THEN Untouched
                           ELSE [n \in Sets |-> IF n <= r.sets THEN "unused" ELSE "untouched"]
        /\ params_processed' = IF r.sets = 1 THEN 0 ELSE 1
        /\ UNCHANGED loop
     \/ /\ r.fragments = 1 /\ r.deferred[1] = {} /\ r.sets > 1
        /\ loop' = [NoCall EXCEPT !.call = "sets", !.at = 1, !.batch_start = 1]
        /\ data_at_exec' = NotAsking
        /\ param_status' = [n \in Sets |-> IF n <= r.sets THEN "unused" ELSE "untouched"]
        /\ params_processed' = 0
     \/ /\ r.fragments = 1 /\ r.deferred[1] = {} /\ r.sets = 1
        /\ loop' = [NoCall EXCEPT !.call = "single"]
        /\ data_at_exec' = NotAsking
        /\ param_status' = Untouched /\ params_processed' = 0

\* The transaction could not be opened: SQLExecute keeps the results, SQLExecDirect has
\* cleared them already.
ExecDirectRefused ==
  /\ Idle
  /\ statement' = Cleared(statement)
  /\ result' = ClearCurrentResult
  /\ data_at_exec' = NotAsking
  /\ due' = <<>>
  /\ Forget /\ UNCHANGED loop

\* SQLFreeStmt(SQL_CLOSE) at any time, SQLCloseCursor with a cursor open.
CloseCursor ==
  /\ Idle
  /\ statement' = [Cleared(statement) EXCEPT
                     !.state = IF statement.is_prepared THEN "prepared" ELSE "allocated"]
  /\ result' = ClearCurrentResult
  /\ data_at_exec' = NotAsking
  /\ due' = <<>>
  /\ Forget /\ UNCHANGED loop

\* SQLFreeHandle, and the handle that takes its place.
Free ==
  /\ Idle
  /\ statement' = [Cleared(statement) EXCEPT !.is_prepared = FALSE, !.state = "allocated"]
  /\ result' = ClearCurrentResult
  /\ data_at_exec' = NotAsking
  /\ due' = <<>>
  /\ Forget /\ UNCHANGED loop

\* execute_catalog_query replaces the current result and no other: a careful application
\* calls a catalog function when it has walked the chain.
Catalog ==
  LET rest == Clear(result, {statement.current_result})
      r    == NewResult(DOMAIN rest)
  IN  /\ Idle /\ CanHold
      /\ Careful => Unpromoted(statement) = <<>>
      /\ \/ /\ statement' = [Applied(statement, r, "tuples") EXCEPT !.is_prepared = FALSE]
            /\ result' = Keep(rest, r, Label(0, "tuples"))
            /\ due' = <<Label(0, "tuples")>>
         \/ /\ statement' = [statement EXCEPT !.current_result = NoResult]
            /\ result' = rest
            /\ due' = <<>>
      /\ Forget /\ UNCHANGED <<data_at_exec, loop>>

\* statement_promote_next_result.
MoreResults ==
  LET left == [statement EXCEPT !.current_result = NoResult, !.describe_result = NoResult,
                                !.has_result_set = FALSE]
  IN  /\ Idle
      /\ result' = Clear(result, {statement.current_result, statement.describe_result})
      /\ statement' =
           IF Unpromoted(statement) = <<>> THEN left
           ELSE Applied([left EXCEPT !.pending_result_index = @ + 1],
                        Head(Unpromoted(statement)),
                        result[Head(Unpromoted(statement))].kind)
      /\ due' = IF due = <<>> THEN due ELSE Tail(due)
      /\ UNCHANGED <<data_at_exec, loop, request, param_status, params_processed,
                     outcome, answer, given, sent>>

----------------------------------------------------------------------------
\* The commands of a call.  How the server may answer one, and how it may fail before it
\* is sent.
Rows == {"tuples", "command"}
Answers == Rows \union {"error"}

\* handle_execution_result: a command's result is cleared, an error leaves the state.
RunSingle ==
  /\ loop.call = "single" /\ CanHold
  /\ \E kind \in Answers :
       /\ statement' = IF kind = "tuples"
                       THEN Applied(statement, NewResult(Live), kind)
                       ELSE Applied(statement, NoResult, kind)
       /\ result' = IF kind = "tuples" THEN Keep(result, NewResult(Live), Label(0, kind))
                    ELSE result
       /\ due' = IF kind = "tuples" THEN <<Label(0, kind)>> ELSE <<>>
  /\ loop' = NoCall
  /\ UNCHANGED <<data_at_exec, request, param_status, params_processed, outcome, answer,
                 given, sent>>

\* A call that returned cursors, with FetchRefcursors: handle_call_result takes its
\* result over and fetches from each cursor.
RunCall ==
  /\ loop.call = "single" /\ CanHold
  /\ statement' = [Applied(statement, NoResult, "tuples") EXCEPT !.current_result = NoResult]
  /\ result' = Keep(result, NewResult(Live), Label(0, "tuples"))
  /\ loop' = [NoCall EXCEPT !.call = "cursors", !.call_result = NewResult(Live)]
  /\ UNCHANGED <<data_at_exec, request, param_status, params_processed, due, outcome,
                 answer, given, sent>>

FetchCursor ==
  /\ loop.call = "cursors" /\ loop.at < MaxCursors /\ CanHold
  /\ LET r == NewResult(Live)
     IN  /\ loop' = [loop EXCEPT !.at = @ + 1, !.chained_results = Append(@, r)]
         /\ result' = Keep(result, r, Label(loop.at + 1, "tuples"))
  /\ due' = Append(due, Label(loop.at + 1, "tuples"))
  /\ UNCHANGED <<statement, data_at_exec, request, param_status, params_processed,
                 outcome, answer, given, sent>>

\* A FETCH that fails, or no transaction to fetch in: the statement is left with a result
\* set to its name and none to read.
FetchFails ==
  /\ loop.call = "cursors"
  /\ result' = Clear(result, ToSet(loop.chained_results) \union {loop.call_result})
  /\ loop' = NoCall
  /\ due' = <<>>
  /\ UNCHANGED <<statement, data_at_exec, request, param_status, params_processed,
                 outcome, answer, given, sent>>

\* Every cursor is fetched; without one, an empty result is asked of the server.
FinishCall ==
  /\ loop.call = "cursors"
  /\ \/ /\ loop.chained_results # <<>>
        /\ statement' = Published(statement, loop.chained_results)
        /\ result' = Clear(result, {loop.call_result})
        /\ UNCHANGED due
     \/ /\ loop.chained_results = <<>>
        /\ LET rest == Clear(result, {loop.call_result})
               r    == NewResult(DOMAIN rest)
           IN  \E kind \in {"tuples", "error"} :
                 /\ statement' = Applied(statement, r, kind)
                 /\ result' = Keep(rest, r, Label(0, kind))
                 /\ due' = <<Label(0, kind)>>
  /\ loop' = NoCall
  /\ UNCHANGED <<data_at_exec, request, param_status, params_processed, outcome, answer,
                 given, sent>>

\* execute_multi_statement: every result is chained, and published after the last
\* fragment.
RunFragment ==
  /\ loop.call = "fragments" /\ CanHold
  /\ \E kind \in Rows :
       LET r     == NewResult(Live)
           chain == Append(loop.chained_results, r)
       IN  /\ result' = Keep(result, r, Label(loop.at, kind))
           /\ due' = Append(due, Label(loop.at, kind))
           /\ loop' = [loop EXCEPT !.at = @ + 1, !.chained_results = chain]
  /\ loop.at <= request.fragments
  /\ UNCHANGED <<statement, data_at_exec, request, param_status, params_processed,
                 outcome, answer, given, sent>>

\* The first fragment that fails takes the results of the others with it.
FragmentFails ==
  /\ loop.call = "fragments" /\ loop.at <= request.fragments
  /\ result' = Clear(result, ToSet(loop.chained_results))
  /\ loop' = NoCall
  /\ due' = <<>>
  /\ UNCHANGED <<statement, data_at_exec, request, param_status, params_processed,
                 outcome, answer, given, sent>>

FinishFragments ==
  /\ loop.call = "fragments" /\ loop.at > request.fragments
  /\ statement' = Published(statement, loop.chained_results)
  /\ loop' = NoCall
  /\ UNCHANGED <<data_at_exec, request, param_status, params_processed, result, due,
                 outcome, answer, given, sent>>

----------------------------------------------------------------------------
\* statement_execute_parameter_array.

BatchEnd == IF loop.batch_start + request.batch - 1 > request.sets THEN request.sets
            ELSE loop.batch_start + request.batch - 1
Batch == loop.batch_start .. BatchEnd

InBatch == loop.call = "sets" /\ ~loop.batch_had_error /\ loop.at <= BatchEnd

SkipSet ==
  /\ InBatch /\ loop.at \in request.ignored
  /\ loop' = [loop EXCEPT !.at = @ + 1]
  /\ UNCHANGED <<statement, data_at_exec, request, param_status, params_processed, result,
                 due, outcome, answer, given, sent>>

\* A set that runs, with a notice or without; the result of a command is cleared.
RunSet ==
  /\ InBatch /\ loop.at \notin request.ignored /\ CanHold
  /\ \E kind \in Rows, notice \in BOOLEAN :
       LET r     == NewResult(Live)
           label == Label(loop.at, kind)
           ran   == [loop EXCEPT !.at = @ + 1, !.rows_processed = @ + 1,
                                 !.batch_had_notice = @ \/ notice]
       IN  /\ outcome' = [outcome EXCEPT ![loop.at] = IF notice THEN "noticed" ELSE "succeeded"]
           /\ IF kind = "tuples"
              THEN /\ loop' = [ran EXCEPT !.chained_results = Append(@, r)]
                   /\ result' = Keep(result, r, label)
                   /\ due' = Append(due, label)
              ELSE loop' = ran /\ UNCHANGED <<result, due>>
  /\ UNCHANGED <<statement, data_at_exec, request, param_status, params_processed, answer,
                 given, sent>>

\* A set that cannot be built, or its large object not stored, is not sent and not counted.
SetFails ==
  /\ InBatch /\ loop.at \notin request.ignored
  /\ \E was \in {"failed", "unsent"} :
       /\ outcome' = [outcome EXCEPT ![loop.at] = was]
       /\ loop' = [loop EXCEPT !.batch_had_error = TRUE,
                               !.rows_processed = IF was = "failed" THEN @ + 1 ELSE @]
  /\ UNCHANGED <<statement, data_at_exec, request, param_status, params_processed, result,
                 due, answer, given, sent>>

BatchOver == loop.call = "sets" /\ (loop.batch_had_error \/ loop.at > BatchEnd)

\* Mutant: the sets to be ignored are not looked at when a batch is marked.
MarkedWhole(status) ==
  [n \in Sets |->
     IF n \notin Batch THEN param_status[n]
     ELSE IF loop.batch_had_error THEN "error" ELSE status]

\* A batch has one status; an error is that of all its sets, a success that of the sets
\* not ignored.
Marked(status) ==
  [n \in Sets |->
     IF n \notin Batch THEN param_status[n]
     ELSE IF loop.batch_had_error THEN "error"
     ELSE IF n \in request.ignored THEN param_status[n] ELSE status]

NextBatch ==
  /\ BatchOver /\ ~loop.batch_had_error /\ BatchEnd < request.sets
  /\ param_status' = Marked(IF loop.batch_had_notice THEN "info" ELSE "success")
  /\ loop' = [loop EXCEPT !.batch_start = BatchEnd + 1,
                          !.any_notice = @ \/ loop.batch_had_notice,
                          !.batch_had_notice = FALSE]
  /\ UNCHANGED <<statement, data_at_exec, request, params_processed, result, due, outcome,
                 answer, given, sent>>

\* The error of a batch ends the array and takes the results of the sets before it.
BatchFails ==
  /\ BatchOver /\ loop.batch_had_error
  /\ param_status' = Marked("error")
  /\ params_processed' = loop.rows_processed
  /\ result' = Clear(result, ToSet(loop.chained_results))
  /\ statement' = [statement EXCEPT !.has_result_set = FALSE, !.state = "executed"]
  /\ loop' = NoCall
  /\ due' = <<>>
  /\ answer' = "error"
  /\ UNCHANGED <<data_at_exec, request, outcome, given, sent>>

PublishedOrNot(chain) ==
  IF chain # <<>> THEN Published(statement, chain)
  ELSE [statement EXCEPT !.has_result_set = FALSE, !.state = "executed"]

FinishSets ==
  /\ BatchOver /\ ~loop.batch_had_error /\ BatchEnd = request.sets
  /\ param_status' = Marked(IF loop.batch_had_notice THEN "info" ELSE "success")
  /\ params_processed' = loop.rows_processed
  /\ statement' = PublishedOrNot(loop.chained_results)
  /\ answer' = IF loop.any_notice \/ loop.batch_had_notice THEN "info" ELSE "success"
  /\ loop' = NoCall
  /\ UNCHANGED <<data_at_exec, request, result, due, outcome, given, sent>>

----------------------------------------------------------------------------
\* Data at execution: SQLParamData and SQLPutData.

Awaited == {p \in data_at_exec.needs_data : p > data_at_exec.current_parameter_index}

\* SQLParamData hands out the next parameter of the set ...
ParamData ==
  /\ loop.call = "none" /\ data_at_exec.in_need_data
  /\ loop' = [NoCall EXCEPT !.call = "param_data"]
  /\ UNCHANGED <<statement, data_at_exec, request, param_status, params_processed, result,
                 due, outcome, answer, given, sent>>

HandOut ==
  /\ loop.call = "param_data" /\ Awaited # {}
  /\ data_at_exec' = [data_at_exec EXCEPT !.current_parameter_index =
       CHOOSE p \in Awaited : \A q \in Awaited : p <= q]
  /\ loop' = NoCall
  /\ UNCHANGED <<statement, request, param_status, params_processed, result, due, outcome,
                 answer, given, sent>>

\* The set the application takes the driver to be asking for.
SetAskedFor == IF request.sets = 1 THEN 1 ELSE params_processed

\* SQLPutData: a piece, or the null that ends the value.  A piece tells the set and the
\* parameter it was put for.
PutData ==
  LET p     == data_at_exec.current_parameter_index
      piece == <<SetAskedFor, p>>
  IN  /\ loop.call = "none" /\ data_at_exec.in_need_data /\ p # NoParameter
      /\ ~data_at_exec.value[p].is_null
      /\ \/ /\ given[p] < MaxPieces
            /\ data_at_exec' = [data_at_exec EXCEPT !.value[p].pieces = Append(@, piece)]
            /\ given' = [given EXCEPT ![p] = @ + 1]
         \/ /\ data_at_exec' = [data_at_exec EXCEPT !.value[p].is_null = TRUE]
            /\ given' = [given EXCEPT ![p] = 0]
      /\ UNCHANGED <<statement, loop, request, param_status, params_processed, result, due,
                     outcome, answer, sent>>

\* ... or, with none left, runs the set.
SetSupplied == loop.call = "param_data" /\ Awaited = {}

\* What is sent of the values: nothing, for a null one.
Values == [p \in data_at_exec.needs_data |->
             IF data_at_exec.value[p].is_null THEN <<>> ELSE data_at_exec.value[p].pieces]

SendValues ==
  /\ sent' = [values |-> Values,
              given  |-> [p \in request.deferred[data_at_exec.current_row] |->
                            [i \in 1 .. given[p] |-> <<data_at_exec.current_row, p>>]]]
  /\ given' = NoPieces

\* A single set is handled like the ordinary case.
RunOnlySet ==
  /\ SetSupplied /\ data_at_exec.row_count = 1 /\ CanHold
  /\ SendValues
  /\ \E kind \in Answers :
       /\ statement' = IF kind = "tuples"
                       THEN Applied(statement, NewResult(Live), kind)
                       ELSE Applied(statement, NoResult, kind)
       /\ result' = IF kind = "tuples" THEN Keep(result, NewResult(Live), Label(0, kind))
                    ELSE result
       /\ due' = IF kind = "tuples" THEN <<Label(0, kind)>> ELSE <<>>
  /\ data_at_exec' = NotAsking
  /\ loop' = NoCall
  /\ UNCHANGED <<request, param_status, params_processed, outcome, answer>>

\* Mutant: the pieces of the set before are kept.
RearmedKeeping(state, row) ==
  [state EXCEPT !.current_row = row, !.current_parameter_index = NoParameter,
                !.needs_data = request.deferred[row]]

\* Mutant: the set that has run is asked for again.
RearmedInPlace(state, row) ==
  [state EXCEPT !.value = [p \in Param |-> NoValue],
                !.current_parameter_index = NoParameter,
                !.needs_data = request.deferred[state.current_row]]

Rearmed(state, row) ==
  [state EXCEPT !.value = [p \in Param |-> NoValue], !.current_row = row,
                !.current_parameter_index = NoParameter,
                !.needs_data = request.deferred[row]]

\* Mutant: the chain that has been published is left to be discarded with the rest.
FinishedWithChain(chain) == [NotAsking EXCEPT !.chained_results = chain]

\* What is left of the state once its chain has gone to the statement.
Finished(chain) == NotAsking

\* A set of an array runs, and the call goes on with the next set or publishes the chain.
RunSuppliedSet ==
  /\ SetSupplied /\ data_at_exec.row_count > 1 /\ CanHold
  /\ SendValues
  /\ \E kind \in Rows :
       LET row   == data_at_exec.current_row
           chain == IF kind = "tuples"
                    THEN Append(data_at_exec.chained_results, NewResult(Live))
                    ELSE data_at_exec.chained_results
       IN  /\ result' = IF kind = "tuples"
                        THEN Keep(result, NewResult(Live), Label(row, kind)) ELSE result
           /\ due' = IF kind = "tuples" THEN Append(due, Label(row, kind)) ELSE due
           /\ param_status' = [param_status EXCEPT ![row] = "success"]
           /\ outcome' = [outcome EXCEPT ![row] = "succeeded"]
           /\ data_at_exec' = [data_at_exec EXCEPT !.chained_results = chain]
           /\ loop' = [loop EXCEPT !.call = "advance"]
  /\ UNCHANGED <<statement, request, params_processed, answer>>

NextSet ==
  /\ loop.call = "advance" /\ data_at_exec.current_row < data_at_exec.row_count
  /\ data_at_exec' = Rearmed(data_at_exec, data_at_exec.current_row + 1)
  /\ params_processed' = data_at_exec.current_row + 1
  /\ loop' = [NoCall EXCEPT !.call = "param_data"]
  /\ UNCHANGED <<statement, request, param_status, result, due, outcome, answer, given, sent>>

FinishSupplied ==
  /\ loop.call = "advance" /\ data_at_exec.current_row = data_at_exec.row_count
  /\ statement' = PublishedOrNot(data_at_exec.chained_results)
  /\ data_at_exec' = Finished(data_at_exec.chained_results)
  /\ loop' = NoCall
  /\ answer' = "success"
  /\ UNCHANGED <<request, param_status, params_processed, result, due, outcome, given, sent>>

\* A set that fails ends the array; one that cannot be built has no status.
SuppliedSetFails ==
  /\ SetSupplied /\ data_at_exec.row_count > 1
  /\ SendValues
  /\ \E was \in {"failed", "unsent"} :
       LET row == data_at_exec.current_row
       IN  /\ outcome' = [outcome EXCEPT ![row] = was]
           /\ param_status' = IF was = "failed" THEN [param_status EXCEPT ![row] = "error"]
                              ELSE param_status
  /\ result' = Clear(result, ToSet(data_at_exec.chained_results))
  /\ data_at_exec' = NotAsking
  /\ loop' = NoCall
  /\ due' = <<>>
  /\ answer' = "error"
  /\ UNCHANGED <<statement, request, params_processed>>

----------------------------------------------------------------------------
\* The steps of the calls under way.
Proceed ==
  \/ RunSingle \/ RunCall \/ FetchCursor \/ FetchFails \/ FinishCall
  \/ RunFragment \/ FragmentFails \/ FinishFragments
  \/ SkipSet \/ RunSet \/ SetFails \/ NextBatch \/ BatchFails \/ FinishSets
  \/ HandOut \/ RunOnlySet \/ RunSuppliedSet \/ NextSet \/ FinishSupplied
  \/ SuppliedSetFails

Next ==
  \/ Prepare \/ ExecDirectRefused \/ CloseCursor \/ Free \/ Catalog \/ MoreResults
  \/ \E direct \in BOOLEAN, r \in Request : Execute(direct, r)
  \/ ParamData \/ PutData
  \/ Proceed

Spec == Init /\ [][Next]_vars

\* A call that is under way goes on, and an application that was told SQL_NEED_DATA goes
\* on asking for the next parameter: the driver has no other call to end the protocol with.
FairSpec == Spec /\ WF_vars(Proceed) /\ WF_vars(ParamData)

----------------------------------------------------------------------------
\* Properties.

\* Where a result the driver has not cleared may be kept.
Places ==
  <<statement.current_result, statement.describe_result, loop.call_result>>
    \o Unpromoted(statement) \o data_at_exec.chained_results \o loop.chained_results

\* Every result the driver has not cleared has one place from which it will be: none is
\* lost, and none is held twice or after it was cleared, while chains move from the local
\* variables of a call and from the data-at-execution state to the statement
\* (statement.c:231-272, 2070-2088, 2602-2643, 3822-3842).
ResultsOwnedOnce ==
  /\ \A i, j \in DOMAIN Places : Places[i] = Places[j] => i = j \/ Places[i] = NoResult
  /\ ToSet(Places) \ {NoResult} = Live

\* Outside a call the application has before it, in the order in which they were made,
\* the results of its last execution that it has not walked past, and none of an earlier
\* one (statement.c:2576-2583, 2634-2642).
ResultsInOrder ==
  Idle => LET offered == <<statement.current_result>> \o Unpromoted(statement)
          IN  [i \in 1 .. Len(due) |-> due[i]] =
                IF statement.current_result = NoResult THEN <<>>
                ELSE [i \in 1 .. Len(offered) |-> result[offered[i]]]

Ran == {n \in Sets : outcome[n] \in {"succeeded", "noticed", "failed"}}
Tried == {n \in Sets : outcome[n] # "none"}

\* Once an array has been executed its statuses can be trusted: a set that is told to have
\* succeeded did, one told to be unused was not sent, one that failed is told so, and the
\* count is that of the sets sent (statement.c:1841-2090, 3770-3820).
StatusesTellOutcome ==
  answer # "none" =>
    /\ \A n \in 1 .. request.sets :
         /\ param_status[n] = "success" => outcome[n] = "succeeded"
         /\ param_status[n] = "info" => outcome[n] \in {"succeeded", "noticed"}
         /\ param_status[n] = "unused" => outcome[n] \in {"none", "unsent"}
         /\ outcome[n] = "failed" => param_status[n] = "error"
         /\ answer # "error" => (outcome[n] = "none") = (n \in request.ignored)
    /\ params_processed \in Cardinality(Ran) .. Cardinality(Tried)

\* The values an execution sends are those put since the driver asked for them, for the
\* set and the parameter the application was told: no piece of one set reaches another
\* (statement.c:3535-3555, 3862-3900).
ValuesAreOfTheSet == sent.values = sent.given

\* Data at execution comes to an end when the application goes on calling SQLParamData
\* (statement.c:3865-3899).
NeedDataEnds == data_at_exec.in_need_data ~> ~data_at_exec.in_need_data
=============================================================================
