--------------------------- MODULE ExecutionProofs ---------------------------
(***************************************************************************)
(* What one statement keeps as it executes, for arrays of any size, any     *)
(* number of cursors, parameters and results: each result of the server is  *)
(* held in one place, what the application is offered comes in order, the   *)
(* statuses of an array tell what became of its sets, and the values sent   *)
(* for a set are those supplied for it.                                     *)
(***************************************************************************)
EXTENDS Execution, TLAPS, FiniteSetTheorems, SequenceTheorems, WellFoundedInduction

\* Addresses of results; none is NoResult.
Heap == 1 .. MaxResults
Address == 0 .. MaxResults

\* The types of the variables.
StatementType ==
  [is_prepared: BOOLEAN, state: {"allocated", "prepared", "executed", "has_cursor"},
   has_result_set: BOOLEAN, current_result: Address, describe_result: Address,
   pending_results: Seq(Heap), pending_result_index: Nat]

ValueType == [is_null: BOOLEAN, pieces: Seq(Nat \X Nat)]

DataType ==
  [in_need_data: BOOLEAN, row_count: 0 .. MaxSets, current_row: Nat,
   current_parameter_index: Param \union {NoParameter}, needs_data: SUBSET Param,
   value: [Param -> ValueType], chained_results: Seq(Heap)]

LoopType ==
  [call: {"none", "single", "cursors", "fragments", "sets", "param_data", "advance"},
   at: Nat, batch_start: Nat, rows_processed: Nat, batch_had_notice: BOOLEAN,
   batch_had_error: BOOLEAN, any_notice: BOOLEAN, chained_results: Seq(Heap),
   call_result: Address]

RequestType ==
  [fragments: Nat, sets: 0 .. MaxSets, deferred: [Sets -> SUBSET Param],
   ignored: SUBSET Sets, batch: Sets]

LabelType == [of: Nat, kind: {"describe", "tuples", "command", "error"}]

TypeOK ==
  /\ statement \in StatementType
  /\ data_at_exec \in DataType
  /\ loop \in LoopType
  /\ request \in RequestType
  /\ param_status \in [Sets -> {"untouched", "unused", "success", "info", "error"}]
  /\ params_processed \in Nat
  /\ Live \subseteq Heap /\ result \in [Live -> LabelType]
  /\ due \in Seq(LabelType)
  /\ outcome \in [Sets -> {"none", "succeeded", "noticed", "failed", "unsent"}]
  /\ answer \in {"none", "success", "info", "error"}
  /\ given \in [Param -> Nat]

\* The calls that supply data, and those that make a chain.
Asks == {"param_data", "advance"}
Chains == {"cursors", "fragments", "sets"}

\* What the call under way and the state of data at execution say of the rest: they
\* exclude each other, and while either lasts the statement itself holds no result.
Control ==
  /\ loop.call \in Asks => data_at_exec.in_need_data
  /\ data_at_exec.in_need_data => loop.call \in Asks \union {"none"}
  /\ loop.call = "advance" => data_at_exec.row_count > 1
  /\ loop.call \notin Chains => loop.chained_results = <<>>
  /\ loop.call # "cursors" => loop.call_result = NoResult
  /\ ~data_at_exec.in_need_data => data_at_exec.chained_results = <<>>
  /\ data_at_exec.row_count <= 1 => data_at_exec.chained_results = <<>>
  /\ ~Idle => /\ statement.current_result = NoResult
              /\ statement.describe_result = NoResult
              /\ statement.pending_results = <<>>
              /\ answer = "none"
  /\ loop.call = "fragments" => /\ Len(loop.chained_results) = loop.at - 1
                                /\ loop.at >= 1 /\ request.fragments > 1
  /\ statement.pending_result_index <= Len(statement.pending_results)

\* No entry twice.
Distinct(s) == \A i, j \in 1 .. Len(s) : s[i] = s[j] => i = j

\* The results held by what is under way.
HeldByCall ==
  (ToSet(data_at_exec.chained_results) \union ToSet(loop.chained_results)
     \union {loop.call_result}) \ {NoResult}

\* Each result is in one place: the statement has its own, or a call its own.  What
\* waits in a chain is never an error.
Owning ==
  /\ Live = HeldBy(statement) \union HeldByCall
  /\ Distinct(Unpromoted(statement))
  /\ Distinct(data_at_exec.chained_results)
  /\ Distinct(loop.chained_results)
  /\ loop.call_result \notin ToSet(loop.chained_results)
  /\ statement.current_result # NoResult =>
       /\ statement.current_result # statement.describe_result
       /\ statement.current_result \notin ToSet(Unpromoted(statement))
  /\ statement.describe_result # NoResult => Unpromoted(statement) = <<>>
  /\ \A r \in ToSet(Unpromoted(statement)) \union ToSet(data_at_exec.chained_results)
             \union ToSet(loop.chained_results) :
       result[r].kind \in Rows

\* The results of a chain are those the application is to see.
Labelled(labels, chain) ==
  /\ Len(labels) = Len(chain)
  /\ \A i \in 1 .. Len(chain) : labels[i] = result[chain[i]]

\* Chains are in the order in which the application is to see them.
Ordered ==
  /\ loop.call = "single" => due = <<>>
  /\ loop.call \in Chains => Labelled(due, loop.chained_results)
  /\ data_at_exec.in_need_data => Labelled(due, data_at_exec.chained_results)
  /\ Idle /\ Careful =>
       IF statement.current_result = NoResult
       THEN due = <<>> /\ Unpromoted(statement) = <<>>
       ELSE /\ Len(due) = Len(Unpromoted(statement)) + 1
            /\ due[1] = result[statement.current_result]
            /\ \A i \in 1 .. Len(Unpromoted(statement)) :
                 due[i + 1] = result[Unpromoted(statement)[i]]

\* A set of an array under way: before the batch it has its status, in the batch it may
\* have run, behind it has not been touched.
Told(n) ==
  /\ n < loop.batch_start =>
       IF n \in request.ignored THEN param_status[n] = "unused"
       ELSE /\ param_status[n] \in {"success", "info"}
            /\ param_status[n] = "success" => outcome[n] = "succeeded"
  /\ n \in loop.batch_start .. request.sets => param_status[n] = "unused"
  /\ n < loop.at =>
       outcome[n] \in IF n \in request.ignored THEN {"none"} ELSE {"succeeded", "noticed"}
  /\ n \in loop.batch_start .. loop.at - 1 /\ outcome[n] = "noticed" =>
       loop.batch_had_notice
  /\ n = loop.at =>
       outcome[n] \in IF loop.batch_had_error THEN {"failed", "unsent"} ELSE {"none"}
  /\ n > loop.at => outcome[n] = "none"

Batching == loop.call = "sets" =>
  /\ request.sets \in Sets /\ request.ignored \subseteq 1 .. request.sets
  /\ loop.batch_start \in 1 .. request.sets
  /\ loop.at \in loop.batch_start .. BatchEnd + 1
  /\ loop.batch_had_error => loop.at <= BatchEnd /\ loop.at \notin request.ignored
  /\ \A n \in Sets : Told(n)
  /\ loop.rows_processed = Cardinality(Ran)

\* The sets that have run, of those supplied at execution.
Supplied == IF loop.call = "advance" THEN data_at_exec.current_row
            ELSE data_at_exec.current_row - 1

\* An array supplied at execution: the driver asks for the set it tells the application.
Serving == data_at_exec.in_need_data =>
  /\ request.sets \in Sets /\ request.ignored = {}
  /\ data_at_exec.row_count = request.sets
  /\ data_at_exec.current_row \in 1 .. request.sets
  /\ request.sets > 1 =>
       /\ params_processed = data_at_exec.current_row
       /\ \A n \in Sets :
            /\ outcome[n] = IF n <= Supplied THEN "succeeded" ELSE "none"
            /\ n <= request.sets =>
                 param_status[n] = IF n <= Supplied THEN "success" ELSE "unused"

\* The value of a parameter is what was put for it and for the current set.
Filled(p) ==
  IF data_at_exec.value[p].is_null THEN given[p] = 0
  ELSE data_at_exec.value[p].pieces =
         [i \in 1 .. given[p] |-> <<data_at_exec.current_row, p>>]

\* The driver collects the values of the set it is asking for.
Filling ==
  /\ sent.values = sent.given
  /\ data_at_exec.in_need_data =>
       /\ data_at_exec.needs_data = request.deferred[data_at_exec.current_row]
       /\ data_at_exec.current_parameter_index \in data_at_exec.needs_data \union {NoParameter}
       /\ IF loop.call = "advance" THEN given = NoPieces
          ELSE \A p \in data_at_exec.needs_data : Filled(p)

----------------------------------------------------------------------------
(* The operators.                                                          *)

\* A result is made at an address that is free.
LEMMA NewIsFree ==
  ASSUME NEW alive, \E r \in 1 .. MaxResults : r \notin alive
  PROVE  NewResult(alive) \in Heap /\ NewResult(alive) \notin alive
<1> DEFINE T == Heap \ alive
<1>1. T # {} /\ T \subseteq Nat
  BY ExecutionAssumption DEF Heap
<1>2. PICK r \in T : \A q \in T : <<q, r>> \notin OpToRel(<, Nat)
  BY <1>1, NatLessThanWellFounded, WFMin
<1>3. \A q \in T : ~(q < r)
  BY <1>1, <1>2 DEF OpToRel
<1>4. \A q \in 1 .. MaxResults : q < r => q \in alive
  BY <1>3 DEF Heap
<1>5. r \in 1 .. MaxResults /\ r \notin alive
  BY <1>2 DEF Heap
<1> HIDE DEF T
<1> QED
  BY <1>4, <1>5 DEF NewResult, Heap

\* The elements of a chain that grows, and that it stays without repetition.
LEMMA Appending ==
  ASSUME NEW s \in Seq(Heap), NEW r \in Heap
  PROVE  /\ Append(s, r) \in Seq(Heap)
         /\ Append(s, r) # <<>>
         /\ Len(Append(s, r)) = Len(s) + 1
         /\ ToSet(Append(s, r)) = ToSet(s) \union {r}
         /\ \A i \in 1 .. Len(s) : Append(s, r)[i] = s[i]
         /\ Append(s, r)[Len(s) + 1] = r
         /\ Distinct(s) /\ r \notin ToSet(s) => Distinct(Append(s, r))
<1> DEFINE t == Append(s, r)
<1>1. /\ t \in Seq(Heap) /\ t # <<>> /\ Len(t) = Len(s) + 1
      /\ \A i \in 1 .. Len(s) : t[i] = s[i]
      /\ t[Len(s) + 1] = r
  BY AppendProperties
<1>2. Len(s) \in Nat /\ DOMAIN s = 1 .. Len(s) /\ DOMAIN t = 1 .. Len(s) + 1
  BY <1>1, LenProperties
<1> HIDE DEF t
<1>3. ToSet(t) = ToSet(s) \union {r}
  <2>1. ToSet(t) \subseteq ToSet(s) \union {r}
    <3> SUFFICES ASSUME NEW i \in 1 .. Len(s) + 1 PROVE t[i] \in ToSet(s) \union {r}
      BY <1>2 DEF ToSet
    <3>1. CASE i = Len(s) + 1
      BY <3>1, <1>1
    <3>2. CASE i # Len(s) + 1
      BY <3>2, <1>1, <1>2 DEF ToSet
    <3> QED
      BY <3>1, <3>2
  <2>2. ToSet(s) \subseteq ToSet(t)
    <3> SUFFICES ASSUME NEW i \in 1 .. Len(s) PROVE s[i] \in ToSet(t)
      BY <1>2 DEF ToSet
    <3>1. i \in 1 .. Len(s) + 1 /\ t[i] = s[i]
      BY <1>1, <1>2
    <3> QED
      BY <3>1, <1>2 DEF ToSet
  <2>3. r \in ToSet(t)
    BY <1>1, <1>2 DEF ToSet
  <2> QED
    BY <2>1, <2>2, <2>3
<1>4. ASSUME Distinct(s), r \notin ToSet(s) PROVE Distinct(t)
  <2>1. \A i \in 1 .. Len(s) : s[i] # r
    BY <1>2, <1>4 DEF ToSet
  <2>2. ASSUME NEW i \in 1 .. Len(s) + 1, NEW j \in 1 .. Len(s) + 1, t[i] = t[j]
        PROVE  i = j
    <3>1. CASE i \in 1 .. Len(s) /\ j \in 1 .. Len(s)
      BY <3>1, <2>2, <1>1, <1>4 DEF Distinct
    <3>2. CASE i = Len(s) + 1 \/ j = Len(s) + 1
      BY <3>2, <2>1, <2>2, <1>1, <1>2
    <3> QED
      BY <3>1, <3>2, <1>2
  <2> QED
    BY <2>2, <1>1 DEF Distinct
<1> QED
  BY <1>1, <1>3, <1>4 DEF t

\* What waits to be promoted.
LEMMA Waiting ==
  ASSUME NEW st, st \in StatementType,
         st.pending_result_index <= Len(st.pending_results)
  PROVE  LET p == st.pending_results
             k == st.pending_result_index
         IN  /\ Unpromoted(st) \in Seq(Heap)
             /\ Len(Unpromoted(st)) = Len(p) - k
             /\ \A i \in 1 .. Len(p) - k : Unpromoted(st)[i] = p[k + i]
<1> DEFINE p == st.pending_results
           k == st.pending_result_index
<1>1. p \in Seq(Heap) /\ k \in Nat /\ Len(p) \in Nat /\ k <= Len(p)
  BY LenProperties DEF StatementType
<1>2. \A i \in k + 1 .. Len(p) : p[i] \in Heap
  BY <1>1, ElementOfSeq
<1> HIDE DEF p, k
<1>3. /\ SubSeq(p, k + 1, Len(p)) \in Seq(Heap)
      /\ Len(SubSeq(p, k + 1, Len(p))) =
           IF k + 1 <= Len(p) THEN Len(p) - (k + 1) + 1 ELSE 0
      /\ \A i \in 1 .. Len(p) - (k + 1) + 1 :
           SubSeq(p, k + 1, Len(p))[i] = p[k + 1 + i - 1]
  BY <1>1, <1>2, SubSeqProperties
<1>4. Len(SubSeq(p, k + 1, Len(p))) = Len(p) - k
  BY <1>1, <1>3
<1>5. \A i \in 1 .. Len(p) - k : SubSeq(p, k + 1, Len(p))[i] = p[k + i]
  BY <1>1, <1>3
<1>6. Unpromoted(st) = SubSeq(p, k + 1, Len(p))
  BY DEF Unpromoted, p, k
<1> QED
  BY <1>3, <1>4, <1>5, <1>6 DEF p, k

\* An empty sequence, by its length; and the elements of the empty one.
LEMMA EmptyChain ==
  /\ \A s \in Seq(Heap) : s = <<>> <=> Len(s) = 0
  /\ <<>> \in Seq(Heap) /\ ToSet(<<>>) = {} /\ Distinct(<<>>) /\ Len(<<>>) = 0
<1>1. \A s \in Seq(Heap) : s = <<>> <=> Len(s) = 0
  BY EmptySeq
<1>2. <<>> \in Seq(Heap) /\ Len(<<>>) = 0
  BY EmptySeq
<1>3. Distinct(<<>>)
  BY <1>2 DEF Distinct
<1>4. DOMAIN <<>> = {}
  BY <1>2
<1>5. ToSet(<<>>) = {}
  BY <1>4 DEF ToSet
<1> QED
  BY <1>1, <1>2, <1>3, <1>5

\* A statement with nothing pending has nothing waiting.
LEMMA NothingWaits ==
  ASSUME NEW st, st \in StatementType, st.pending_results = <<>>,
         st.pending_result_index <= Len(st.pending_results)
  PROVE  Unpromoted(st) = <<>>
<1>1. Len(st.pending_results) = 0 /\ st.pending_result_index = 0
  BY EmptyChain DEF StatementType
<1>2. Unpromoted(st) \in Seq(Heap) /\ Len(Unpromoted(st)) = 0
  BY <1>1, Waiting
<1> QED
  BY <1>2, EmptyChain

\* A sequence and what is left of it without its first element.
LEMMA WithoutFirst ==
  ASSUME NEW s \in Seq(Heap), NEW t \in Seq(Heap), Len(s) = Len(t) + 1,
         \A i \in 1 .. Len(t) : t[i] = s[i + 1]
  PROVE  /\ s[1] \in Heap
         /\ ToSet(s) = {s[1]} \union ToSet(t)
         /\ Distinct(s) => Distinct(t) /\ s[1] \notin ToSet(t)
<1>1. Len(t) \in Nat /\ DOMAIN t = 1 .. Len(t) /\ DOMAIN s = 1 .. Len(t) + 1
  BY LenProperties
<1>2. s[1] \in Heap
  BY <1>1, ElementOfSeq
<1>3. ToSet(s) \subseteq {s[1]} \union ToSet(t)
  <2> SUFFICES ASSUME NEW i \in 1 .. Len(t) + 1, i # 1 PROVE s[i] \in ToSet(t)
    BY <1>1 DEF ToSet
  <2>1. i - 1 \in 1 .. Len(t) /\ t[i - 1] = s[i]
    BY <1>1
  <2> QED
    BY <2>1, <1>1 DEF ToSet
<1>4. ToSet(t) \subseteq ToSet(s) /\ s[1] \in ToSet(s)
  BY <1>1 DEF ToSet
<1>5. ASSUME Distinct(s) PROVE Distinct(t) /\ s[1] \notin ToSet(t)
  <2>1. ASSUME NEW i \in 1 .. Len(t), NEW j \in 1 .. Len(t), t[i] = t[j] PROVE i = j
    <3>1. i + 1 = j + 1
      BY <2>1, <1>1, <1>5 DEF Distinct
    <3> QED
      BY <3>1
  <2>2. ASSUME NEW i \in 1 .. Len(t), t[i] = s[1] PROVE FALSE
    <3>1. i + 1 = 1
      BY <2>2, <1>1, <1>5 DEF Distinct
    <3> QED
      BY <3>1
  <2> QED
    BY <2>1, <2>2, <1>1 DEF Distinct, ToSet
<1> QED
  BY <1>2, <1>3, <1>4, <1>5

\* Making a result current.
LEMMA Applying ==
  ASSUME NEW st \in StatementType, NEW r \in Address, NEW kind \in Answers
  PROVE  LET now == Applied(st, r, kind)
         IN  /\ now \in StatementType
             /\ now.current_result = r
             /\ now.describe_result = st.describe_result
             /\ now.pending_results = st.pending_results
             /\ now.pending_result_index = st.pending_result_index
  BY DEF Applied, StatementType, Answers, Rows

\* A chain that becomes the statement's: its first result is current, the rest waits.
LEMMA Publishing ==
  ASSUME NEW st \in StatementType, NEW chain \in Seq(Heap), chain # <<>>,
         result[chain[1]].kind \in Rows
  PROVE  LET now == Published(st, chain)
         IN  /\ now \in StatementType
             /\ now.pending_result_index <= Len(now.pending_results)
             /\ now.current_result = chain[1] /\ chain[1] \in Heap
             /\ now.describe_result = st.describe_result
             /\ Unpromoted(now) \in Seq(Heap)
             /\ Len(Unpromoted(now)) + 1 = Len(chain)
             /\ \A i \in 1 .. Len(Unpromoted(now)) : Unpromoted(now)[i] = chain[i + 1]
             /\ ToSet(chain) = {chain[1]} \union ToSet(Unpromoted(now))
             /\ Distinct(chain) => Distinct(Unpromoted(now))
                                   /\ chain[1] \notin ToSet(Unpromoted(now))
<1> DEFINE now == Published(st, chain)
           before == [st EXCEPT !.pending_results = chain, !.pending_result_index = 1]
<1>1. Len(chain) \in Nat \ {0}
  BY EmptySeq
<1>2. chain[1] \in Heap
  BY <1>1, ElementOfSeq
<1>3. before \in StatementType
  BY DEF StatementType
<1>4. /\ before.pending_results = chain /\ before.pending_result_index = 1
      /\ before.describe_result = st.describe_result
  BY DEF StatementType
<1>5. now = Applied(before, chain[1], result[chain[1]].kind)
  BY DEF Published
<1>6. chain[1] \in Address /\ result[chain[1]].kind \in Answers
  BY <1>2, ExecutionAssumption DEF Heap, Address, Answers
<1> HIDE DEF before
<1>7. /\ now \in StatementType
      /\ now.current_result = chain[1]
      /\ now.describe_result = st.describe_result
      /\ now.pending_results = chain /\ now.pending_result_index = 1
  BY <1>3, <1>4, <1>5, <1>6, Applying
<1> HIDE DEF now
<1>8. /\ Unpromoted(now) \in Seq(Heap)
      /\ Len(Unpromoted(now)) = Len(chain) - 1
      /\ \A i \in 1 .. Len(chain) - 1 : Unpromoted(now)[i] = chain[1 + i]
  BY <1>7, <1>1, Waiting
<1>9. Len(Unpromoted(now)) + 1 = Len(chain)
  BY <1>8, <1>1
<1>10. \A i \in 1 .. Len(Unpromoted(now)) : Unpromoted(now)[i] = chain[i + 1]
  BY <1>8, <1>1
<1>11. now.pending_result_index <= Len(now.pending_results)
  BY <1>7, <1>1
<1> QED
  BY <1>2, <1>7, <1>8, <1>9, <1>10, <1>11, WithoutFirst DEF now

\* The results that are left when some are cleared.
LEMMA Clearing ==
  ASSUME NEW cleared, NEW results, DOMAIN results \subseteq Heap,
         results \in [DOMAIN results -> LabelType]
  PROVE  LET now == Clear(results, cleared)
         IN  /\ DOMAIN now = DOMAIN results \ cleared
             /\ DOMAIN now \subseteq Heap /\ now \in [DOMAIN now -> LabelType]
             /\ \A q \in DOMAIN now : now[q] = results[q]
  BY DEF Clear

----------------------------------------------------------------------------
(* Where results go.                                                       *)

\* The elements of a chain.
LEMMA Elements ==
  ASSUME NEW s \in Seq(Heap)
  PROVE  /\ Len(s) \in Nat /\ DOMAIN s = 1 .. Len(s)
         /\ ToSet(s) \subseteq Heap /\ NoResult \notin ToSet(s)
         /\ \A i \in 1 .. Len(s) : s[i] \in ToSet(s) /\ s[i] \in Heap
<1>1. Len(s) \in Nat /\ DOMAIN s = 1 .. Len(s)
  BY LenProperties
<1>2. \A i \in 1 .. Len(s) : s[i] \in Heap
  BY ElementOfSeq
<1>3. \A i \in 1 .. Len(s) : s[i] \in ToSet(s)
  BY <1>1 DEF ToSet
<1>4. ToSet(s) \subseteq Heap
  BY <1>1, <1>2 DEF ToSet
<1>5. NoResult \notin Heap
  BY DEF Heap, NoResult
<1> QED
  BY <1>1, <1>2, <1>3, <1>4, <1>5

\* A step that moves no result, inside a call.
LEMMA Unmoved ==
  ASSUME Owning, Ordered, ~Idle, ~Idle', UNCHANGED <<statement, result, due>>,
         data_at_exec'.chained_results = data_at_exec.chained_results,
         loop'.chained_results = loop.chained_results,
         loop'.call_result = loop.call_result,
         data_at_exec'.in_need_data => data_at_exec.in_need_data,
         loop'.call = "single" => loop.call = "single",
         loop'.call \in Chains => loop.call \in Chains
  PROVE  Owning' /\ Ordered'
<1>1. Owning'
  BY DEF Owning, HeldBy, HeldByCall, Unpromoted, Live
<1>2. Ordered'
  BY DEF Ordered, Labelled
<1> QED
  BY <1>1, <1>2

\* A step after which the statement has at most one result, and nothing is under way.
LEMMA NothingBehind ==
  ASSUME Unpromoted(statement)' = <<>>, loop'.chained_results = <<>>,
         loop'.call_result = NoResult, data_at_exec'.chained_results = <<>>,
         Live' = {statement'.current_result, statement'.describe_result} \ {NoResult},
         statement'.current_result # NoResult =>
           statement'.current_result # statement'.describe_result,
         IF Idle' /\ statement'.current_result # NoResult
         THEN due' = <<result'[statement'.current_result]>> ELSE due' = <<>>
  PROVE  Owning' /\ Ordered'
<1>2. ToSet(<<>>) = {} /\ Distinct(<<>>) /\ Len(<<>>) = 0
  BY EmptyChain
<1>3. HeldBy(statement)' = {statement'.current_result, statement'.describe_result} \ {NoResult}
  BY <1>2 DEF HeldBy
<1>4. HeldByCall' = {}
  BY <1>2 DEF HeldByCall
<1>5. Owning'
  BY <1>2, <1>3, <1>4 DEF Owning
<1>6. Labelled(<<>>, <<>>)'
  BY <1>2 DEF Labelled
<1>7. Ordered'
  <2>1. CASE Idle' /\ statement'.current_result # NoResult
    <3>1. Len(due') = 1 /\ due'[1] = result'[statement'.current_result]
      BY <2>1
    <3>2. loop'.call = "none" /\ ~data_at_exec'.in_need_data
      BY <2>1 DEF Idle
    <3> QED
      BY <2>1, <3>1, <3>2, <1>2 DEF Ordered, Chains
  <2>2. CASE ~(Idle' /\ statement'.current_result # NoResult)
    <3>1. due' = <<>>
      BY <2>2
    <3> QED
      BY <2>2, <3>1, <1>6 DEF Ordered
  <2> QED
    BY <2>1, <2>2
<1> QED
  BY <1>5, <1>7

\* In particular when nothing is pending.
LEMMA Alone ==
  ASSUME (statement \in StatementType)',
         (statement.pending_result_index <= Len(statement.pending_results))',
         statement'.pending_results = <<>>, loop'.chained_results = <<>>,
         loop'.call_result = NoResult, data_at_exec'.chained_results = <<>>,
         Live' = {statement'.current_result, statement'.describe_result} \ {NoResult},
         statement'.current_result # NoResult =>
           statement'.current_result # statement'.describe_result,
         IF Idle' /\ statement'.current_result # NoResult
         THEN due' = <<result'[statement'.current_result]>> ELSE due' = <<>>
  PROVE  Owning' /\ Ordered'
<1>1. Unpromoted(statement)' = <<>>
  <2> DEFINE st == statement'
  <2>1. Unpromoted(st) = <<>>
    BY NothingWaits
  <2> QED
    BY <2>1 DEF Unpromoted
<1> QED
  BY <1>1, NothingBehind

\* A chain that goes to the statement, when it holds all there is.
LEMMA Handing ==
  ASSUME NEW chain \in Seq(Heap), chain # <<>>, Distinct(chain),
         \A r \in ToSet(chain) : result[r].kind \in Rows /\ result'[r] = result[r],
         Labelled(due, chain), due' = due, Live' = ToSet(chain),
         statement \in StatementType, statement.describe_result = NoResult,
         statement' = Published(statement, chain), loop' = NoCall,
         data_at_exec'.chained_results = <<>>, ~data_at_exec'.in_need_data
  PROVE  Owning' /\ Ordered'
<1> DEFINE now == Published(statement, chain)
           rest == Unpromoted(now)
<1>0. Len(chain) \in Nat \ {0} /\ DOMAIN chain = 1 .. Len(chain)
  BY EmptySeq, LenProperties
<1>1. \A i \in 1 .. Len(chain) : chain[i] \in ToSet(chain)
  BY <1>0 DEF ToSet
<1>2. /\ now.current_result = chain[1] /\ chain[1] \in Heap
      /\ now.describe_result = NoResult
      /\ rest \in Seq(Heap) /\ Len(rest) + 1 = Len(chain)
      /\ \A i \in 1 .. Len(rest) : rest[i] = chain[i + 1]
      /\ ToSet(chain) = {chain[1]} \union ToSet(rest)
      /\ Distinct(rest) /\ chain[1] \notin ToSet(rest)
  <2>1. result[chain[1]].kind \in Rows
    BY <1>0, <1>1
  <2>2. /\ now.current_result = chain[1] /\ chain[1] \in Heap
        /\ now.describe_result = statement.describe_result
        /\ rest \in Seq(Heap) /\ Len(rest) + 1 = Len(chain)
        /\ \A i \in 1 .. Len(rest) : rest[i] = chain[i + 1]
        /\ ToSet(chain) = {chain[1]} \union ToSet(rest)
        /\ Distinct(chain) => Distinct(rest) /\ chain[1] \notin ToSet(rest)
    BY <2>1, Publishing
  <2> QED
    BY <2>2
<1>3. statement' = now /\ Unpromoted(statement)' = rest
  BY DEF Unpromoted
<1> HIDE DEF now, rest
<1>4. ToSet(<<>>) = {} /\ Distinct(<<>>)
  BY EmptyChain
<1>5. loop'.chained_results = <<>> /\ loop'.call_result = NoResult /\ loop'.call = "none"
  BY DEF NoCall
<1>6. ToSet(chain) \subseteq Heap /\ NoResult \notin Heap
  BY Elements DEF Heap, NoResult
<1>7. HeldBy(statement)' = ToSet(chain)
  BY <1>2, <1>3, <1>6 DEF HeldBy
<1>8. HeldByCall' = {}
  BY <1>4, <1>5 DEF HeldByCall
<1>9. chain[1] # NoResult
  BY <1>2 DEF Heap, NoResult
<1>10. \A r \in ToSet(rest) : result'[r].kind \in Rows
  BY <1>2
<1>11. Owning'
  BY <1>2, <1>3, <1>4, <1>5, <1>7, <1>8, <1>9, <1>10 DEF Owning
<1>12. Len(due) = Len(chain) /\ \A i \in 1 .. Len(chain) : due[i] = result'[chain[i]]
  BY <1>1 DEF Labelled
<1>13. Len(rest) \in Nat
  BY <1>2, LenProperties
<1>14. due[1] = result'[chain[1]]
  BY <1>0, <1>12
<1>15. \A i \in 1 .. Len(rest) : due[i + 1] = result'[rest[i]]
  <2> TAKE i \in 1 .. Len(rest)
  <2>1. i + 1 \in 1 .. Len(chain) /\ rest[i] = chain[i + 1]
    BY <1>2, <1>13
  <2> QED
    BY <2>1, <1>12
<1>16. Ordered'
  BY <1>2, <1>3, <1>5, <1>9, <1>12, <1>14, <1>15 DEF Ordered, Chains
<1> QED
  BY <1>11, <1>16

\* A result made by a call for its chain.
LEMMA Growing ==
  ASSUME TypeOK, Control, Owning, Ordered, NEW r \in Heap, r \notin Live,
         NEW label \in LabelType, label.kind \in Rows,
         result' = Keep(result, r, label), due' = Append(due, label),
         UNCHANGED statement, ~Idle, ~Idle',
         \/ /\ data_at_exec' = data_at_exec /\ ~data_at_exec.in_need_data
            /\ loop'.chained_results = Append(loop.chained_results, r)
            /\ loop'.call_result = loop.call_result
            /\ loop'.call = loop.call /\ loop.call \in Chains
         \/ /\ data_at_exec'.chained_results = Append(data_at_exec.chained_results, r)
            /\ data_at_exec.in_need_data
            /\ loop'.chained_results = loop.chained_results
            /\ loop'.call_result = loop.call_result
            /\ loop'.call \in Asks
  PROVE  Owning' /\ Ordered'
<1> DEFINE D == data_at_exec.chained_results
           L == loop.chained_results
<1>1. D \in Seq(Heap) /\ L \in Seq(Heap) /\ due \in Seq(LabelType)
  BY DEF TypeOK, DataType, LoopType
<1>2. /\ Live' = Live \union {r}
      /\ result'[r] = label
      /\ \A q \in Live : result'[q] = result[q]
  <2>1. DOMAIN result \subseteq Heap /\ result \in [DOMAIN result -> LabelType]
    BY DEF TypeOK, Live
  <2> DEFINE now == Keep(result, r, label)
  <2>2. /\ DOMAIN now = DOMAIN result \union {r}
        /\ now[r] = label
        /\ \A q \in DOMAIN result : q # r => now[q] = result[q]
    BY DEF Keep
  <2>3. result' = now
    OBVIOUS
  <2> HIDE DEF now
  <2> QED
    BY <2>2, <2>3 DEF Live
<1>3. Unpromoted(statement) = <<>> /\ Unpromoted(statement)' = <<>>
  <2>1. Unpromoted(statement) = <<>>
    BY NothingWaits DEF TypeOK, Control
  <2> QED
    BY <2>1 DEF Unpromoted
<1>4. /\ NoResult \notin ToSet(L) /\ NoResult \notin ToSet(D)
      /\ r # NoResult /\ ToSet(<<>>) = {}
  BY <1>1, Elements, EmptyChain DEF Heap, NoResult
<1>5. /\ Live = HeldBy(statement) \union HeldByCall
      /\ ToSet(D) \subseteq Live /\ ToSet(L) \subseteq Live
      /\ loop.call_result # NoResult => loop.call_result \in Live
  BY <1>4 DEF Owning, HeldByCall
<1>6. /\ Len(Append(due, label)) = Len(due) + 1
      /\ \A i \in 1 .. Len(due) : Append(due, label)[i] = due[i]
      /\ Append(due, label)[Len(due) + 1] = label
  BY <1>1, AppendProperties
<1>7. HeldBy(statement)' = HeldBy(statement)
  BY DEF HeldBy, Unpromoted
<1>8. ASSUME NEW s \in Seq(Heap), ToSet(s) \subseteq Live, Labelled(due, s)
      PROVE  /\ Len(due') = Len(Append(s, r))
             /\ \A i \in 1 .. Len(Append(s, r)) : due'[i] = result'[Append(s, r)[i]]
  <2>1. Len(s) \in Nat /\ \A i \in 1 .. Len(s) : s[i] \in Live
    BY <1>8, Elements
  <2>2. /\ Len(Append(s, r)) = Len(s) + 1
        /\ \A i \in 1 .. Len(s) : Append(s, r)[i] = s[i]
        /\ Append(s, r)[Len(s) + 1] = r
    BY Appending
  <2>3. Len(due) = Len(s) /\ \A i \in 1 .. Len(s) : due[i] = result[s[i]]
    BY <1>8 DEF Labelled
  <2>4. ASSUME NEW i \in 1 .. Len(s) + 1 PROVE due'[i] = result'[Append(s, r)[i]]
    <3>1. i = Len(s) + 1 \/ i \in 1 .. Len(s)
      BY <2>1
    <3>2. CASE i = Len(s) + 1
      BY <3>2, <2>2, <2>3, <1>2, <1>6
    <3>3. CASE i \in 1 .. Len(s)
      <4>1. due'[i] = due[i] /\ Append(s, r)[i] = s[i]
        BY <3>3, <2>2, <2>3, <1>6
      <4>2. due[i] = result[s[i]] /\ result'[s[i]] = result[s[i]]
        BY <3>3, <2>1, <2>3, <1>2
      <4> QED
        BY <4>1, <4>2
    <3> QED
      BY <3>1, <3>2, <3>3
  <2> QED
    BY <2>2, <2>3, <2>4, <1>6
<1>9. ASSUME NEW s \in Seq(Heap), ToSet(s) \subseteq Live, Distinct(s)
      PROVE  /\ Distinct(Append(s, r)) /\ ToSet(Append(s, r)) = ToSet(s) \union {r}
  BY <1>9, Appending
<1>10. CASE /\ data_at_exec' = data_at_exec /\ ~data_at_exec.in_need_data
            /\ loop'.chained_results = Append(L, r)
            /\ loop'.call_result = loop.call_result
            /\ loop'.call = loop.call /\ loop.call \in Chains
  <2>1. ToSet(Append(L, r)) = ToSet(L) \union {r} /\ Distinct(Append(L, r))
    BY <1>1, <1>5, <1>9 DEF Owning
  <2>2. HeldByCall' = HeldByCall \union {r}
    BY <1>10, <2>1, <1>4 DEF HeldByCall
  <2>3. \A q \in ToSet(D) \union ToSet(Append(L, r)) : result'[q].kind \in Rows
    BY <2>1, <1>2, <1>5 DEF Owning
  <2>4. loop.call_result # r
    BY <1>4, <1>5
  <2>5. loop'.call_result \notin ToSet(loop'.chained_results)
    BY <1>10, <2>1, <2>4 DEF Owning
  <2>6. \A q \in ToSet(Unpromoted(statement)') \union ToSet(data_at_exec'.chained_results)
               \union ToSet(loop'.chained_results) : result'[q].kind \in Rows
    BY <2>3, <1>3, <1>4, <1>10
  <2>7. Owning'
    BY <1>2, <1>5, <1>7, <1>10, <2>1, <2>2, <2>5, <2>6, <1>3 DEF Owning
  <2>8. Labelled(due, loop.chained_results)'
    BY <1>1, <1>5, <1>8, <1>10 DEF Ordered, Labelled
  <2>9. Ordered'
    BY <1>10, <2>8 DEF Ordered, Chains
  <2> QED
    BY <2>7, <2>9
<1>11. CASE /\ data_at_exec'.chained_results = Append(D, r)
            /\ data_at_exec.in_need_data
            /\ loop'.chained_results = L
            /\ loop'.call_result = loop.call_result
            /\ loop'.call \in Asks
  <2>1. ToSet(Append(D, r)) = ToSet(D) \union {r} /\ Distinct(Append(D, r))
    BY <1>1, <1>5, <1>9 DEF Owning
  <2>2. HeldByCall' = HeldByCall \union {r}
    BY <1>11, <2>1, <1>4 DEF HeldByCall
  <2>3. \A q \in ToSet(L) \union ToSet(Append(D, r)) : result'[q].kind \in Rows
    BY <2>1, <1>2, <1>5 DEF Owning
  <2>6. \A q \in ToSet(Unpromoted(statement)') \union ToSet(data_at_exec'.chained_results)
               \union ToSet(loop'.chained_results) : result'[q].kind \in Rows
    BY <2>3, <1>3, <1>4, <1>11
  <2>7. Owning'
    BY <1>2, <1>5, <1>7, <1>11, <2>1, <2>2, <2>6, <1>3 DEF Owning
  <2>8. Labelled(due, data_at_exec.chained_results)'
    BY <1>1, <1>5, <1>8, <1>11 DEF Ordered, Labelled
  <2>9. Ordered'
    BY <1>11, <2>8 DEF Ordered, Chains, Asks
  <2> QED
    BY <2>7, <2>9
<1> QED
  BY <1>10, <1>11

----------------------------------------------------------------------------
(* The calls, one by one.                                                  *)

\* The part of the invariant that is about results.
Sound == TypeOK /\ Control /\ Owning /\ Ordered

\* What an application may ask for.
LEMMA Requests ==
  ASSUME NEW r \in Request
  PROVE  /\ r \in RequestType
         /\ r.fragments \in Sets /\ r.sets \in Sets
         /\ r.ignored \subseteq 1 .. r.sets /\ r.batch \in 1 .. r.sets
         /\ r.deferred[1] # {} => r.ignored = {}
<1>1. Sets \subseteq Nat /\ Sets \subseteq 0 .. MaxSets /\ 1 \in Sets
  BY ExecutionAssumption DEF Sets
<1>2. r \in [fragments: Sets, sets: Sets, deferred: [Sets -> SUBSET Param],
             ignored: SUBSET Sets, batch: Sets]
  BY DEF Request
<1>3. r \in RequestType
  BY <1>1, <1>2 DEF RequestType
<1>4. /\ r.ignored \subseteq 1 .. r.sets /\ r.batch <= r.sets
      /\ r.deferred[1] # {} => r.ignored = {}
  BY <1>1 DEF Request
<1>5. r.batch \in 1 .. r.sets
  BY <1>2, <1>4 DEF Sets
<1> QED
  BY <1>2, <1>3, <1>4, <1>5

\* clear_current_result leaves nothing, of a statement that does nothing else.
LEMMA Clean ==
  ASSUME Sound, Idle
  PROVE  /\ DOMAIN ClearCurrentResult = {}
         /\ Cleared(statement) \in StatementType
         /\ Cleared(statement).current_result = NoResult
         /\ Cleared(statement).describe_result = NoResult
         /\ Cleared(statement).pending_results = <<>>
         /\ Cleared(statement).pending_result_index = 0
         /\ loop.chained_results = <<>> /\ loop.call_result = NoResult
         /\ data_at_exec.chained_results = <<>> /\ loop.call = "none"
<1>1. /\ loop.call = "none" /\ loop.chained_results = <<>> /\ loop.call_result = NoResult
      /\ data_at_exec.chained_results = <<>>
  BY DEF Sound, Control, Idle, Chains
<1>2. HeldByCall = {}
  BY <1>1, EmptyChain DEF HeldByCall
<1>3. DOMAIN ClearCurrentResult = {}
  BY <1>2 DEF Sound, Owning, ClearCurrentResult, Clear, Live
<1>4. statement \in StatementType /\ NoResult \in Address /\ <<>> \in Seq(Heap)
  BY EmptyChain, ExecutionAssumption DEF Sound, TypeOK, NoResult, Address
<1>5. /\ Cleared(statement) \in StatementType
      /\ Cleared(statement).current_result = NoResult
      /\ Cleared(statement).describe_result = NoResult
      /\ Cleared(statement).pending_results = <<>>
      /\ Cleared(statement).pending_result_index = 0
  BY <1>4 DEF Cleared, StatementType
<1> QED
  BY <1>1, <1>3, <1>5

\* The values the variables begin with have their types.
LEMMA BeginningTypes ==
  /\ NotAsking \in DataType /\ NoCall \in LoopType /\ NoRequest \in RequestType
  /\ NoPieces \in [Param -> Nat]
  /\ <<>> \in Seq(LabelType)
  /\ Untouched \in [Sets -> {"untouched", "unused", "success", "info", "error"}]
  /\ [n \in Sets |-> "none"] \in [Sets -> {"none", "succeeded", "noticed", "failed", "unsent"}]
<1>1. <<>> \in Seq(Heap) /\ <<>> \in Seq(LabelType) /\ <<>> \in Seq(Nat \X Nat)
  BY EmptySeq
<1>2. NoResult \in Address /\ 1 \in Sets /\ 0 \in 0 .. MaxSets
  BY ExecutionAssumption DEF NoResult, Address, Sets
<1>3. NotAsking \in DataType
  BY <1>1, <1>2 DEF NotAsking, DataType, NoValue, ValueType, NoParameter
<1>4. NoCall \in LoopType
  BY <1>1, <1>2 DEF NoCall, LoopType
<1>5. NoRequest \in RequestType
  BY <1>2 DEF NoRequest, RequestType
<1> QED
  BY <1>1, <1>3, <1>4, <1>5 DEF NoPieces, Untouched

\* A call that clears the statement, and leaves it with at most a description.
LEMMA ClearingCall ==
  ASSUME Sound, Idle, UNCHANGED loop, data_at_exec' = NotAsking, due' = <<>>, Forget,
         statement' \in StatementType,
         statement'.current_result = NoResult, statement'.pending_results = <<>>,
         statement'.pending_result_index = 0,
         Live' = {statement'.describe_result} \ {NoResult},
         Live' \subseteq Heap /\ result' \in [Live' -> LabelType]
  PROVE  Sound'
<1>1. loop' = loop /\ loop.call = "none" /\ loop.chained_results = <<>>
      /\ loop.call_result = NoResult
  BY Clean
<1>2. ~data_at_exec'.in_need_data /\ data_at_exec'.chained_results = <<>>
  BY DEF NotAsking
<1>3. TypeOK'
  BY <1>1, BeginningTypes DEF Sound, TypeOK, Forget
<1>4. Len(<<>>) = 0
  BY EmptyChain
<1>5. Control'
  BY <1>1, <1>2, <1>4 DEF Control, Idle, Chains, Asks
<1>6. Owning' /\ Ordered'
  BY <1>1, <1>2, <1>4, Alone
<1> QED
  BY <1>3, <1>5, <1>6 DEF Sound

\* SQLPrepare: what was there is cleared, a description may come.
LEMMA PrepareSound ==
  ASSUME Sound, Prepare
  PROVE  Sound'
<1> DEFINE st == Cleared(statement)
           prepared == [st EXCEPT !.is_prepared = TRUE, !.state = "prepared"]
           r == NewResult(DOMAIN ClearCurrentResult)
           described == [st EXCEPT !.is_prepared = TRUE, !.state = "prepared",
                                   !.describe_result = r]
<1>1. /\ Idle /\ UNCHANGED loop /\ data_at_exec' = NotAsking /\ due' = <<>> /\ Forget
      /\ \/ statement' = st /\ result' = ClearCurrentResult
         \/ statement' = prepared /\ result' = ClearCurrentResult
         \/ statement' = described
              /\ result' = Keep(ClearCurrentResult, r, Label(0, "describe"))
  BY DEF Prepare
<1>2. /\ DOMAIN ClearCurrentResult = {} /\ st \in StatementType
      /\ st.current_result = NoResult /\ st.describe_result = NoResult
      /\ st.pending_results = <<>> /\ st.pending_result_index = 0
  BY <1>1, Clean
<1>3. r \in Heap
  <2>1. 1 \in 1 .. MaxResults /\ 1 \notin DOMAIN ClearCurrentResult
    BY <1>2, ExecutionAssumption
  <2> QED
    BY <2>1, NewIsFree
<1>4. r \in Address /\ r # NoResult
  BY <1>3, ExecutionAssumption DEF Heap, Address, NoResult
<1>5. ClearCurrentResult \in [{} -> LabelType]
  BY <1>2 DEF ClearCurrentResult, Clear
<1> HIDE DEF st, r
<1>6. CASE statement' = st /\ result' = ClearCurrentResult
  BY <1>1, <1>2, <1>5, <1>6, ClearingCall DEF Live
<1>7. CASE statement' = prepared /\ result' = ClearCurrentResult
  <2>1. /\ prepared \in StatementType /\ prepared.describe_result = NoResult
        /\ prepared.current_result = NoResult
        /\ prepared.pending_results = <<>> /\ prepared.pending_result_index = 0
    BY <1>2 DEF StatementType
  <2> HIDE DEF prepared
  <2> QED
    BY <1>1, <1>2, <1>5, <1>7, <2>1, ClearingCall DEF Live
<1>8. CASE statement' = described
           /\ result' = Keep(ClearCurrentResult, r, Label(0, "describe"))
  <2>1. /\ described \in StatementType /\ described.describe_result = r
        /\ described.current_result = NoResult
        /\ described.pending_results = <<>> /\ described.pending_result_index = 0
    BY <1>2, <1>4 DEF StatementType
  <2>2. /\ DOMAIN Keep(ClearCurrentResult, r, Label(0, "describe")) = {r}
        /\ Keep(ClearCurrentResult, r, Label(0, "describe")) \in [{r} -> LabelType]
    BY <1>2 DEF Keep, Label, LabelType
  <2> HIDE DEF described
  <2> QED
    BY <1>1, <1>3, <1>4, <1>8, <2>1, <2>2, ClearingCall DEF Live
<1> QED
  BY <1>1, <1>6, <1>7, <1>8

\* The calls that only clear.
LEMMA ClosingSound ==
  ASSUME Sound, ExecDirectRefused \/ CloseCursor \/ Free
  PROVE  Sound'
<1> DEFINE st == Cleared(statement)
           closed == [st EXCEPT !.state = IF statement.is_prepared THEN "prepared"
                                          ELSE "allocated"]
           freed == [st EXCEPT !.is_prepared = FALSE, !.state = "allocated"]
<1>1. /\ Idle /\ UNCHANGED loop /\ data_at_exec' = NotAsking /\ due' = <<>> /\ Forget
      /\ result' = ClearCurrentResult
      /\ statement' = st \/ statement' = closed \/ statement' = freed
  BY DEF ExecDirectRefused, CloseCursor, Free
<1>2. /\ DOMAIN ClearCurrentResult = {} /\ st \in StatementType
      /\ st.current_result = NoResult /\ st.describe_result = NoResult
      /\ st.pending_results = <<>> /\ st.pending_result_index = 0
  BY <1>1, Clean
<1>3. ClearCurrentResult \in [{} -> LabelType]
  BY <1>2 DEF ClearCurrentResult, Clear
<1> HIDE DEF st
<1>4. /\ statement' \in StatementType
      /\ statement'.current_result = NoResult /\ statement'.describe_result = NoResult
      /\ statement'.pending_results = <<>> /\ statement'.pending_result_index = 0
  BY <1>1, <1>2 DEF StatementType
<1>5. Live' = {}
  BY <1>1, <1>2 DEF Live
<1> QED
  BY <1>1, <1>3, <1>4, <1>5, ClearingCall

\* SQLExecute and SQLExecDirect begin from a clean statement.
LEMMA ExecuteSound ==
  ASSUME Sound, NEW direct \in BOOLEAN, NEW r \in Request, Execute(direct, r)
  PROVE  Sound'
<1> DEFINE st == Cleared(statement)
           kept == [st EXCEPT !.is_prepared = @ /\ ~direct]
           unused == [n \in Sets |-> IF n <= r.sets THEN "unused" ELSE "untouched"]
<1>1. /\ Idle /\ statement' = kept /\ result' = ClearCurrentResult /\ due' = <<>>
      /\ request' = r /\ answer' = "none" /\ given' = NoPieces /\ sent' = NothingSent
      /\ outcome' = [n \in Sets |-> "none"]
      /\ \/ /\ r.fragments > 1
            /\ loop' = [NoCall EXCEPT !.call = "fragments", !.at = 1]
            /\ data_at_exec' = NotAsking
         \/ data_at_exec' = Asking(r) /\ UNCHANGED loop
         \/ /\ loop' = [NoCall EXCEPT !.call = "sets", !.at = 1, !.batch_start = 1]
            /\ data_at_exec' = NotAsking
         \/ /\ loop' = [NoCall EXCEPT !.call = "single"]
            /\ data_at_exec' = NotAsking
      /\ param_status' = Untouched \/ param_status' = unused
      /\ params_processed' \in {0, 1}
  BY Zenon DEF Execute
<1>2. /\ DOMAIN ClearCurrentResult = {} /\ st \in StatementType
      /\ st.current_result = NoResult /\ st.describe_result = NoResult
      /\ st.pending_results = <<>> /\ st.pending_result_index = 0
      /\ loop.call = "none" /\ loop.chained_results = <<>> /\ loop.call_result = NoResult
      /\ data_at_exec.chained_results = <<>>
  BY <1>1, Clean
<1>3. ClearCurrentResult \in [{} -> LabelType]
  BY <1>2 DEF ClearCurrentResult, Clear
<1> HIDE DEF st
<1>4. /\ statement' \in StatementType
      /\ statement'.current_result = NoResult /\ statement'.describe_result = NoResult
      /\ statement'.pending_results = <<>> /\ statement'.pending_result_index = 0
  BY <1>1, <1>2 DEF StatementType
<1>5. Live' = {} /\ result' \in [Live' -> LabelType]
  BY <1>1, <1>2, <1>3 DEF Live
<1>6. /\ r \in RequestType /\ r.sets \in Sets /\ 1 \in Sets
      /\ r.deferred[1] \in SUBSET Param /\ r.sets \in 0 .. MaxSets
  <2>1. r \in RequestType /\ r.sets \in Sets
    BY Requests
  <2>2. 1 \in Sets /\ Sets \subseteq Nat /\ Sets \subseteq 0 .. MaxSets
    BY ExecutionAssumption DEF Sets
  <2> QED
    BY <2>1, <2>2 DEF RequestType
<1>7. /\ Asking(r) \in DataType /\ Asking(r).chained_results = <<>>
      /\ Asking(r).in_need_data
  BY <1>6, BeginningTypes DEF Asking, DataType, NotAsking
<1>8. /\ NotAsking \in DataType /\ NotAsking.chained_results = <<>>
      /\ ~NotAsking.in_need_data
  BY BeginningTypes DEF NotAsking
<1>9. data_at_exec' \in DataType /\ data_at_exec'.chained_results = <<>>
  BY <1>1, <1>7, <1>8
<1>10. /\ loop' \in LoopType /\ loop'.chained_results = <<>> /\ loop'.call_result = NoResult
       /\ loop'.call \in {"none", "fragments", "sets", "single"}
       /\ data_at_exec'.in_need_data <=> loop'.call = "none"
       /\ loop'.call = "fragments" => loop'.at = 1 /\ r.fragments > 1
  <2>1. NoCall \in LoopType /\ loop \in LoopType
    BY BeginningTypes DEF Sound, TypeOK
  <2>2. CASE /\ r.fragments > 1
             /\ loop' = [NoCall EXCEPT !.call = "fragments", !.at = 1]
             /\ data_at_exec' = NotAsking
    BY <2>1, <2>2, <1>8 DEF LoopType, NoCall
  <2>3. CASE data_at_exec' = Asking(r) /\ UNCHANGED loop
    BY <2>1, <2>3, <1>2, <1>7
  <2>4. CASE /\ loop' = [NoCall EXCEPT !.call = "sets", !.at = 1, !.batch_start = 1]
             /\ data_at_exec' = NotAsking
    BY <2>1, <2>4, <1>8 DEF LoopType, NoCall
  <2>5. CASE loop' = [NoCall EXCEPT !.call = "single"] /\ data_at_exec' = NotAsking
    BY <2>1, <2>5, <1>8 DEF LoopType, NoCall
  <2> QED
    BY <1>1, <2>2, <2>3, <2>4, <2>5
<1>11. /\ param_status' \in [Sets -> {"untouched", "unused", "success", "info", "error"}]
       /\ params_processed' \in Nat
       /\ outcome' \in [Sets -> {"none", "succeeded", "noticed", "failed", "unsent"}]
       /\ given' \in [Param -> Nat] /\ due' \in Seq(LabelType)
  <2>1. unused \in [Sets -> {"untouched", "unused", "success", "info", "error"}]
    OBVIOUS
  <2> QED
    BY <1>1, <2>1, BeginningTypes
<1>12. TypeOK'
  BY <1>1, <1>4, <1>5, <1>6, <1>9, <1>10, <1>11 DEF TypeOK
<1>13. Len(<<>>) = 0
  BY EmptyChain
<1>14. Control'
  BY <1>1, <1>4, <1>9, <1>10, <1>13 DEF Control, Idle, Chains, Asks
<1>15. Owning' /\ Ordered'
  BY <1>1, <1>4, <1>5, <1>9, <1>10, <1>13, Alone
<1> QED
  BY <1>12, <1>14, <1>15 DEF Sound

\* A catalog function replaces the current result, and what waits still waits.
LEMMA CatalogSound ==
  ASSUME Sound, Catalog
  PROVE  Sound'
<1> DEFINE cur == statement.current_result
           rest == Clear(result, {cur})
           r == NewResult(DOMAIN rest)
           label == Label(0, "tuples")
           kept == Keep(rest, r, label)
           applied == Applied(statement, r, "tuples")
           replaced == [applied EXCEPT !.is_prepared = FALSE]
           emptied == [statement EXCEPT !.current_result = NoResult]
           U == Unpromoted(statement)
<1>1. /\ Idle /\ CanHold /\ (Careful => U = <<>>) /\ Forget /\ UNCHANGED <<data_at_exec, loop>>
      /\ \/ statement' = replaced /\ result' = kept /\ due' = <<label>>
         \/ statement' = emptied /\ result' = rest /\ due' = <<>>
  BY DEF Catalog
<1>2. /\ statement \in StatementType /\ cur \in Address
      /\ DOMAIN result \subseteq Heap /\ result \in [DOMAIN result -> LabelType]
  BY DEF Sound, TypeOK, StatementType, Live
<1>3. /\ DOMAIN rest = Live \ {cur} /\ DOMAIN rest \subseteq Heap
      /\ rest \in [DOMAIN rest -> LabelType]
      /\ \A q \in DOMAIN rest : rest[q] = result[q]
  BY <1>2, Clearing DEF Live
<1>4. r \in Heap /\ r \notin DOMAIN rest
  <2>1. \E q \in 1 .. MaxResults : q \notin DOMAIN rest
    BY <1>1, <1>3 DEF CanHold
  <2> QED
    BY <2>1, NewIsFree
<1>5. r # NoResult /\ r \in Address
  BY <1>4, ExecutionAssumption DEF Heap, Address, NoResult
<1>6. label \in LabelType /\ label.kind \in Rows
  BY DEF Label, LabelType, Rows
<1> HIDE DEF rest, r, label
<1>7. /\ DOMAIN kept = DOMAIN rest \union {r} /\ DOMAIN kept \subseteq Heap
      /\ kept \in [DOMAIN kept -> LabelType] /\ kept[r] = label
      /\ \A q \in DOMAIN rest : q # r => kept[q] = rest[q]
  BY <1>3, <1>4, <1>6 DEF Keep
<1>8. /\ applied \in StatementType /\ applied.current_result = r
      /\ applied.describe_result = statement.describe_result
      /\ applied.pending_results = statement.pending_results
      /\ applied.pending_result_index = statement.pending_result_index
  BY <1>2, <1>5, Applying DEF Answers, Rows
<1> HIDE DEF kept, applied
<1>9. /\ replaced \in StatementType /\ replaced.current_result = r
      /\ replaced.describe_result = statement.describe_result
      /\ replaced.pending_results = statement.pending_results
      /\ replaced.pending_result_index = statement.pending_result_index
  BY <1>8 DEF StatementType
<1>10. /\ emptied \in StatementType /\ emptied.current_result = NoResult
       /\ emptied.describe_result = statement.describe_result
       /\ emptied.pending_results = statement.pending_results
       /\ emptied.pending_result_index = statement.pending_result_index
  BY <1>2, ExecutionAssumption DEF StatementType, NoResult, Address
<1> HIDE DEF replaced, emptied
<1>11. /\ statement' \in StatementType
       /\ statement'.describe_result = statement.describe_result
       /\ statement'.pending_results = statement.pending_results
       /\ statement'.pending_result_index = statement.pending_result_index
       /\ Unpromoted(statement)' = U
  BY <1>1, <1>9, <1>10 DEF Unpromoted
<1>12. /\ loop.call = "none" /\ loop.chained_results = <<>> /\ loop.call_result = NoResult
       /\ data_at_exec.chained_results = <<>>
  BY <1>1, Clean
<1>13. TypeOK'
  <2>1. <<label>> \in Seq(LabelType)
    BY <1>6
  <2> QED
    BY <1>1, <1>3, <1>7, <1>11, <2>1, BeginningTypes DEF Sound, TypeOK, Forget, Live
<1>14. Control'
  BY <1>1, <1>11 DEF Sound, Control, Idle, Chains, Asks, Forget
<1>15. HeldByCall = {} /\ HeldByCall' = {}
  BY <1>1, <1>12, EmptyChain DEF HeldByCall
<1>16. /\ Live = ({cur, statement.describe_result} \union ToSet(U)) \ {NoResult}
       /\ HeldBy(statement)' = ({statement'.current_result, statement.describe_result}
                                  \union ToSet(U)) \ {NoResult}
       /\ cur # NoResult => cur # statement.describe_result /\ cur \notin ToSet(U)
       /\ \A q \in ToSet(U) : result[q].kind \in Rows
       /\ Distinct(U) /\ (statement.describe_result # NoResult => U = <<>>)
  BY <1>11, <1>15 DEF Sound, Owning, HeldBy
<1>17. NoResult \notin ToSet(U) /\ ToSet(U) \subseteq DOMAIN rest
  <2>1. U \in Seq(Heap)
    BY <1>2, Waiting DEF Sound, Control
  <2>2. NoResult \notin ToSet(U)
    BY <2>1, Elements
  <2> QED
    BY <2>2, <1>3, <1>16
<1> HIDE DEF U
<1>18. Distinct(<<>>) /\ ToSet(<<>>) = {} /\ Len(<<>>) = 0
  BY EmptyChain
<1>19. CASE statement' = replaced /\ result' = kept /\ due' = <<label>>
  <2>1. \A q \in ToSet(U) : kept[q].kind \in Rows
    BY <1>3, <1>4, <1>7, <1>16, <1>17
  <2>2. r \notin ToSet(U) /\ (statement.describe_result # NoResult => r # statement.describe_result)
    BY <1>3, <1>4, <1>5, <1>16, <1>17
  <2>3. Live' = HeldBy(statement)'
    BY <1>3, <1>5, <1>7, <1>9, <1>16, <1>17, <1>19 DEF Live
  <2>4. Owning'
    BY <1>1, <1>5, <1>9, <1>11, <1>12, <1>15, <1>16, <1>18, <1>19, <2>1, <2>2, <2>3 DEF Owning
  <2>5. Len(due') = 1 /\ due'[1] = result'[statement'.current_result]
    BY <1>7, <1>9, <1>19
  <2>6. Ordered'
    BY <1>1, <1>5, <1>9, <1>11, <1>12, <1>18, <1>19, <2>5 DEF Ordered, Chains, Idle
  <2> QED
    BY <2>4, <2>6, <1>13, <1>14 DEF Sound
<1>20. CASE statement' = emptied /\ result' = rest /\ due' = <<>>
  <2>1. \A q \in ToSet(U) : rest[q].kind \in Rows
    BY <1>3, <1>16, <1>17
  <2>2. Live' = HeldBy(statement)'
    BY <1>3, <1>10, <1>16, <1>17, <1>20 DEF Live
  <2>3. Owning'
    BY <1>1, <1>10, <1>11, <1>12, <1>15, <1>16, <1>18, <1>20, <2>1, <2>2 DEF Owning
  <2>4. Ordered'
    BY <1>1, <1>10, <1>11, <1>12, <1>18, <1>20 DEF Ordered, Chains, Idle
  <2> QED
    BY <2>3, <2>4, <1>13, <1>14 DEF Sound
<1> QED
  BY <1>1, <1>19, <1>20

\* SQLMoreResults: the first result that waits becomes the current one.
LEMMA MoreResultsSound ==
  ASSUME Sound, MoreResults
  PROVE  Sound'
<1> DEFINE cur == statement.current_result
           des == statement.describe_result
           left == [statement EXCEPT !.current_result = NoResult, !.describe_result = NoResult,
                                     !.has_result_set = FALSE]
           next == [left EXCEPT !.pending_result_index = @ + 1]
           U == Unpromoted(statement)
           kind == result[Head(U)].kind
           promoted == Applied(next, Head(U), kind)
           rest == Clear(result, {cur, des})
<1>1. /\ Idle /\ result' = rest
      /\ statement' = IF U = <<>> THEN left ELSE promoted
      /\ due' = IF due = <<>> THEN due ELSE Tail(due)
      /\ UNCHANGED <<data_at_exec, loop, request, param_status, params_processed,
                     outcome, answer, given, sent>>
  BY DEF MoreResults
<1>2. /\ statement \in StatementType /\ cur \in Address /\ due \in Seq(LabelType)
      /\ DOMAIN result \subseteq Heap /\ result \in [DOMAIN result -> LabelType]
      /\ statement.pending_result_index <= Len(statement.pending_results)
      /\ statement.pending_result_index \in Nat /\ Len(statement.pending_results) \in Nat
      /\ NoResult \in Address
  BY LenProperties, ExecutionAssumption
     DEF Sound, TypeOK, StatementType, Live, Control, NoResult, Address
<1>3. /\ DOMAIN rest = Live \ {cur, des} /\ DOMAIN rest \subseteq Heap
      /\ rest \in [DOMAIN rest -> LabelType]
      /\ \A q \in DOMAIN rest : rest[q] = result[q]
  BY <1>2 DEF Live, Clear
<1> HIDE DEF rest
<1>4. /\ left \in StatementType /\ left.current_result = NoResult
      /\ left.describe_result = NoResult
      /\ left.pending_results = statement.pending_results
      /\ left.pending_result_index = statement.pending_result_index
  BY <1>2 DEF StatementType
<1> HIDE DEF left
<1>5. Unpromoted(left) = U
  BY <1>4 DEF Unpromoted
<1>6. /\ loop.call = "none" /\ loop.chained_results = <<>> /\ loop.call_result = NoResult
      /\ data_at_exec.chained_results = <<>> /\ ~data_at_exec.in_need_data
  BY <1>1, Clean DEF Idle
<1>7. HeldByCall = {} /\ HeldByCall' = {}
  BY <1>1, <1>6, EmptyChain DEF HeldByCall
<1>8. /\ Live = ({cur, des} \union ToSet(U)) \ {NoResult}
      /\ cur # NoResult => cur # des /\ cur \notin ToSet(U)
      /\ \A q \in ToSet(U) : result[q].kind \in Rows
      /\ Distinct(U) /\ (des # NoResult => U = <<>>)
  BY <1>7 DEF Sound, Owning, HeldBy
<1>9. /\ U \in Seq(Heap) /\ Len(U) \in Nat
      /\ Len(U) = Len(statement.pending_results) - statement.pending_result_index
  BY <1>2, Waiting, LenProperties
<1>10. /\ ToSet(<<>>) = {} /\ Distinct(<<>>) /\ Len(<<>>) = 0
       /\ NoResult \notin ToSet(U)
  BY <1>9, EmptyChain, Elements
<1>11. due' \in Seq(LabelType)
  BY <1>1, <1>2, HeadTailProperties
<1>12. Idle /\ Careful =>
         IF cur = NoResult THEN due = <<>> /\ U = <<>>
         ELSE /\ Len(due) = Len(U) + 1
              /\ due[1] = result[cur]
              /\ \A i \in 1 .. Len(U) : due[i + 1] = result[U[i]]
  BY DEF Sound, Ordered
<1>13. CASE U = <<>>
  <2>1. /\ statement' = left /\ Unpromoted(statement)' = <<>>
    BY <1>1, <1>5, <1>13 DEF Unpromoted
  <2>2. Live' = {}
    BY <1>1, <1>3, <1>8, <1>10, <1>13 DEF Live
  <2>3. TypeOK'
    BY <1>1, <1>2, <1>3, <1>4, <1>11, <2>1 DEF Sound, TypeOK, Live
  <2>4. Control'
    BY <1>1, <1>2, <1>4, <2>1 DEF Sound, Control, Idle, Chains, Asks
  <2>5. HeldBy(statement)' = {}
    BY <1>4, <1>10, <2>1 DEF HeldBy
  <2>6. Owning'
    BY <1>1, <1>4, <1>6, <1>7, <1>10, <2>1, <2>2, <2>5 DEF Owning
  <2>7. Careful => due' = <<>>
    <3>1. CASE Careful /\ cur # NoResult
      <4>1. Len(due) = 1 /\ due # <<>>
        BY <3>1, <1>1, <1>10, <1>12, <1>13
      <4>2. Len(Tail(due)) = 0 /\ Tail(due) \in Seq(LabelType)
        BY <4>1, <1>2, HeadTailProperties
      <4> QED
        BY <4>1, <4>2, <1>1, EmptySeq
    <3> QED
      BY <3>1, <1>1, <1>12
  <2>8. Ordered'
    BY <1>1, <1>4, <1>6, <2>1, <2>7 DEF Ordered, Chains, Idle
  <2> QED
    BY <2>3, <2>4, <2>6, <2>8 DEF Sound
<1>14. CASE U # <<>>
  <2>1. Len(U) # 0 /\ Head(U) = U[1] /\ U[1] \in Heap /\ U[1] \in ToSet(U)
    <3>1. Len(U) # 0
      BY <1>9, <1>14, EmptyChain
    <3>2. 1 \in 1 .. Len(U)
      BY <3>1, <1>9
    <3> QED
      BY <3>1, <3>2, <1>9, Elements
  <2>2. /\ next \in StatementType /\ next.current_result = NoResult
        /\ next.describe_result = NoResult
        /\ next.pending_results = statement.pending_results
        /\ next.pending_result_index = statement.pending_result_index + 1
    BY <1>2, <1>4 DEF StatementType
  <2>3. Head(U) \in Address /\ kind \in Answers /\ Head(U) # NoResult
    BY <2>1, <1>8, ExecutionAssumption DEF Heap, Address, Answers, NoResult
  <2> HIDE DEF next, kind
  <2>4. /\ promoted \in StatementType /\ promoted.current_result = U[1]
        /\ promoted.describe_result = NoResult
        /\ promoted.pending_results = statement.pending_results
        /\ promoted.pending_result_index = statement.pending_result_index + 1
    BY <2>1, <2>2, <2>3, Applying
  <2> DEFINE V == Unpromoted(promoted)
  <2>5. statement' = promoted /\ Unpromoted(statement)' = V
    BY <1>1, <1>14 DEF Unpromoted
  <2> HIDE DEF promoted
  <2>6. promoted.pending_result_index <= Len(promoted.pending_results)
    BY <2>1, <2>4, <1>2, <1>9
  <2>7. /\ V \in Seq(Heap) /\ Len(V) + 1 = Len(U) /\ Len(V) \in Nat
        /\ \A i \in 1 .. Len(V) : V[i] = U[i + 1]
    <3>1. /\ V \in Seq(Heap)
          /\ Len(V) = Len(promoted.pending_results) - promoted.pending_result_index
          /\ \A i \in 1 .. Len(promoted.pending_results) - promoted.pending_result_index :
               V[i] = promoted.pending_results[promoted.pending_result_index + i]
      BY <2>4, <2>6, Waiting
    <3>2. Len(V) + 1 = Len(U) /\ Len(V) \in Nat
      BY <3>1, <2>4, <1>2, <1>9, LenProperties
    <3>3. ASSUME NEW i \in 1 .. Len(V) PROVE V[i] = U[i + 1]
      <4>1. V[i] = statement.pending_results[statement.pending_result_index + 1 + i]
        BY <3>1, <2>4
      <4>2. i + 1 \in 1 .. Len(statement.pending_results) - statement.pending_result_index
        BY <3>2, <1>9
      <4>3. U[i + 1] = statement.pending_results[statement.pending_result_index + (i + 1)]
        BY <4>2, <1>2, Waiting
      <4>4. statement.pending_result_index + 1 + i = statement.pending_result_index + (i + 1)
        <5> DEFINE k == statement.pending_result_index
        <5>1. k \in Nat /\ i \in Nat
          BY <1>2, <3>2
        <5> HIDE DEF k
        <5>2. k + 1 + i = k + (i + 1)
          BY <5>1
        <5> QED
          BY <5>2 DEF k
      <4> QED
        BY <4>1, <4>3, <4>4
    <3> QED
      BY <3>1, <3>2, <3>3
  <2> HIDE DEF V, U
  <2>8. ToSet(U) = {U[1]} \union ToSet(V) /\ Distinct(V) /\ U[1] \notin ToSet(V)
    BY <2>7, <1>8, <1>9, WithoutFirst
  <2>9. des = NoResult /\ DOMAIN rest = ToSet(U)
    BY <1>3, <1>8, <1>10, <1>14
  <2>10. TypeOK'
    BY <1>1, <1>2, <1>3, <1>11, <2>4, <2>5 DEF Sound, TypeOK, Live
  <2>11. Control'
    BY <1>1, <2>4, <2>5, <2>6 DEF Sound, Control, Idle, Chains, Asks
  <2>12. U[1] # NoResult
    BY <2>1, <2>3
  <2>13. HeldBy(statement)' = ToSet(U)
    BY <2>4, <2>5, <2>8, <2>12, <1>10 DEF HeldBy
  <2>14. Live' = ToSet(U)
    BY <1>1, <2>9 DEF Live
  <2>15. \A q \in ToSet(V) : result'[q].kind \in Rows
    BY <1>1, <1>3, <1>8, <2>8, <2>9
  <2>16. Owning'
    BY <1>1, <1>6, <1>7, <1>10, <2>4, <2>5, <2>8, <2>13, <2>14, <2>15 DEF Owning
  <2>17. ASSUME Careful
         PROVE  /\ Len(due') = Len(V) + 1 /\ due'[1] = result'[U[1]]
                /\ \A i \in 1 .. Len(V) : due'[i + 1] = result'[V[i]]
    <3>1. /\ Len(due) = Len(U) + 1
          /\ \A i \in 1 .. Len(U) : due[i + 1] = result[U[i]]
      BY <2>17, <1>1, <1>12, <1>14
    <3>2. due # <<>>
      BY <3>1, <1>9, <1>10
    <3>3. /\ due' = Tail(due) /\ Len(Tail(due)) = Len(due) - 1
          /\ \A i \in 1 .. Len(Tail(due)) : Tail(due)[i] = due[i + 1]
      BY <3>2, <1>1, <1>2, HeadTailProperties
    <3>4. \A i \in 1 .. Len(U) : due'[i] = result'[U[i]]
      <4> TAKE i \in 1 .. Len(U)
      <4>1. U[i] \in DOMAIN rest
        BY <1>9, <2>9, Elements
      <4>2. rest[U[i]] = result[U[i]]
        BY <4>1, <1>3
      <4>3. due[i + 1] = result[U[i]]
        BY <3>1
      <4>4. i \in 1 .. Len(Tail(due))
        BY <3>1, <3>3, <1>9
      <4> QED
        BY <4>2, <4>3, <4>4, <3>3, <1>1
    <3>5. Len(due') = Len(V) + 1
      BY <3>1, <3>3, <2>7
    <3>6. due'[1] = result'[U[1]]
      BY <3>4, <2>7
    <3>7. \A i \in 1 .. Len(V) : due'[i + 1] = result'[V[i]]
      BY <3>4, <2>7
    <3> QED
      BY <3>5, <3>6, <3>7
  <2>18. Ordered'
    BY <1>1, <1>6, <2>4, <2>5, <2>12, <2>17 DEF Ordered, Chains, Idle
  <2> QED
    BY <2>10, <2>11, <2>16, <2>18 DEF Sound
<1> QED
  BY <1>13, <1>14

----------------------------------------------------------------------------
(* The commands of a call under way.                                       *)

\* The types of what is not about results.
Others ==
  /\ request \in RequestType
  /\ param_status \in [Sets -> {"untouched", "unused", "success", "info", "error"}]
  /\ params_processed \in Nat
  /\ outcome \in [Sets -> {"none", "succeeded", "noticed", "failed", "unsent"}]
  /\ answer \in {"none", "success", "info", "error"}
  /\ given \in [Param -> Nat]

\* While a call is under way, it holds all there is.
LEMMA Underway ==
  ASSUME Sound, ~Idle
  PROVE  /\ statement \in StatementType
         /\ statement.current_result = NoResult /\ statement.describe_result = NoResult
         /\ statement.pending_results = <<>> /\ answer = "none"
         /\ statement.pending_result_index <= Len(statement.pending_results)
         /\ Unpromoted(statement) = <<>>
         /\ Live = HeldByCall /\ Others
         /\ DOMAIN result \subseteq Heap /\ result \in [DOMAIN result -> LabelType]
<1>1. /\ statement \in StatementType
      /\ statement.current_result = NoResult /\ statement.describe_result = NoResult
      /\ statement.pending_results = <<>> /\ answer = "none"
      /\ statement.pending_result_index <= Len(statement.pending_results)
  BY DEF Sound, TypeOK, Control
<1>2. Unpromoted(statement) = <<>>
  BY <1>1, NothingWaits
<1>3. HeldBy(statement) = {}
  BY <1>1, <1>2, EmptyChain DEF HeldBy
<1>4. Live = HeldByCall
  BY <1>3 DEF Sound, Owning
<1> QED
  BY <1>1, <1>2, <1>4 DEF Sound, TypeOK, Others, Live

\* A call that ends and leaves the statement at most one result.
LEMMA CallEnds ==
  ASSUME Sound, ~Idle, loop' = NoCall, data_at_exec' \in DataType,
         ~data_at_exec'.in_need_data, data_at_exec'.chained_results = <<>>,
         statement' \in StatementType, statement'.describe_result = NoResult,
         statement'.pending_results = <<>>,
         statement'.pending_result_index = statement.pending_result_index,
         Live' = {statement'.current_result} \ {NoResult}, Live' \subseteq Heap,
         result' \in [Live' -> LabelType],
         due' = IF statement'.current_result = NoResult THEN <<>>
                ELSE <<result'[statement'.current_result]>>,
         Others'
  PROVE  Sound'
<1>1. /\ NoCall \in LoopType /\ NoCall.chained_results = <<>>
      /\ NoCall.call_result = NoResult /\ NoCall.call = "none"
  BY BeginningTypes DEF NoCall
<1>2. due' \in Seq(LabelType)
  <2>1. CASE statement'.current_result = NoResult
    BY <2>1, BeginningTypes
  <2>2. CASE statement'.current_result # NoResult
    <3>1. result'[statement'.current_result] \in LabelType
      BY <2>2
    <3>2. <<result'[statement'.current_result]>> \in Seq(LabelType)
      BY <3>1
    <3> QED
      BY <2>2, <3>2
  <2> QED
    BY <2>1, <2>2
<1>3. TypeOK'
  BY <1>1, <1>2 DEF TypeOK, Others
<1>4. statement'.pending_result_index <= Len(statement'.pending_results)
  BY Underway
<1>5. Idle'
  BY <1>1 DEF Idle
<1>6. Control'
  BY <1>1, <1>4, <1>5 DEF Control, Chains, Asks
<1>7. Owning' /\ Ordered'
  BY <1>1, <1>4, <1>5, Alone
<1> QED
  BY <1>3, <1>6, <1>7 DEF Sound

\* A call that ends and leaves the statement a chain.
LEMMA ChainEnds ==
  ASSUME Sound, ~Idle, loop' = NoCall, data_at_exec' \in DataType,
         ~data_at_exec'.in_need_data, data_at_exec'.chained_results = <<>>,
         NEW chain \in Seq(Heap), chain # <<>>, Distinct(chain),
         \A r \in ToSet(chain) : result[r].kind \in Rows /\ result'[r] = result[r],
         statement' = Published(statement, chain), due' = due, Labelled(due, chain),
         Live' = ToSet(chain), result' \in [Live' -> LabelType], Others'
  PROVE  Sound'
<1>1. /\ NoCall \in LoopType /\ NoCall.chained_results = <<>>
      /\ NoCall.call_result = NoResult /\ NoCall.call = "none"
  BY BeginningTypes DEF NoCall
<1>2. statement \in StatementType /\ statement.describe_result = NoResult
  BY Underway
<1>3. result[chain[1]].kind \in Rows
  <2>1. 1 \in 1 .. Len(chain)
    BY EmptySeq
  <2> QED
    BY <2>1, Elements
<1>4. /\ statement' \in StatementType
      /\ statement'.pending_result_index <= Len(statement'.pending_results)
  BY <1>2, <1>3, Publishing
<1>5. ToSet(chain) \subseteq Heap
  BY Elements
<1>6. due \in Seq(LabelType)
  BY DEF Sound, TypeOK
<1>7. TypeOK'
  BY <1>1, <1>4, <1>5, <1>6 DEF TypeOK, Others
<1>8. Idle'
  BY <1>1 DEF Idle
<1>9. Control'
  BY <1>1, <1>4, <1>8 DEF Control, Chains, Asks
<1>10. Owning' /\ Ordered'
  BY <1>2, Handing
<1> QED
  BY <1>7, <1>9, <1>10 DEF Sound

\* The ordinary execution of one command, and that of a single set.
LEMMA OneCommand ==
  ASSUME Sound, ~Idle, HeldByCall = {}, CanHold, loop' = NoCall, data_at_exec' \in DataType,
         ~data_at_exec'.in_need_data, data_at_exec'.chained_results = <<>>, Others',
         NEW kind \in Answers,
         statement' = IF kind = "tuples" THEN Applied(statement, NewResult(Live), kind)
                      ELSE Applied(statement, NoResult, kind),
         result' = IF kind = "tuples" THEN Keep(result, NewResult(Live), Label(0, kind))
                   ELSE result,
         due' = IF kind = "tuples" THEN <<Label(0, kind)>> ELSE <<>>
  PROVE  Sound'
<1> DEFINE r == NewResult(Live)
           label == Label(0, kind)
<1>1. /\ statement \in StatementType /\ statement.describe_result = NoResult
      /\ statement.pending_results = <<>> /\ Live = {}
      /\ DOMAIN result \subseteq Heap /\ result \in [DOMAIN result -> LabelType]
  BY Underway
<1>2. r \in Heap
  BY NewIsFree DEF CanHold
<1>3. r \in Address /\ r # NoResult /\ NoResult \in Address
  BY <1>2, ExecutionAssumption DEF Heap, Address, NoResult
<1>4. label \in LabelType
  BY DEF Label, LabelType, Answers, Rows
<1> HIDE DEF r, label
<1>5. CASE kind = "tuples"
  <2>1. /\ statement' = Applied(statement, r, kind) /\ result' = Keep(result, r, label)
        /\ due' = <<label>>
    BY <1>5 DEF r, label
  <2>2. /\ statement' \in StatementType /\ statement'.current_result = r
        /\ statement'.describe_result = NoResult /\ statement'.pending_results = <<>>
        /\ statement'.pending_result_index = statement.pending_result_index
    BY <1>1, <1>3, <2>1, Applying
  <2>3. DOMAIN result = {}
    BY <1>1 DEF Live
  <2>4. /\ Live' = {r} /\ result' \in [Live' -> LabelType] /\ result'[r] = label
    BY <1>4, <2>1, <2>3 DEF Keep, Live
  <2> QED
    BY <1>2, <1>3, <2>1, <2>2, <2>4, CallEnds
<1>6. CASE kind # "tuples"
  <2>1. /\ statement' = Applied(statement, NoResult, kind) /\ result' = result
        /\ due' = <<>>
    BY <1>6
  <2>2. /\ statement' \in StatementType /\ statement'.current_result = NoResult
        /\ statement'.describe_result = NoResult /\ statement'.pending_results = <<>>
        /\ statement'.pending_result_index = statement.pending_result_index
    BY <1>1, <1>3, <2>1, Applying
  <2>3. Live' = {} /\ result' \in [Live' -> LabelType]
    BY <1>1, <2>1 DEF Live
  <2> QED
    BY <2>1, <2>2, <2>3, CallEnds
<1> QED
  BY <1>5, <1>6

\* One command of SQLExecute or SQLExecDirect.
LEMMA RunSingleSound ==
  ASSUME Sound, RunSingle
  PROVE  Sound'
<1>1. ~Idle /\ Others' /\ loop.call = "single" /\ data_at_exec' = data_at_exec /\ CanHold
      /\ loop' = NoCall
  BY Underway DEF RunSingle, Idle, Others
<1>2. /\ ~data_at_exec.in_need_data /\ data_at_exec.chained_results = <<>>
      /\ loop.chained_results = <<>> /\ loop.call_result = NoResult
      /\ data_at_exec \in DataType
  BY <1>1 DEF Sound, Control, Chains, Asks, TypeOK
<1>3. HeldByCall = {}
  BY <1>2, EmptyChain DEF HeldByCall
<1>4. PICK kind \in Answers :
        /\ statement' = IF kind = "tuples" THEN Applied(statement, NewResult(Live), kind)
                        ELSE Applied(statement, NoResult, kind)
        /\ result' = IF kind = "tuples" THEN Keep(result, NewResult(Live), Label(0, kind))
                     ELSE result
        /\ due' = IF kind = "tuples" THEN <<Label(0, kind)>> ELSE <<>>
  BY DEF RunSingle
<1> QED
  BY <1>1, <1>2, <1>3, <1>4, OneCommand

\* What a call under way may clear: all of it.
LEMMA EmptiedCall ==
  ASSUME Sound, ~Idle, NEW cleared, HeldByCall \subseteq cleared,
         result' = Clear(result, cleared)
  PROVE  Live' = {} /\ result' \in [Live' -> LabelType]
  BY Underway DEF Clear, Live

\* A call that returned cursors keeps its own result aside.
LEMMA RunCallSound ==
  ASSUME Sound, RunCall
  PROVE  Sound'
<1> DEFINE r == NewResult(Live)
           label == Label(0, "tuples")
           applied == Applied(statement, NoResult, "tuples")
           left == [applied EXCEPT !.current_result = NoResult]
           taken == [NoCall EXCEPT !.call = "cursors", !.call_result = r]
           kept == Keep(result, r, label)
<1>1. /\ loop.call = "single" /\ CanHold /\ statement' = left /\ result' = kept
      /\ loop' = taken
      /\ UNCHANGED <<data_at_exec, request, param_status, params_processed, due, outcome,
                     answer, given, sent>>
  BY DEF RunCall
<1>2. ~Idle
  BY <1>1 DEF Idle
<1>3. /\ statement \in StatementType /\ statement.describe_result = NoResult
      /\ statement.pending_results = <<>> /\ Live = HeldByCall
      /\ statement.pending_result_index <= Len(statement.pending_results)
      /\ answer = "none" /\ Others
      /\ DOMAIN result \subseteq Heap /\ result \in [DOMAIN result -> LabelType]
  BY <1>2, Underway
<1>4. /\ ~data_at_exec.in_need_data /\ data_at_exec.chained_results = <<>>
      /\ loop.chained_results = <<>> /\ loop.call_result = NoResult
      /\ data_at_exec \in DataType /\ due = <<>> /\ due \in Seq(LabelType)
  BY <1>1 DEF Sound, Control, Chains, Asks, TypeOK, Ordered
<1>5. HeldByCall = {}
  BY <1>4, EmptyChain DEF HeldByCall
<1>6. r \in Heap
  BY <1>1, NewIsFree DEF CanHold
<1>7. r \in Address /\ r # NoResult /\ NoResult \in Address /\ label \in LabelType
  BY <1>6, ExecutionAssumption DEF Heap, Address, NoResult, Label, LabelType
<1> HIDE DEF r, label
<1>8. DOMAIN kept = {r} /\ kept \in [{r} -> LabelType]
  BY <1>3, <1>5, <1>7 DEF Keep, Live
<1> HIDE DEF kept, left, taken
<1>9. /\ applied \in StatementType
      /\ applied.describe_result = NoResult /\ applied.pending_results = <<>>
      /\ applied.pending_result_index = statement.pending_result_index
  <2>1. "tuples" \in Answers /\ NoResult \in Address
    BY <1>7 DEF Answers, Rows
  <2>2. /\ applied \in StatementType
        /\ applied.describe_result = statement.describe_result
        /\ applied.pending_results = statement.pending_results
        /\ applied.pending_result_index = statement.pending_result_index
    BY <2>1, <1>3, Applying
  <2> QED
    BY <2>2, <1>3
<1> HIDE DEF applied
<1>10. /\ left \in StatementType /\ left.current_result = NoResult
       /\ left.describe_result = NoResult /\ left.pending_results = <<>>
       /\ left.pending_result_index = statement.pending_result_index
  BY <1>7, <1>9 DEF StatementType, left
<1>11. /\ taken \in LoopType /\ taken.call = "cursors" /\ taken.call_result = r
       /\ taken.chained_results = <<>>
  BY <1>7, BeginningTypes DEF LoopType, NoCall, taken
<1>12. TypeOK'
  BY <1>1, <1>3, <1>4, <1>6, <1>8, <1>10, <1>11 DEF TypeOK, Others, Live
<1>13. Control'
  BY <1>1, <1>3, <1>4, <1>10, <1>11 DEF Control, Idle, Chains, Asks
<1>14. ToSet(<<>>) = {} /\ Distinct(<<>>) /\ Len(<<>>) = 0
  BY EmptyChain
<1>15. Unpromoted(statement)' = <<>>
  <2>1. Unpromoted(left) = <<>>
    BY <1>3, <1>10, NothingWaits
  <2> QED
    BY <2>1, <1>1 DEF Unpromoted
<1>16. HeldBy(statement)' = {} /\ HeldByCall' = {r}
  BY <1>1, <1>4, <1>7, <1>10, <1>11, <1>14, <1>15 DEF HeldBy, HeldByCall
<1>17. Owning'
  BY <1>1, <1>4, <1>8, <1>10, <1>11, <1>14, <1>15, <1>16 DEF Owning, Live
<1>18. Ordered'
  BY <1>1, <1>4, <1>11, <1>14 DEF Ordered, Idle, Labelled
<1> QED
  BY <1>12, <1>13, <1>17, <1>18 DEF Sound

\* A cursor that is fetched from, and a fragment: one more result in the chain.
LEMMA ChainGrows ==
  ASSUME Sound, loop.call \in {"cursors", "fragments"}, CanHold, NEW of \in Nat,
         NEW kind \in Rows,
         loop' = [loop EXCEPT !.at = @ + 1,
                              !.chained_results = Append(@, NewResult(Live))],
         result' = Keep(result, NewResult(Live), Label(of, kind)),
         due' = Append(due, Label(of, kind)),
         UNCHANGED <<statement, data_at_exec, request, param_status, params_processed,
                     outcome, answer, given, sent>>
  PROVE  Sound'
<1> DEFINE r == NewResult(Live)
           label == Label(of, kind)
<1>1. ~Idle /\ r \in Heap /\ r \notin Live
  BY NewIsFree DEF CanHold, Idle
<1>2. label \in LabelType /\ label.kind \in Rows
  BY DEF Label, LabelType, Rows
<1>3. /\ DOMAIN result \subseteq Heap /\ result \in [DOMAIN result -> LabelType]
      /\ Others /\ loop \in LoopType /\ due \in Seq(LabelType)
      /\ ~data_at_exec.in_need_data
  BY <1>1, Underway DEF Sound, TypeOK, Control, Asks
<1> HIDE DEF r, label
<1>4. /\ loop' = [loop EXCEPT !.at = @ + 1, !.chained_results = Append(@, r)]
      /\ result' = Keep(result, r, label) /\ due' = Append(due, label)
  BY DEF r, label
<1>5. /\ Append(loop.chained_results, r) \in Seq(Heap)
      /\ Len(Append(loop.chained_results, r)) = Len(loop.chained_results) + 1
  BY <1>1, <1>3, Appending DEF LoopType
<1>6. /\ loop' \in LoopType /\ loop'.call = loop.call /\ loop'.at = loop.at + 1
      /\ loop'.chained_results = Append(loop.chained_results, r)
      /\ loop'.call_result = loop.call_result
  <2> DEFINE t == Append(loop.chained_results, r)
             k == loop.at + 1
             more == [loop EXCEPT !.at = k, !.chained_results = t]
  <2>1. k \in Nat /\ t \in Seq(Heap) /\ loop' = more
    BY <1>3, <1>4, <1>5 DEF LoopType
  <2> HIDE DEF t, k
  <2>2. /\ more \in LoopType /\ more.call = loop.call /\ more.at = k
        /\ more.chained_results = t /\ more.call_result = loop.call_result
    BY <1>3, <2>1 DEF LoopType
  <2> HIDE DEF more
  <2> QED
    BY <2>1, <2>2 DEF t, k
<1>7. ~Idle'
  BY <1>6 DEF Idle
<1>8. Owning' /\ Ordered'
  BY <1>1, <1>2, <1>3, <1>4, <1>6, <1>7, Growing DEF Sound, Chains
<1>9. DOMAIN result' = Live \union {r} /\ result' \in [DOMAIN result' -> LabelType]
  BY <1>2, <1>3, <1>4 DEF Keep, Live
<1>10. due' \in Seq(LabelType)
  BY <1>2, <1>3, <1>4, AppendProperties
<1>11. TypeOK'
  BY <1>1, <1>3, <1>6, <1>9, <1>10 DEF Sound, TypeOK, Others, Live
<1>12. Control'
  <2>1. loop.call = "fragments" =>
          Len(loop.chained_results) = loop.at - 1 /\ loop.at >= 1 /\ request.fragments > 1
    BY DEF Sound, Control
  <2>2. loop.at \in Nat
    BY <1>3 DEF LoopType
  <2>3. loop'.call = "fragments" =>
          /\ Len(loop'.chained_results) = loop'.at - 1
          /\ loop'.at >= 1 /\ request'.fragments > 1
    BY <2>1, <2>2, <1>5, <1>6
  <2> QED
    BY <2>3, <1>1, <1>6, <1>7 DEF Sound, Control, Chains, Asks
<1> QED
  BY <1>8, <1>11, <1>12 DEF Sound

\* Fetching one cursor of a procedure call.
LEMMA FetchCursorSound ==
  ASSUME Sound, FetchCursor
  PROVE  Sound'
<1>1. loop \in LoopType
  BY DEF Sound, TypeOK
<1>2. loop.at + 1 \in Nat /\ "tuples" \in Rows
  BY <1>1 DEF LoopType, Rows
<1>3. /\ loop.call \in {"cursors", "fragments"} /\ CanHold
      /\ loop' = [loop EXCEPT !.at = @ + 1,
                              !.chained_results = Append(@, NewResult(Live))]
      /\ result' = Keep(result, NewResult(Live), Label(loop.at + 1, "tuples"))
      /\ due' = Append(due, Label(loop.at + 1, "tuples"))
      /\ UNCHANGED <<statement, data_at_exec, request, param_status, params_processed,
                     outcome, answer, given, sent>>
  BY DEF FetchCursor
<1> QED
  BY <1>2, <1>3, ChainGrows

\* Running one fragment of a text, whatever becomes of it.
LEMMA RunFragmentSound ==
  ASSUME Sound, RunFragment
  PROVE  Sound'
<1>1. loop \in LoopType
  BY DEF Sound, TypeOK
<1>2. loop.at \in Nat
  BY <1>1 DEF LoopType
<1>3. /\ loop.call \in {"cursors", "fragments"} /\ CanHold
      /\ UNCHANGED <<statement, data_at_exec, request, param_status, params_processed,
                     outcome, answer, given, sent>>
  BY DEF RunFragment
<1>4. PICK kind \in Rows :
        /\ loop' = [loop EXCEPT !.at = @ + 1,
                                !.chained_results = Append(@, NewResult(Live))]
        /\ result' = Keep(result, NewResult(Live), Label(loop.at, kind))
        /\ due' = Append(due, Label(loop.at, kind))
  <2>1. PICK kind \in Rows :
        /\ loop' = [loop EXCEPT !.at = @ + 1,
                       !.chained_results = Append(loop.chained_results, NewResult(Live))]
        /\ result' = Keep(result, NewResult(Live), Label(loop.at, kind))
        /\ due' = Append(due, Label(loop.at, kind))
    BY DEF RunFragment
  <2> WITNESS kind \in Rows
  <2> QED
    BY <2>1
<1> QED
  BY <1>2, <1>3, <1>4, ChainGrows

\* What a call that is not about data at execution holds.
LEMMA HeldByChain ==
  ASSUME Sound, loop.call \in Chains \union {"single"}
  PROVE  /\ ~Idle /\ ~data_at_exec.in_need_data /\ data_at_exec.chained_results = <<>>
         /\ loop.chained_results \in Seq(Heap) /\ Distinct(loop.chained_results)
         /\ NoResult \notin ToSet(loop.chained_results)
         /\ HeldByCall = (ToSet(loop.chained_results) \union {loop.call_result}) \ {NoResult}
         /\ data_at_exec \in DataType /\ due \in Seq(LabelType)
<1>1. ~Idle /\ ~data_at_exec.in_need_data /\ data_at_exec.chained_results = <<>>
  BY DEF Sound, Control, Idle, Chains, Asks
<1>2. loop.chained_results \in Seq(Heap) /\ data_at_exec \in DataType /\ due \in Seq(LabelType)
  BY DEF Sound, TypeOK, LoopType
<1>3. Distinct(loop.chained_results)
  BY DEF Sound, Owning
<1> QED
  BY <1>1, <1>2, <1>3, Elements, EmptyChain DEF HeldByCall

\* A call that fails clears what it holds.
LEMMA FailingSound ==
  ASSUME Sound, FetchFails \/ FragmentFails
  PROVE  Sound'
<1> DEFINE all == ToSet(loop.chained_results) \union {loop.call_result}
<1>1. /\ loop.call \in {"cursors", "fragments"} /\ loop' = NoCall /\ due' = <<>>
      /\ result' = Clear(result, all) \/ result' = Clear(result, ToSet(loop.chained_results))
      /\ loop.call = "cursors" => result' = Clear(result, all)
      /\ UNCHANGED <<statement, data_at_exec, request, param_status, params_processed,
                     outcome, answer, given, sent>>
  BY DEF FetchFails, FragmentFails
<1>2. /\ ~Idle /\ ~data_at_exec.in_need_data /\ data_at_exec.chained_results = <<>>
      /\ NoResult \notin ToSet(loop.chained_results)
      /\ HeldByCall = all \ {NoResult} /\ data_at_exec \in DataType
  BY <1>1, HeldByChain DEF Chains
<1>3. loop.call = "fragments" => loop.call_result = NoResult
  BY DEF Sound, Control
<1>4. PICK cleared : result' = Clear(result, cleared) /\ HeldByCall \subseteq cleared
  <2>1. CASE loop.call = "cursors"
    BY <2>1, <1>1, <1>2
  <2>2. CASE loop.call = "fragments"
    BY <2>2, <1>1, <1>2, <1>3
  <2> QED
    BY <1>1, <2>1, <2>2
<1>5. Live' = {} /\ result' \in [Live' -> LabelType]
  BY <1>2, <1>4, EmptiedCall
<1>6. Others'
  BY <1>1, <1>2, Underway DEF Others
<1>7. /\ statement' \in StatementType /\ statement'.current_result = NoResult
      /\ statement'.describe_result = NoResult /\ statement'.pending_results = <<>>
      /\ statement'.pending_result_index = statement.pending_result_index
  BY <1>1, <1>2, Underway
<1> QED
  BY <1>1, <1>2, <1>5, <1>6, <1>7, CallEnds

\* The last fragment done: the chain becomes the results of the statement.
LEMMA FinishFragmentsSound ==
  ASSUME Sound, FinishFragments
  PROVE  Sound'
<1> DEFINE L == loop.chained_results
<1>1. /\ loop.call = "fragments" /\ loop.at > request.fragments
      /\ statement' = Published(statement, L) /\ loop' = NoCall
      /\ UNCHANGED <<data_at_exec, request, param_status, params_processed, result, due,
                     outcome, answer, given, sent>>
  BY DEF FinishFragments
<1>2. /\ ~Idle /\ ~data_at_exec.in_need_data /\ data_at_exec.chained_results = <<>>
      /\ L \in Seq(Heap) /\ Distinct(L) /\ NoResult \notin ToSet(L)
      /\ HeldByCall = (ToSet(L) \union {loop.call_result}) \ {NoResult}
      /\ data_at_exec \in DataType
  BY <1>1, HeldByChain DEF Chains
<1>3. /\ loop.call_result = NoResult /\ Len(L) = loop.at - 1 /\ request.fragments > 1
      /\ loop.at \in Nat /\ request.fragments \in Nat
  BY <1>1 DEF Sound, Control, TypeOK, LoopType, RequestType
<1>4. L # <<>>
  BY <1>1, <1>2, <1>3, EmptyChain
<1>5. Live = ToSet(L) /\ result \in [Live -> LabelType]
  BY <1>2, <1>3, Underway DEF Live
<1>6. \A r \in ToSet(L) : result[r].kind \in Rows
  BY DEF Sound, Owning
<1>7. Labelled(due, L)
  BY <1>1 DEF Sound, Ordered, Chains
<1>8. Others'
  BY <1>1, <1>2, Underway DEF Others
<1>9. Live' = ToSet(L) /\ result' \in [Live' -> LabelType]
  BY <1>1, <1>5 DEF Live
<1> HIDE DEF L
<1> QED
  BY <1>1, <1>2, <1>4, <1>6, <1>7, <1>8, <1>9, ChainEnds

\* The cursors have been fetched, or an empty result takes their place.
LEMMA FinishCallSound ==
  ASSUME Sound, FinishCall
  PROVE  Sound'
<1> DEFINE L == loop.chained_results
           own == loop.call_result
           rest == Clear(result, {own})
<1>1. /\ loop.call = "cursors" /\ loop' = NoCall
      /\ UNCHANGED <<data_at_exec, request, param_status, params_processed, outcome, answer,
                     given, sent>>
  BY DEF FinishCall
<1>2. /\ ~Idle /\ ~data_at_exec.in_need_data /\ data_at_exec.chained_results = <<>>
      /\ L \in Seq(Heap) /\ Distinct(L) /\ NoResult \notin ToSet(L)
      /\ HeldByCall = (ToSet(L) \union {own}) \ {NoResult}
      /\ data_at_exec \in DataType
  BY <1>1, HeldByChain DEF Chains
<1>3. /\ Live = (ToSet(L) \union {own}) \ {NoResult}
      /\ DOMAIN result \subseteq Heap /\ result \in [DOMAIN result -> LabelType]
      /\ statement \in StatementType
      /\ statement.describe_result = NoResult /\ statement.pending_results = <<>>
  BY <1>2, Underway
<1>4. Others'
  BY <1>1, <1>2, Underway DEF Others
<1>5. own \notin ToSet(L) /\ \A q \in ToSet(L) : result[q].kind \in Rows
  BY DEF Sound, Owning
<1>6. /\ DOMAIN rest = ToSet(L) /\ rest \in [ToSet(L) -> LabelType]
      /\ \A q \in ToSet(L) : rest[q] = result[q]
  BY <1>2, <1>3, <1>5 DEF Clear, Live
<1>7. Labelled(due, L)
  BY <1>1 DEF Sound, Ordered, Chains
<1> HIDE DEF rest
<1>8. CASE /\ L # <<>> /\ statement' = Published(statement, L) /\ result' = rest
           /\ UNCHANGED due
  <2>1. Live' = ToSet(L) /\ result' \in [Live' -> LabelType]
    BY <1>6, <1>8 DEF Live
  <2>2. \A q \in ToSet(L) : result[q].kind \in Rows /\ result'[q] = result[q]
    BY <1>5, <1>6, <1>8
  <2> HIDE DEF L
  <2> QED
    BY <1>1, <1>2, <1>4, <1>7, <1>8, <2>1, <2>2, ChainEnds
<1>9. ASSUME L = <<>>, NEW r, r = NewResult(DOMAIN rest), NEW kind \in {"tuples", "error"},
             statement' = Applied(statement, r, kind),
             result' = Keep(rest, r, Label(0, kind)), due' = <<Label(0, kind)>>
      PROVE  Sound'
  <2>1. DOMAIN rest = {}
    BY <1>6, <1>9, EmptyChain
  <2>2. r \in Heap
    <3>1. 1 \in 1 .. MaxResults /\ 1 \notin DOMAIN rest
      BY <2>1, ExecutionAssumption
    <3> QED
      BY <3>1, <1>9, NewIsFree
  <2>3. r \in Address /\ r # NoResult
    BY <2>2, ExecutionAssumption DEF Heap, Address, NoResult
  <2>4. kind \in Answers /\ Label(0, kind) \in LabelType
    BY DEF Answers, Rows, Label, LabelType
  <2>5. /\ statement' \in StatementType /\ statement'.current_result = r
        /\ statement'.describe_result = NoResult /\ statement'.pending_results = <<>>
        /\ statement'.pending_result_index = statement.pending_result_index
    BY <1>3, <1>9, <2>3, <2>4, Applying
  <2>6. Live' = {r} /\ result' \in [Live' -> LabelType] /\ result'[r] = Label(0, kind)
    BY <1>9, <2>1, <2>4 DEF Keep, Live
  <2> QED
    BY <1>1, <1>2, <1>4, <1>9, <2>2, <2>3, <2>5, <2>6, CallEnds
<1>10. \/ L # <<>> /\ statement' = Published(statement, L) /\ result' = rest /\ UNCHANGED due
       \/ L = <<>> /\ \E kind \in {"tuples", "error"} :
            /\ statement' = Applied(statement, NewResult(DOMAIN rest), kind)
            /\ result' = Keep(rest, NewResult(DOMAIN rest), Label(0, kind))
            /\ due' = <<Label(0, kind)>>
  BY DEF FinishCall, rest
<1> QED
  BY <1>8, <1>9, <1>10

----------------------------------------------------------------------------
(* Arrays of parameter sets, and data at execution.                        *)

\* A call that goes on leaves the statement as it is.
LEMMA ControlGoesOn ==
  ASSUME Sound, ~Idle, UNCHANGED <<statement, answer>>,
         loop'.call_result = loop.call_result,
         \/ loop.call = "sets" /\ loop'.call = "sets" /\ data_at_exec' = data_at_exec
         \/ /\ data_at_exec.in_need_data /\ data_at_exec'.in_need_data
            /\ data_at_exec'.row_count = data_at_exec.row_count
            /\ loop'.call \in {"none", "param_data", "advance"}
            /\ loop'.call = "advance" => data_at_exec.row_count > 1
            /\ data_at_exec.row_count <= 1 =>
                 data_at_exec'.chained_results = data_at_exec.chained_results
            /\ loop'.chained_results = loop.chained_results
  PROVE  Control' /\ ~Idle'
<1>1. CASE loop.call = "sets" /\ loop'.call = "sets" /\ data_at_exec' = data_at_exec
  BY <1>1 DEF Sound, Control, Idle, Chains, Asks
<1>2. CASE ~(loop.call = "sets" /\ loop'.call = "sets" /\ data_at_exec' = data_at_exec)
  <2>1. /\ loop.call \in Asks \union {"none"} /\ loop.chained_results = <<>>
        /\ loop.call_result = NoResult
    BY <1>2 DEF Sound, Control, Chains, Asks
  <2> QED
    BY <1>2, <2>1 DEF Sound, Control, Idle, Chains, Asks
<1> QED
  BY <1>1, <1>2

\* So does a step that moves no result.
LEMMA CallGoesOn ==
  ASSUME Sound, ~Idle, UNCHANGED <<statement, result, due, answer>>,
         data_at_exec' \in DataType, loop' \in LoopType,
         data_at_exec'.chained_results = data_at_exec.chained_results,
         loop'.chained_results = loop.chained_results,
         loop'.call_result = loop.call_result, Others',
         \/ loop.call = "sets" /\ loop'.call = "sets" /\ data_at_exec' = data_at_exec
         \/ /\ data_at_exec.in_need_data /\ data_at_exec'.in_need_data
            /\ data_at_exec'.row_count = data_at_exec.row_count
            /\ loop'.call \in {"none", "param_data", "advance"}
            /\ loop'.call = "advance" => data_at_exec.row_count > 1
  PROVE  Sound'
<1>1. Control' /\ ~Idle'
  BY ControlGoesOn
<1>2. Owning' /\ Ordered'
  BY <1>1, Unmoved DEF Sound, Chains
<1>3. TypeOK'
  BY DEF Sound, TypeOK, Others, Live
<1> QED
  BY <1>1, <1>2, <1>3 DEF Sound

\* What is held while data are asked for.
LEMMA HeldByData ==
  ASSUME Sound, data_at_exec.in_need_data
  PROVE  /\ ~Idle /\ loop.call \in Asks \union {"none"}
         /\ loop.chained_results = <<>> /\ loop.call_result = NoResult
         /\ data_at_exec \in DataType /\ loop \in LoopType
         /\ data_at_exec.chained_results \in Seq(Heap)
         /\ Distinct(data_at_exec.chained_results)
         /\ HeldByCall = ToSet(data_at_exec.chained_results)
         /\ due \in Seq(LabelType)
<1>1. /\ ~Idle /\ loop.call \in Asks \union {"none"}
      /\ loop.chained_results = <<>> /\ loop.call_result = NoResult
  BY DEF Sound, Control, Idle, Chains, Asks
<1>2. /\ data_at_exec.chained_results \in Seq(Heap) /\ data_at_exec \in DataType
      /\ loop \in LoopType /\ due \in Seq(LabelType)
  BY DEF Sound, TypeOK, DataType
<1>3. Distinct(data_at_exec.chained_results)
  BY DEF Sound, Owning
<1> QED
  BY <1>1, <1>2, <1>3, Elements, EmptyChain DEF HeldByCall

\* A call that ends and leaves the chain it has made, if it has made one.
LEMMA ChainOrNot ==
  ASSUME Sound, ~Idle, loop' = NoCall, data_at_exec' \in DataType,
         ~data_at_exec'.in_need_data, data_at_exec'.chained_results = <<>>,
         NEW chain \in Seq(Heap), Distinct(chain),
         \A r \in ToSet(chain) : result[r].kind \in Rows,
         statement' = PublishedOrNot(chain), UNCHANGED <<result, due>>,
         Labelled(due, chain), HeldByCall = ToSet(chain), Others'
  PROVE  Sound'
<1>1. /\ statement \in StatementType /\ Live = ToSet(chain)
      /\ statement.current_result = NoResult /\ statement.describe_result = NoResult
      /\ statement.pending_results = <<>> /\ result \in [Live -> LabelType]
  BY Underway DEF Live
<1>2. CASE chain # <<>>
  BY <1>1, <1>2, ChainEnds DEF PublishedOrNot, Live
<1>3. CASE chain = <<>>
  <2>1. /\ statement' \in StatementType /\ statement'.current_result = NoResult
        /\ statement'.describe_result = NoResult /\ statement'.pending_results = <<>>
        /\ statement'.pending_result_index = statement.pending_result_index
    <3> DEFINE st == [statement EXCEPT !.has_result_set = FALSE, !.state = "executed"]
    <3>1. /\ st \in StatementType /\ st.current_result = NoResult
          /\ st.describe_result = NoResult /\ st.pending_results = <<>>
          /\ st.pending_result_index = statement.pending_result_index
      BY <1>1 DEF StatementType
    <3>2. statement' = st
      BY <1>3 DEF PublishedOrNot
    <3> HIDE DEF st
    <3> QED
      BY <3>1, <3>2
  <2>2. due = <<>>
    <3>1. Len(due) = 0 /\ due \in Seq(LabelType)
      BY <1>3, EmptyChain DEF Labelled, Sound, TypeOK
    <3> QED
      BY <3>1, EmptySeq
  <2>3. Live' = {} /\ result' \in [Live' -> LabelType]
    BY <1>1, <1>3, EmptyChain DEF Live
  <2> QED
    BY <2>1, <2>2, <2>3, CallEnds
<1> QED
  BY <1>2, <1>3

\* The places in the array.
LEMMA ArrayPlaces ==
  ASSUME TypeOK
  PROVE  /\ BatchEnd \in Nat /\ loop.at \in Nat /\ loop.at + 1 \in Nat
         /\ loop.rows_processed \in Nat /\ loop.rows_processed + 1 \in Nat
         /\ Sets \subseteq Nat
<1> DEFINE start == loop.batch_start
           sets == request.sets
           batch == request.batch
           at == loop.at
           rows == loop.rows_processed
<1>1. /\ start \in Nat /\ at \in Nat /\ rows \in Nat
      /\ sets \in Nat /\ batch \in Sets /\ Sets \subseteq Nat \ {0}
  BY ExecutionAssumption DEF TypeOK, LoopType, RequestType, Sets
<1>2. BatchEnd = IF start + batch - 1 > sets THEN sets ELSE start + batch - 1
  BY DEF BatchEnd
<1> HIDE DEF start, sets, batch, at, rows
<1>3. /\ (IF start + batch - 1 > sets THEN sets ELSE start + batch - 1) \in Nat
      /\ at + 1 \in Nat /\ rows + 1 \in Nat
  BY <1>1
<1> QED
  BY <1>1, <1>2, <1>3 DEF at, rows

\* A batch is marked with statuses.
LEMMA Marking ==
  ASSUME TypeOK, NEW status \in {"success", "info", "error"}
  PROVE  Marked(status) \in [Sets -> {"untouched", "unused", "success", "info", "error"}]
BY DEF TypeOK, Marked

\* The sets of an array one by one, and its batches.
LEMMA ArrayGoesOnSound ==
  ASSUME Sound, SkipSet \/ SetFails \/ NextBatch
  PROVE  Sound'
<1>1. /\ loop.call = "sets"
      /\ UNCHANGED <<statement, data_at_exec, request, params_processed, result, due,
                     answer, given, sent>>
  BY DEF SkipSet, SetFails, NextBatch, InBatch, BatchOver
<1>2. /\ ~Idle /\ data_at_exec \in DataType
  BY <1>1, HeldByChain DEF Chains
<1>3. /\ loop \in LoopType /\ BatchEnd + 1 \in Nat /\ loop.at + 1 \in Nat
      /\ loop.rows_processed \in Nat /\ loop.rows_processed + 1 \in Nat
  BY ArrayPlaces DEF Sound, TypeOK
<1>4. /\ loop' \in LoopType /\ loop'.call = "sets"
      /\ loop'.chained_results = loop.chained_results
      /\ loop'.call_result = loop.call_result
  <2> DEFINE k == loop.at + 1
             rows == loop.rows_processed + 1
             end == BatchEnd + 1
             noticed == loop.any_notice \/ loop.batch_had_notice
  <2>1. \/ loop' = [loop EXCEPT !.at = k]
        \/ loop' = [loop EXCEPT !.batch_had_error = TRUE, !.rows_processed = rows]
        \/ loop' = [loop EXCEPT !.batch_had_error = TRUE,
                                !.rows_processed = loop.rows_processed]
        \/ loop' = [loop EXCEPT !.batch_start = end, !.any_notice = noticed,
                                !.batch_had_notice = FALSE]
    BY <1>3 DEF SkipSet, SetFails, NextBatch, LoopType
  <2>2. k \in Nat /\ rows \in Nat /\ end \in Nat /\ noticed \in BOOLEAN
    BY <1>3 DEF LoopType
  <2> HIDE DEF k, rows, end, noticed
  <2> QED
    BY <1>1, <1>3, <2>1, <2>2 DEF LoopType
<1>5. param_status' \in [Sets -> {"untouched", "unused", "success", "info", "error"}]
  <2>1. CASE UNCHANGED param_status
    BY <2>1 DEF Sound, TypeOK
  <2>2. CASE param_status' = Marked(IF loop.batch_had_notice THEN "info" ELSE "success")
    BY <2>2, Marking DEF Sound
  <2> QED
    BY <2>1, <2>2 DEF SkipSet, SetFails, NextBatch
<1>6. outcome' \in [Sets -> {"none", "succeeded", "noticed", "failed", "unsent"}]
  BY DEF SkipSet, SetFails, NextBatch, Sound, TypeOK
<1>7. Others'
  BY <1>1, <1>2, <1>5, <1>6, Underway DEF Others
<1> QED
  BY <1>1, <1>2, <1>4, <1>7, CallGoesOn

\* A set that runs; its rows join the chain.
LEMMA RunSetSound ==
  ASSUME Sound, RunSet
  PROVE  Sound'
<1>1. /\ loop.call = "sets" /\ CanHold
      /\ UNCHANGED <<statement, data_at_exec, request, param_status, params_processed,
                     answer, given, sent>>
  BY DEF RunSet, InBatch
<1> DEFINE r == NewResult(Live)
<1>2. PICK kind \in Rows, notice \in BOOLEAN :
        LET ran == [loop EXCEPT !.at = @ + 1, !.rows_processed = @ + 1,
                                !.batch_had_notice = @ \/ notice]
        IN  /\ outcome' = [outcome EXCEPT ![loop.at] = IF notice THEN "noticed"
                                                       ELSE "succeeded"]
            /\ IF kind = "tuples"
               THEN /\ loop' = [ran EXCEPT !.chained_results = Append(@, r)]
                    /\ result' = Keep(result, r, Label(loop.at, kind))
                    /\ due' = Append(due, Label(loop.at, kind))
               ELSE loop' = ran /\ UNCHANGED <<result, due>>
  BY DEF RunSet
<1> DEFINE k == loop.at + 1
           rows == loop.rows_processed + 1
           noticed == loop.batch_had_notice \/ notice
           label == Label(loop.at, kind)
           L == loop.chained_results
           ran == [loop EXCEPT !.at = k, !.rows_processed = rows,
                               !.batch_had_notice = noticed]
           kept == [ran EXCEPT !.chained_results = Append(L, r)]
<1>3. /\ ~Idle /\ ~data_at_exec.in_need_data /\ L \in Seq(Heap)
      /\ data_at_exec \in DataType /\ due \in Seq(LabelType)
  BY <1>1, HeldByChain DEF Chains
<1>4. loop \in LoopType /\ k \in Nat /\ rows \in Nat /\ loop.at \in Nat
  BY ArrayPlaces DEF Sound, TypeOK
<1>5. noticed \in BOOLEAN
  BY <1>4 DEF LoopType
<1>6. outcome' \in [Sets -> {"none", "succeeded", "noticed", "failed", "unsent"}]
  BY <1>2 DEF Sound, TypeOK
<1>7. Others'
  BY <1>1, <1>3, <1>6, Underway DEF Others
<1>8. r \in Heap /\ r \notin Live
  BY <1>1, NewIsFree DEF CanHold
<1>9. label \in LabelType /\ label.kind \in Rows
  BY <1>4 DEF Label, LabelType, Rows
<1>10. IF kind = "tuples"
       THEN loop' = kept /\ result' = Keep(result, r, label) /\ due' = Append(due, label)
       ELSE loop' = ran /\ UNCHANGED <<result, due>>
  BY <1>2, <1>4 DEF LoopType
<1> HIDE DEF k, rows, noticed, label, r
<1>11. /\ ran \in LoopType /\ ran.call = "sets" /\ ran.chained_results = L
       /\ ran.call_result = loop.call_result
  BY <1>1, <1>4, <1>5 DEF LoopType
<1> HIDE DEF ran
<1>12. CASE kind # "tuples"
  BY <1>1, <1>3, <1>7, <1>10, <1>11, <1>12, CallGoesOn
<1>13. CASE kind = "tuples"
  <2>1. Append(L, r) \in Seq(Heap)
    BY <1>3, <1>8, Appending
  <2>2. /\ kept \in LoopType /\ kept.call = "sets" /\ kept.chained_results = Append(L, r)
        /\ kept.call_result = loop.call_result
    <3> DEFINE t == Append(L, r)
    <3> HIDE DEF t
    <3>1. [ran EXCEPT !.chained_results = t] \in LoopType
      BY <1>11, <2>1 DEF LoopType, t
    <3> QED
      BY <3>1, <1>11 DEF LoopType, t
  <2> HIDE DEF kept, L
  <2>3. Control' /\ ~Idle'
    BY <1>1, <1>3, <1>10, <1>13, <2>2, ControlGoesOn
  <2>4. Owning' /\ Ordered'
    BY <1>1, <1>3, <1>8, <1>9, <1>10, <1>13, <2>2, <2>3, Growing DEF Sound, Chains, L
  <2>5. DOMAIN result' = Live \union {r} /\ result' \in [DOMAIN result' -> LabelType]
    BY <1>9, <1>10, <1>13 DEF Sound, TypeOK, Keep, Live
  <2>6. due' \in Seq(LabelType)
    BY <1>3, <1>9, <1>10, <1>13, AppendProperties
  <2>7. Live \subseteq Heap
    BY DEF Sound, TypeOK
  <2>8. TypeOK'
    BY <1>1, <1>7, <1>8, <1>10, <1>13, <2>2, <2>5, <2>6, <2>7
       DEF Sound, TypeOK, Others, Live
  <2> QED
    BY <2>3, <2>4, <2>8 DEF Sound
<1> QED
  BY <1>12, <1>13

\* The error of a batch, and that of a set supplied at execution.
LEMMA ArrayFailsSound ==
  ASSUME Sound, BatchFails \/ SuppliedSetFails
  PROVE  Sound'
<1>1. CASE BatchFails
  <2> DEFINE over == [statement EXCEPT !.has_result_set = FALSE, !.state = "executed"]
  <2>1. /\ loop.call = "sets" /\ param_status' = Marked("error")
        /\ params_processed' = loop.rows_processed
        /\ result' = Clear(result, ToSet(loop.chained_results))
        /\ statement' = over /\ loop' = NoCall /\ due' = <<>> /\ answer' = "error"
        /\ UNCHANGED <<data_at_exec, request, outcome, given>>
    BY <1>1 DEF BatchFails, BatchOver
  <2>2. /\ ~Idle /\ ~data_at_exec.in_need_data /\ data_at_exec.chained_results = <<>>
        /\ NoResult \notin ToSet(loop.chained_results) /\ data_at_exec \in DataType
        /\ HeldByCall = (ToSet(loop.chained_results) \union {loop.call_result}) \ {NoResult}
    BY <2>1, HeldByChain DEF Chains
  <2>3. loop.call_result = NoResult
    BY <2>1 DEF Sound, Control
  <2>4. Live' = {} /\ result' \in [Live' -> LabelType]
    BY <2>1, <2>2, <2>3, EmptiedCall
  <2>5. /\ statement \in StatementType /\ statement.current_result = NoResult
        /\ statement.describe_result = NoResult /\ statement.pending_results = <<>> /\ Others
    BY <2>2, Underway
  <2>6. /\ over \in StatementType /\ over.current_result = NoResult
        /\ over.describe_result = NoResult /\ over.pending_results = <<>>
        /\ over.pending_result_index = statement.pending_result_index
    BY <2>5 DEF StatementType
  <2> HIDE DEF over
  <2>7. loop.rows_processed \in Nat
    BY ArrayPlaces DEF Sound
  <2>8. Marked("error") \in [Sets -> {"untouched", "unused", "success", "info", "error"}]
    BY Marking DEF Sound
  <2>9. Others'
    BY <2>1, <2>5, <2>7, <2>8 DEF Others
  <2> QED
    BY <2>1, <2>2, <2>4, <2>6, <2>9, CallEnds
<1>2. CASE SuppliedSetFails
  <2>1. /\ loop.call = "param_data" /\ result' = Clear(result, ToSet(data_at_exec.chained_results))
        /\ data_at_exec' = NotAsking /\ loop' = NoCall /\ due' = <<>> /\ answer' = "error"
        /\ given' = NoPieces /\ UNCHANGED <<statement, request, params_processed>>
    BY <1>2 DEF SuppliedSetFails, SetSupplied, SendValues
  <2>2. data_at_exec.in_need_data
    BY <2>1 DEF Sound, Control, Asks
  <2>3. ~Idle /\ HeldByCall = ToSet(data_at_exec.chained_results)
    BY <2>2, HeldByData
  <2>4. Live' = {} /\ result' \in [Live' -> LabelType]
    BY <2>1, <2>3, EmptiedCall
  <2>5. /\ statement \in StatementType /\ statement.current_result = NoResult
        /\ statement.describe_result = NoResult /\ statement.pending_results = <<>> /\ Others
    BY <2>3, Underway
  <2>6. PICK was \in {"failed", "unsent"} :
          /\ outcome' = [outcome EXCEPT ![data_at_exec.current_row] = was]
          /\ param_status' = IF was = "failed"
                             THEN [param_status EXCEPT ![data_at_exec.current_row] = "error"]
                             ELSE param_status
    BY <1>2 DEF SuppliedSetFails
  <2>7. Others'
    BY <2>1, <2>5, <2>6, BeginningTypes DEF Others
  <2>8. /\ NotAsking \in DataType /\ ~NotAsking.in_need_data
        /\ NotAsking.chained_results = <<>>
    BY BeginningTypes DEF NotAsking
  <2> QED
    BY <2>1, <2>3, <2>4, <2>5, <2>7, <2>8, CallEnds
<1> QED
  BY <1>1, <1>2

\* An array that comes to its end.
LEMMA FinishSetsSound ==
  ASSUME Sound, FinishSets
  PROVE  Sound'
<1> DEFINE L == loop.chained_results
           status == IF loop.batch_had_notice THEN "info" ELSE "success"
<1>1. /\ loop.call = "sets" /\ param_status' = Marked(status)
      /\ params_processed' = loop.rows_processed
      /\ statement' = PublishedOrNot(L) /\ loop' = NoCall
      /\ answer' \in {"info", "success"}
      /\ UNCHANGED <<data_at_exec, request, result, due, outcome, given>>
  BY DEF FinishSets, BatchOver
<1>2. /\ ~Idle /\ ~data_at_exec.in_need_data /\ data_at_exec.chained_results = <<>>
      /\ L \in Seq(Heap) /\ Distinct(L) /\ NoResult \notin ToSet(L)
      /\ HeldByCall = (ToSet(L) \union {loop.call_result}) \ {NoResult}
      /\ data_at_exec \in DataType
  BY <1>1, HeldByChain DEF Chains
<1>3. loop.call_result = NoResult
  BY <1>1 DEF Sound, Control
<1>4. HeldByCall = ToSet(L)
  BY <1>2, <1>3
<1>5. \A r \in ToSet(L) : result[r].kind \in Rows
  BY DEF Sound, Owning
<1>6. Labelled(due, L)
  BY <1>1 DEF Sound, Ordered, Chains
<1>7. Marked(status) \in [Sets -> {"untouched", "unused", "success", "info", "error"}]
  BY Marking DEF Sound
<1>8. loop.rows_processed \in Nat
  BY ArrayPlaces DEF Sound
<1>9. Others'
  BY <1>1, <1>2, <1>7, <1>8, Underway DEF Others
<1> HIDE DEF L
<1> QED
  BY <1>1, <1>2, <1>4, <1>5, <1>6, <1>9, ChainOrNot

\* The last supplied set run: the chain of the sets becomes the results.
LEMMA FinishSuppliedSound ==
  ASSUME Sound, FinishSupplied
  PROVE  Sound'
<1> DEFINE D == data_at_exec.chained_results
<1>1. /\ loop.call = "advance" /\ statement' = PublishedOrNot(D)
      /\ data_at_exec' = NotAsking /\ loop' = NoCall /\ answer' = "success"
      /\ UNCHANGED <<request, param_status, params_processed, result, due, outcome, given>>
  BY DEF FinishSupplied, Finished
<1>2. data_at_exec.in_need_data
  BY <1>1 DEF Sound, Control, Asks
<1>3. ~Idle /\ D \in Seq(Heap) /\ Distinct(D) /\ HeldByCall = ToSet(D)
  BY <1>2, HeldByData
<1>4. \A r \in ToSet(D) : result[r].kind \in Rows
  BY DEF Sound, Owning
<1>5. Labelled(due, D)
  BY <1>2 DEF Sound, Ordered
<1>6. Others'
  BY <1>1, <1>3, Underway DEF Others
<1>7. NotAsking \in DataType /\ ~NotAsking.in_need_data /\ NotAsking.chained_results = <<>>
  BY BeginningTypes DEF NotAsking
<1> HIDE DEF D
<1> QED
  BY <1>1, <1>3, <1>4, <1>5, <1>6, <1>7, ChainOrNot

\* The first parameter that is still awaited.
LEMMA FirstAwaited ==
  ASSUME TypeOK, Awaited # {}
  PROVE  LET first == CHOOSE p \in Awaited : \A q \in Awaited : p <= q
         IN  first \in Awaited /\ first \in data_at_exec.needs_data /\ first \in Param
<1>1. Awaited \subseteq data_at_exec.needs_data /\ data_at_exec.needs_data \subseteq Param
  BY DEF TypeOK, DataType, Awaited
<1>2. Awaited \subseteq Nat
  BY <1>1, ExecutionAssumption
<1>3. PICK p \in Awaited : \A q \in Awaited : <<q, p>> \notin OpToRel(<, Nat)
  BY <1>2, NatLessThanWellFounded, WFMin
<1>4. \A q \in Awaited : ~(q < p)
  BY <1>2, <1>3 DEF OpToRel
<1>5. \A q \in Awaited : p <= q
  BY <1>2, <1>4
<1> DEFINE first == CHOOSE x \in Awaited : \A q \in Awaited : x <= q
<1>6. first \in Awaited
  BY <1>5
<1> QED
  BY <1>1, <1>6

\* The values of one parameter.
LEMMA PuttingTypes ==
  ASSUME data_at_exec \in DataType, NEW p \in Param, NEW set \in Nat
  PROVE  LET value == data_at_exec.value[p]
             pieces == Append(value.pieces, <<set, p>>)
             put == [data_at_exec EXCEPT !.value[p].pieces = pieces]
             null == [data_at_exec EXCEPT !.value[p].is_null = TRUE]
         IN  /\ put \in DataType /\ put.chained_results = data_at_exec.chained_results
             /\ put.in_need_data = data_at_exec.in_need_data
             /\ put.row_count = data_at_exec.row_count
             /\ null \in DataType /\ null.chained_results = data_at_exec.chained_results
             /\ null.in_need_data = data_at_exec.in_need_data
             /\ null.row_count = data_at_exec.row_count
<1> DEFINE value == data_at_exec.value
           pieces == Append(value[p].pieces, <<set, p>>)
<1>1. value \in [Param -> ValueType]
  BY DEF DataType
<1>2. value[p] \in ValueType
  BY <1>1
<1>3. p \in Nat /\ <<set, p>> \in Nat \X Nat
  BY ExecutionAssumption
<1>4. value[p].pieces \in Seq(Nat \X Nat)
  BY <1>2 DEF ValueType
<1>5. pieces \in Seq(Nat \X Nat)
  BY <1>3, <1>4, AppendProperties
<1> DEFINE put == [value[p] EXCEPT !.pieces = pieces]
           null == [value[p] EXCEPT !.is_null = TRUE]
<1> HIDE DEF pieces
<1>6. put \in ValueType /\ null \in ValueType
  BY <1>2, <1>5 DEF ValueType
<1>7. /\ [data_at_exec EXCEPT !.value[p].pieces = pieces]
           = [data_at_exec EXCEPT !.value = [value EXCEPT ![p] = put]]
      /\ [data_at_exec EXCEPT !.value[p].is_null = TRUE]
           = [data_at_exec EXCEPT !.value = [value EXCEPT ![p] = null]]
  OBVIOUS
<1> HIDE DEF put, null
<1>8. /\ [value EXCEPT ![p] = put] \in [Param -> ValueType]
      /\ [value EXCEPT ![p] = null] \in [Param -> ValueType]
  BY <1>1, <1>6
<1>9. ASSUME NEW v \in [Param -> ValueType]
      PROVE  LET d == [data_at_exec EXCEPT !.value = v]
             IN  /\ d \in DataType /\ d.chained_results = data_at_exec.chained_results
                 /\ d.in_need_data = data_at_exec.in_need_data
                 /\ d.row_count = data_at_exec.row_count
  BY DEF DataType
<1> DEFINE with_put == [value EXCEPT ![p] = put]
           with_null == [value EXCEPT ![p] = null]
<1>10. with_put \in [Param -> ValueType] /\ with_null \in [Param -> ValueType]
  BY <1>8
<1>11. /\ [data_at_exec EXCEPT !.value[p].pieces = pieces]
            = [data_at_exec EXCEPT !.value = with_put]
       /\ [data_at_exec EXCEPT !.value[p].is_null = TRUE]
            = [data_at_exec EXCEPT !.value = with_null]
  BY <1>7
<1> HIDE DEF with_put, with_null, value
<1>12. LET d == [data_at_exec EXCEPT !.value = with_put]
       IN  /\ d \in DataType /\ d.chained_results = data_at_exec.chained_results
           /\ d.in_need_data = data_at_exec.in_need_data
           /\ d.row_count = data_at_exec.row_count
  BY <1>9, <1>10
<1>13. LET d == [data_at_exec EXCEPT !.value = with_null]
       IN  /\ d \in DataType /\ d.chained_results = data_at_exec.chained_results
           /\ d.in_need_data = data_at_exec.in_need_data
           /\ d.row_count = data_at_exec.row_count
  BY <1>9, <1>10
<1> QED
  BY <1>11, <1>12, <1>13 DEF pieces, value

\* SQLParamData begins, hands a parameter out, or goes on with the next set; SQLPutData.
LEMMA DataGoesOnSound ==
  ASSUME Sound, ParamData \/ HandOut \/ PutData \/ NextSet
  PROVE  Sound'
<1> DEFINE first == CHOOSE p \in Awaited : \A q \in Awaited : p <= q
           handed == [data_at_exec EXCEPT !.current_parameter_index = first]
           row == data_at_exec.current_row + 1
           rearmed == [data_at_exec EXCEPT
                         !.value = [p \in Param |-> NoValue], !.current_row = row,
                         !.current_parameter_index = NoParameter,
                         !.needs_data = request.deferred[row]]
           asking == [NoCall EXCEPT !.call = "param_data"]
<1>1. /\ UNCHANGED <<statement, request, result, due, answer, param_status, outcome, sent>>
      /\ loop' = NoCall \/ loop' = asking \/ (loop' = loop /\ loop.call = "none")
  <2>1. CASE ParamData
    BY <2>1 DEF ParamData
  <2>2. CASE HandOut
    BY <2>2 DEF HandOut
  <2>3. CASE PutData
    BY <2>3 DEF PutData
  <2>4. CASE NextSet
    BY <2>4 DEF NextSet
  <2> QED
    BY <2>1, <2>2, <2>3, <2>4
<1>2. data_at_exec.in_need_data
  BY DEF ParamData, HandOut, PutData, NextSet, Sound, Control, Asks
<1>3. /\ ~Idle /\ data_at_exec \in DataType /\ loop \in LoopType
      /\ loop.chained_results = <<>> /\ loop.call_result = NoResult
  BY <1>2, HeldByData
<1>4. Others
  BY <1>3, Underway
<1>5. /\ loop' \in LoopType /\ loop'.call \in {"none", "param_data"}
      /\ loop'.chained_results = <<>> /\ loop'.call_result = NoResult
  <2>1. NoCall \in LoopType /\ NoCall.call = "none" /\ NoCall.chained_results = <<>>
        /\ NoCall.call_result = NoResult
    BY BeginningTypes DEF NoCall
  <2>2. asking \in LoopType /\ asking.call = "param_data" /\ asking.chained_results = <<>>
        /\ asking.call_result = NoResult
    BY <2>1 DEF LoopType
  <2> HIDE DEF asking
  <2> QED
    BY <1>1, <1>3, <2>1, <2>2
<1>6. /\ data_at_exec' \in DataType /\ data_at_exec'.in_need_data
      /\ data_at_exec'.row_count = data_at_exec.row_count
      /\ data_at_exec'.chained_results = data_at_exec.chained_results
      /\ params_processed' \in Nat /\ given' \in [Param -> Nat]
  <2>1. CASE ParamData
    BY <2>1, <1>2, <1>3, <1>4 DEF ParamData, Others
  <2>2. CASE HandOut
    <3>1. data_at_exec' = handed /\ UNCHANGED <<params_processed, given>> /\ Awaited # {}
      BY <2>2 DEF HandOut
    <3>2. first \in Param
      BY <3>1, FirstAwaited DEF Sound
    <3> HIDE DEF first
    <3> QED
      BY <3>1, <3>2, <1>2, <1>3, <1>4 DEF DataType, Others
  <2>3. CASE PutData
    <3> DEFINE p == data_at_exec.current_parameter_index
               piece == <<SetAskedFor, p>>
               put == [data_at_exec EXCEPT !.value[p].pieces =
                         Append(data_at_exec.value[p].pieces, piece)]
               null == [data_at_exec EXCEPT !.value[p].is_null = TRUE]
    <3>1. /\ p # NoParameter /\ UNCHANGED params_processed
          /\ \/ data_at_exec' = put /\ given' = [given EXCEPT ![p] = @ + 1]
             \/ data_at_exec' = null /\ given' = [given EXCEPT ![p] = 0]
      BY <2>3 DEF PutData
    <3>2. p \in Param /\ SetAskedFor \in Nat
      BY <1>3, <1>4, <3>1 DEF DataType, Others, SetAskedFor
    <3> HIDE DEF p
    <3>3. /\ put \in DataType /\ put.chained_results = data_at_exec.chained_results
          /\ put.in_need_data = data_at_exec.in_need_data
          /\ put.row_count = data_at_exec.row_count
          /\ null \in DataType /\ null.chained_results = data_at_exec.chained_results
          /\ null.in_need_data = data_at_exec.in_need_data
          /\ null.row_count = data_at_exec.row_count
      BY <1>3, <3>2, PuttingTypes
    <3> HIDE DEF put, null
    <3>4. given' \in [Param -> Nat]
      BY <1>4, <3>1, <3>2 DEF Others
    <3> QED
      BY <1>2, <1>4, <3>1, <3>3, <3>4 DEF Others
  <2>4. CASE NextSet
    <3>1. /\ data_at_exec' = rearmed /\ params_processed' = row /\ UNCHANGED given
          /\ data_at_exec.current_row < data_at_exec.row_count
      BY <2>4 DEF NextSet, Rearmed
    <3>2. row \in Nat
      BY <1>3 DEF DataType
    <3>3. request.deferred[row] \in SUBSET Param
      <4>1. row \in Sets
        <5>1. /\ data_at_exec.current_row \in Nat /\ data_at_exec.row_count \in 0 .. MaxSets
              /\ MaxSets \in Nat
          BY <1>3, ExecutionAssumption DEF DataType
        <5> DEFINE k == data_at_exec.current_row
                   n == data_at_exec.row_count
        <5>2. k < n
          BY <3>1
        <5> HIDE DEF k, n
        <5>3. k + 1 \in 1 .. MaxSets
          BY <5>1, <5>2 DEF k, n
        <5> QED
          BY <5>3 DEF k, Sets
      <4> QED
        BY <4>1, <1>4 DEF Others, RequestType
    <3> DEFINE needs == request.deferred[row]
               nothing == [p \in Param |-> NoValue]
    <3>4. nothing \in [Param -> ValueType]
      <4>1. <<>> \in Seq(Nat \X Nat)
        BY EmptySeq
      <4>2. NoValue \in ValueType
        BY <4>1 DEF NoValue, ValueType
      <4> QED
        BY <4>2
    <3> HIDE DEF needs, nothing, row
    <3>5. /\ rearmed \in DataType
          /\ rearmed.in_need_data = data_at_exec.in_need_data
          /\ rearmed.row_count = data_at_exec.row_count
          /\ rearmed.chained_results = data_at_exec.chained_results
      BY <3>2, <3>3, <3>4, <1>3 DEF DataType, needs, nothing
    <3> HIDE DEF rearmed
    <3> QED
      BY <3>1, <3>2, <3>5, <1>2, <1>4 DEF Others
  <2> QED
    BY <2>1, <2>2, <2>3, <2>4
<1>7. Others'
  BY <1>1, <1>4, <1>6 DEF Others
<1> QED
  BY <1>1, <1>2, <1>3, <1>5, <1>6, <1>7, CallGoesOn

\* The one set of an execution that is not an array, once its values are supplied.
LEMMA RunOnlySetSound ==
  ASSUME Sound, RunOnlySet
  PROVE  Sound'
<1>1. /\ loop.call = "param_data" /\ data_at_exec.row_count = 1 /\ CanHold
      /\ given' = NoPieces /\ data_at_exec' = NotAsking /\ loop' = NoCall
      /\ UNCHANGED <<request, param_status, params_processed, outcome, answer>>
  BY DEF RunOnlySet, SetSupplied, SendValues
<1>2. data_at_exec.in_need_data /\ data_at_exec.chained_results = <<>>
  BY <1>1 DEF Sound, Control, Asks
<1>3. ~Idle /\ HeldByCall = {}
  BY <1>2, HeldByData, EmptyChain
<1>4. Others'
  BY <1>1, <1>3, Underway, BeginningTypes DEF Others
<1>5. NotAsking \in DataType /\ ~NotAsking.in_need_data /\ NotAsking.chained_results = <<>>
  BY BeginningTypes DEF NotAsking
<1>6. PICK kind \in Answers :
        /\ statement' = IF kind = "tuples" THEN Applied(statement, NewResult(Live), kind)
                        ELSE Applied(statement, NoResult, kind)
        /\ result' = IF kind = "tuples" THEN Keep(result, NewResult(Live), Label(0, kind))
                     ELSE result
        /\ due' = IF kind = "tuples" THEN <<Label(0, kind)>> ELSE <<>>
  BY DEF RunOnlySet
<1> QED
  BY <1>1, <1>3, <1>4, <1>5, <1>6, OneCommand

\* A set of an array that has been supplied; its rows join the chain.
LEMMA RunSuppliedSetSound ==
  ASSUME Sound, RunSuppliedSet
  PROVE  Sound'
<1> DEFINE r == NewResult(Live)
           row == data_at_exec.current_row
           D == data_at_exec.chained_results
           advance == [loop EXCEPT !.call = "advance"]
<1>1. /\ loop.call = "param_data" /\ data_at_exec.row_count > 1 /\ CanHold
      /\ given' = NoPieces /\ loop' = advance
      /\ UNCHANGED <<statement, request, params_processed, answer>>
  BY DEF RunSuppliedSet, SetSupplied, SendValues
<1>2. PICK kind \in Rows :
        LET chain == IF kind = "tuples" THEN Append(D, r) ELSE D
        IN  /\ result' = IF kind = "tuples" THEN Keep(result, r, Label(row, kind)) ELSE result
            /\ due' = IF kind = "tuples" THEN Append(due, Label(row, kind)) ELSE due
            /\ param_status' = [param_status EXCEPT ![row] = "success"]
            /\ outcome' = [outcome EXCEPT ![row] = "succeeded"]
            /\ data_at_exec' = [data_at_exec EXCEPT !.chained_results = chain]
  BY DEF RunSuppliedSet
<1>3. data_at_exec.in_need_data
  BY <1>1 DEF Sound, Control, Asks
<1>4. /\ ~Idle /\ data_at_exec \in DataType /\ loop \in LoopType /\ D \in Seq(Heap)
      /\ due \in Seq(LabelType)
      /\ loop.chained_results = <<>> /\ loop.call_result = NoResult
  BY <1>3, HeldByData
<1>5. Others'
  BY <1>1, <1>2, <1>4, Underway, BeginningTypes DEF Others
<1>6. /\ advance \in LoopType /\ advance.call = "advance"
      /\ advance.chained_results = loop.chained_results
      /\ advance.call_result = loop.call_result
  BY <1>4 DEF LoopType
<1>7. row \in Nat /\ r \in Heap /\ r \notin Live
  BY <1>1, <1>4, NewIsFree DEF CanHold, DataType
<1>8. Label(row, kind) \in LabelType /\ Label(row, kind).kind \in Rows
  BY <1>7 DEF Label, LabelType, Rows
<1> DEFINE label == Label(row, kind)
           chain == IF kind = "tuples" THEN Append(D, r) ELSE D
<1>9. chain \in Seq(Heap)
  BY <1>4, <1>7, Appending
<1> HIDE DEF advance, r, label
<1>10. /\ data_at_exec' \in DataType /\ data_at_exec'.in_need_data
       /\ data_at_exec'.row_count = data_at_exec.row_count
       /\ data_at_exec'.chained_results = chain
  <2>1. data_at_exec' = [data_at_exec EXCEPT !.chained_results = chain]
    BY <1>2
  <2> HIDE DEF chain
  <2> QED
    BY <2>1, <1>3, <1>4, <1>9 DEF DataType
<1>11. CASE kind # "tuples"
  BY <1>1, <1>2, <1>3, <1>4, <1>5, <1>6, <1>10, <1>11, CallGoesOn
<1>12. CASE kind = "tuples"
  <2>1. /\ result' = Keep(result, r, label) /\ due' = Append(due, label)
        /\ data_at_exec'.chained_results = Append(D, r)
    BY <1>2, <1>10, <1>12 DEF r, label
  <2>2. Control' /\ ~Idle'
    <3>1. ~(data_at_exec.row_count <= 1)
      <4> DEFINE n == data_at_exec.row_count
      <4>1. n \in Nat /\ n > 1
        BY <1>1, <1>4, ExecutionAssumption DEF DataType
      <4> HIDE DEF n
      <4>2. ~(n <= 1)
        BY <4>1
      <4> QED
        BY <4>2 DEF n
    <3> QED
      BY <3>1, <1>1, <1>3, <1>4, <1>6, <1>10, ControlGoesOn
  <2> HIDE DEF D
  <2>3. Owning' /\ Ordered'
    BY <1>1, <1>3, <1>4, <1>6, <1>7, <1>8, <2>1, <2>2, Growing DEF Sound, Asks, D, label
  <2>4. DOMAIN result' = Live \union {r} /\ result' \in [DOMAIN result' -> LabelType]
    BY <1>8, <2>1 DEF Sound, TypeOK, Keep, Live, label
  <2>5. due' \in Seq(LabelType)
    BY <1>4, <1>8, <2>1, AppendProperties DEF label
  <2>6. Live \subseteq Heap
    BY DEF Sound, TypeOK
  <2>7. TypeOK'
    BY <1>1, <1>5, <1>6, <1>7, <1>10, <2>4, <2>5, <2>6 DEF Sound, TypeOK, Others, Live
  <2> QED
    BY <2>2, <2>3, <2>7 DEF Sound
<1> QED
  BY <1>11, <1>12

----------------------------------------------------------------------------
(* The invariant of results.                                               *)

LEMMA SoundInitially ==
  ASSUME Init
  PROVE  Sound
<1>1. /\ data_at_exec = NotAsking /\ loop = NoCall /\ request = NoRequest
      /\ param_status = Untouched /\ params_processed = 0 /\ result = <<>> /\ due = <<>>
      /\ outcome = [n \in Sets |-> "none"] /\ answer = "none" /\ given = NoPieces
  BY DEF Init
<1>2. NoResult \in Address /\ <<>> \in Seq(Heap)
  BY EmptyChain, ExecutionAssumption DEF NoResult, Address
<1>3. /\ statement \in StatementType
      /\ statement.current_result = NoResult /\ statement.describe_result = NoResult
      /\ statement.pending_results = <<>> /\ statement.pending_result_index = 0
  BY <1>2 DEF Init, StatementType
<1>4. Live = {}
  <2>1. DOMAIN <<>> = {}
    OBVIOUS
  <2> QED
    BY <2>1, <1>1 DEF Live
<1>5. result \in [Live -> LabelType]
  BY <1>1, <1>4
<1>6. TypeOK
  BY <1>1, <1>3, <1>4, <1>5, BeginningTypes DEF TypeOK
<1>7. /\ ~data_at_exec.in_need_data /\ data_at_exec.chained_results = <<>>
      /\ loop.call = "none" /\ loop.chained_results = <<>> /\ loop.call_result = NoResult
  BY <1>1 DEF NotAsking, NoCall
<1>8. ToSet(<<>>) = {} /\ Distinct(<<>>) /\ Len(<<>>) = 0
  BY EmptyChain
<1>9. Control
  BY <1>1, <1>3, <1>7, <1>8 DEF Control, Idle, Chains, Asks
<1>10. Unpromoted(statement) = <<>>
  BY <1>3, <1>8, NothingWaits
<1>11. HeldBy(statement) = {} /\ HeldByCall = {}
  BY <1>3, <1>7, <1>8, <1>10 DEF HeldBy, HeldByCall
<1>12. Owning
  BY <1>3, <1>4, <1>7, <1>8, <1>10, <1>11 DEF Owning
<1>13. Ordered
  BY <1>1, <1>3, <1>7, <1>10 DEF Ordered, Chains
<1> QED
  BY <1>6, <1>9, <1>12, <1>13 DEF Sound

\* Every step keeps what Sound says.
LEMMA SoundStep ==
  ASSUME Sound, [Next]_vars
  PROVE  Sound'
<1>1. CASE UNCHANGED vars
  <2>1. TypeOK'
    BY <1>1 DEF Sound, TypeOK, vars, Live
  <2>2. Control'
    BY <1>1 DEF Sound, Control, vars, Idle
  <2>3. Owning'
    BY <1>1 DEF Sound, Owning, vars, Live, HeldBy, HeldByCall, Unpromoted
  <2>4. Ordered'
    BY <1>1 DEF Sound, Ordered, vars, Idle, Labelled, Unpromoted
  <2> QED
    BY <2>1, <2>2, <2>3, <2>4 DEF Sound
<1>2. CASE Prepare
  BY <1>2, PrepareSound
<1>3. CASE ExecDirectRefused \/ CloseCursor \/ Free
  BY <1>3, ClosingSound
<1>4. CASE Catalog
  BY <1>4, CatalogSound
<1>5. CASE MoreResults
  BY <1>5, MoreResultsSound
<1>6. ASSUME NEW direct \in BOOLEAN, NEW r \in Request, Execute(direct, r) PROVE Sound'
  BY <1>6, ExecuteSound
<1>7. CASE ParamData \/ HandOut \/ PutData \/ NextSet
  BY <1>7, DataGoesOnSound
<1>8. CASE RunSingle \/ RunCall
  BY <1>8, RunSingleSound, RunCallSound
<1>9. CASE FetchCursor \/ FetchFails \/ FinishCall
  BY <1>9, FetchCursorSound, FailingSound, FinishCallSound
<1>10. CASE RunFragment \/ FragmentFails \/ FinishFragments
  BY <1>10, RunFragmentSound, FailingSound, FinishFragmentsSound
<1>11. CASE SkipSet \/ RunSet \/ SetFails \/ NextBatch \/ BatchFails \/ FinishSets
  BY <1>11, ArrayGoesOnSound, RunSetSound, ArrayFailsSound, FinishSetsSound
<1>12. CASE RunOnlySet \/ RunSuppliedSet \/ FinishSupplied \/ SuppliedSetFails
  BY <1>12, RunOnlySetSound, RunSuppliedSetSound, FinishSuppliedSound, ArrayFailsSound
<1> QED
  BY <1>1, <1>2, <1>3, <1>4, <1>5, <1>6, <1>7, <1>8, <1>9, <1>10, <1>11, <1>12
     DEF Next, Proceed

\* The types, the calls that exclude each other, who holds what and in which order, of
\* every state: clear_current_result, the chains and the calls (statement.c:231-272,
\* 2576-2643, 3822-3842).
THEOREM ExecutionSound == Spec => []Sound
<1>1. Init => Sound
  BY SoundInitially
<1>2. Sound /\ [Next]_vars => Sound'
  BY SoundStep
<1> QED
  BY <1>1, <1>2, PTL DEF Spec

----------------------------------------------------------------------------
(* Each result in one place.                                               *)

\* Nothing but NoResult twice.
Once(s) == \A i, j \in DOMAIN s : s[i] = s[j] => i = j \/ s[i] = NoResult

\* Two sequences of addresses that share none, joined.
LEMMA Joining ==
  ASSUME NEW s \in Seq(Address), NEW t \in Seq(Address), Once(s), Once(t),
         ToSet(s) \intersect ToSet(t) \subseteq {NoResult}
  PROVE  /\ s \o t \in Seq(Address)
         /\ Once(s \o t)
         /\ ToSet(s \o t) = ToSet(s) \union ToSet(t)
<1> DEFINE u == s \o t
           m == Len(s)
           n == Len(t)
<1>1. /\ u \in Seq(Address) /\ Len(u) = m + n
      /\ \A i \in 1 .. m + n : u[i] = IF i <= m THEN s[i] ELSE t[i - m]
  BY ConcatProperties
<1>2. /\ m \in Nat /\ n \in Nat /\ DOMAIN s = 1 .. m /\ DOMAIN t = 1 .. n
      /\ DOMAIN u = 1 .. m + n
  BY <1>1, LenProperties
<1> HIDE DEF u, m, n
<1>3. \A i \in 1 .. m : i \in 1 .. m + n /\ u[i] = s[i]
  BY <1>1, <1>2
<1>4. ASSUME NEW i \in 1 .. n
      PROVE  i + m \in 1 .. m + n /\ u[i + m] = t[i]
  <2>1. i + m \in 1 .. m + n /\ ~(i + m <= m) /\ (i + m) - m = i
    BY <1>2
  <2> QED
    BY <2>1, <1>1
<1>5. ASSUME NEW i \in 1 .. m + n
      PROVE  (i \in 1 .. m /\ u[i] = s[i]) \/ (i - m \in 1 .. n /\ u[i] = t[i - m] /\ i > m)
  <2>1. CASE i <= m
    BY <2>1, <1>1, <1>2
  <2>2. CASE ~(i <= m)
    <3>1. i - m \in 1 .. n /\ i > m
      BY <2>2, <1>2
    <3> QED
      BY <2>2, <3>1, <1>1
  <2> QED
    BY <2>1, <2>2
<1>6. ToSet(u) = ToSet(s) \union ToSet(t)
  <2>1. ToSet(u) \subseteq ToSet(s) \union ToSet(t)
    BY <1>2, <1>5 DEF ToSet
  <2>2. ToSet(s) \subseteq ToSet(u)
    BY <1>2, <1>3 DEF ToSet
  <2>3. ToSet(t) \subseteq ToSet(u)
    BY <1>2, <1>4 DEF ToSet
  <2> QED
    BY <2>1, <2>2, <2>3
<1>7. ASSUME NEW i \in 1 .. m + n, NEW j \in 1 .. m + n, u[i] = u[j], u[i] # NoResult
      PROVE  i = j
  <2>1. CASE i \in 1 .. m /\ u[i] = s[i] /\ j \in 1 .. m /\ u[j] = s[j]
    BY <2>1, <1>2, <1>7 DEF Once
  <2>2. CASE /\ i - m \in 1 .. n /\ u[i] = t[i - m] /\ i > m
             /\ j - m \in 1 .. n /\ u[j] = t[j - m] /\ j > m
    <3>1. i - m = j - m
      BY <2>2, <1>2, <1>7 DEF Once
    <3> QED
      BY <3>1, <1>2
  <2>3. CASE i \in 1 .. m /\ u[i] = s[i] /\ j - m \in 1 .. n /\ u[j] = t[j - m]
    <3>1. u[i] \in ToSet(s) /\ u[i] \in ToSet(t)
      BY <2>3, <1>2, <1>7 DEF ToSet
    <3> QED
      BY <3>1, <1>7
  <2>4. CASE j \in 1 .. m /\ u[j] = s[j] /\ i - m \in 1 .. n /\ u[i] = t[i - m]
    <3>1. u[j] \in ToSet(s) /\ u[j] \in ToSet(t)
      BY <2>4, <1>2, <1>7 DEF ToSet
    <3> QED
      BY <3>1, <1>7
  <2> QED
    BY <2>1, <2>2, <2>3, <2>4, <1>5
<1>8. Once(u)
  BY <1>2, <1>7 DEF Once
<1> QED
  BY <1>1, <1>6, <1>8 DEF u

\* The addresses of a chain are each there once.
LEMMA ChainsAreOnce ==
  ASSUME NEW s \in Seq(Heap), Distinct(s)
  PROVE  s \in Seq(Address) /\ Once(s)
<1>1. Heap \subseteq Address
  BY ExecutionAssumption DEF Heap, Address
<1>2. s \in Seq(Address) /\ DOMAIN s = 1 .. Len(s)
  BY <1>1, LenProperties
<1> QED
  BY <1>2 DEF Distinct, Once

\* Sound leaves every address in one place.
LEMMA SoundOwns ==
  ASSUME Sound
  PROVE  ResultsOwnedOnce
<1> DEFINE cur == statement.current_result
           des == statement.describe_result
           own == loop.call_result
           fixed == <<cur, des, own>>
           U == Unpromoted(statement)
           D == data_at_exec.chained_results
           L == loop.chained_results
<1>1. /\ cur \in Address /\ des \in Address /\ own \in Address
      /\ D \in Seq(Heap) /\ L \in Seq(Heap)
  BY DEF Sound, TypeOK, StatementType, LoopType, DataType
<1>2. U \in Seq(Heap)
  BY Waiting DEF Sound, TypeOK, Control
<1>3. /\ U \in Seq(Address) /\ Once(U) /\ D \in Seq(Address) /\ Once(D)
      /\ L \in Seq(Address) /\ Once(L)
  BY <1>1, <1>2, ChainsAreOnce DEF Sound, Owning
<1>4. NoResult \notin ToSet(U) /\ NoResult \notin ToSet(D) /\ NoResult \notin ToSet(L)
  BY <1>1, <1>2, Elements
<1>5. ToSet(<<>>) = {}
  BY EmptyChain
<1>6. \/ own = NoResult /\ D = <<>> /\ L = <<>>
      \/ cur = NoResult /\ des = NoResult /\ U = <<>>
  BY Clean, Underway
<1>7. /\ cur # NoResult => cur # des /\ cur \notin ToSet(U)
      /\ des # NoResult => U = <<>>
      /\ own \notin ToSet(L)
      /\ Live = (({cur, des} \union ToSet(U)) \union ToSet(D) \union ToSet(L) \union {own})
                  \ {NoResult}
  BY DEF Sound, Owning, HeldBy, HeldByCall
<1>8. own # NoResult \/ L # <<>> => D = <<>>
  BY DEF Sound, Control, Chains, Asks
<1>9. Places = ((fixed \o U) \o D) \o L
  BY DEF Places
<1> HIDE DEF cur, des, own, U, D, L
<1>10. /\ fixed \in Seq(Address) /\ Len(fixed) = 3
       /\ fixed[1] = cur /\ fixed[2] = des /\ fixed[3] = own
  BY <1>1
<1> HIDE DEF fixed
<1>11. DOMAIN fixed = {1, 2, 3}
  BY <1>10, LenProperties
<1>12. ToSet(fixed) = {cur, des, own}
  BY <1>10, <1>11 DEF ToSet
<1>13. Once(fixed)
  BY <1>6, <1>7, <1>10, <1>11 DEF Once
<1>14. ToSet(fixed) \intersect ToSet(U) \subseteq {NoResult}
  BY <1>5, <1>6, <1>7, <1>12
<1>15. /\ fixed \o U \in Seq(Address) /\ Once(fixed \o U)
       /\ ToSet(fixed \o U) = {cur, des, own} \union ToSet(U)
  BY <1>3, <1>10, <1>12, <1>13, <1>14, Joining
<1>16. ToSet(fixed \o U) \intersect ToSet(D) \subseteq {NoResult}
  BY <1>5, <1>6, <1>8, <1>15
<1> DEFINE two == fixed \o U
<1>17. /\ two \o D \in Seq(Address) /\ Once(two \o D)
       /\ ToSet(two \o D) = {cur, des, own} \union ToSet(U) \union ToSet(D)
  <2> HIDE DEF two
  <2> QED
    BY <1>3, <1>15, <1>16, Joining DEF two
<1> DEFINE three == two \o D
<1>18. ToSet(three) \intersect ToSet(L) \subseteq {NoResult}
  BY <1>5, <1>6, <1>7, <1>8, <1>17
<1>19. /\ Once(three \o L)
       /\ ToSet(three \o L) = {cur, des, own} \union ToSet(U) \union ToSet(D) \union ToSet(L)
  <2>1. three \in Seq(Address) /\ Once(three)
        /\ ToSet(three) = {cur, des, own} \union ToSet(U) \union ToSet(D)
    BY <1>17
  <2> HIDE DEF three
  <2> QED
    BY <2>1, <1>3, <1>18, Joining
<1>20. Places = three \o L
  BY <1>9
<1> HIDE DEF three
<1>21. ToSet(Places) \ {NoResult} = Live
  BY <1>4, <1>7, <1>19, <1>20
<1>22. Once(Places)
  BY <1>19, <1>20
<1> QED
  BY <1>21, <1>22 DEF ResultsOwnedOnce, Once

\* Every result the driver has not cleared has one place from which it will be, for any
\* number of sets, cursors and fragments (statement.c:231-272, 2070-2088, 2602-2643).
THEOREM OwnedOnce == Spec => []ResultsOwnedOnce
<1>1. Sound => ResultsOwnedOnce
  BY SoundOwns
<1> QED
  BY <1>1, ExecutionSound, PTL

\* Sound gives a careful application its results in the order of the server.
LEMMA SoundOffers ==
  ASSUME Sound, Careful
  PROVE  ResultsInOrder
<1> DEFINE cur == statement.current_result
           U == Unpromoted(statement)
           offered == <<cur>> \o U
           seen == [i \in 1 .. Len(due) |-> due[i]]
           held == [i \in 1 .. Len(offered) |-> result[offered[i]]]
<1> SUFFICES ASSUME Idle
             PROVE  seen = IF cur = NoResult THEN <<>> ELSE held
  BY DEF ResultsInOrder
<1>1. IF cur = NoResult THEN due = <<>>
      ELSE /\ Len(due) = Len(U) + 1 /\ due[1] = result[cur]
           /\ \A i \in 1 .. Len(U) : due[i + 1] = result[U[i]]
  BY DEF Sound, Ordered
<1>2. CASE cur = NoResult
  <2>1. Len(due) = 0
    BY <1>1, <1>2, EmptyChain
  <2>2. 1 .. Len(due) = {}
    BY <2>1
  <2>3. seen = [i \in {} |-> due[i]]
    BY <2>2
  <2>4. seen = <<>>
    BY <2>1
  <2> QED
    BY <1>2, <2>4
<1>3. CASE cur # NoResult
  <2>1. U \in Seq(Heap) /\ cur \in Heap
    <3>1. U \in Seq(Heap) /\ cur \in Address
      BY Waiting DEF Sound, TypeOK, Control, StatementType
    <3> QED
      BY <1>3, <3>1, ExecutionAssumption DEF Heap, Address, NoResult
  <2> HIDE DEF cur, U
  <2>2. /\ Len(offered) = 1 + Len(U)
        /\ \A i \in 1 .. 1 + Len(U) : offered[i] = IF i <= 1 THEN cur ELSE U[i - 1]
    <3>1. <<cur>> \in Seq(Heap) /\ Len(<<cur>>) = 1 /\ <<cur>>[1] = cur
      BY <2>1
    <3> DEFINE one == <<cur>>
    <3>2. /\ Len(one \o U) = Len(one) + Len(U)
          /\ \A i \in 1 .. Len(one) + Len(U) :
               (one \o U)[i] = IF i <= Len(one) THEN one[i] ELSE U[i - Len(one)]
      <4> HIDE DEF one
      <4> QED
        BY <2>1, <3>1, ConcatProperties DEF one
    <3>3. \A i \in 1 .. 1 + Len(U) : offered[i] = IF i <= 1 THEN one[i] ELSE U[i - 1]
      BY <3>1, <3>2
    <3>4. \A i \in 1 .. 1 + Len(U) : i <= 1 => i = 1
      OBVIOUS
    <3> QED
      BY <3>1, <3>2, <3>3, <3>4
  <2>3. Len(U) \in Nat
    BY <2>1, LenProperties
  <2> HIDE DEF offered
  <2>4. ASSUME NEW i \in 1 .. Len(due) PROVE due[i] = result[offered[i]]
    <3>1. i \in 1 .. 1 + Len(U)
      BY <1>1, <1>3, <2>3
    <3>2. CASE i = 1
      BY <3>1, <3>2, <2>2, <1>1, <1>3
    <3>3. CASE i # 1
      <4>1. i - 1 \in 1 .. Len(U) /\ (i - 1) + 1 = i /\ ~(i <= 1)
        BY <3>1, <3>3, <2>3
      <4>2. offered[i] = U[i - 1]
        BY <3>1, <4>1, <2>2
      <4>3. due[(i - 1) + 1] = result[U[i - 1]]
        BY <4>1, <1>1, <1>3
      <4> QED
        BY <4>1, <4>2, <4>3
    <3> QED
      BY <3>2, <3>3
  <2>5. Len(due) = Len(offered)
    BY <1>1, <1>3, <2>2, <2>3
  <2>6. seen = held
    BY <2>4, <2>5
  <2> QED
    BY <1>3, <2>6
<1> QED
  BY <1>2, <1>3

\* An application that walks a chain before it calls a catalog function is offered the
\* results of its last execution, all of them and in order (statement.c:2576-2583,
\* 2634-2642).
THEOREM OfferedInOrder ==
  ASSUME Careful
  PROVE  Spec => []ResultsInOrder
<1>1. Sound => ResultsInOrder
  BY SoundOffers
<1> QED
  BY <1>1, ExecutionSound, PTL

----------------------------------------------------------------------------
(* What becomes of the sets of an array.                                   *)

\* The sets that have run, counted as one more runs.
LEMMA Counting ==
  ASSUME TypeOK
  PROVE  /\ IsFiniteSet(Ran) /\ IsFiniteSet(Tried) /\ Cardinality(Ran) \in Nat
         /\ Cardinality(Tried) \in Nat /\ Cardinality(Ran) <= Cardinality(Tried)
<1>1. IsFiniteSet(Sets)
  BY ExecutionAssumption, FS_Interval DEF Sets
<1>2. Ran \subseteq Tried /\ Tried \subseteq Sets
  BY DEF Ran, Tried
<1>3. IsFiniteSet(Tried)
  BY <1>1, <1>2, FS_Subset
<1>4. IsFiniteSet(Ran) /\ Cardinality(Ran) <= Cardinality(Tried)
  BY <1>2, <1>3, FS_Subset
<1> QED
  BY <1>3, <1>4, FS_CardinalityType

\* One set more is told of: the count of those that ran grows unless it was left unsent.
LEMMA OneMoreRan ==
  ASSUME TypeOK, NEW n \in Sets, outcome[n] = "none",
         NEW was \in {"succeeded", "noticed", "failed", "unsent"},
         outcome' = [outcome EXCEPT ![n] = was]
  PROVE  Cardinality(Ran)' = IF was = "unsent" THEN Cardinality(Ran) ELSE Cardinality(Ran) + 1
<1>1. outcome \in [Sets -> {"none", "succeeded", "noticed", "failed", "unsent"}]
  BY DEF TypeOK
<1>2. n \notin Ran
  BY DEF Ran
<1>3. Ran' = IF was = "unsent" THEN Ran ELSE Ran \union {n}
  BY <1>1 DEF Ran
<1>4. Cardinality(Ran \union {n}) = Cardinality(Ran) + 1
  BY <1>2, Counting, FS_AddElement
<1> QED
  BY <1>3, <1>4

\* Where the batch of an array begins and ends.
LEMMA BatchBounds ==
  ASSUME TypeOK, Batching, loop.call = "sets"
  PROVE  /\ loop.batch_start \in Nat \ {0} /\ loop.at \in Nat \ {0} /\ BatchEnd \in Nat
         /\ request.sets \in Nat \ {0} /\ MaxSets \in Nat /\ request.sets <= MaxSets
         /\ loop.batch_start <= BatchEnd /\ BatchEnd <= request.sets
         /\ loop.batch_start <= loop.at /\ loop.at <= BatchEnd + 1
         /\ loop.at <= BatchEnd => loop.at \in Sets
<1> DEFINE start == loop.batch_start
           sets == request.sets
           batch == request.batch
           at == loop.at
           end == IF start + batch - 1 > sets THEN sets ELSE start + batch - 1
<1>1. BatchEnd = end
  BY DEF BatchEnd
<1>2. /\ sets \in 1 .. MaxSets /\ start \in 1 .. sets /\ batch \in 1 .. MaxSets
      /\ at \in start .. end + 1 /\ MaxSets \in Nat
  BY <1>1, ExecutionAssumption DEF Batching, TypeOK, RequestType, Sets
<1> HIDE DEF start, sets, batch, at
<1>3. /\ start \in Nat \ {0} /\ at \in Nat \ {0} /\ end \in Nat
      /\ sets \in Nat \ {0} /\ MaxSets \in Nat /\ sets <= MaxSets
      /\ start <= end /\ end <= sets /\ start <= at /\ at <= end + 1
      /\ at <= end => at \in 1 .. MaxSets
  BY <1>2
<1> HIDE DEF end
<1> QED
  BY <1>1, <1>3 DEF start, sets, at, Sets

\* A set that is to be ignored, one that runs and one that fails.
LEMMA SkipSetTold ==
  ASSUME TypeOK, Batching, SkipSet
  PROVE  Batching'
<1> DEFINE start == loop.batch_start
           sets == request.sets
           at == loop.at
           end == BatchEnd
<1>1. /\ loop.call = "sets" /\ ~loop.batch_had_error /\ at <= end /\ at \in request.ignored
      /\ loop' = [loop EXCEPT !.at = at + 1] /\ loop \in LoopType
      /\ UNCHANGED <<request, param_status, outcome>>
  BY DEF SkipSet, InBatch, TypeOK, LoopType
<1>2. /\ loop'.call = "sets" /\ loop'.at = at + 1 /\ loop'.batch_start = start
      /\ loop'.batch_had_error = loop.batch_had_error
      /\ loop'.batch_had_notice = loop.batch_had_notice
      /\ loop'.rows_processed = loop.rows_processed
  BY <1>1 DEF LoopType
<1>3. BatchEnd' = end /\ Ran' = Ran
  BY <1>1, <1>2 DEF BatchEnd, Ran
<1>4. /\ start \in Nat \ {0} /\ at \in Nat \ {0} /\ end \in Nat /\ start <= at
      /\ sets \in Nat
  BY <1>1, BatchBounds
<1>5. /\ sets \in Sets /\ request.ignored \subseteq 1 .. sets /\ start \in 1 .. sets
      /\ loop.rows_processed = Cardinality(Ran) /\ \A n \in Sets : Told(n)
  BY <1>1 DEF Batching
<1>6. ASSUME NEW n \in Sets PROVE Told(n)'
  <2>1. Told(n) /\ n \in Nat
    BY <1>5, ExecutionAssumption DEF Sets
  <2> HIDE DEF start, sets, at, end
  <2>2. n < at + 1 <=> n < at \/ n = at
    BY <2>1, <1>4
  <2>3. n \in start .. (at + 1) - 1 <=> n \in start .. at - 1 \/ n = at
    BY <2>1, <1>4
  <2>4. n > at + 1 \/ n = at + 1 => n > at
    BY <2>1, <1>4
  <2>5. n = at => outcome[n] = "none"
    BY <2>1, <1>1 DEF Told, at
  <2>6. /\ n < start =>
             IF n \in request.ignored THEN param_status[n] = "unused"
             ELSE /\ param_status[n] \in {"success", "info"}
                  /\ param_status[n] = "success" => outcome[n] = "succeeded"
        /\ n \in start .. sets => param_status[n] = "unused"
        /\ n < at =>
             outcome[n] \in IF n \in request.ignored THEN {"none"} ELSE {"succeeded", "noticed"}
        /\ n \in start .. at - 1 /\ outcome[n] = "noticed" => loop.batch_had_notice
        /\ n > at => outcome[n] = "none"
    BY <2>1 DEF Told, start, sets, at
  <2>7. /\ n < start =>
             IF n \in request.ignored THEN param_status[n] = "unused"
             ELSE /\ param_status[n] \in {"success", "info"}
                  /\ param_status[n] = "success" => outcome[n] = "succeeded"
        /\ n \in start .. sets => param_status[n] = "unused"
        /\ n < at + 1 =>
             outcome[n] \in IF n \in request.ignored THEN {"none"} ELSE {"succeeded", "noticed"}
        /\ n \in start .. (at + 1) - 1 /\ outcome[n] = "noticed" => loop.batch_had_notice
        /\ n = at + 1 => outcome[n] = "none"
        /\ n > at + 1 => outcome[n] = "none"
    BY <2>2, <2>3, <2>4, <2>5, <2>6, <1>1
  <2>8. /\ loop'.at = at + 1 /\ loop'.batch_start = start /\ ~loop'.batch_had_error
        /\ loop'.batch_had_notice = loop.batch_had_notice /\ request' = request
        /\ param_status' = param_status /\ outcome' = outcome /\ request.sets = sets
    BY <1>1, <1>2 DEF sets
  <2> QED
    BY <2>7, <2>8 DEF Told
<1>7. at + 1 \in start .. end + 1
  <2> HIDE DEF start, at, end
  <2> QED
    BY <1>1, <1>4
<1> QED
  BY <1>1, <1>2, <1>3, <1>5, <1>6, <1>7 DEF Batching

\* A set of an array runs and succeeds, with or without a notice.
LEMMA RunSetTold ==
  ASSUME TypeOK, Batching, RunSet
  PROVE  Batching'
<1> DEFINE start == loop.batch_start
           sets == request.sets
           at == loop.at
           end == BatchEnd
           rows == loop.rows_processed
<1>1. /\ loop.call = "sets" /\ ~loop.batch_had_error /\ at <= end /\ at \notin request.ignored
      /\ loop \in LoopType /\ UNCHANGED <<request, param_status>>
  BY DEF RunSet, InBatch, TypeOK
<1>2. PICK notice \in BOOLEAN :
        /\ outcome' = [outcome EXCEPT ![at] = IF notice THEN "noticed" ELSE "succeeded"]
        /\ loop'.call = "sets" /\ loop'.at = at + 1 /\ loop'.batch_start = start
        /\ loop'.batch_had_error = loop.batch_had_error
        /\ loop'.batch_had_notice = (loop.batch_had_notice \/ notice)
        /\ loop'.rows_processed = rows + 1
  <2> DEFINE r == NewResult(Live)
             ran(notice) == [loop EXCEPT !.at = @ + 1, !.rows_processed = @ + 1,
                                         !.batch_had_notice = @ \/ notice]
             chained(notice) == [ran(notice) EXCEPT !.chained_results = Append(@, r)]
  <2>1. PICK notice \in BOOLEAN :
          /\ outcome' = [outcome EXCEPT ![at] = IF notice THEN "noticed" ELSE "succeeded"]
          /\ loop' = ran(notice) \/ loop' = chained(notice)
    BY DEF RunSet
  <2> DEFINE taken == ran(notice)
             t == Append(taken.chained_results, r)
  <2>2. /\ taken.call = "sets" /\ taken.at = at + 1 /\ taken.batch_start = start
        /\ taken.batch_had_error = loop.batch_had_error
        /\ taken.batch_had_notice = (loop.batch_had_notice \/ notice)
        /\ taken.rows_processed = rows + 1
        /\ DOMAIN taken = DOMAIN loop
    BY <1>1 DEF LoopType
  <2>3. loop' = taken \/ loop' = [taken EXCEPT !.chained_results = t]
    BY <2>1
  <2>4. /\ loop'.call = taken.call /\ loop'.at = taken.at
        /\ loop'.batch_start = taken.batch_start
        /\ loop'.batch_had_error = taken.batch_had_error
        /\ loop'.batch_had_notice = taken.batch_had_notice
        /\ loop'.rows_processed = taken.rows_processed
    <3>1. DOMAIN taken = {"call", "at", "batch_start", "rows_processed", "batch_had_notice",
                          "batch_had_error", "any_notice", "chained_results", "call_result"}
      BY <1>1, <2>2 DEF LoopType
    <3> HIDE DEF taken, t
    <3> QED
      BY <2>3, <3>1
  <2> QED
    BY <2>1, <2>2, <2>4
<1>3. BatchEnd' = end
  BY <1>1, <1>2 DEF BatchEnd
<1>4. /\ start \in Nat \ {0} /\ at \in Nat \ {0} /\ end \in Nat /\ start <= at
      /\ sets \in Nat /\ at \in Sets
  BY <1>1, BatchBounds
<1>5. /\ sets \in Sets /\ request.ignored \subseteq 1 .. sets /\ start \in 1 .. sets
      /\ rows = Cardinality(Ran) /\ \A n \in Sets : Told(n)
  BY <1>1 DEF Batching
<1>6. outcome[at] = "none" /\ outcome \in [Sets -> {"none", "succeeded", "noticed", "failed", "unsent"}]
  BY <1>1, <1>4, <1>5 DEF Told, TypeOK
<1>7. Cardinality(Ran)' = rows + 1
  <2> DEFINE was == IF notice THEN "noticed" ELSE "succeeded"
  <2>1. was \in {"succeeded", "noticed", "failed", "unsent"} /\ was # "unsent"
        /\ outcome' = [outcome EXCEPT ![at] = was]
    BY <1>2
  <2> HIDE DEF was
  <2> QED
    BY <2>1, <1>4, <1>5, <1>6, OneMoreRan
<1>8. ASSUME NEW n \in Sets PROVE Told(n)'
  <2>1. Told(n) /\ n \in Nat
    BY <1>5, ExecutionAssumption DEF Sets
  <2> HIDE DEF start, sets, at, end
  <2>2. n < at + 1 <=> n < at \/ n = at
    BY <2>1, <1>4
  <2>3. n \in start .. (at + 1) - 1 <=> n \in start .. at - 1 \/ n = at
    BY <2>1, <1>4
  <2>4. /\ n > at + 1 \/ n = at + 1 => n > at /\ n # at
        /\ n < start => n # at
    BY <2>1, <1>4
  <2>5. outcome'[n] = IF n = at THEN (IF notice THEN "noticed" ELSE "succeeded") ELSE outcome[n]
    BY <1>2, <1>6
  <2>6. /\ n < start =>
             IF n \in request.ignored THEN param_status[n] = "unused"
             ELSE /\ param_status[n] \in {"success", "info"}
                  /\ param_status[n] = "success" => outcome[n] = "succeeded"
        /\ n \in start .. sets => param_status[n] = "unused"
        /\ n < at =>
             outcome[n] \in IF n \in request.ignored THEN {"none"} ELSE {"succeeded", "noticed"}
        /\ n \in start .. at - 1 /\ outcome[n] = "noticed" => loop.batch_had_notice
        /\ n > at => outcome[n] = "none"
    BY <2>1 DEF Told, start, sets, at
  <2> DEFINE new == outcome'[n]
  <2> HIDE DEF new
  <2>7. new = IF n = at THEN (IF notice THEN "noticed" ELSE "succeeded") ELSE outcome[n]
    BY <2>5 DEF new
  <2>8. /\ n < start =>
             IF n \in request.ignored THEN param_status[n] = "unused"
             ELSE /\ param_status[n] \in {"success", "info"}
                  /\ param_status[n] = "success" => new = "succeeded"
        /\ n \in start .. sets => param_status[n] = "unused"
        /\ n < at + 1 =>
             new \in IF n \in request.ignored THEN {"none"} ELSE {"succeeded", "noticed"}
        /\ n \in start .. (at + 1) - 1 /\ new = "noticed" =>
             loop.batch_had_notice \/ notice
        /\ n = at + 1 => new = "none"
        /\ n > at + 1 => new = "none"
    <3>1. CASE n = at
      BY <3>1, <2>2, <2>3, <2>4, <2>6, <2>7, <1>1
    <3>2. CASE n # at
      BY <3>2, <2>2, <2>3, <2>4, <2>6, <2>7
    <3> QED
      BY <3>1, <3>2
  <2>9. /\ loop'.at = at + 1 /\ loop'.batch_start = start /\ ~loop'.batch_had_error
        /\ loop'.batch_had_notice = (loop.batch_had_notice \/ notice) /\ request' = request
        /\ param_status' = param_status /\ outcome'[n] = new /\ request.sets = sets
    BY <1>1, <1>2 DEF sets, new
  <2> QED
    BY <2>8, <2>9 DEF Told
<1>9. at + 1 \in start .. end + 1
  <2> HIDE DEF start, at, end
  <2> QED
    BY <1>1, <1>4
<1> QED
  BY <1>1, <1>2, <1>3, <1>5, <1>7, <1>8, <1>9 DEF Batching

\* A set of an array fails, and takes its batch with it.
LEMMA SetFailsTold ==
  ASSUME TypeOK, Batching, SetFails
  PROVE  Batching'
<1> DEFINE start == loop.batch_start
           sets == request.sets
           at == loop.at
           end == BatchEnd
           rows == loop.rows_processed
<1>1. /\ loop.call = "sets" /\ ~loop.batch_had_error /\ at <= end /\ at \notin request.ignored
      /\ loop \in LoopType /\ UNCHANGED <<request, param_status>>
  BY DEF SetFails, InBatch, TypeOK
<1>2. PICK was \in {"failed", "unsent"} :
        /\ outcome' = [outcome EXCEPT ![at] = was]
        /\ loop' = [loop EXCEPT !.batch_had_error = TRUE,
                                !.rows_processed = IF was = "failed" THEN @ + 1 ELSE @]
  BY DEF SetFails
<1>3. /\ loop'.call = "sets" /\ loop'.at = at /\ loop'.batch_start = start
      /\ loop'.batch_had_error /\ loop'.batch_had_notice = loop.batch_had_notice
      /\ loop'.rows_processed = IF was = "failed" THEN rows + 1 ELSE rows
  BY <1>1, <1>2 DEF LoopType
<1>4. BatchEnd' = end
  BY <1>1, <1>3 DEF BatchEnd
<1>5. /\ start \in Nat \ {0} /\ at \in Nat \ {0} /\ end \in Nat /\ start <= at
      /\ sets \in Nat /\ at \in Sets
  BY <1>1, BatchBounds
<1>6. /\ sets \in Sets /\ request.ignored \subseteq 1 .. sets /\ start \in 1 .. sets
      /\ rows = Cardinality(Ran) /\ \A n \in Sets : Told(n) /\ at \in start .. end + 1
  BY <1>1 DEF Batching
<1>7. outcome[at] = "none" /\ outcome \in [Sets -> {"none", "succeeded", "noticed", "failed", "unsent"}]
  BY <1>1, <1>5, <1>6 DEF Told, TypeOK
<1>8. Cardinality(Ran)' = loop'.rows_processed
  BY <1>2, <1>3, <1>5, <1>6, <1>7, OneMoreRan
<1>9. ASSUME NEW n \in Sets PROVE Told(n)'
  <2>1. Told(n) /\ n \in Nat
    BY <1>6, ExecutionAssumption DEF Sets
  <2> HIDE DEF start, sets, at, end
  <2>2. n < start \/ n < at \/ n > at \/ n \in start .. at - 1 => n # at
    BY <2>1, <1>5
  <2> DEFINE new == outcome'[n]
  <2>3. new = IF n = at THEN was ELSE outcome[n]
    BY <1>2, <1>7
  <2> HIDE DEF new
  <2>4. /\ n < start =>
             IF n \in request.ignored THEN param_status[n] = "unused"
             ELSE /\ param_status[n] \in {"success", "info"}
                  /\ param_status[n] = "success" => outcome[n] = "succeeded"
        /\ n \in start .. sets => param_status[n] = "unused"
        /\ n < at =>
             outcome[n] \in IF n \in request.ignored THEN {"none"} ELSE {"succeeded", "noticed"}
        /\ n \in start .. at - 1 /\ outcome[n] = "noticed" => loop.batch_had_notice
        /\ n > at => outcome[n] = "none"
    BY <2>1 DEF Told, start, sets, at
  <2>5. /\ loop'.at = at /\ loop'.batch_start = start /\ loop'.batch_had_error
        /\ loop'.batch_had_notice = loop.batch_had_notice /\ request' = request
        /\ param_status' = param_status /\ outcome'[n] = new /\ request.sets = sets
    BY <1>1, <1>3 DEF sets, new
  <2>6. /\ n < start =>
             IF n \in request.ignored THEN param_status[n] = "unused"
             ELSE /\ param_status[n] \in {"success", "info"}
                  /\ param_status[n] = "success" => new = "succeeded"
        /\ n < at =>
             new \in IF n \in request.ignored THEN {"none"} ELSE {"succeeded", "noticed"}
        /\ n \in start .. at - 1 /\ new = "noticed" => loop.batch_had_notice
        /\ n = at => new \in {"failed", "unsent"}
        /\ n > at => new = "none"
    BY <2>2, <2>3, <2>4
  <2> QED
    BY <2>4, <2>5, <2>6 DEF Told
<1> QED
  BY <1>1, <1>3, <1>4, <1>6, <1>8, <1>9 DEF Batching

\* A batch that has run is marked, and the next begins.
LEMMA NextBatchTold ==
  ASSUME TypeOK, Batching, NextBatch
  PROVE  Batching'
<1> DEFINE start == loop.batch_start
           sets == request.sets
           at == loop.at
           end == BatchEnd
           status == IF loop.batch_had_notice THEN "info" ELSE "success"
           noticed == loop.any_notice \/ loop.batch_had_notice
<1>1. /\ loop.call = "sets" /\ ~loop.batch_had_error /\ at > end /\ end < sets
      /\ param_status' = Marked(status) /\ loop \in LoopType
      /\ loop' = [loop EXCEPT !.batch_start = end + 1, !.any_notice = noticed,
                              !.batch_had_notice = FALSE]
      /\ UNCHANGED <<request, outcome>>
  BY DEF NextBatch, BatchOver, TypeOK, LoopType
<1>2. /\ loop'.call = "sets" /\ loop'.at = at /\ loop'.batch_start = end + 1
      /\ ~loop'.batch_had_error /\ loop'.rows_processed = loop.rows_processed
      /\ ~loop'.batch_had_notice
  BY <1>1 DEF LoopType
<1>3. Ran' = Ran
  BY <1>1 DEF Ran
<1>4. /\ start \in Nat \ {0} /\ at \in Nat \ {0} /\ end \in Nat /\ start <= end
      /\ sets \in Nat /\ at <= end + 1 /\ MaxSets \in Nat
  BY <1>1, BatchBounds
<1>5. /\ sets \in Sets /\ request.ignored \subseteq 1 .. sets
      /\ loop.rows_processed = Cardinality(Ran) /\ \A n \in Sets : Told(n)
  BY <1>1 DEF Batching
<1>6. at = end + 1 /\ end + 1 \in 1 .. sets
  <2> HIDE DEF start, sets, at, end
  <2> QED
    BY <1>1, <1>4
<1>7. at \in loop'.batch_start .. BatchEnd' + 1
  <2> DEFINE batch == request.batch
  <2>1. BatchEnd' = IF (end + 1) + batch - 1 > sets THEN sets ELSE (end + 1) + batch - 1
    BY <1>1, <1>2 DEF BatchEnd
  <2>2. batch \in Nat \ {0}
    BY ExecutionAssumption DEF TypeOK, RequestType, Sets
  <2> DEFINE newEnd == BatchEnd'
  <2> HIDE DEF start, sets, at, end, batch, newEnd
  <2>3. newEnd = IF (end + 1) + batch - 1 > sets THEN sets ELSE (end + 1) + batch - 1
    BY <2>1 DEF newEnd
  <2>4. at \in end + 1 .. newEnd + 1
    BY <2>2, <2>3, <1>4, <1>6
  <2> QED
    BY <2>4, <1>2 DEF newEnd
<1>8. ASSUME NEW n \in Sets PROVE Told(n)'
  <2>1. Told(n) /\ n \in Nat
    BY <1>5, ExecutionAssumption DEF Sets
  <2> DEFINE new == param_status'[n]
  <2>2. new = IF n \in start .. end /\ n \notin request.ignored THEN status ELSE param_status[n]
    BY <1>1 DEF Marked, Batch
  <2> HIDE DEF start, sets, at, end, new
  <2>3. /\ n < end + 1 <=> n < start \/ n \in start .. end
        /\ n < at <=> n < end + 1
        /\ n \in start .. end => n \in start .. sets /\ n \in start .. at - 1
        /\ n \in end + 1 .. sets => n \in start .. sets /\ n \notin start .. end
        /\ n < start => n \notin start .. end
        /\ n \notin end + 1 .. at - 1
    BY <2>1, <1>1, <1>4, <1>6
  <2>4. /\ n < start =>
             IF n \in request.ignored THEN param_status[n] = "unused"
             ELSE /\ param_status[n] \in {"success", "info"}
                  /\ param_status[n] = "success" => outcome[n] = "succeeded"
        /\ n \in start .. sets => param_status[n] = "unused"
        /\ n < at =>
             outcome[n] \in IF n \in request.ignored THEN {"none"} ELSE {"succeeded", "noticed"}
        /\ n \in start .. at - 1 /\ outcome[n] = "noticed" => loop.batch_had_notice
        /\ n = at => outcome[n] = "none"
        /\ n > at => outcome[n] = "none"
    BY <2>1, <1>1 DEF Told, start, sets, at
  <2>5. /\ n < end + 1 =>
             IF n \in request.ignored THEN new = "unused"
             ELSE /\ new \in {"success", "info"}
                  /\ new = "success" => outcome[n] = "succeeded"
        /\ n \in end + 1 .. sets => new = "unused"
    <3>1. CASE n \in start .. end
      BY <3>1, <2>2, <2>3, <2>4
    <3>2. CASE n \notin start .. end
      BY <3>2, <2>2, <2>3, <2>4
    <3> QED
      BY <3>1, <3>2
  <2>6. /\ loop'.at = at /\ loop'.batch_start = end + 1 /\ ~loop'.batch_had_error
        /\ request' = request /\ param_status'[n] = new /\ outcome' = outcome
        /\ request.sets = sets
    BY <1>1, <1>2 DEF sets, new
  <2> QED
    BY <2>3, <2>4, <2>5, <2>6 DEF Told
<1> QED
  BY <1>1, <1>2, <1>3, <1>5, <1>6, <1>7, <1>8 DEF Batching

\* What the application is told at the end of an array: of a batch that failed, and of
\* the whole.
LEMMA ArrayEndsTold ==
  ASSUME TypeOK, Batching, BatchFails \/ FinishSets
  PROVE  StatusesTellOutcome'
<1> DEFINE start == loop.batch_start
           sets == request.sets
           at == loop.at
           end == BatchEnd
           failed == loop.batch_had_error
           status == IF loop.batch_had_notice THEN "info" ELSE "success"
<1>1. /\ loop.call = "sets"
      /\ failed \/ at > end
      /\ failed \/ end = sets
      /\ params_processed' = loop.rows_processed /\ UNCHANGED <<request, outcome>>
      /\ failed => answer' = "error"
  BY DEF BatchFails, FinishSets, BatchOver
<1>2. /\ start \in Nat \ {0} /\ at \in Nat \ {0} /\ end \in Nat /\ start <= end
      /\ sets \in Nat /\ at <= end + 1 /\ start <= at /\ MaxSets \in Nat /\ sets <= MaxSets
      /\ end <= sets
  BY <1>1, BatchBounds
<1>3. /\ loop.rows_processed = Cardinality(Ran) /\ \A n \in Sets : Told(n)
      /\ failed => at <= end
  BY <1>1 DEF Batching
<1>4. ASSUME NEW n \in 1 .. sets
      PROVE  /\ param_status'[n] = "success" => outcome[n] = "succeeded"
             /\ param_status'[n] = "info" => outcome[n] \in {"succeeded", "noticed"}
             /\ param_status'[n] = "unused" => outcome[n] \in {"none", "unsent"}
             /\ outcome[n] = "failed" => param_status'[n] = "error"
             /\ answer' # "error" => (outcome[n] = "none") = (n \in request.ignored)
  <2>1. n \in Sets /\ n \in Nat
    BY <1>2 DEF Sets
  <2>2. Told(n)
    BY <2>1, <1>3
  <2> DEFINE new == param_status'[n]
  <2>3. new = IF n \notin start .. end THEN param_status[n]
              ELSE IF failed THEN "error"
              ELSE IF n \in request.ignored THEN param_status[n] ELSE status
    BY <2>1 DEF Marked, Batch, BatchFails, FinishSets
  <2> HIDE DEF start, sets, at, end, new, failed
  <2> SUFFICES /\ new = "success" => outcome[n] = "succeeded"
               /\ new = "info" => outcome[n] \in {"succeeded", "noticed"}
               /\ new = "unused" => outcome[n] \in {"none", "unsent"}
               /\ outcome[n] = "failed" => new = "error"
               /\ answer' # "error" => (outcome[n] = "none") = (n \in request.ignored)
    BY DEF new
  <2>4. /\ n < start =>
             IF n \in request.ignored THEN param_status[n] = "unused"
             ELSE /\ param_status[n] \in {"success", "info"}
                  /\ param_status[n] = "success" => outcome[n] = "succeeded"
        /\ n \in start .. sets => param_status[n] = "unused"
        /\ n < at =>
             outcome[n] \in IF n \in request.ignored THEN {"none"} ELSE {"succeeded", "noticed"}
        /\ n \in start .. at - 1 /\ outcome[n] = "noticed" => loop.batch_had_notice
        /\ n > at => outcome[n] = "none"
    BY <2>2 DEF Told, start, sets, at
  <2>5. CASE failed
    <3>1. /\ n < start \/ n \in start .. end \/ n > end
          /\ n < start => n < at /\ n \notin start .. end
          /\ n > end => n > at /\ n \in start .. sets /\ n \notin start .. end
      BY <2>1, <2>5, <1>2, <1>3
    <3>2. CASE n < start
      BY <3>1, <3>2, <2>3, <2>4, <2>5, <1>1
    <3>3. CASE n \in start .. end
      BY <3>3, <2>3, <2>5, <1>1
    <3>4. CASE n > end
      BY <3>1, <3>4, <2>3, <2>4, <2>5, <1>1
    <3> QED
      BY <3>1, <3>2, <3>3, <3>4 
  <2>6. CASE ~failed
    <3>1. /\ n < start \/ n \in start .. end
          /\ n < at
          /\ n \in start .. end => n \in start .. sets /\ n \in start .. at - 1
          /\ n < start => n \notin start .. end
      BY <2>1, <2>6, <1>1, <1>2
    <3>2. CASE n < start
      BY <3>1, <3>2, <2>3, <2>4
    <3>3. CASE n \in start .. end
      BY <3>1, <3>3, <2>3, <2>4, <2>6
    <3> QED
      BY <3>1, <3>2, <3>3
  <2> QED
    BY <2>5, <2>6
<1>5. Ran' = Ran /\ Tried' = Tried
  BY <1>1 DEF Ran, Tried
<1>6. params_processed' \in Cardinality(Ran)' .. Cardinality(Tried)'
  BY <1>1, <1>3, <1>5, Counting
<1> QED
  BY <1>1, <1>4, <1>6 DEF StatusesTellOutcome

\* An array that begins, in one call or in many.
LEMMA ExecuteTold ==
  ASSUME Sound, NEW direct \in BOOLEAN, NEW r \in Request, Execute(direct, r)
  PROVE  Batching' /\ Serving' /\ StatusesTellOutcome'
<1>1. /\ Idle /\ request' = r /\ answer' = "none" /\ outcome' = [n \in Sets |-> "none"]
      /\ \/ /\ loop' = [NoCall EXCEPT !.call = "fragments", !.at = 1]
            /\ data_at_exec' = NotAsking
         \/ /\ r.deferred[1] # {}
            /\ data_at_exec' = Asking(r) /\ UNCHANGED loop
            /\ param_status' = IF r.sets = 1 THEN Untouched
                     ELSE [n \in Sets |-> IF n <= r.sets THEN "unused" ELSE "untouched"]
            /\ params_processed' = IF r.sets = 1 THEN 0 ELSE 1
         \/ /\ loop' = [NoCall EXCEPT !.call = "sets", !.at = 1, !.batch_start = 1]
            /\ data_at_exec' = NotAsking
            /\ param_status' = [n \in Sets |-> IF n <= r.sets THEN "unused" ELSE "untouched"]
         \/ /\ loop' = [NoCall EXCEPT !.call = "single"]
            /\ data_at_exec' = NotAsking
  BY Zenon DEF Execute
<1>2. /\ r \in RequestType /\ r.sets \in Sets /\ r.ignored \subseteq 1 .. r.sets
      /\ r.batch \in 1 .. r.sets
      /\ r.deferred[1] # {} => r.ignored = {}
  BY Requests
<1>3. loop.call = "none"
  BY <1>1 DEF Idle
<1>4. StatusesTellOutcome' /\ request' = r
  BY <1>1 DEF StatusesTellOutcome
<1>5. r.sets \in Nat \ {0} /\ Sets \subseteq Nat \ {0}
  BY <1>2, ExecutionAssumption DEF Sets
<1>6. CASE loop' \in {[NoCall EXCEPT !.call = "fragments", !.at = 1],
                      [NoCall EXCEPT !.call = "single"]} /\ data_at_exec' = NotAsking
  BY <1>4, <1>6 DEF Batching, Serving, NoCall, NotAsking
<1>7. CASE /\ r.deferred[1] # {} /\ data_at_exec' = Asking(r) /\ UNCHANGED loop
           /\ param_status' = IF r.sets = 1 THEN Untouched
                     ELSE [n \in Sets |-> IF n <= r.sets THEN "unused" ELSE "untouched"]
           /\ params_processed' = IF r.sets = 1 THEN 0 ELSE 1
  <2>1. /\ data_at_exec'.row_count = r.sets /\ data_at_exec'.current_row = 1
        /\ loop'.call = "none"
    BY <1>3, <1>7 DEF Asking, NotAsking
  <2>2. Supplied' = 0
    BY <2>1 DEF Supplied
  <2>3. r.sets > 1 =>
          /\ params_processed' = 1
          /\ \A n \in Sets : /\ outcome'[n] = IF n <= 0 THEN "succeeded" ELSE "none"
                             /\ n <= r.sets =>
                                  param_status'[n] = IF n <= 0 THEN "success" ELSE "unused"
    <3> DEFINE k == r.sets
    <3> SUFFICES ASSUME k > 1
                 PROVE  /\ params_processed' = 1
                        /\ \A n \in Sets : outcome'[n] = "none"
                                           /\ (n <= k => param_status'[n] = "unused")
      BY <1>5
    <3>1. k # 1
      <4>1. k \in Nat
        BY <1>5
      <4> HIDE DEF k
      <4> QED
        BY <4>1
    <3> QED
      BY <3>1, <1>1, <1>7
  <2>4. 1 \in 1 .. r.sets
    BY <1>5
  <2>5. Serving'
    <3>1. r.ignored = {} /\ request' = r
      BY <1>2, <1>4, <1>7
    <3> QED
      BY <2>1, <2>2, <2>3, <2>4, <3>1, <1>2 DEF Serving
  <2>6. Batching'
    BY <2>1 DEF Batching
  <2> QED
    BY <2>5, <2>6, <1>4
<1>8. CASE /\ loop' = [NoCall EXCEPT !.call = "sets", !.at = 1, !.batch_start = 1]
           /\ data_at_exec' = NotAsking
           /\ param_status' = [n \in Sets |-> IF n <= r.sets THEN "unused" ELSE "untouched"]
  <2>1. /\ loop'.at = 1 /\ loop'.batch_start = 1 /\ loop'.rows_processed = 0
        /\ ~loop'.batch_had_error
    BY <1>8 DEF NoCall
  <2>2. Ran' = {}
    BY <1>1 DEF Ran
  <2>3. loop'.rows_processed = Cardinality(Ran)'
    BY <2>1, <2>2, FS_EmptySet
  <2>4. 1 \in 1 .. BatchEnd' + 1
    <3> DEFINE sets == r.sets
               batch == r.batch
    <3>1. BatchEnd' = IF 1 + batch - 1 > sets THEN sets ELSE 1 + batch - 1
      BY <1>4, <2>1 DEF BatchEnd
    <3>2. sets \in Nat \ {0} /\ batch \in 1 .. sets
      BY <1>2, <1>5
    <3> DEFINE end == IF 1 + batch - 1 > sets THEN sets ELSE 1 + batch - 1
    <3> HIDE DEF sets, batch
    <3>3. end \in Nat
      BY <3>2
    <3> HIDE DEF end
    <3>4. 1 \in 1 .. end + 1
      BY <3>3
    <3> QED
      BY <3>1, <3>4 DEF end
  <2>5. ASSUME NEW n \in Sets PROVE Told(n)'
    <3>1. n \in Nat \ {0} /\ outcome'[n] = "none" /\ ~(n < 1) /\ n \notin 1 .. 1 - 1
      BY <1>1, <1>5
    <3>2. n \in 1 .. r.sets => param_status'[n] = "unused"
      BY <1>5, <1>8
    <3> QED
      BY <1>1, <2>1, <3>1, <3>2 DEF Told
  <2>6. 1 \in 1 .. r.sets
    BY <1>5
  <2>7. Batching'
    BY <1>1, <1>2, <2>1, <2>3, <2>4, <2>5, <2>6 DEF Batching
  <2>8. Serving'
    BY <1>8 DEF Serving, NotAsking
  <2> QED
    BY <2>7, <2>8, <1>4
<1> QED
  BY <1>1, <1>6, <1>7, <1>8

\* An array supplied at execution goes on.
LEMMA DataTold ==
  ASSUME Sound, Serving, ParamData \/ HandOut \/ PutData \/ RunSuppliedSet \/ NextSet
  PROVE  Serving'
<1> DEFINE row == data_at_exec.current_row
           sets == request.sets
<1>1. data_at_exec.in_need_data
  BY DEF ParamData, HandOut, PutData, RunSuppliedSet, SetSupplied, NextSet, Sound, Control, Asks
<1>2. /\ data_at_exec \in DataType /\ loop \in LoopType /\ loop.call \in Asks \union {"none"}
  BY <1>1, HeldByData
<1>3. /\ sets \in Sets /\ request.ignored = {} /\ data_at_exec.row_count = sets
      /\ row \in 1 .. sets
      /\ sets > 1 =>
           /\ params_processed = row
           /\ \A n \in Sets :
                /\ outcome[n] = IF n <= Supplied THEN "succeeded" ELSE "none"
                /\ n <= sets => param_status[n] = IF n <= Supplied THEN "success" ELSE "unused"
  BY <1>1 DEF Serving
<1>4. sets \in Nat /\ row \in Nat \ {0} /\ Sets \subseteq Nat
  BY <1>3, ExecutionAssumption DEF Sets
<1>5. CASE ParamData \/ HandOut \/ PutData
  <2>1. /\ UNCHANGED <<request, params_processed, param_status, outcome>>
        /\ loop.call # "advance" /\ loop'.call # "advance"
    <3>1. NoCall.call = "none" /\ [NoCall EXCEPT !.call = "param_data"].call = "param_data"
      BY DEF NoCall
    <3>2. CASE ParamData
      BY <3>1, <3>2 DEF ParamData
    <3>3. CASE HandOut
      BY <3>1, <3>3 DEF HandOut
    <3>4. CASE PutData
      BY <3>4 DEF PutData
    <3> QED
      BY <3>2, <3>3, <3>4, <1>5
  <2>2. data_at_exec'.row_count = data_at_exec.row_count /\ data_at_exec'.current_row = row
    <3>1. CASE ParamData
      BY <3>1 DEF ParamData
    <3>2. CASE HandOut
      BY <3>2, <1>2 DEF HandOut, DataType
    <3>3. CASE PutData
      BY <3>3, <1>2 DEF PutData, DataType
    <3> QED
      BY <3>1, <3>2, <3>3, <1>5
  <2>3. Supplied' = Supplied
    BY <2>1, <2>2 DEF Supplied
  <2> QED
    BY <1>3, <2>1, <2>2, <2>3 DEF Serving
<1>6. CASE RunSuppliedSet
  <2>1. /\ UNCHANGED <<request, params_processed>> /\ loop.call = "param_data"
        /\ outcome' = [outcome EXCEPT ![row] = "succeeded"]
        /\ param_status' = [param_status EXCEPT ![row] = "success"]
        /\ loop'.call = "advance"
        /\ data_at_exec'.row_count = data_at_exec.row_count /\ data_at_exec'.current_row = row
    BY <1>2, <1>6 DEF RunSuppliedSet, SetSupplied, DataType, LoopType
  <2>2. Supplied = row - 1 /\ Supplied' = row
    BY <2>1 DEF Supplied
  <2>3. /\ outcome \in [Sets -> {"none", "succeeded", "noticed", "failed", "unsent"}]
        /\ param_status \in [Sets -> {"untouched", "unused", "success", "info", "error"}]
    BY DEF Sound, TypeOK
  <2>4. ASSUME sets > 1, NEW n \in Sets
        PROVE  /\ outcome'[n] = IF n <= row THEN "succeeded" ELSE "none"
               /\ n <= sets => param_status'[n] = IF n <= row THEN "success" ELSE "unused"
    <3>1. /\ outcome[n] = IF n <= row - 1 THEN "succeeded" ELSE "none"
          /\ n <= sets => param_status[n] = IF n <= row - 1 THEN "success" ELSE "unused"
      BY <1>3, <2>2, <2>4
    <3>2. /\ outcome'[n] = IF n = row THEN "succeeded" ELSE outcome[n]
          /\ param_status'[n] = IF n = row THEN "success" ELSE param_status[n]
      BY <2>1, <2>3
    <3> HIDE DEF row, sets
    <3>3. n <= row <=> n = row \/ n <= row - 1
      BY <1>4
    <3> QED
      BY <3>1, <3>2, <3>3
  <2> QED
    BY <1>3, <2>1, <2>2, <2>4 DEF Serving
<1>7. CASE NextSet
  <2>1. /\ UNCHANGED <<request, param_status, outcome>> /\ loop.call = "advance"
        /\ row < data_at_exec.row_count
        /\ params_processed' = row + 1 /\ loop'.call = "param_data"
        /\ data_at_exec'.row_count = data_at_exec.row_count
        /\ data_at_exec'.current_row = row + 1
    BY <1>2, <1>7 DEF NextSet, Rearmed, DataType, NoCall
  <2>2. Supplied = row
    BY <2>1 DEF Supplied
  <2>3. Supplied' = row
    <3>1. Supplied' = (row + 1) - 1
      BY <2>1 DEF Supplied
    <3> HIDE DEF row
    <3>2. (row + 1) - 1 = row
      BY <1>4
    <3> QED
      BY <3>1, <3>2
  <2>4. row + 1 \in 1 .. sets
    <3>1. row < sets
      BY <1>3, <2>1
    <3> HIDE DEF row, sets
    <3> QED
      BY <3>1, <1>4
  <2> QED
    BY <1>3, <2>1, <2>2, <2>3, <2>4 DEF Serving
<1> QED
  BY <1>5, <1>6, <1>7

\* What the application is told at the end of an array supplied at execution.
LEMMA DataEndsTold ==
  ASSUME Sound, Serving, FinishSupplied \/ SuppliedSetFails
  PROVE  StatusesTellOutcome'
<1> DEFINE row == data_at_exec.current_row
           sets == request.sets
           rows == data_at_exec.row_count
<1>1. data_at_exec.in_need_data /\ rows > 1
  BY DEF FinishSupplied, SuppliedSetFails, SetSupplied, Sound, Control, Asks
<1>2. /\ sets \in Sets /\ request.ignored = {} /\ rows = sets
      /\ row \in 1 .. sets /\ params_processed = row
      /\ \A n \in Sets :
           /\ outcome[n] = IF n <= Supplied THEN "succeeded" ELSE "none"
           /\ n <= sets => param_status[n] = IF n <= Supplied THEN "success" ELSE "unused"
  BY <1>1 DEF Serving
<1>3. /\ sets \in Nat /\ row \in Nat \ {0} /\ Sets \subseteq Nat \ {0} /\ row - 1 \in Nat
      /\ MaxSets \in Nat /\ sets <= MaxSets
      /\ 1 .. row \subseteq Sets /\ 1 .. row - 1 \subseteq Sets
      /\ \A n \in Sets : n <= row <=> n \in 1 .. row
      /\ \A n \in Sets : n <= row - 1 <=> n \in 1 .. row - 1
      /\ \A n \in 1 .. sets : n \in Sets /\ n <= sets
  <2>1. sets \in 1 .. MaxSets /\ row \in 1 .. sets /\ MaxSets \in Nat
    BY <1>2, ExecutionAssumption DEF Sets
  <2> HIDE DEF sets, row
  <2> QED
    BY <2>1 DEF Sets
<1>4. Cardinality(1 .. row) = row /\ Cardinality(1 .. row - 1) = row - 1
  <2> HIDE DEF row
  <2>1. /\ Cardinality(1 .. row) = IF 1 > row THEN 0 ELSE row - 1 + 1
        /\ Cardinality(1 .. row - 1) = IF 1 > row - 1 THEN 0 ELSE (row - 1) - 1 + 1
    BY <1>3, FS_Interval
  <2> QED
    BY <2>1, <1>3
<1>5. CASE FinishSupplied
  <2>1. /\ loop.call = "advance" /\ row = rows
        /\ UNCHANGED <<request, param_status, params_processed, outcome>>
    BY <1>5 DEF FinishSupplied
  <2>2. Supplied = row
    BY <2>1 DEF Supplied
  <2>3. ASSUME NEW n \in 1 .. sets
        PROVE  outcome[n] = "succeeded" /\ param_status[n] = "success"
    <3>1. n <= row
      BY <2>1, <1>2
    <3> QED
      BY <3>1, <2>2, <1>2, <1>3
  <2>4. Ran' = 1 .. row /\ Tried' = 1 .. row
    <3>1. \A n \in Sets : outcome'[n] = IF n \in 1 .. row THEN "succeeded" ELSE "none"
      BY <2>1, <2>2, <1>2, <1>3
    <3> QED
      BY <3>1, <1>3 DEF Ran, Tried
  <2>5. params_processed' \in Cardinality(Ran)' .. Cardinality(Tried)'
    BY <2>1, <2>4, <1>2, <1>3, <1>4
  <2> QED
    BY <2>1, <2>3, <2>5, <1>2 DEF StatusesTellOutcome
<1>6. CASE SuppliedSetFails
  <2>1. PICK was \in {"failed", "unsent"} :
          /\ outcome' = [outcome EXCEPT ![row] = was]
          /\ param_status' = IF was = "failed" THEN [param_status EXCEPT ![row] = "error"]
                             ELSE param_status
    BY <1>6 DEF SuppliedSetFails
  <2>2. /\ loop.call = "param_data" /\ answer' = "error"
        /\ UNCHANGED <<request, params_processed>>
    BY <1>6 DEF SuppliedSetFails, SetSupplied
  <2>3. Supplied = row - 1
    BY <2>2 DEF Supplied
  <2>4. /\ outcome \in [Sets -> {"none", "succeeded", "noticed", "failed", "unsent"}]
        /\ param_status \in [Sets -> {"untouched", "unused", "success", "info", "error"}]
    BY DEF Sound, TypeOK
  <2>5. row \in Sets
    BY <1>3
  <2>6. ASSUME NEW n \in Sets
        PROVE  /\ outcome'[n] = IF n = row THEN was
                                ELSE IF n \in 1 .. row - 1 THEN "succeeded" ELSE "none"
               /\ n <= sets =>
                    param_status'[n] = IF n = row THEN IF was = "failed" THEN "error"
                                                       ELSE param_status[n]
                                       ELSE IF n \in 1 .. row - 1 THEN "success" ELSE "unused"
    <3>1. /\ outcome[n] = IF n \in 1 .. row - 1 THEN "succeeded" ELSE "none"
          /\ n <= sets =>
               param_status[n] = IF n \in 1 .. row - 1 THEN "success" ELSE "unused"
      BY <2>3, <1>2, <1>3
    <3> QED
      BY <3>1, <2>1, <2>4, <2>5
  <2>7. row \notin 1 .. row - 1 /\ 1 .. row = (1 .. row - 1) \union {row}
    <3> HIDE DEF row
    <3> QED
      BY <1>3
  <2>8. param_status[row] = "unused"
    BY <2>3, <2>5, <2>7, <1>2, <1>3
  <2>9. ASSUME NEW n \in 1 .. sets
        PROVE  /\ param_status'[n] = "success" => outcome'[n] = "succeeded"
               /\ param_status'[n] = "info" => outcome'[n] \in {"succeeded", "noticed"}
               /\ param_status'[n] = "unused" => outcome'[n] \in {"none", "unsent"}
               /\ outcome'[n] = "failed" => param_status'[n] = "error"
    <3>1. n \in Sets /\ n <= sets
      BY <1>3
    <3> QED
      BY <3>1, <2>6, <2>8
  <2>10. Tried' = 1 .. row
    BY <2>6, <2>7, <1>3 DEF Tried
  <2>11. Ran' = IF was = "failed" THEN 1 .. row ELSE 1 .. row - 1
    BY <2>6, <2>7, <1>3 DEF Ran
  <2>12. params_processed' \in Cardinality(Ran)' .. Cardinality(Tried)'
    <3>1. /\ Cardinality(Tried)' = row
          /\ Cardinality(Ran)' = IF was = "failed" THEN row ELSE row - 1
      BY <2>10, <2>11, <1>4
    <3>2. params_processed' = row
      BY <2>2, <1>2
    <3> HIDE DEF row
    <3> QED
      BY <3>1, <3>2, <1>3
  <2> QED
    BY <2>2, <2>9, <2>12 DEF StatusesTellOutcome
<1> QED
  BY <1>5, <1>6

\* The statuses, and what they are made of.
Telling == Batching /\ Serving /\ StatusesTellOutcome

\* At first there is nothing to tell.
LEMMA TellingInitially ==
  ASSUME Init
  PROVE  Telling
<1>1. loop.call = "none" /\ ~data_at_exec.in_need_data /\ answer = "none"
  BY DEF Init, NoCall, NotAsking
<1> QED
  BY <1>1 DEF Telling, Batching, Serving, StatusesTellOutcome

\* Every step tells of what it did.
LEMMA TellingStep ==
  ASSUME Sound, Telling, [Next]_vars
  PROVE  Telling'
<1>0. TypeOK /\ Batching /\ Serving /\ StatusesTellOutcome
  BY DEF Sound, Telling
<1>1. NoCall.call = "none" /\ ~NotAsking.in_need_data
  BY DEF NoCall, NotAsking
<1>2. CASE UNCHANGED vars
  <2>1. Batching'
    BY <1>0, <1>2 DEF Batching, Told, BatchEnd, Ran, vars
  <2>2. Serving'
    BY <1>0, <1>2 DEF Serving, Supplied, vars
  <2>3. StatusesTellOutcome'
    BY <1>0, <1>2 DEF StatusesTellOutcome, Ran, Tried, vars
  <2> QED
    BY <2>1, <2>2, <2>3 DEF Telling
<1>3. CASE Prepare \/ ExecDirectRefused \/ CloseCursor \/ Free \/ Catalog
  <2>1. loop' = loop /\ loop.call = "none" /\ answer' = "none" /\ ~data_at_exec'.in_need_data
    BY <1>1, <1>3
       DEF Prepare, ExecDirectRefused, CloseCursor, Free, Catalog, Idle, Forget
  <2> QED
    BY <2>1 DEF Telling, Batching, Serving, StatusesTellOutcome
<1>4. CASE MoreResults
  <2>1. /\ loop' = loop /\ loop.call = "none" /\ ~data_at_exec'.in_need_data
        /\ UNCHANGED <<request, param_status, params_processed, outcome, answer>>
    BY <1>4 DEF MoreResults, Idle
  <2>2. StatusesTellOutcome'
    BY <1>0, <2>1 DEF StatusesTellOutcome, Ran, Tried
  <2> QED
    BY <2>1, <2>2 DEF Telling, Batching, Serving
<1>5. ASSUME NEW direct \in BOOLEAN, NEW r \in Request, Execute(direct, r) PROVE Telling'
  BY <1>5, ExecuteTold DEF Telling
<1>6. CASE ParamData \/ HandOut \/ PutData \/ RunSuppliedSet \/ NextSet
  <2>1. Serving'
    BY <1>0, <1>6, DataTold
  <2>2. loop'.call # "sets"
    <3>1. loop \in LoopType
      BY <1>0 DEF TypeOK
    <3> QED
      BY <1>1, <1>6, <3>1
         DEF ParamData, HandOut, PutData, RunSuppliedSet, NextSet, NoCall, LoopType
  <2>3. ~Idle
    BY <1>6 DEF ParamData, HandOut, PutData, RunSuppliedSet, SetSupplied, NextSet, Idle
  <2>4. answer' = "none"
    <3>1. answer = "none"
      BY <2>3, Underway
    <3> QED
      BY <1>6, <3>1 DEF ParamData, HandOut, PutData, RunSuppliedSet, NextSet
  <2> QED
    BY <2>1, <2>2, <2>4 DEF Telling, Batching, StatusesTellOutcome
<1>7. CASE SkipSet \/ RunSet \/ SetFails \/ NextBatch
  <2>1. Batching'
    BY <1>0, <1>7, SkipSetTold, RunSetTold, SetFailsTold, NextBatchTold
  <2>2. loop.call = "sets" /\ UNCHANGED <<data_at_exec, answer>>
    BY <1>7 DEF SkipSet, RunSet, SetFails, NextBatch, InBatch, BatchOver
  <2>3. ~data_at_exec.in_need_data /\ answer = "none"
    BY <2>2, HeldByChain, Underway DEF Chains
  <2> QED
    BY <2>1, <2>2, <2>3 DEF Telling, Serving, StatusesTellOutcome
<1>8. CASE BatchFails \/ FinishSets
  <2>1. StatusesTellOutcome'
    BY <1>0, <1>8, ArrayEndsTold
  <2>2. loop.call = "sets" /\ loop' = NoCall /\ UNCHANGED data_at_exec
    BY <1>8 DEF BatchFails, FinishSets, BatchOver
  <2>3. ~data_at_exec.in_need_data
    BY <2>2, HeldByChain DEF Chains
  <2> QED
    BY <2>1, <2>2, <2>3, <1>1 DEF Telling, Batching, Serving
<1>9. CASE FinishSupplied \/ SuppliedSetFails
  <2>1. StatusesTellOutcome'
    BY <1>0, <1>9, DataEndsTold
  <2>2. loop' = NoCall /\ data_at_exec' = NotAsking
    BY <1>9 DEF FinishSupplied, SuppliedSetFails, Finished
  <2> QED
    BY <2>1, <2>2, <1>1 DEF Telling, Batching, Serving
<1>10. CASE RunOnlySet
  <2>1. /\ loop.call = "param_data" /\ loop' = NoCall /\ data_at_exec' = NotAsking
        /\ UNCHANGED answer
    BY <1>10 DEF RunOnlySet, SetSupplied
  <2>2. answer = "none"
    BY <2>1, Underway DEF Idle
  <2> QED
    BY <2>1, <2>2, <1>1 DEF Telling, Batching, Serving, StatusesTellOutcome
<1>11. CASE RunSingle \/ RunCall \/ FetchCursor \/ FetchFails \/ FinishCall
            \/ RunFragment \/ FragmentFails \/ FinishFragments
  <2>1. /\ loop.call \in {"single", "cursors", "fragments"}
        /\ UNCHANGED <<data_at_exec, answer>>
    BY <1>11 DEF RunSingle, RunCall, FetchCursor, FetchFails, FinishCall, RunFragment,
                 FragmentFails, FinishFragments
  <2>2. ~data_at_exec.in_need_data /\ answer = "none"
    BY <2>1, HeldByChain, Underway DEF Chains
  <2>3. loop'.call # "sets"
    <3>1. loop \in LoopType
      BY <1>0 DEF TypeOK
    <3> QED
      BY <1>1, <1>11, <3>1
         DEF RunSingle, RunCall, FetchCursor, FetchFails, FinishCall, RunFragment,
             FragmentFails, FinishFragments, NoCall, LoopType
  <2> QED
    BY <2>1, <2>2, <2>3 DEF Telling, Batching, Serving, StatusesTellOutcome
<1> QED
  BY <1>2, <1>3, <1>4, <1>5, <1>6, <1>7, <1>8, <1>9, <1>10, <1>11 DEF Next, Proceed

\* The statuses and the count of an array tell what became of its sets, for arrays of any
\* size, in batches of any size (statement.c:1841-2090, 3770-3820).
THEOREM StatusesTrusted == Spec => []StatusesTellOutcome
<1>1. Init => Telling
  BY TellingInitially
<1>2. Sound /\ Telling /\ [Next]_vars => Telling'
  BY TellingStep
<1>3. Telling => StatusesTellOutcome
  BY DEF Telling
<1> QED
  BY <1>1, <1>2, <1>3, ExecutionSound, PTL DEF Spec

----------------------------------------------------------------------------
(* The values supplied at execution.                                       *)

\* What has been put grows by what is put.
LEMMA Collecting ==
  ASSUME NEW n \in Nat, NEW x
  PROVE  /\ [i \in 1 .. 0 |-> x] = <<>>
         /\ Append([i \in 1 .. n |-> x], x) = [i \in 1 .. n + 1 |-> x]
<1> DEFINE s == [i \in 1 .. n |-> x]
           t == [i \in 1 .. n + 1 |-> x]
<1>1. s \in Seq({x}) /\ Len(s) = n /\ t \in Seq({x}) /\ Len(t) = n + 1
  OBVIOUS
<1>2. /\ Append(s, x) \in Seq({x}) /\ Len(Append(s, x)) = n + 1
      /\ \A i \in 1 .. n : Append(s, x)[i] = s[i]
      /\ Append(s, x)[n + 1] = x
  BY <1>1, AppendProperties
<1>3. \A i \in 1 .. n + 1 : Append(s, x)[i] = t[i]
  <2> TAKE i \in 1 .. n + 1
  <2>1. i = n + 1 \/ i \in 1 .. n
    OBVIOUS
  <2> QED
    BY <2>1, <1>2
<1>4. Append(s, x) = t
  BY <1>1, <1>2, <1>3, SeqEqual
<1>5. [i \in 1 .. 0 |-> x] = <<>>
  OBVIOUS
<1> QED
  BY <1>4, <1>5

\* Nothing has been put for a parameter yet.
LEMMA NothingFilled ==
  ASSUME NEW p \in Param,
         data_at_exec'.value[p] = NoValue, given'[p] = 0
  PROVE  Filled(p)'
<1>1. [i \in 1 .. 0 |-> <<data_at_exec'.current_row, p>>] = <<>>
  BY Collecting
<1>2. ~NoValue.is_null /\ NoValue.pieces = <<>>
  BY DEF NoValue
<1> QED
  BY <1>1, <1>2 DEF Filled

\* The values that are sent are those put for the set.
LEMMA Sending ==
  ASSUME TypeOK, Filling, data_at_exec.in_need_data, loop.call = "param_data", SendValues
  PROVE  sent'.values = sent'.given /\ given' = NoPieces
<1> DEFINE needs == data_at_exec.needs_data
           row == data_at_exec.current_row
           put(p) == [i \in 1 .. given[p] |-> <<row, p>>]
           value(p) == IF data_at_exec.value[p].is_null THEN <<>>
                       ELSE data_at_exec.value[p].pieces
<1>1. needs = request.deferred[row] /\ \A p \in needs : Filled(p)
  BY DEF Filling
<1>2. /\ sent'.values = [p \in needs |-> value(p)]
      /\ sent'.given = [p \in request.deferred[row] |-> put(p)]
      /\ given' = NoPieces
  BY DEF SendValues, Values
<1>3. ASSUME NEW p \in needs PROVE value(p) = put(p)
  <2>1. Filled(p)
    BY <1>1
  <2>2. CASE data_at_exec.value[p].is_null
    <3>1. given[p] = 0
      BY <2>1, <2>2 DEF Filled
    <3>2. [i \in 1 .. 0 |-> <<row, p>>] = <<>>
      BY Collecting
    <3> QED
      BY <2>2, <3>1, <3>2
  <2>3. CASE ~data_at_exec.value[p].is_null
    BY <2>1, <2>3 DEF Filled
  <2> QED
    BY <2>2, <2>3
<1> QED
  BY <1>1, <1>2, <1>3

\* A piece, or the null that ends the value, belongs to the set the driver asks for.
LEMMA PutDataFills ==
  ASSUME Sound, Serving, Filling, PutData
  PROVE  Filling'
<1> DEFINE p == data_at_exec.current_parameter_index
           row == data_at_exec.current_row
           value == data_at_exec.value
<1>1. /\ loop.call = "none" /\ loop' = loop /\ data_at_exec.in_need_data
      /\ p # NoParameter /\ ~value[p].is_null /\ UNCHANGED <<request, sent>>
      /\ \/ /\ data_at_exec' = [data_at_exec EXCEPT !.value[p].pieces =
                                  Append(@, <<SetAskedFor, p>>)]
            /\ given' = [given EXCEPT ![p] = @ + 1]
         \/ /\ data_at_exec' = [data_at_exec EXCEPT !.value[p].is_null = TRUE]
            /\ given' = [given EXCEPT ![p] = 0]
  BY DEF PutData
<1>2. /\ data_at_exec \in DataType /\ given \in [Param -> Nat]
      /\ value \in [Param -> ValueType] /\ data_at_exec.needs_data \subseteq Param
  BY DEF Sound, TypeOK, DataType
<1>3. /\ sent.values = sent.given /\ data_at_exec.needs_data = request.deferred[row]
      /\ p \in data_at_exec.needs_data
      /\ \A q \in data_at_exec.needs_data : Filled(q)
  BY <1>1 DEF Filling
<1>4. p \in Param /\ value[p] \in ValueType /\ given[p] \in Nat
  BY <1>2, <1>3
<1>5. SetAskedFor = row
  <2>1. /\ request.sets \in Sets /\ row \in 1 .. request.sets
        /\ request.sets > 1 => params_processed = row
    BY <1>1 DEF Serving
  <2> DEFINE n == request.sets
  <2>2. n \in Nat \ {0} /\ row \in 1 .. n
    BY <2>1, ExecutionAssumption DEF Sets
  <2> HIDE DEF n, row
  <2>3. (n = 1 /\ row = 1) \/ (n > 1 /\ n # 1)
    BY <2>2
  <2> QED
    BY <2>1, <2>3 DEF SetAskedFor, n, row
<1> DEFINE piece == <<SetAskedFor, p>>
           longer == [value[p] EXCEPT !.pieces = Append(value[p].pieces, piece)]
           null == [value[p] EXCEPT !.is_null = TRUE]
<1>6. \/ /\ data_at_exec' = [data_at_exec EXCEPT !.value = [value EXCEPT ![p] = longer]]
         /\ given' = [given EXCEPT ![p] = given[p] + 1]
      \/ /\ data_at_exec' = [data_at_exec EXCEPT !.value = [value EXCEPT ![p] = null]]
         /\ given' = [given EXCEPT ![p] = 0]
  BY <1>1
<1>7. PICK v :
        /\ data_at_exec' = [data_at_exec EXCEPT !.value = v]
        /\ \/ v = [value EXCEPT ![p] = longer] /\ given' = [given EXCEPT ![p] = given[p] + 1]
           \/ v = [value EXCEPT ![p] = null] /\ given' = [given EXCEPT ![p] = 0]
  BY <1>6
<1>8. /\ data_at_exec'.value = v /\ data_at_exec'.current_row = row
      /\ data_at_exec'.needs_data = data_at_exec.needs_data
      /\ data_at_exec'.current_parameter_index = p /\ data_at_exec'.in_need_data
  BY <1>7, <1>1, <1>2 DEF DataType
<1> HIDE DEF longer, null
<1>9. /\ \A q \in Param : q # p => data_at_exec'.value[q] = value[q] /\ given'[q] = given[q]
      /\ \/ data_at_exec'.value[p] = longer /\ given'[p] = given[p] + 1
         \/ data_at_exec'.value[p] = null /\ given'[p] = 0
  <2> DEFINE k == given[p] + 1
  <2> HIDE DEF k, value, p
  <2> USE DEF p
  <2>1. \/ v = [value EXCEPT ![p] = longer] /\ given' = [given EXCEPT ![p] = k]
        \/ v = [value EXCEPT ![p] = null] /\ given' = [given EXCEPT ![p] = 0]
    BY <1>7 DEF k
  <2>2. /\ \A q \in Param : q # p => v[q] = value[q] /\ given'[q] = given[q]
        /\ \/ v[p] = longer /\ given'[p] = k
           \/ v[p] = null /\ given'[p] = 0
    BY <2>1, <1>2, <1>4
  <2> QED
    BY <2>2, <1>8 DEF k, value
<1>10. ASSUME NEW m \in Param, m = p PROVE Filled(m)'
  <2>1. CASE data_at_exec'.value[p] = longer /\ given'[p] = given[p] + 1
    <3> DEFINE k == given[p]
               x == <<row, p>>
               old == value[p].pieces
    <3>1. old = [i \in 1 .. k |-> x]
      BY <1>1, <1>3 DEF Filled
    <3>2. /\ ~data_at_exec'.value[p].is_null
          /\ data_at_exec'.value[p].pieces = Append(old, x)
          /\ given'[p] = k + 1
      BY <2>1, <1>1, <1>4, <1>5 DEF longer, ValueType
    <3>3. Append(old, x) = [i \in 1 .. k + 1 |-> x]
      <4> HIDE DEF x, k, old
      <4>1. k \in Nat
        BY <1>4 DEF k
      <4> QED
        BY <3>1, <4>1, Collecting
    <3> QED
      <4>1. /\ given'[m] = k + 1 /\ x = <<data_at_exec'.current_row, m>>
            /\ ~data_at_exec'.value[m].is_null
            /\ data_at_exec'.value[m].pieces = Append(old, x)
        BY <3>2, <1>8, <1>10
      <4>2. data_at_exec'.value[m].pieces =
              [i \in 1 .. given'[m] |-> <<data_at_exec'.current_row, m>>]
        <5> HIDE DEF x, k, old
        <5>1. data_at_exec'.value[m].pieces = [i \in 1 .. k + 1 |-> x]
          BY <3>3, <4>1
        <5>2. [i \in 1 .. k + 1 |-> x] =
                [i \in 1 .. given'[m] |-> <<data_at_exec'.current_row, m>>]
          BY <4>1
        <5> QED
          BY <5>1, <5>2
      <4> QED
        BY <4>1, <4>2 DEF Filled
  <2>2. CASE data_at_exec'.value[p] = null /\ given'[p] = 0
    <3>1. data_at_exec'.value[p].is_null
      BY <2>2, <1>4 DEF null, ValueType
    <3> QED
      BY <2>2, <3>1, <1>10 DEF Filled
  <2> QED
    BY <1>9, <2>1, <2>2
<1>11. ASSUME NEW q \in data_at_exec.needs_data, q # p PROVE Filled(q)'
  <2>1. Filled(q) /\ q \in Param
    BY <1>2, <1>3
  <2> QED
    BY <2>1, <1>8, <1>9, <1>11 DEF Filled
<1>12. \A q \in data_at_exec.needs_data : Filled(q)'
  BY <1>2, <1>10, <1>11
<1> QED
  BY <1>1, <1>3, <1>4, <1>8, <1>12 DEF Filling

\* The driver asks for a set: the first, or the next.
LEMMA AskingFills ==
  ASSUME NEW row \in Nat, data_at_exec'.current_row = row,
         data_at_exec'.needs_data = request'.deferred[row],
         request'.deferred[row] \subseteq Param,
         data_at_exec'.value = [p \in Param |-> NoValue],
         data_at_exec'.current_parameter_index = NoParameter,
         given' = NoPieces, loop'.call # "advance", sent'.values = sent'.given
  PROVE  Filling'
<1>1. ASSUME NEW p \in request'.deferred[row] PROVE Filled(p)'
  <2>1. p \in Param /\ data_at_exec'.value[p] = NoValue /\ given'[p] = 0
    BY DEF NoPieces
  <2> QED
    BY <2>1, NothingFilled
<1> QED
  BY <1>1 DEF Filling

\* An execution begins with no value supplied.
LEMMA ExecuteFills ==
  ASSUME Sound, NEW direct \in BOOLEAN, NEW r \in Request, Execute(direct, r)
  PROVE  Filling'
<1>1. /\ Idle /\ request' = r /\ given' = NoPieces /\ sent' = NothingSent
      /\ \/ data_at_exec' = NotAsking
         \/ data_at_exec' = Asking(r) /\ UNCHANGED loop
  BY Zenon DEF Execute
<1>2. sent'.values = sent'.given
  BY <1>1 DEF NothingSent
<1>3. CASE data_at_exec' = NotAsking
  BY <1>2, <1>3 DEF Filling, NotAsking
<1>4. CASE data_at_exec' = Asking(r) /\ UNCHANGED loop
  <2>1. /\ data_at_exec'.current_row = 1 /\ data_at_exec'.needs_data = r.deferred[1]
        /\ data_at_exec'.value = [p \in Param |-> NoValue]
        /\ data_at_exec'.current_parameter_index = NoParameter
    BY <1>4 DEF Asking, NotAsking
  <2>2. r.deferred[1] \subseteq Param
    BY Requests, ExecutionAssumption DEF RequestType, Sets
  <2>3. loop'.call # "advance"
    BY <1>1, <1>4 DEF Idle
  <2>4. request'.deferred[1] = r.deferred[1]
    BY <1>1
  <2> QED
    BY <1>1, <1>2, <2>1, <2>2, <2>3, <2>4, AskingFills
<1> QED
  BY <1>1, <1>3, <1>4

\* At first no value is supplied or sent.
LEMMA FillingInitially ==
  ASSUME Init
  PROVE  Filling
<1>1. ~data_at_exec.in_need_data /\ sent.values = sent.given
  BY DEF Init, NotAsking, NothingSent
<1> QED
  BY <1>1 DEF Filling

\* Every step keeps the values supplied with the parameters they are for.
LEMMA FillingStep ==
  ASSUME Sound, Serving, Filling, [Next]_vars
  PROVE  Filling'
<1>0. TypeOK /\ sent.values = sent.given
  BY DEF Sound, Filling
<1>1. ~NotAsking.in_need_data /\ NothingSent.values = NothingSent.given
  BY DEF NotAsking, NothingSent
<1>2. CASE UNCHANGED vars
  BY <1>2 DEF Filling, Filled, vars
<1>3. CASE Prepare \/ ExecDirectRefused \/ CloseCursor \/ Free \/ Catalog
  <2>1. sent' = NothingSent /\ ~data_at_exec'.in_need_data
    BY <1>1, <1>3
       DEF Prepare, ExecDirectRefused, CloseCursor, Free, Catalog, Idle, Forget
  <2> QED
    BY <2>1, <1>1 DEF Filling
<1>4. ASSUME NEW direct \in BOOLEAN, NEW r \in Request, Execute(direct, r) PROVE Filling'
  BY <1>4, ExecuteFills
<1>5. CASE MoreResults \/ RunSingle \/ RunCall \/ FetchCursor \/ FetchFails \/ FinishCall
           \/ RunFragment \/ FragmentFails \/ FinishFragments
           \/ SkipSet \/ RunSet \/ SetFails \/ NextBatch \/ BatchFails \/ FinishSets
  <2>1. /\ Idle \/ loop.call \in Chains \union {"single"}
        /\ UNCHANGED <<data_at_exec, sent>>
    BY <1>5 DEF MoreResults, RunSingle, RunCall, FetchCursor, FetchFails, FinishCall,
                RunFragment, FragmentFails, FinishFragments, SkipSet, RunSet, SetFails,
                NextBatch, BatchFails, FinishSets, InBatch, BatchOver, Chains
  <2>2. ~data_at_exec.in_need_data
    BY <2>1, HeldByChain DEF Idle
  <2> QED
    BY <1>0, <2>1, <2>2 DEF Filling
<1>6. CASE ParamData
  <2>1. /\ UNCHANGED <<data_at_exec, request, given, sent>>
        /\ loop.call # "advance" /\ loop'.call # "advance"
    BY <1>6 DEF ParamData, NoCall
  <2> QED
    BY <2>1 DEF Filling, Filled
<1>7. CASE HandOut
  <2> DEFINE first == CHOOSE p \in Awaited : \A q \in Awaited : p <= q
  <2>1. /\ data_at_exec' = [data_at_exec EXCEPT !.current_parameter_index = first]
        /\ UNCHANGED <<request, given, sent>> /\ Awaited # {}
        /\ loop.call = "param_data" /\ loop'.call # "advance"
    BY <1>7 DEF HandOut, NoCall
  <2>2. first \in data_at_exec.needs_data
    BY <1>0, <2>1, FirstAwaited
  <2> HIDE DEF first
  <2>3. data_at_exec \in DataType
    BY <1>0 DEF TypeOK
  <2>4. /\ data_at_exec'.needs_data = data_at_exec.needs_data
        /\ data_at_exec'.current_row = data_at_exec.current_row
        /\ data_at_exec'.value = data_at_exec.value
        /\ data_at_exec'.in_need_data = data_at_exec.in_need_data
        /\ data_at_exec'.current_parameter_index = first
    BY <2>1, <2>3 DEF DataType
  <2> QED
    BY <2>1, <2>2, <2>4 DEF Filling, Filled
<1>8. CASE PutData
  BY <1>8, PutDataFills
<1>9. CASE RunOnlySet \/ SuppliedSetFails \/ RunSuppliedSet
  <2>1. loop.call = "param_data" /\ SendValues
    BY <1>9 DEF RunOnlySet, SuppliedSetFails, RunSuppliedSet, SetSupplied
  <2>2. data_at_exec.in_need_data
    BY <2>1 DEF Sound, Control, Asks
  <2>3. sent'.values = sent'.given /\ given' = NoPieces
    BY <1>0, <2>1, <2>2, Sending
  <2>4. CASE RunOnlySet \/ SuppliedSetFails
    <3>1. data_at_exec' = NotAsking
      BY <2>4 DEF RunOnlySet, SuppliedSetFails
    <3> QED
      BY <2>3, <3>1, <1>1 DEF Filling
  <2>5. CASE RunSuppliedSet
    <3>1. data_at_exec \in DataType /\ loop \in LoopType
      BY <1>0 DEF TypeOK
    <3>2. PICK chain :
            /\ data_at_exec' = [data_at_exec EXCEPT !.chained_results = chain]
            /\ loop' = [loop EXCEPT !.call = "advance"] /\ request' = request
      BY <2>5 DEF RunSuppliedSet
    <3>3. /\ data_at_exec'.needs_data = data_at_exec.needs_data
          /\ data_at_exec'.current_row = data_at_exec.current_row
          /\ data_at_exec'.current_parameter_index = data_at_exec.current_parameter_index
          /\ loop'.call = "advance"
      BY <3>1, <3>2 DEF DataType, LoopType
    <3> QED
      BY <2>2, <2>3, <3>2, <3>3 DEF Filling
  <2> QED
    BY <1>9, <2>4, <2>5
<1>10. CASE NextSet
  <2> DEFINE row == data_at_exec.current_row + 1
  <2>1. /\ loop.call = "advance" /\ data_at_exec' = Rearmed(data_at_exec, row)
        /\ loop'.call # "advance" /\ UNCHANGED <<request, given, sent>>
        /\ data_at_exec.current_row < data_at_exec.row_count
    BY <1>10 DEF NextSet, NoCall
  <2>2. data_at_exec.in_need_data /\ data_at_exec \in DataType /\ request \in RequestType
    BY <2>1 DEF Sound, TypeOK, Control, Asks
  <2>3. given' = NoPieces
    BY <2>1, <2>2 DEF Filling
  <2>4. row \in Nat /\ row \in Sets
    <3> DEFINE k == data_at_exec.current_row
               n == data_at_exec.row_count
    <3>1. k \in Nat /\ n \in 0 .. MaxSets /\ k < n /\ MaxSets \in Nat
      BY <2>1, <2>2, ExecutionAssumption DEF DataType
    <3> HIDE DEF k, n
    <3>2. k + 1 \in Nat /\ k + 1 \in 1 .. MaxSets
      BY <3>1
    <3> QED
      BY <3>2 DEF k, Sets
  <2> HIDE DEF row
  <2>5. request.deferred[row] \subseteq Param
    BY <2>2, <2>4 DEF RequestType
  <2>6. /\ data_at_exec'.current_row = row
        /\ data_at_exec'.needs_data = request.deferred[row]
        /\ data_at_exec'.value = [p \in Param |-> NoValue]
        /\ data_at_exec'.current_parameter_index = NoParameter
    BY <2>1, <2>2 DEF Rearmed, DataType
  <2>7. request'.deferred[row] = request.deferred[row]
    BY <2>1
  <2> QED
    BY <1>0, <2>1, <2>3, <2>4, <2>5, <2>6, <2>7, AskingFills
<1>11. CASE FinishSupplied
  <2>1. data_at_exec' = NotAsking /\ UNCHANGED sent
    BY <1>11 DEF FinishSupplied, Finished
  <2> QED
    BY <1>0, <1>1, <2>1 DEF Filling
<1> QED
  BY <1>2, <1>3, <1>4, <1>5, <1>6, <1>7, <1>8, <1>9, <1>10, <1>11 DEF Next, Proceed

\* The values an execution sends are those put for its set, whatever the sizes of the
\* array and of the values (statement.c:3535-3555, 3862-3900).
THEOREM ValuesBelong == Spec => []ValuesAreOfTheSet
<1>1. Init => Telling /\ Filling
  BY TellingInitially, FillingInitially
<1>2. Sound /\ Telling /\ Filling /\ [Next]_vars => Telling' /\ Filling'
  BY TellingStep, FillingStep DEF Telling
<1>3. Filling => ValuesAreOfTheSet
  BY DEF Filling, ValuesAreOfTheSet
<1> QED
  BY <1>1, <1>2, <1>3, ExecutionSound, PTL DEF Spec
=============================================================================
