----------------------------- MODULE Descriptors -----------------------------
(***************************************************************************)
(* What the descriptors of a statement describe: the column bindings of    *)
(* SQLBindCol (column_binding.c), and the calls that read and write them   *)
(* through a descriptor (descriptor.c).  The bindings are the statement's; *)
(* a descriptor leads to those of its owning_statement, and an explicit    *)
(* one that was never attached keeps records of its own.                   *)
(***************************************************************************)
EXTENDS Handles, Integers

CONSTANT MAX_BOUND_COLUMNS  \* the limit of columns, and of parameters

ASSUME ColumnsAssumption == MAX_BOUND_COLUMNS \in Nat \ {0}

Columns == 1 .. MAX_BOUND_COLUMNS
Counts  == 0 .. MAX_BOUND_COLUMNS

VARIABLES binding,       \* per statement: its bindings
          record_count,  \* per explicit descriptor: its highest record of its own
          stale_access   \* a call has followed a pointer to a freed statement

vars == <<handles, binding, record_count, stale_access>>

\* The columns with a buffer, those of them with a place for the length or NULL
\* (indicator_or_length), the number the statement keeps of bound columns, and the
\* columns whose interval precision was set through a descriptor.
Bindings == [bound: SUBSET Columns, indicated: SUBSET Columns,
             bound_column_count: Counts, overridden: SUBSET Columns]
NoBindings == [bound |-> {}, indicated |-> {}, bound_column_count |-> 0, overridden |-> {}]

\* The handles that can be given to a descriptor call: an explicit descriptor, or
\* one of the four of a statement.
Implicit == [owner: Stmt, role: {"ard", "apd", "ird", "ipd"}]
Explicit == [explicit: Desc]
Handle == {h \in Implicit : statement[h.owner].live}
          \union {h \in Explicit : descriptor[h.explicit].live}

IsExplicit(h) == "explicit" \in DOMAIN h
Owner(h) == IF IsExplicit(h) THEN descriptor[h.explicit].owning_statement ELSE h.owner
Role(h)  == IF IsExplicit(h) THEN descriptor[h.explicit].role ELSE h.role

Detached(h) == Owner(h) = NULL
Dangling(h) == Owner(h) # NULL /\ ~statement[Owner(h)].live
Serves(h, role) == ~Detached(h) /\ ~Dangling(h) /\ Role(h) = role

Init ==
  \E e \in Env, c \in Conn :
    /\ environment = [x \in Env |-> IF x # e THEN FreedEnvironment
         ELSE [NewEnvironment EXCEPT !.connections[1] = c, !.connection_count = 1]]
    /\ connection = [x \in Conn |-> IF x # c THEN FreedConnection
         ELSE [NewConnection(e) EXCEPT !.state = "connected"]]
    /\ statement = [s \in Stmt |-> FreedStatement]
    /\ descriptor = [d \in Desc |-> FreedDescriptor]
    /\ closing = FALSE
    /\ binding = [s \in Stmt |-> NoBindings]
    /\ record_count = [d \in Desc |-> 0]
    /\ stale_access = FALSE

----------------------------------------------------------------------------
\* Binding a column.

\* Mutant: every bind counts, also that of a column that was bound.
BindCountingAll(b, i, indicator) ==
  [b EXCEPT !.bound = @ \union {i},
            !.indicated = IF indicator THEN @ \union {i} ELSE @ \ {i},
            !.bound_column_count = @ + 1]

\* A binding takes the place of the column's last one, its indicator too: it is
\* one of the arguments, and may be NULL.
Bind(b, i, indicator) ==
  [b EXCEPT !.bound = @ \union {i},
            !.indicated = IF indicator THEN @ \union {i} ELSE @ \ {i},
            !.bound_column_count = IF i \in b.bound THEN @ ELSE @ + 1]

\* A NULL target unbinds.
Unbind(b, i) ==
  [b EXCEPT !.bound = @ \ {i}, !.indicated = @ \ {i},
            !.bound_column_count = IF i \in b.bound THEN @ - 1 ELSE @]

\* The overrides of precision stay.
UnbindAll(b) == [b EXCEPT !.bound = {}, !.indicated = {}, !.bound_column_count = 0]

----------------------------------------------------------------------------
\* Records of descriptors.  What else a statement has is an input: columns, those
\* of its open result, none without one, and params, its bound parameters.

\* The records SQLGetDescRec can read: all but those an IRD does not have.
Readable(h, columns) == IF Serves(h, "ird") THEN columns ELSE Columns

\* SQL_DESC_DATA_PTR: the records of a detached descriptor, and those of
\* implementation descriptors, give none.
HasDataPtr(h, i, params) ==
  CASE Serves(h, "ard") -> i \in binding[Owner(h)].bound
    [] Serves(h, "apd") -> i \in params
    [] OTHER            -> FALSE

\* SQL_DESC_PRECISION: only an ARD can answer that there is no override.
ReadOverride(h, i) == Serves(h, "ard") => i \in binding[Owner(h)].overridden

Override(b, i, on) ==
  [b EXCEPT !.overridden = IF on THEN @ \union {i} ELSE @ \ {i}]

----------------------------------------------------------------------------
\* Calls on a statement.

Rebind(s, b) ==
  /\ statement[s].live
  /\ binding' = [binding EXCEPT ![s] = b]
  /\ UNCHANGED record_count

BindCol(s, i) ==
  \/ \E indicator \in BOOLEAN : Rebind(s, Bind(binding[s], i, indicator))
  \/ Rebind(s, Unbind(binding[s], i))

FreeStmtUnbind(s) == Rebind(s, UnbindAll(binding[s]))

----------------------------------------------------------------------------
\* Calls on a descriptor.

\* A detached descriptor counts the record; the rest of it nobody reads back.
CountRecord(h, i) ==
  /\ Detached(h)
  /\ record_count' = [record_count EXCEPT ![h.explicit] = IF i > @ THEN i ELSE @]
  /\ UNCHANGED binding

\* An ARD binds and overrides; the others ignore what they are told, and an IRD
\* refuses it.  A buffer set alone keeps the indicator the column had.
SetDescField(h, i) ==
  \/ CountRecord(h, i)
  \/ /\ Serves(h, "ard")
     /\ LET b == binding[Owner(h)]
        IN  \/ Rebind(Owner(h), Bind(b, i, i \in b.indicated))
            \/ Rebind(Owner(h), Unbind(b, i))
            \/ Rebind(Owner(h), Override(b, i, TRUE))

SetDescRec(h, i) ==
  \/ CountRecord(h, i)
  \/ /\ Serves(h, "ard")
     /\ LET b == Override(binding[Owner(h)], i, TRUE)
        IN  \/ \E indicator \in BOOLEAN : Rebind(Owner(h), Bind(b, i, indicator))
            \/ Rebind(Owner(h), Unbind(b, i))

\* What a source may find behind its statement, as far as it looks.
Inputs(h) ==
  {[columns |-> 1 .. n, params |-> p] :
     n \in IF Serves(h, "ird") THEN Counts ELSE {0},
     p \in IF Serves(h, "apd") THEN {{}, Columns} ELSE {{}}}

\* Mutant: as many records as there are bound columns are copied.
CopyLimitByCount(h) ==
  IF IsExplicit(h) /\ record_count[h.explicit] > 0 THEN record_count[h.explicit]
  ELSE IF Serves(h, "ard") THEN binding[Owner(h)].bound_column_count
  ELSE MAX_BOUND_COLUMNS

\* SQLCopyDesc goes by the count of records an explicit descriptor has of its own,
\* attached or not, and otherwise by the limit.
CopyLimit(h) ==
  IF IsExplicit(h) /\ record_count[h.explicit] > 0
  THEN record_count[h.explicit] ELSE MAX_BOUND_COLUMNS

\* The records that SQLCopyDesc carries over, each with SQLSetDescRec.
Copied(h, columns) == (1 .. CopyLimit(h)) \intersect Readable(h, columns)

\* Each record is carried over with its buffer and precision, and with NULL for
\* its indicator and its length, whatever the source has there.
BindingsAfterCopy(b, source, columns, params) ==
  LET todo     == Copied(source, columns)
      was      == b.bound \intersect todo
      is       == {i \in todo : HasDataPtr(source, i, params)}
      override == {i \in todo : ReadOverride(source, i)}
  IN  [bound |-> (b.bound \ todo) \union is,
       indicated |-> b.indicated \ todo,
       bound_column_count |->
         b.bound_column_count + Cardinality(is \ was) - Cardinality(was \ is),
       overridden |-> (b.overridden \ todo) \union override]

\* The descriptors a copy changes: an IRD refuses it, the others ignore it.
CopyTargets == {h \in Handle : Detached(h) \/ Serves(h, "ard")}

CopyDesc(source, target, columns, params) ==
  /\ ~Dangling(source)
  /\ \/ /\ Detached(target) /\ Copied(source, columns) # {}
        /\ \E n \in Copied(source, columns) \union {record_count[target.explicit]} :
             /\ \A i \in Copied(source, columns) \union {record_count[target.explicit]} : i <= n
             /\ record_count' = [record_count EXCEPT ![target.explicit] = n]
        /\ UNCHANGED binding
     \/ /\ Serves(target, "ard")
        /\ Rebind(Owner(target),
                   BindingsAfterCopy(binding[Owner(target)], source, columns, params))

\* A call through a descriptor whose statement has been freed.
UseDangling(h) ==
  /\ Dangling(h)
  /\ stale_access' = TRUE
  /\ UNCHANGED <<handles, binding, record_count>>

----------------------------------------------------------------------------

\* A call that allocates or frees a handle, or attaches or detaches a descriptor.
HandleCall ==
  /\ \/ \E c \in Conn, s \in Stmt : AllocStatement(c, s)
     \/ \E c \in Conn, d \in Desc : AllocDescriptor(c, d)
     \/ \E s \in Stmt : FreeStatement(s)
     \/ \E d \in Desc : FreeDescriptor(d)
     \/ \E s \in Stmt, r \in Roles : Detach(s, r)
     \/ \E s \in Stmt, r \in Roles, d \in Desc : Attach(s, r, d)
  /\ binding' = [s \in Stmt |-> IF statement'[s].live /\ statement[s].live
                                THEN binding[s] ELSE NoBindings]
  /\ record_count' = [d \in Desc |-> IF descriptor'[d].live /\ descriptor[d].live
                                     THEN record_count[d] ELSE 0]
  /\ UNCHANGED stale_access

BindingCall ==
  /\ \/ \E s \in Stmt, i \in Columns : BindCol(s, i)
     \/ \E s \in Stmt : FreeStmtUnbind(s)
  /\ UNCHANGED <<handles, stale_access>>

DescriptorCall ==
  /\ \/ \E h \in Handle, i \in Columns : SetDescField(h, i) \/ SetDescRec(h, i)
     \/ \E source \in Handle, target \in CopyTargets : \E from \in Inputs(source) :
          CopyDesc(source, target, from.columns, from.params)
  /\ UNCHANGED <<handles, stale_access>>

\* After an access to freed memory nothing can be said.
Next == /\ ~stale_access
        /\ HandleCall \/ BindingCall \/ DescriptorCall \/ \E h \in Handle : UseDangling(h)

Spec == Init /\ [][Next]_vars

----------------------------------------------------------------------------
\* Properties.

\* Bindings and records keep to the values the structures can hold.
TypeOK ==
  /\ HandlesTypeOK
  /\ binding \in [Stmt -> Bindings]
  /\ record_count \in [Desc -> Counts]
  /\ stale_access \in BOOLEAN

\* bound_column_count is the number of bound columns, whichever of SQLBindCol,
\* SQLFreeStmt, SQLSetDescField, SQLSetDescRec and SQLCopyDesc bound or unbound
\* them: a fetch that finds it 0 fills no buffer, bound or not (results.c:1590).
BoundCountsAgree ==
  \A s \in Stmt :
    binding[s].bound_column_count = Cardinality(binding[s].bound)

\* SQLCopyDesc from one row descriptor to another would leave the target with the
\* columns and the overrides of the source, and no other, and none of them with an
\* indicator (descriptor.c:820-868).  This is about sources without records of
\* their own: those they once counted cut the copy short.
CopyReproducesBindings ==
  \A source, target \in {h \in Handle : Serves(h, "ard")} :
    (IsExplicit(source) => record_count[source.explicit] = 0) =>
      LET from  == binding[Owner(source)]
          after == BindingsAfterCopy(binding[Owner(target)], source, {}, {})
      IN  after = [from EXCEPT !.indicated = {}]
=============================================================================
