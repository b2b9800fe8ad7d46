------------------------------- MODULE Handles -------------------------------
(***************************************************************************)
(* The handles of the driver: environments, connections, statements and    *)
(* explicitly allocated descriptors, the tables in which a parent keeps    *)
(* its children (environment.c, connection.c, statement.c, descriptor.c),  *)
(* and the descriptors a statement uses.                                   *)
(*                                                                         *)
(* A handle is an address.  malloc hands out any address that is not in    *)
(* use, so the address of a freed handle may come back as another one.     *)
(***************************************************************************)
EXTENDS Naturals, FiniteSets

CONSTANTS Env, Conn, Stmt, Desc,            \* the addresses of each kind
          MAX_CONNECTIONS_PER_ENVIRONMENT,
          MAX_STATEMENTS_PER_CONNECTION,
          AttachAcross,  \* whether the application attaches a descriptor of one
                         \* connection to a statement of another
          NULL

ASSUME CapsAssumption ==
  /\ MAX_CONNECTIONS_PER_ENVIRONMENT \in Nat \ {0}
  /\ MAX_STATEMENTS_PER_CONNECTION \in Nat \ {0}

ASSUME HandlesAssumption ==
  /\ IsFiniteSet(Env) /\ IsFiniteSet(Conn) /\ IsFiniteSet(Stmt) /\ IsFiniteSet(Desc)
  /\ AttachAcross \in BOOLEAN
  /\ NULL \notin Env \union Conn \union Stmt \union Desc

VARIABLES environment, connection, statement, descriptor,
          closing  \* the application has stopped allocating and frees what it has

handles == <<environment, connection, statement, descriptor, closing>>

ConnectionSlots == 1 .. MAX_CONNECTIONS_PER_ENVIRONMENT
StatementSlots  == 1 .. MAX_STATEMENTS_PER_CONNECTION

\* A statement's own descriptor, as against an explicitly allocated one.
implicit == "implicit"
Roles == {"ard", "apd"}

Environment == [live: BOOLEAN, connections: [ConnectionSlots -> Conn \union {NULL}],
                connection_count: 0 .. MAX_CONNECTIONS_PER_ENVIRONMENT]
Connection == [live: BOOLEAN, parent: Env \union {NULL},
               state: {"not_connected", "connected"},
               statements: [StatementSlots -> Stmt \union {NULL}],
               statement_count: 0 .. MAX_STATEMENTS_PER_CONNECTION]
Statement == [live: BOOLEAN, parent: Conn \union {NULL},
              active: [Roles -> Desc \union {implicit}]]
Descriptor == [live: BOOLEAN, connection: Conn \union {NULL},
               owning_statement: Stmt \union {NULL}, role: Roles]

NewEnvironment ==
  [live |-> TRUE, connections |-> [i \in ConnectionSlots |-> NULL],
   connection_count |-> 0]
NewConnection(e) ==
  [live |-> TRUE, parent |-> e, state |-> "not_connected",
   statements |-> [i \in StatementSlots |-> NULL], statement_count |-> 0]
NewStatement(c) ==
  [live |-> TRUE, parent |-> c, active |-> [r \in Roles |-> implicit]]
NewDescriptor(c) ==
  [live |-> TRUE, connection |-> c, owning_statement |-> NULL, role |-> "ard"]

\* Memory given back: the magic number is 0 and nothing else can be relied on.
FreedEnvironment == [NewEnvironment EXCEPT !.live = FALSE]
FreedConnection  == [NewConnection(NULL) EXCEPT !.live = FALSE]
FreedStatement   == [NewStatement(NULL) EXCEPT !.live = FALSE]
FreedDescriptor  == [NewDescriptor(NULL) EXCEPT !.live = FALSE]

HandlesInit ==
  /\ environment = [e \in Env |-> FreedEnvironment]
  /\ connection = [c \in Conn |-> FreedConnection]
  /\ statement = [s \in Stmt |-> FreedStatement]
  /\ descriptor = [d \in Desc |-> FreedDescriptor]
  /\ closing = FALSE

----------------------------------------------------------------------------
\* The tables.

AddConnection(e, c) ==
  [environment EXCEPT ![e].connections[environment[e].connection_count + 1] = c,
                      ![e].connection_count = @ + 1]

\* Mutant: the last connection is dropped and not moved into the gap.
RemoveConnectionLeavingGap(e, c) ==
  LET env == environment[e]
  IN  [environment EXCEPT
         ![e].connections = [i \in ConnectionSlots |->
            IF i = env.connection_count THEN NULL ELSE env.connections[i]],
         ![e].connection_count = @ - 1]

\* The last connection takes the place of the one removed.
RemoveConnection(e, c) ==
  LET env  == environment[e]
      slot == CHOOSE i \in 1 .. env.connection_count : env.connections[i] = c
      last == env.connections[env.connection_count]
  IN  [environment EXCEPT
         ![e].connections = [i \in ConnectionSlots |->
            CASE i = env.connection_count -> NULL
              [] i = slot /\ i # env.connection_count -> last
              [] OTHER -> env.connections[i]],
         ![e].connection_count = @ - 1]

\* The first empty slot is taken, so the table has gaps and no order.
AddStatement(c, s) ==
  LET free == {i \in StatementSlots : connection[c].statements[i] = NULL}
      slot == CHOOSE i \in free : \A j \in free : i <= j
  IN  [connection EXCEPT ![c].statements[slot] = s, ![c].statement_count = @ + 1]

\* Mutant: the slot is emptied and the count is not lowered.
RemoveStatementKeepingCount(c, s) ==
  [connection EXCEPT ![c].statements =
     [i \in StatementSlots |-> IF @[i] = s THEN NULL ELSE @[i]]]

RemoveStatement(c, s) ==
  [connection EXCEPT
     ![c].statements = [i \in StatementSlots |-> IF @[i] = s THEN NULL ELSE @[i]],
     ![c].statement_count = @ - 1]

----------------------------------------------------------------------------
\* SQLAllocHandle.

AllocEnvironment(e) ==
  /\ ~closing /\ ~environment[e].live
  /\ environment' = [environment EXCEPT ![e] = NewEnvironment]
  /\ UNCHANGED <<connection, statement, descriptor, closing>>

\* A full table of the environment refuses the connection; so do its callers.
AllocConnection(e, c) ==
  /\ ~closing /\ environment[e].live /\ ~connection[c].live
  /\ environment[e].connection_count < MAX_CONNECTIONS_PER_ENVIRONMENT
  /\ environment' = AddConnection(e, c)
  /\ connection' = [connection EXCEPT ![c] = NewConnection(e)]
  /\ UNCHANGED <<statement, descriptor, closing>>

AllocStatement(c, s) ==
  /\ ~closing /\ connection[c].live /\ ~statement[s].live
  /\ connection[c].statement_count < MAX_STATEMENTS_PER_CONNECTION
  /\ connection' = AddStatement(c, s)
  /\ statement' = [statement EXCEPT ![s] = NewStatement(c)]
  /\ UNCHANGED <<environment, descriptor, closing>>

AllocDescriptor(c, d) ==
  /\ ~closing /\ connection[c].live /\ ~descriptor[d].live
  /\ descriptor' = [descriptor EXCEPT ![d] = NewDescriptor(c)]
  /\ UNCHANGED <<environment, connection, statement, closing>>

----------------------------------------------------------------------------
\* Connections open and close.

Connect(c) ==
  /\ ~closing /\ connection[c].live /\ connection[c].state # "connected"
  /\ connection' = [connection EXCEPT ![c].state = "connected"]
  /\ UNCHANGED <<environment, statement, descriptor, closing>>

\* The statements of the connection stay allocated.
Disconnect(c) ==
  /\ connection[c].live /\ connection[c].state = "connected"
  /\ connection' = [connection EXCEPT ![c].state = "not_connected"]
  /\ UNCHANGED <<environment, statement, descriptor, closing>>

----------------------------------------------------------------------------
\* SQLFreeHandle.

FreeEnvironment(e) ==
  /\ environment[e].live /\ environment[e].connection_count = 0
  /\ environment' = [environment EXCEPT ![e] = FreedEnvironment]
  /\ UNCHANGED <<connection, statement, descriptor, closing>>

\* Mutant: the count of statements is not looked at.
MayFreeConnectionUnlessConnected(c) == connection[c].state # "connected"

MayFreeConnection(c) ==
  /\ connection[c].state # "connected"
  /\ connection[c].statement_count = 0

\* Descriptors of the connection that were not freed are leaked.
FreeConnection(c) ==
  /\ connection[c].live /\ MayFreeConnection(c)
  /\ environment' = RemoveConnection(connection[c].parent, c)
  /\ connection' = [connection EXCEPT ![c] = FreedConnection]
  /\ UNCHANGED <<statement, descriptor, closing>>

FreeStatement(s) ==
  /\ statement[s].live
  /\ connection' = RemoveStatement(statement[s].parent, s)
  /\ statement' = [statement EXCEPT ![s] = FreedStatement]
  /\ UNCHANGED <<environment, descriptor, closing>>

\* Mutant: as many slots are searched as there are statements.
UsersOfByCount(d) ==
  LET conn == connection[descriptor[d].connection]
  IN  {conn.statements[i] : i \in 1 .. conn.statement_count} \ {NULL}

\* The whole table of the connection is searched for statements to revert.
UsersOf(d) ==
  LET conn == connection[descriptor[d].connection]
  IN  {conn.statements[i] : i \in StatementSlots} \ {NULL}

FreeDescriptor(d) ==
  /\ descriptor[d].live
  /\ connection[descriptor[d].connection].live  \* the driver manager sees to that
  /\ statement' = [s \in Stmt |->
       IF s \notin UsersOf(d) THEN statement[s]
       ELSE [statement[s] EXCEPT !.active =
               [r \in Roles |-> IF @[r] = d THEN implicit ELSE @[r]]]]
  /\ descriptor' = [descriptor EXCEPT ![d] = FreedDescriptor]
  /\ UNCHANGED <<environment, connection, closing>>

----------------------------------------------------------------------------
\* SQLSetStmtAttr with SQL_ATTR_APP_ROW_DESC or SQL_ATTR_APP_PARAM_DESC.

\* A descriptor of any connection is accepted, and one in use elsewhere too.
Attach(s, r, d) ==
  /\ ~closing /\ statement[s].live /\ descriptor[d].live
  /\ AttachAcross \/ descriptor[d].connection = statement[s].parent
  /\ descriptor' = [descriptor EXCEPT ![d].role = r, ![d].owning_statement = s]
  /\ statement' = [statement EXCEPT ![s].active[r] = d]
  /\ UNCHANGED <<environment, connection, closing>>

\* SQL_NULL_HDESC: the descriptor given up is not told.
Detach(s, r) ==
  /\ ~closing /\ statement[s].live
  /\ statement' = [statement EXCEPT ![s].active[r] = implicit]
  /\ UNCHANGED <<environment, connection, descriptor, closing>>

StartClosing ==
  /\ ~closing
  /\ closing' = TRUE
  /\ UNCHANGED <<environment, connection, statement, descriptor>>

HandlesNext ==
  \/ \E e \in Env : AllocEnvironment(e) \/ FreeEnvironment(e)
  \/ \E e \in Env, c \in Conn : AllocConnection(e, c)
  \/ \E c \in Conn : Connect(c) \/ Disconnect(c) \/ FreeConnection(c)
  \/ \E c \in Conn, s \in Stmt : AllocStatement(c, s)
  \/ \E c \in Conn, d \in Desc : AllocDescriptor(c, d)
  \/ \E s \in Stmt : FreeStatement(s)
  \/ \E d \in Desc : FreeDescriptor(d)
  \/ \E s \in Stmt, r \in Roles : Detach(s, r)
  \/ \E s \in Stmt, r \in Roles, d \in Desc : Attach(s, r, d)
  \/ StartClosing

HandlesSpec == HandlesInit /\ [][HandlesNext]_handles

\* An application that shuts down frees every handle it can, in whatever order.
Shutdown ==
  /\ \A e \in Env  : WF_handles(closing /\ FreeEnvironment(e))
  /\ \A c \in Conn : WF_handles(closing /\ Disconnect(c))
  /\ \A c \in Conn : WF_handles(closing /\ FreeConnection(c))
  /\ \A s \in Stmt : WF_handles(closing /\ FreeStatement(s))

HandlesFairSpec == HandlesSpec /\ Shutdown

----------------------------------------------------------------------------
\* Properties.

\* Every variable keeps to the values the structures can hold.
HandlesTypeOK ==
  /\ environment \in [Env -> Environment]
  /\ connection \in [Conn -> Connection]
  /\ statement \in [Stmt -> Statement]
  /\ descriptor \in [Desc -> Descriptor]
  /\ closing \in BOOLEAN

\* An environment's table holds exactly its live connections, packed, and a
\* connection's exactly its live statements, with gaps; each count is the number
\* of entries.  The four counts and two arrays are changed in five functions of
\* two files (environment.c:77-113, connection.c:450-489).
TablesHoldTheLive ==
  /\ \A e \in Env :
       LET env == environment[e]
           held == {i \in ConnectionSlots : env.connections[i] # NULL}
       IN  /\ held = 1 .. env.connection_count
           /\ \A i, j \in held : env.connections[i] = env.connections[j] => i = j
           /\ {env.connections[i] : i \in held} =
                {c \in Conn : connection[c].live /\ connection[c].parent = e}
  /\ \A c \in Conn :
       LET conn == connection[c]
           held == {i \in StatementSlots : conn.statements[i] # NULL}
       IN  /\ Cardinality(held) = conn.statement_count
           /\ \A i, j \in held : conn.statements[i] = conn.statements[j] => i = j
           /\ {conn.statements[i] : i \in held} =
                {s \in Stmt : statement[s].live /\ statement[s].parent = c}

\* No handle outlives its parent: every call goes up the parent pointers without
\* looking whether they lead anywhere (odbc_api.c, environment.c:56, connection.c:130).
ParentsOutliveChildren ==
  /\ \A c \in Conn : connection[c].live => environment[connection[c].parent].live
  /\ \A s \in Stmt : statement[s].live => connection[statement[s].parent].live

\* The descriptor a statement uses has not been freed, as long as both belong to
\* one connection (descriptor.c:106-131).
ActiveDescriptorLives ==
  \A s \in Stmt, r \in Roles :
    LET d == statement[s].active[r]
    IN  (statement[s].live /\ d # implicit) => descriptor[d].live

\* An application that frees whatever can be freed gets rid of everything: no
\* order of frees strands a connection or an environment behind a count that does
\* not come down to 0.
ShutdownCompletes ==
  closing ~> /\ \A e \in Env  : ~environment[e].live
             /\ \A c \in Conn : ~connection[c].live
             /\ \A s \in Stmt : ~statement[s].live
=============================================================================
