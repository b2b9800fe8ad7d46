--------------------------- MODULE DescriptorProofs ---------------------------
(***************************************************************************)
(* Handles and descriptors, for any number of them, any caps and any number *)
(* of columns, in every order of calls.  The tables of environments and     *)
(* connections hold the live handles, no handle outlives its parent, and    *)
(* the descriptor a statement uses has not been freed; the count of bound   *)
(* columns is right, and SQLCopyDesc reproduces what it copies.             *)
(***************************************************************************)
EXTENDS Descriptors, TLAPS, FiniteSetTheorems, WellFoundedInduction

----------------------------------------------------------------------------
(* Handles and their tables                                                *)

\* A live handle has a live parent.
ParentsLive ==
  /\ \A c \in Conn : connection[c].live =>
       connection[c].parent \in Env /\ environment[connection[c].parent].live
  /\ \A s \in Stmt : statement[s].live =>
       statement[s].parent \in Conn /\ connection[statement[s].parent].live

\* The table of an environment is packed; it has each of the live connections once.
EnvironmentTable(e) ==
  LET at == environment[e].connections
  IN  /\ \A i \in ConnectionSlots : at[i] # NULL <=> i <= environment[e].connection_count
      /\ \A i, j \in ConnectionSlots : at[i] # NULL /\ at[i] = at[j] => i = j
      /\ \A i \in ConnectionSlots : at[i] # NULL =>
           connection[at[i]].live /\ connection[at[i]].parent = e
      /\ \A c \in Conn : connection[c].live /\ connection[c].parent = e =>
           \E i \in ConnectionSlots : at[i] = c

HeldSlots(c) == {i \in StatementSlots : connection[c].statements[i] # NULL}

\* The table of a connection has each of its live statements once.
StatementTable(c) ==
  LET at == connection[c].statements
  IN  /\ Cardinality(HeldSlots(c)) = connection[c].statement_count
      /\ \A i, j \in StatementSlots : at[i] # NULL /\ at[i] = at[j] => i = j
      /\ \A i \in StatementSlots : at[i] # NULL =>
           statement[at[i]].live /\ statement[at[i]].parent = c
      /\ \A s \in Stmt : statement[s].live /\ statement[s].parent = c =>
           \E i \in StatementSlots : at[i] = s

EnvironmentTables == \A e \in Env : EnvironmentTable(e)
StatementTables == \A c \in Conn : StatementTable(c)

Inv == HandlesTypeOK /\ ParentsLive /\ EnvironmentTables /\ StatementTables

\* The descriptor a live statement uses is live and of the same connection.
ActiveAtHome ==
  \A s \in Stmt, r \in Roles :
    LET d == statement[s].active[r]
    IN  statement[s].live /\ d # implicit =>
          descriptor[d].live /\ descriptor[d].connection = statement[s].parent

----------------------------------------------------------------------------
(* The parts of the invariant that a call does not touch.                  *)

\* Tables of environments that are not written, nor the connections in them.
LEMMA EnvironmentTablesKept ==
  ASSUME EnvironmentTables, UNCHANGED environment, HandlesTypeOK,
         \A c \in Conn : /\ connection'[c].live = connection[c].live
                         /\ connection'[c].parent = connection[c].parent
  PROVE  EnvironmentTables'
<1> SUFFICES ASSUME NEW e \in Env PROVE EnvironmentTable(e)'
  BY DEF EnvironmentTables
<1>1. EnvironmentTable(e)
  BY DEF EnvironmentTables
<1>2. \A i \in ConnectionSlots : environment[e].connections[i] \in Conn \union {NULL}
  BY DEF HandlesTypeOK, Environment
<1>3. ConnectionSlots' = ConnectionSlots
  BY DEF ConnectionSlots
<1> QED
  BY <1>1, <1>2 DEF EnvironmentTable

\* Tables of connections that are not written, nor the statements in them.
LEMMA StatementTablesKept ==
  ASSUME StatementTables, HandlesTypeOK,
         \A c \in Conn : /\ connection'[c].statements = connection[c].statements
                         /\ connection'[c].statement_count = connection[c].statement_count,
         \A s \in Stmt : /\ statement'[s].live = statement[s].live
                         /\ statement'[s].parent = statement[s].parent
  PROVE  StatementTables'
<1> SUFFICES ASSUME NEW c \in Conn PROVE StatementTable(c)'
  BY DEF StatementTables
<1>1. StatementTable(c)
  BY DEF StatementTables
<1>2. \A i \in StatementSlots : connection[c].statements[i] \in Stmt \union {NULL}
  BY DEF HandlesTypeOK, Connection
<1>3. HeldSlots(c)' = HeldSlots(c)
  BY DEF HeldSlots
<1> QED
  BY <1>1, <1>2, <1>3 DEF StatementTable

\* NULL is no handle.
LEMMA NullIsNone ==
  /\ NULL \notin Env /\ NULL \notin Conn /\ NULL \notin Stmt /\ NULL \notin Desc
BY HandlesAssumption

\* An environment starts and ends with nothing in its table.
LEMMA EmptyTables ==
  /\ \A i \in ConnectionSlots : NewEnvironment.connections[i] = NULL
  /\ NewEnvironment.live /\ NewEnvironment.connection_count = 0
  /\ FreedEnvironment = [NewEnvironment EXCEPT !.live = FALSE]
  /\ NewEnvironment \in Environment /\ FreedEnvironment \in Environment
<1>1. 0 \in 0 .. MAX_CONNECTIONS_PER_ENVIRONMENT
  BY CapsAssumption
<1>2. NewEnvironment \in Environment
  BY <1>1 DEF NewEnvironment, Environment
<1>3. FreedEnvironment \in Environment
  BY <1>2 DEF FreedEnvironment, Environment
<1> QED
  BY <1>2, <1>3 DEF NewEnvironment, FreedEnvironment

\* A connection starts and ends with nothing in its table.
LEMMA EmptyConnection ==
  ASSUME NEW e \in Env \union {NULL}
  PROVE  /\ NewConnection(e) \in Connection /\ FreedConnection \in Connection
         /\ NewConnection(e).live /\ ~FreedConnection.live
         /\ NewConnection(e).parent = e
         /\ NewConnection(e).statement_count = 0 /\ FreedConnection.statement_count = 0
         /\ \A i \in StatementSlots : /\ NewConnection(e).statements[i] = NULL
                                      /\ FreedConnection.statements[i] = NULL
<1>1. 0 \in 0 .. MAX_STATEMENTS_PER_CONNECTION
  BY CapsAssumption
<1>2. \A x \in Env \union {NULL} : NewConnection(x) \in Connection
  BY <1>1 DEF NewConnection, Connection
<1>3. FreedConnection \in Connection
  <2>1. NewConnection(NULL) \in Connection
    BY <1>2
  <2> QED
    BY <2>1 DEF FreedConnection, Connection
<1>4. /\ ~FreedConnection.live
      /\ FreedConnection.statements = NewConnection(NULL).statements
      /\ FreedConnection.statement_count = NewConnection(NULL).statement_count
  BY DEF FreedConnection, NewConnection
<1> QED
  BY <1>2, <1>3, <1>4 DEF NewConnection

\* Entries of a table can be counted.
LEMMA SlotsFinite ==
  /\ IsFiniteSet(StatementSlots) /\ Cardinality(StatementSlots) = MAX_STATEMENTS_PER_CONNECTION
  /\ \A c : IsFiniteSet(HeldSlots(c))
<1>1. IsFiniteSet(StatementSlots) /\ Cardinality(StatementSlots) = MAX_STATEMENTS_PER_CONNECTION
  BY FS_Interval, CapsAssumption DEF StatementSlots
<1>2. \A c : HeldSlots(c) \in SUBSET StatementSlots
  BY DEF HeldSlots
<1> QED
  BY <1>1, <1>2, FS_Subset

----------------------------------------------------------------------------
(* Environments                                                            *)

\* An environment without live connections starts or ends with an empty table.
LEMMA EnvironmentReset ==
  ASSUME Inv, NEW e \in Env, NEW record \in {NewEnvironment, FreedEnvironment},
         \A c \in Conn : connection[c].live => connection[c].parent # e,
         environment' = [environment EXCEPT ![e] = record],
         UNCHANGED <<connection, statement, descriptor, closing>>
  PROVE  Inv'
<1>1. record \in Environment /\ record.connection_count = 0
      /\ \A i \in ConnectionSlots : record.connections[i] = NULL
  BY EmptyTables DEF FreedEnvironment, NewEnvironment
<1>2. HandlesTypeOK'
  BY <1>1 DEF Inv, HandlesTypeOK
<1>3. ParentsLive'
  BY DEF Inv, HandlesTypeOK, ParentsLive
<1>4. EnvironmentTables'
  <2> SUFFICES ASSUME NEW x \in Env PROVE EnvironmentTable(x)'
    BY DEF EnvironmentTables
  <2>1. CASE x = e
    <3>1. environment'[x] = record
      BY <2>1 DEF Inv, HandlesTypeOK
    <3>2. \A i \in ConnectionSlots : ~(i <= 0)
      BY CapsAssumption DEF ConnectionSlots
    <3> QED
      BY <2>1, <3>1, <3>2, <1>1 DEF EnvironmentTable
  <2>2. CASE x # e
    <3>1. environment'[x] = environment[x]
      BY <2>2 DEF Inv, HandlesTypeOK
    <3> QED
      BY <3>1 DEF Inv, EnvironmentTables, EnvironmentTable
  <2> QED
    BY <2>1, <2>2
<1>5. StatementTables'
  BY StatementTablesKept DEF Inv
<1> QED
  BY <1>2, <1>3, <1>4, <1>5 DEF Inv

\* A new environment.
LEMMA AllocEnvironmentKeeps ==
  ASSUME Inv, NEW e \in Env, AllocEnvironment(e)
  PROVE  Inv'
<1>1. \A c \in Conn : connection[c].live => connection[c].parent # e
  BY DEF AllocEnvironment, Inv, ParentsLive
<1> QED
  BY <1>1, EnvironmentReset DEF AllocEnvironment

\* An environment is freed when its table is empty.
LEMMA FreeEnvironmentKeeps ==
  ASSUME Inv, NEW e \in Env, FreeEnvironment(e)
  PROVE  Inv'
<1>1. \A c \in Conn : connection[c].live => connection[c].parent # e
  <2>1. EnvironmentTable(e) /\ environment[e].connection_count = 0
    BY DEF FreeEnvironment, Inv, EnvironmentTables
  <2>2. \A i \in ConnectionSlots : environment[e].connections[i] = NULL
    BY <2>1, CapsAssumption DEF EnvironmentTable, ConnectionSlots
  <2> QED
    BY <2>1, <2>2, NullIsNone DEF EnvironmentTable
<1> QED
  BY <1>1, EnvironmentReset DEF FreeEnvironment

----------------------------------------------------------------------------
(* Connections                                                             *)

\* A connection that has no live statement is made anew, or given back.
LEMMA ConnectionReset ==
  ASSUME Inv, NEW c \in Conn, NEW e \in Env \union {NULL},
         NEW record \in {NewConnection(e), FreedConnection},
         \A s \in Stmt : statement[s].live => statement[s].parent # c,
         connection' = [connection EXCEPT ![c] = record],
         UNCHANGED statement
  PROVE  /\ connection' \in [Conn -> Connection]
         /\ StatementTables'
<1>1. /\ record \in Connection /\ record.statement_count = 0
      /\ \A i \in StatementSlots : record.statements[i] = NULL
  BY EmptyConnection
<1>2. connection' \in [Conn -> Connection]
  BY <1>1 DEF Inv, HandlesTypeOK
<1>3. StatementTables'
  <2> SUFFICES ASSUME NEW x \in Conn PROVE StatementTable(x)'
    BY DEF StatementTables
  <2>1. CASE x = c
    <3>1. connection'[x] = record
      BY <2>1 DEF Inv, HandlesTypeOK
    <3>2. HeldSlots(x)' = {}
      BY <1>1, <3>1 DEF HeldSlots
    <3>3. Cardinality(HeldSlots(x)') = 0
      BY <3>2, FS_EmptySet
    <3> QED
      BY <2>1, <3>1, <3>3, <1>1 DEF StatementTable
  <2>2. CASE x # c
    <3>1. connection'[x] = connection[x]
      BY <2>2 DEF Inv, HandlesTypeOK
    <3>2. HeldSlots(x)' = HeldSlots(x)
      BY <3>1 DEF HeldSlots
    <3> QED
      BY <3>1, <3>2 DEF Inv, StatementTables, StatementTable
  <2> QED
    BY <2>1, <2>2
<1> QED
  BY <1>2, <1>3

\* The new connection goes behind the others.
LEMMA AllocConnectionKeeps ==
  ASSUME Inv, NEW e \in Env, NEW c \in Conn, AllocConnection(e, c)
  PROVE  Inv'
<1> DEFINE at == environment[e].connections
           n == environment[e].connection_count
           new == environment'[e]
<1>1. /\ environment[e].live /\ ~connection[c].live /\ n < MAX_CONNECTIONS_PER_ENVIRONMENT
      /\ environment' = AddConnection(e, c)
      /\ connection' = [connection EXCEPT ![c] = NewConnection(e)]
      /\ UNCHANGED <<statement, descriptor, closing>>
  BY DEF AllocConnection
<1>2. environment[e] \in Environment /\ n \in Nat /\ n + 1 \in ConnectionSlots
  BY <1>1, CapsAssumption DEF Inv, HandlesTypeOK, Environment, ConnectionSlots
<1>3. /\ new.connections = [at EXCEPT ![n + 1] = c] /\ new.connection_count = n + 1
      /\ new.live = environment[e].live
      /\ new \in Environment
      /\ \A x \in Env \ {e} : environment'[x] = environment[x]
      /\ environment' \in [Env -> Environment]
  <2>1. environment' = [environment EXCEPT ![e] =
          [environment[e] EXCEPT !.connections[n + 1] = c, !.connection_count = n + 1]]
    BY <1>1 DEF AddConnection
  <2>2. n + 1 \in 0 .. MAX_CONNECTIONS_PER_ENVIRONMENT
    BY <1>1, <1>2, CapsAssumption
  <2>3. new = [environment[e] EXCEPT !.connections[n + 1] = c, !.connection_count = n + 1]
    BY <2>1 DEF Inv, HandlesTypeOK
  <2>4. new.connections = [at EXCEPT ![n + 1] = c] /\ new.connection_count = n + 1
        /\ new.live = environment[e].live
    BY <2>3, <1>2 DEF Environment
  <2>5. new \in Environment
    BY <2>2, <2>3, <1>2 DEF Environment
  <2> QED
    BY <2>1, <2>4, <2>5 DEF Inv, HandlesTypeOK
<1> HIDE DEF new
<1>4. \A s \in Stmt : statement[s].live => statement[s].parent # c
  BY <1>1 DEF Inv, ParentsLive
<1>5. connection' \in [Conn -> Connection] /\ StatementTables'
  BY <1>1, <1>4, ConnectionReset
<1>6. /\ connection'[c].live /\ connection'[c].parent = e
      /\ \A x \in Conn \ {c} : connection'[x] = connection[x]
  BY <1>1, EmptyConnection DEF Inv, HandlesTypeOK
<1>7. HandlesTypeOK'
  BY <1>1, <1>3, <1>5 DEF Inv, HandlesTypeOK
<1>8. ParentsLive'
  <2>1. \A x \in Env : environment'[x].live = environment[x].live
    BY <1>3 DEF new
  <2>2. \A x \in Conn : connection'[x].live <=> connection[x].live \/ x = c
    BY <1>6
  <2> QED
    BY <1>1, <1>6, <2>1, <2>2 DEF Inv, ParentsLive
<1>9. EnvironmentTables'
  <2> SUFFICES ASSUME NEW x \in Env PROVE EnvironmentTable(x)'
    BY DEF EnvironmentTables
  <2>1. CASE x = e
    <3> DEFINE at1 == environment'[e].connections
    <3>1. EnvironmentTable(e)
      BY DEF Inv, EnvironmentTables
    <3>2. /\ at1[n + 1] = c
          /\ \A i \in ConnectionSlots \ {n + 1} : at1[i] = at[i]
          /\ environment'[e].connection_count = n + 1
      BY <1>2, <1>3 DEF new, Environment
    <3>3. \A i \in ConnectionSlots : at[i] # c /\ at[i] \in Conn \union {NULL}
      BY <3>1, <1>1, <1>2, NullIsNone DEF EnvironmentTable, Environment
    <3>4. at[n + 1] = NULL
      BY <3>1, <1>2 DEF EnvironmentTable
    <3> HIDE DEF at, at1
    <3>5. \A i \in ConnectionSlots : at1[i] # NULL <=> i <= n + 1
      <4> SUFFICES ASSUME NEW i \in ConnectionSlots PROVE at1[i] # NULL <=> i <= n + 1
        OBVIOUS
      <4>1. i \in Nat
        BY DEF ConnectionSlots
      <4> QED
        BY <4>1, <3>1, <3>2, <1>2, NullIsNone DEF EnvironmentTable, at
    <3>6. \A i, j \in ConnectionSlots : at1[i] # NULL /\ at1[i] = at1[j] => i = j
      BY <3>1, <3>2, <3>3 DEF EnvironmentTable, at
    <3>7. \A i \in ConnectionSlots : at1[i] # NULL =>
             connection'[at1[i]].live /\ connection'[at1[i]].parent = e
      BY <3>1, <3>2, <3>3, <1>6 DEF EnvironmentTable, at
    <3>8. \A d \in Conn : connection'[d].live /\ connection'[d].parent = e =>
             \E i \in ConnectionSlots : at1[i] = d
      <4> SUFFICES ASSUME NEW d \in Conn, connection'[d].live, connection'[d].parent = e
                   PROVE  \E i \in ConnectionSlots : at1[i] = d
        OBVIOUS
      <4>1. CASE d = c
        BY <4>1, <3>2, <1>2
      <4>2. CASE d # c
        <5>1. PICK i \in ConnectionSlots : at[i] = d
          BY <4>2, <3>1, <1>6 DEF EnvironmentTable, at
        <5> QED
          BY <5>1, <3>2, <3>4, NullIsNone
      <4> QED
        BY <4>1, <4>2
    <3> QED
      BY <2>1, <3>2, <3>5, <3>6, <3>7, <3>8 DEF EnvironmentTable, at1, ConnectionSlots
  <2>2. CASE x # e
    <3>1. environment'[x] = environment[x] /\ EnvironmentTable(x)
      BY <1>3, <2>2 DEF Inv, EnvironmentTables
    <3>2. \A i \in ConnectionSlots : environment[x].connections[i] # NULL =>
             environment[x].connections[i] \in Conn \ {c}
      BY <3>1, <1>1 DEF Inv, HandlesTypeOK, Environment, EnvironmentTable
    <3> QED
      BY <3>1, <3>2, <2>2, <1>6 DEF EnvironmentTable, ConnectionSlots
  <2> QED
    BY <2>1, <2>2
<1> QED
  BY <1>5, <1>7, <1>8, <1>9 DEF Inv
\* The last connection takes the place of the one that is freed.
LEMMA FreeConnectionKeeps ==
  ASSUME Inv, NEW c \in Conn, FreeConnection(c)
  PROVE  Inv'
<1> DEFINE e == connection[c].parent
           at == environment[e].connections
           n == environment[e].connection_count
           slot == CHOOSE i \in 1 .. n : at[i] = c
           at1 == environment'[e].connections
<1>1. /\ connection[c].live /\ connection[c].statement_count = 0
      /\ environment' = RemoveConnection(e, c)
      /\ connection' = [connection EXCEPT ![c] = FreedConnection]
      /\ UNCHANGED <<statement, descriptor, closing>>
  BY DEF FreeConnection, MayFreeConnection
<1>2. e \in Env /\ environment[e] \in Environment /\ n \in 0 .. MAX_CONNECTIONS_PER_ENVIRONMENT
      /\ \A i \in ConnectionSlots : i \in Nat /\ at[i] \in Conn \union {NULL}
  <2>1. e \in Env
    BY <1>1 DEF Inv, ParentsLive
  <2>2. environment[e] \in Environment
    BY <2>1 DEF Inv, HandlesTypeOK
  <2> QED
    BY <2>1, <2>2, CapsAssumption DEF Environment, ConnectionSlots
<1>3. EnvironmentTable(e)
  BY <1>2 DEF Inv, EnvironmentTables
<1>4. slot \in ConnectionSlots /\ slot <= n /\ at[slot] = c
  <2>1. PICK i \in ConnectionSlots : at[i] = c
    BY <1>1, <1>3 DEF EnvironmentTable
  <2>2. i \in 1 .. n
    BY <2>1, <1>2, <1>3, NullIsNone DEF EnvironmentTable, ConnectionSlots
  <2>3. slot \in 1 .. n /\ at[slot] = c
    BY <2>1, <2>2
  <2> QED
    BY <2>3, <1>2, CapsAssumption DEF ConnectionSlots
<1>5. n \in ConnectionSlots
  BY <1>2, <1>4 DEF ConnectionSlots
<1> HIDE DEF slot, e
<1>6. /\ environment'[e].connections = [i \in ConnectionSlots |->
              CASE i = n -> NULL [] i = slot /\ i # n -> at[n] [] OTHER -> at[i]]
      /\ environment'[e].connection_count = n - 1
      /\ environment'[e].live = environment[e].live
      /\ environment'[e] \in Environment
      /\ \A x \in Env \ {e} : environment'[x] = environment[x]
      /\ environment' \in [Env -> Environment]
  <2> DEFINE f == [i \in ConnectionSlots |->
              CASE i = n -> NULL [] i = slot /\ i # n -> at[n] [] OTHER -> at[i]]
  <2>1. environment' = [environment EXCEPT ![e] =
          [environment[e] EXCEPT !.connections = f, !.connection_count = n - 1]]
    BY <1>1 DEF RemoveConnection, slot
  <2>2. n - 1 \in 0 .. MAX_CONNECTIONS_PER_ENVIRONMENT
    BY <1>2, <1>5, CapsAssumption DEF ConnectionSlots
  <2>3. f \in [ConnectionSlots -> Conn \union {NULL}]
    BY <1>2, <1>5
  <2> HIDE DEF f
  <2>4. environment'[e] = [environment[e] EXCEPT !.connections = f, !.connection_count = n - 1]
    BY <2>1, <1>2 DEF Inv, HandlesTypeOK
  <2>5. /\ environment'[e].connections = f /\ environment'[e].connection_count = n - 1
        /\ environment'[e].live = environment[e].live
    BY <2>4, <1>2 DEF Environment
  <2>6. environment'[e] \in Environment
    BY <2>2, <2>3, <2>4, <1>2 DEF Environment
  <2> QED
    BY <2>1, <2>5, <2>6, <1>2 DEF Inv, HandlesTypeOK, f
<1>7. /\ at1[n] = NULL
      /\ slot # n => at1[slot] = at[n]
      /\ \A i \in ConnectionSlots \ {n, slot} : at1[i] = at[i]
  BY <1>4, <1>5, <1>6
<1>8. \A s \in Stmt : statement[s].live => statement[s].parent # c
  <2>1. StatementTable(c) /\ Cardinality(HeldSlots(c)) = 0
    BY <1>1 DEF Inv, StatementTables, StatementTable
  <2>2. HeldSlots(c) = {}
    BY <2>1, SlotsFinite, FS_EmptySet
  <2> QED
    BY <2>1, <2>2, NullIsNone DEF StatementTable, HeldSlots
<1>9. connection' \in [Conn -> Connection] /\ StatementTables'
  BY <1>1, <1>8, ConnectionReset
<1>10. /\ ~connection'[c].live
       /\ \A x \in Conn \ {c} : connection'[x] = connection[x]
  BY <1>1, EmptyConnection DEF Inv, HandlesTypeOK
<1>11. HandlesTypeOK'
  BY <1>1, <1>6, <1>9 DEF Inv, HandlesTypeOK
<1>12. ParentsLive'
  <2>1. \A x \in Env : environment'[x].live = environment[x].live
    BY <1>6
  <2>2. \A x \in Conn : connection'[x].live <=> connection[x].live /\ x # c
    BY <1>10
  <2> QED
    BY <1>1, <1>8, <1>10, <2>1, <2>2 DEF Inv, ParentsLive
<1>13. EnvironmentTables'
  <2> SUFFICES ASSUME NEW x \in Env PROVE EnvironmentTable(x)'
    BY DEF EnvironmentTables
  <2>1. CASE x = e
    <3> HIDE DEF at, at1, n
    <3>1. /\ \A i \in ConnectionSlots : at[i] # NULL <=> i <= n
          /\ \A i, j \in ConnectionSlots : at[i] # NULL /\ at[i] = at[j] => i = j
          /\ \A i \in ConnectionSlots : at[i] # NULL =>
               connection[at[i]].live /\ connection[at[i]].parent = e
          /\ \A d \in Conn : connection[d].live /\ connection[d].parent = e =>
               \E i \in ConnectionSlots : at[i] = d
      BY <1>3 DEF EnvironmentTable, at, n
    <3>2. \A i \in ConnectionSlots : at1[i] # NULL <=> i <= n - 1
      BY <3>1, <1>2, <1>4, <1>5, <1>7
    <3>3. \A i \in ConnectionSlots : at1[i] # NULL =>
             \E k \in ConnectionSlots : /\ k # slot /\ at1[i] = at[k] /\ at[k] # NULL
                                       /\ k = IF i = slot THEN n ELSE i
      BY <1>4, <1>5, <1>7
    <3>4. \A i, j \in ConnectionSlots : at1[i] # NULL /\ at1[i] = at1[j] => i = j
      <4> SUFFICES ASSUME NEW i \in ConnectionSlots, NEW j \in ConnectionSlots,
                          at1[i] # NULL, at1[i] = at1[j]
                   PROVE  i = j
        OBVIOUS
      <4>1. PICK k \in ConnectionSlots : /\ at1[i] = at[k] /\ at[k] # NULL
                                        /\ k = IF i = slot THEN n ELSE i
        BY <3>3
      <4>2. PICK l \in ConnectionSlots : /\ at1[j] = at[l] /\ at[l] # NULL
                                        /\ l = IF j = slot THEN n ELSE j
        BY <3>3
      <4>3. k = l
        <5>1. at[k] = at[l]
          BY <4>1, <4>2
        <5> QED
          BY <5>1, <4>1, <3>1
      <4>4. i # n /\ j # n
        BY <1>7
      <4> QED
        BY <4>1, <4>2, <4>3, <4>4
    <3>5. \A i \in ConnectionSlots : at1[i] # NULL =>
             connection'[at1[i]].live /\ connection'[at1[i]].parent = e
      <4> SUFFICES ASSUME NEW i \in ConnectionSlots, at1[i] # NULL
                   PROVE  connection'[at1[i]].live /\ connection'[at1[i]].parent = e
        OBVIOUS
      <4>1. PICK k \in ConnectionSlots : k # slot /\ at1[i] = at[k] /\ at[k] # NULL
        BY <3>3
      <4>2. at[k] # c
        BY <4>1, <3>1, <1>4
      <4> QED
        BY <4>1, <4>2, <3>1, <1>2, <1>10 DEF at
    <3>6. \A d \in Conn : connection'[d].live /\ connection'[d].parent = e =>
             \E i \in ConnectionSlots : at1[i] = d
      <4> SUFFICES ASSUME NEW d \in Conn, connection'[d].live, connection'[d].parent = e
                   PROVE  \E i \in ConnectionSlots : at1[i] = d
        OBVIOUS
      <4>1. d # c
        BY <1>10
      <4>2. PICK k \in ConnectionSlots : at[k] = d
        BY <4>1, <3>1, <1>10
      <4>3. k # slot
        BY <4>1, <4>2, <1>4
      <4> QED
        BY <4>2, <4>3, <1>4, <1>5, <1>7
    <3> QED
      BY <2>1, <1>6, <3>2, <3>4, <3>5, <3>6 DEF EnvironmentTable, at1, n, ConnectionSlots
  <2>2. CASE x # e
    <3>1. environment'[x] = environment[x] /\ EnvironmentTable(x)
      BY <1>6, <2>2 DEF Inv, EnvironmentTables
    <3>2. \A i \in ConnectionSlots : environment[x].connections[i] # NULL =>
             environment[x].connections[i] \in Conn \ {c}
      BY <3>1, <2>2 DEF Inv, HandlesTypeOK, Environment, EnvironmentTable, e
    <3>3. \A d \in Conn : connection'[d].live /\ connection'[d].parent = x =>
             connection[d].live /\ connection[d].parent = x
      BY <1>10
    <3> QED
      BY <3>1, <3>2, <3>3, <1>10 DEF EnvironmentTable, ConnectionSlots
  <2> QED
    BY <2>1, <2>2
<1> QED
  BY <1>9, <1>11, <1>12, <1>13 DEF Inv

----------------------------------------------------------------------------
(* Statements                                                              *)

\* Only the tables of connections and the statements change.
LEMMA StatementCallKeeps ==
  ASSUME Inv, StatementTables',
         connection' \in [Conn -> Connection], statement' \in [Stmt -> Statement],
         \A c \in Conn : /\ connection'[c].live = connection[c].live
                         /\ connection'[c].parent = connection[c].parent,
         \A s \in Stmt : statement'[s].live =>
           statement'[s].parent \in Conn /\ connection[statement'[s].parent].live,
         UNCHANGED <<environment, descriptor, closing>>
  PROVE  Inv'
<1>1. HandlesTypeOK'
  BY DEF Inv, HandlesTypeOK
<1>2. ParentsLive'
  BY DEF Inv, ParentsLive
<1>3. EnvironmentTables'
  BY EnvironmentTablesKept DEF Inv
<1> QED
  BY <1>1, <1>2, <1>3 DEF Inv

\* A statement starts with its implicit descriptors.
LEMMA NewStatementType ==
  ASSUME NEW c \in Conn \union {NULL}
  PROVE  /\ NewStatement(c) \in Statement /\ FreedStatement \in Statement
         /\ NewStatement(c).live /\ ~FreedStatement.live
         /\ NewStatement(c).parent = c
         /\ \A r \in Roles : NewStatement(c).active[r] = implicit
BY DEF NewStatement, FreedStatement, Statement

\* While the count is below the cap there is an empty slot, and the statement goes there.
LEMMA AllocStatementKeeps ==
  ASSUME Inv, NEW c \in Conn, NEW s \in Stmt, AllocStatement(c, s)
  PROVE  Inv'
<1> DEFINE at == connection[c].statements
           at1 == connection'[c].statements
           free == {i \in StatementSlots : at[i] = NULL}
           slot == CHOOSE i \in free : \A j \in free : i <= j
<1>1. /\ connection[c].live /\ ~statement[s].live
      /\ connection[c].statement_count < MAX_STATEMENTS_PER_CONNECTION
      /\ connection' = [connection EXCEPT ![c].statements[slot] = s, ![c].statement_count = @ + 1]
      /\ statement' = [statement EXCEPT ![s] = NewStatement(c)]
      /\ UNCHANGED <<environment, descriptor, closing>>
  BY DEF AllocStatement, AddStatement
<1>2. /\ connection[c] \in Connection /\ StatementTable(c)
      /\ \A i \in StatementSlots : i \in Nat /\ at[i] \in Stmt \union {NULL}
      /\ connection[c].statement_count \in Nat
  BY CapsAssumption DEF Inv, HandlesTypeOK, StatementTables, Connection, StatementSlots
<1>3. slot \in StatementSlots /\ at[slot] = NULL
  <2>1. free # {}
    <3>1. HeldSlots(c) # StatementSlots
      BY <1>1, <1>2, SlotsFinite DEF StatementTable
    <3> QED
      BY <3>1 DEF HeldSlots
  <2>2. free \subseteq Nat
    BY <1>2
  <2>3. PICK m \in free : \A k \in free : <<k, m>> \notin OpToRel(<, Nat)
    BY <2>1, <2>2, NatLessThanWellFounded, WFMin
  <2>4. \A k \in free : m <= k
    <3> TAKE k \in free
    <3>1. ~(k < m)
      BY <2>2, <2>3 DEF OpToRel
    <3> QED
      BY <3>1, <2>2
  <2> HIDE DEF free
  <2>5. slot \in free
    BY <2>4
  <2> QED
    BY <2>5 DEF free
<1> HIDE DEF slot
<1>4. /\ connection'[c].statements = [at EXCEPT ![slot] = s]
      /\ connection'[c].statement_count = connection[c].statement_count + 1
      /\ connection'[c].live = connection[c].live /\ connection'[c].parent = connection[c].parent
      /\ \A x \in Conn \ {c} : connection'[x] = connection[x]
      /\ connection' \in [Conn -> Connection]
  <2> DEFINE record == [connection[c] EXCEPT !.statements[slot] = s, !.statement_count = @ + 1]
  <2>1. connection' = [connection EXCEPT ![c] = record]
    BY <1>1
  <2>2. connection[c].statement_count + 1 \in 0 .. MAX_STATEMENTS_PER_CONNECTION
    BY <1>1, <1>2, CapsAssumption
  <2>3. /\ record.statements = [at EXCEPT ![slot] = s]
        /\ record.statement_count = connection[c].statement_count + 1
        /\ record.live = connection[c].live /\ record.parent = connection[c].parent
    BY <1>2 DEF Connection
  <2>4. record \in Connection
    BY <1>2, <2>2 DEF Connection
  <2> HIDE DEF record
  <2> QED
    BY <2>1, <2>3, <2>4 DEF Inv, HandlesTypeOK
<1>5. /\ statement'[s].live /\ statement'[s].parent = c
      /\ \A x \in Stmt \ {s} : statement'[x] = statement[x]
      /\ statement' \in [Stmt -> Statement]
  BY <1>1, NewStatementType DEF Inv, HandlesTypeOK
<1>6. StatementTables'
  <2> SUFFICES ASSUME NEW x \in Conn PROVE StatementTable(x)'
    BY DEF StatementTables
  <2>1. CASE x = c
    <3>1. at1[slot] = s /\ \A i \in StatementSlots \ {slot} : at1[i] = at[i]
      BY <1>2, <1>3, <1>4 DEF Connection
    <3>2. Cardinality(HeldSlots(c)') = connection'[c].statement_count
      <4>1. HeldSlots(c)' = HeldSlots(c) \union {slot} /\ slot \notin HeldSlots(c)
        BY <3>1, <1>3, NullIsNone DEF HeldSlots, StatementSlots
      <4>2. IsFiniteSet(HeldSlots(c))
        BY SlotsFinite
      <4>3. Cardinality(HeldSlots(c) \union {slot}) = Cardinality(HeldSlots(c)) + 1
        BY <4>1, <4>2, FS_AddElement
      <4> QED
        BY <4>1, <4>3, <1>2, <1>4 DEF StatementTable
    <3> HIDE DEF at, at1
    <3>3. /\ \A i, j \in StatementSlots : at[i] # NULL /\ at[i] = at[j] => i = j
          /\ \A i \in StatementSlots : at[i] # NULL =>
               statement[at[i]].live /\ statement[at[i]].parent = c
          /\ \A t \in Stmt : statement[t].live /\ statement[t].parent = c =>
               \E i \in StatementSlots : at[i] = t
          /\ \A i \in StatementSlots : at[i] \in Stmt \union {NULL}
      BY <1>2 DEF StatementTable, at
    <3>4. \A i \in StatementSlots : at[i] # s
      BY <3>3, <1>1, NullIsNone
    <3>5. \A i, j \in StatementSlots : at1[i] # NULL /\ at1[i] = at1[j] => i = j
      BY <3>1, <3>3, <3>4
    <3>6. \A i \in StatementSlots : at1[i] # NULL =>
             statement'[at1[i]].live /\ statement'[at1[i]].parent = c
      BY <3>1, <3>3, <3>4, <1>5
    <3>7. \A t \in Stmt : statement'[t].live /\ statement'[t].parent = c =>
             \E i \in StatementSlots : at1[i] = t
      <4> SUFFICES ASSUME NEW t \in Stmt, statement'[t].live, statement'[t].parent = c
                   PROVE  \E i \in StatementSlots : at1[i] = t
        OBVIOUS
      <4>1. CASE t = s
        BY <4>1, <3>1, <1>3
      <4>2. CASE t # s
        <5>1. PICK i \in StatementSlots : at[i] = t
          BY <4>2, <3>3, <1>5
        <5>2. i # slot
          BY <5>1, <1>3, NullIsNone DEF at
        <5> QED
          BY <5>1, <5>2, <3>1
      <4> QED
        BY <4>1, <4>2
    <3> QED
      BY <2>1, <3>2, <3>5, <3>6, <3>7 DEF StatementTable, at1, StatementSlots
  <2>2. CASE x # c
    <3>1. connection'[x] = connection[x] /\ StatementTable(x)
      BY <1>4, <2>2 DEF Inv, StatementTables
    <3>2. HeldSlots(x)' = HeldSlots(x)
      BY <3>1 DEF HeldSlots, StatementSlots
    <3>3. \A i \in StatementSlots : connection[x].statements[i] # NULL =>
             connection[x].statements[i] \in Stmt \ {s}
      BY <3>1, <1>1 DEF Inv, HandlesTypeOK, Connection, StatementTable
    <3> QED
      BY <3>1, <3>2, <3>3, <2>2, <1>5 DEF StatementTable, StatementSlots
  <2> QED
    BY <2>1, <2>2
<1>7. \A x \in Conn : /\ connection'[x].live = connection[x].live
                      /\ connection'[x].parent = connection[x].parent
  BY <1>4
<1>8. \A x \in Stmt : statement'[x].live =>
         statement'[x].parent \in Conn /\ connection[statement'[x].parent].live
  BY <1>1, <1>5 DEF Inv, ParentsLive
<1> QED
  BY <1>1, <1>4, <1>5, <1>6, <1>7, <1>8, StatementCallKeeps

\* The slot of a statement that is freed is empty again.
LEMMA FreeStatementKeeps ==
  ASSUME Inv, NEW s \in Stmt, FreeStatement(s)
  PROVE  Inv'
<1>0. PICK c \in Conn : c = statement[s].parent
  BY DEF FreeStatement, Inv, ParentsLive
<1> DEFINE at == connection[c].statements
           at1 == connection'[c].statements
<1>1. /\ statement[s].live
      /\ connection' = RemoveStatement(c, s)
      /\ statement' = [statement EXCEPT ![s] = FreedStatement]
      /\ UNCHANGED <<environment, descriptor, closing>>
  BY <1>0 DEF FreeStatement
<1>2. connection[c] \in Connection /\ StatementTable(c)
  BY DEF Inv, HandlesTypeOK, StatementTables
<1>3. PICK slot \in StatementSlots : at[slot] = s
  BY <1>0, <1>1, <1>2 DEF StatementTable
<1>4. connection[c].statement_count \in Nat \ {0}
  <2>1. slot \in HeldSlots(c)
    BY <1>3, NullIsNone DEF HeldSlots
  <2>2. HeldSlots(c) # {}
    BY <2>1
  <2>3. Cardinality(HeldSlots(c)) # 0
    BY <2>2, SlotsFinite, FS_EmptySet
  <2> QED
    BY <2>3, <1>2, SlotsFinite, FS_CardinalityType DEF StatementTable
<1> DEFINE f == [i \in StatementSlots |-> IF at[i] = s THEN NULL ELSE at[i]]
<1>5. /\ connection'[c].statements = f
      /\ connection'[c].statement_count = connection[c].statement_count - 1
      /\ connection'[c].live = connection[c].live /\ connection'[c].parent = connection[c].parent
      /\ \A x \in Conn \ {c} : connection'[x] = connection[x]
      /\ connection' \in [Conn -> Connection]
  <2> DEFINE record == [connection[c] EXCEPT !.statements = f, !.statement_count = @ - 1]
  <2>1. connection' = [connection EXCEPT ![c] = record]
    BY <1>1 DEF RemoveStatement
  <2>2. connection[c].statement_count - 1 \in 0 .. MAX_STATEMENTS_PER_CONNECTION
    BY <1>2, <1>4, CapsAssumption DEF Connection
  <2>3. f \in [StatementSlots -> Stmt \union {NULL}]
    BY <1>2 DEF Connection
  <2> HIDE DEF f
  <2>4. /\ record.statements = f
        /\ record.statement_count = connection[c].statement_count - 1
        /\ record.live = connection[c].live /\ record.parent = connection[c].parent
    BY <1>2 DEF Connection
  <2>5. record \in Connection
    BY <1>2, <2>2, <2>3 DEF Connection
  <2> HIDE DEF record
  <2> QED
    BY <2>1, <2>4, <2>5, <1>2 DEF Inv, HandlesTypeOK
<1>6. /\ ~statement'[s].live
      /\ \A x \in Stmt \ {s} : statement'[x] = statement[x]
      /\ statement' \in [Stmt -> Statement]
  BY <1>1, NewStatementType DEF Inv, HandlesTypeOK
<1>7. StatementTables'
  <2> SUFFICES ASSUME NEW x \in Conn PROVE StatementTable(x)'
    BY DEF StatementTables
  <2>1. CASE x = c
    <3>1. /\ \A i, j \in StatementSlots : at[i] # NULL /\ at[i] = at[j] => i = j
          /\ \A i \in StatementSlots : at[i] # NULL =>
               statement[at[i]].live /\ statement[at[i]].parent = c
          /\ \A t \in Stmt : statement[t].live /\ statement[t].parent = c =>
               \E i \in StatementSlots : at[i] = t
          /\ \A i \in StatementSlots : at[i] \in Stmt \union {NULL}
      BY <1>2 DEF StatementTable, Connection
    <3>2. at1[slot] = NULL /\ \A i \in StatementSlots \ {slot} : at1[i] = at[i] /\ at[i] # s
      BY <3>1, <1>3, <1>5, NullIsNone
    <3>3. Cardinality(HeldSlots(c)') = connection'[c].statement_count
      <4>1. HeldSlots(c)' = HeldSlots(c) \ {slot} /\ slot \in HeldSlots(c)
        BY <3>2, <1>3, NullIsNone DEF HeldSlots, StatementSlots
      <4>2. IsFiniteSet(HeldSlots(c))
        BY SlotsFinite
      <4>3. Cardinality(HeldSlots(c) \ {slot}) = Cardinality(HeldSlots(c)) - 1
        BY <4>1, <4>2, FS_RemoveElement
      <4> QED
        BY <4>1, <4>3, <1>2, <1>5 DEF StatementTable
    <3> HIDE DEF at, at1, f
    <3>4. \A i, j \in StatementSlots : at1[i] # NULL /\ at1[i] = at1[j] => i = j
      BY <3>1, <3>2
    <3>5. \A i \in StatementSlots : at1[i] # NULL =>
             statement'[at1[i]].live /\ statement'[at1[i]].parent = c
      BY <3>1, <3>2, <1>6
    <3>6. \A t \in Stmt : statement'[t].live /\ statement'[t].parent = c =>
             \E i \in StatementSlots : at1[i] = t
      BY <3>1, <3>2, <1>3, <1>6 DEF at
    <3> QED
      BY <2>1, <3>3, <3>4, <3>5, <3>6 DEF StatementTable, at1, StatementSlots
  <2>2. CASE x # c
    <3>1. connection'[x] = connection[x] /\ StatementTable(x)
      BY <1>5, <2>2 DEF Inv, StatementTables
    <3>2. HeldSlots(x)' = HeldSlots(x)
      BY <3>1 DEF HeldSlots, StatementSlots
    <3>3. \A i \in StatementSlots : connection[x].statements[i] # NULL =>
             connection[x].statements[i] \in Stmt \ {s}
      BY <3>1, <2>2, <1>0 DEF Inv, HandlesTypeOK, Connection, StatementTable
    <3>4. \A t \in Stmt : statement'[t].live /\ statement'[t].parent = x =>
             statement[t].live /\ statement[t].parent = x
      BY <1>6
    <3> QED
      BY <3>1, <3>2, <3>3, <3>4, <1>6 DEF StatementTable, StatementSlots
  <2> QED
    BY <2>1, <2>2
<1>8. \A x \in Conn : /\ connection'[x].live = connection[x].live
                      /\ connection'[x].parent = connection[x].parent
  BY <1>5
<1>9. \A x \in Stmt : statement'[x].live =>
         statement'[x].parent \in Conn /\ connection[statement'[x].parent].live
  BY <1>6 DEF Inv, ParentsLive
<1> QED
  BY <1>1, <1>5, <1>6, <1>7, <1>8, <1>9, StatementCallKeeps

----------------------------------------------------------------------------
(* Calls that leave the tables alone                                       *)

\* No handle is allocated or freed.
LEMMA NoHandleKeeps ==
  ASSUME Inv, HandlesTypeOK', UNCHANGED environment,
         \A c \in Conn : /\ connection'[c].live = connection[c].live
                         /\ connection'[c].parent = connection[c].parent
                         /\ connection'[c].statements = connection[c].statements
                         /\ connection'[c].statement_count = connection[c].statement_count,
         \A s \in Stmt : /\ statement'[s].live = statement[s].live
                         /\ statement'[s].parent = statement[s].parent
  PROVE  Inv'
<1>1. ParentsLive'
  BY DEF Inv, ParentsLive
<1>2. EnvironmentTables' /\ StatementTables'
  BY EnvironmentTablesKept, StatementTablesKept DEF Inv
<1> QED
  BY <1>1, <1>2 DEF Inv

\* Connecting and disconnecting leave the tables alone.
LEMMA OpenOrCloseKeeps ==
  ASSUME Inv, NEW c \in Conn, Connect(c) \/ Disconnect(c)
  PROVE  Inv'
<1>1. PICK state \in {"not_connected", "connected"} :
         connection' = [connection EXCEPT ![c].state = state]
  BY DEF Connect, Disconnect
<1>2. UNCHANGED <<environment, statement, descriptor, closing>>
  BY DEF Connect, Disconnect
<1>3. /\ connection' \in [Conn -> Connection]
      /\ \A x \in Conn : /\ connection'[x].live = connection[x].live
                         /\ connection'[x].parent = connection[x].parent
                         /\ connection'[x].statements = connection[x].statements
                         /\ connection'[x].statement_count = connection[x].statement_count
  BY <1>1 DEF Inv, HandlesTypeOK, Connection
<1>4. HandlesTypeOK'
  BY <1>2, <1>3 DEF Inv, HandlesTypeOK
<1> QED
  BY <1>2, <1>3, <1>4, NoHandleKeeps

\* Descriptors are in no table.
LEMMA DescriptorCallKeeps ==
  ASSUME Inv,
         \/ \E c \in Conn, d \in Desc : AllocDescriptor(c, d)
         \/ \E d \in Desc : FreeDescriptor(d)
         \/ \E s \in Stmt, r \in Roles : Detach(s, r)
         \/ \E s \in Stmt, r \in Roles, d \in Desc : Attach(s, r, d)
         \/ StartClosing
  PROVE  Inv'
<1>1. UNCHANGED <<environment, connection>> /\ closing' \in BOOLEAN
  BY DEF AllocDescriptor, FreeDescriptor, Detach, Attach, StartClosing, Inv, HandlesTypeOK
<1>2. /\ statement' \in [Stmt -> Statement]
      /\ \A s \in Stmt : /\ statement'[s].live = statement[s].live
                         /\ statement'[s].parent = statement[s].parent
  <2>1. CASE UNCHANGED statement
    BY <2>1 DEF Inv, HandlesTypeOK
  <2>2. ASSUME NEW s \in Stmt, NEW r \in Roles, NEW d \in Desc \union {implicit},
               statement' = [statement EXCEPT ![s].active[r] = d]
        PROVE  /\ statement' \in [Stmt -> Statement]
               /\ \A x \in Stmt : /\ statement'[x].live = statement[x].live
                                  /\ statement'[x].parent = statement[x].parent
    BY <2>2 DEF Inv, HandlesTypeOK, Statement
  <2>3. ASSUME NEW d \in Desc, FreeDescriptor(d)
        PROVE  /\ statement' \in [Stmt -> Statement]
               /\ \A x \in Stmt : /\ statement'[x].live = statement[x].live
                                  /\ statement'[x].parent = statement[x].parent
    <3>1. \A x \in Stmt :
            \/ statement'[x] = statement[x]
            \/ statement'[x] = [statement[x] EXCEPT !.active =
                 [r \in Roles |-> IF statement[x].active[r] = d THEN implicit
                                  ELSE statement[x].active[r]]]
      BY <2>3 DEF FreeDescriptor
    <3>2. ASSUME NEW x \in Stmt
          PROVE  /\ statement'[x] \in Statement
                 /\ statement'[x].live = statement[x].live
                 /\ statement'[x].parent = statement[x].parent
      <4>1. statement[x] \in Statement
        BY DEF Inv, HandlesTypeOK
      <4>2. CASE statement'[x] = statement[x]
        BY <4>1, <4>2
      <4>3. CASE statement'[x] = [statement[x] EXCEPT !.active =
                   [r \in Roles |-> IF statement[x].active[r] = d THEN implicit
                                    ELSE statement[x].active[r]]]
        <5> DEFINE f == [r \in Roles |-> IF statement[x].active[r] = d THEN implicit
                                        ELSE statement[x].active[r]]
        <5>1. f \in [Roles -> Desc \union {implicit}]
          BY <4>1 DEF Statement
        <5> HIDE DEF f
        <5>2. statement'[x] = [statement[x] EXCEPT !.active = f]
          BY <4>3 DEF f
        <5> QED
          BY <4>1, <5>1, <5>2 DEF Statement
      <4> QED
        BY <3>1, <4>2, <4>3
    <3>3. statement' = [x \in Stmt |-> statement'[x]]
      BY <2>3 DEF FreeDescriptor
    <3> QED
      BY <3>2, <3>3
  <2> QED
    BY <2>1, <2>2, <2>3 DEF AllocDescriptor, Detach, Attach, StartClosing
<1>3. descriptor' \in [Desc -> Descriptor]
  <2>1. ASSUME NEW c \in Conn \union {NULL} PROVE NewDescriptor(c) \in Descriptor
    BY DEF NewDescriptor, Descriptor, Roles
  <2>2. FreedDescriptor \in Descriptor
    <3>1. NewDescriptor(NULL) \in Descriptor
      BY <2>1
    <3> QED
      BY <3>1 DEF FreedDescriptor, Descriptor
  <2>3. CASE UNCHANGED descriptor
    BY <2>3 DEF Inv, HandlesTypeOK
  <2>4. ASSUME NEW c \in Conn, NEW d \in Desc, AllocDescriptor(c, d)
        PROVE  descriptor' \in [Desc -> Descriptor]
    BY <2>1, <2>4 DEF AllocDescriptor, Inv, HandlesTypeOK
  <2>5. ASSUME NEW d \in Desc, FreeDescriptor(d)
        PROVE  descriptor' \in [Desc -> Descriptor]
    BY <2>2, <2>5 DEF FreeDescriptor, Inv, HandlesTypeOK
  <2>6. ASSUME NEW s \in Stmt, NEW r \in Roles, NEW d \in Desc, Attach(s, r, d)
        PROVE  descriptor' \in [Desc -> Descriptor]
    BY <2>6 DEF Attach, Inv, HandlesTypeOK, Descriptor
  <2> QED
    BY <2>3, <2>4, <2>5, <2>6 DEF Detach, StartClosing
<1>4. HandlesTypeOK'
  BY <1>1, <1>2, <1>3 DEF Inv, HandlesTypeOK
<1> QED
  BY <1>1, <1>2, <1>4, NoHandleKeeps

----------------------------------------------------------------------------
(* The invariant                                                           *)

\* At first there are no handles.
LEMMA InitGood == ASSUME HandlesInit PROVE Inv
<1>1. HandlesTypeOK
  <2>1. FreedConnection \in Connection /\ FreedStatement \in Statement
    BY EmptyConnection, NewStatementType
  <2>2. FreedDescriptor \in Descriptor
    BY DEF FreedDescriptor, NewDescriptor, Descriptor, Roles
  <2> QED
    BY <2>1, <2>2, EmptyTables DEF HandlesInit, HandlesTypeOK
<1>2. /\ \A c \in Conn : ~connection[c].live /\ connection[c].statement_count = 0
                         /\ \A i \in StatementSlots : connection[c].statements[i] = NULL
      /\ \A s \in Stmt : ~statement[s].live
  BY EmptyConnection, NewStatementType DEF HandlesInit
<1>3. \A e \in Env : /\ environment[e].connection_count = 0
                     /\ \A i \in ConnectionSlots : environment[e].connections[i] = NULL
  BY DEF HandlesInit, FreedEnvironment, NewEnvironment
<1>4. ParentsLive
  BY <1>2 DEF ParentsLive
<1>5. EnvironmentTables
  <2>1. \A i \in ConnectionSlots : ~(i <= 0)
    BY CapsAssumption DEF ConnectionSlots
  <2> QED
    BY <1>2, <1>3, <2>1 DEF EnvironmentTables, EnvironmentTable
<1>6. StatementTables
  <2> SUFFICES ASSUME NEW c \in Conn PROVE StatementTable(c)
    BY DEF StatementTables
  <2>1. HeldSlots(c) = {}
    BY <1>2 DEF HeldSlots
  <2>2. Cardinality(HeldSlots(c)) = 0
    BY <2>1, FS_EmptySet
  <2> QED
    BY <1>2, <2>2 DEF StatementTable
<1> QED
  BY <1>1, <1>4, <1>5, <1>6 DEF Inv

\* Nothing happens.
LEMMA StutterKeeps == ASSUME Inv, UNCHANGED handles PROVE Inv'
<1>1. HandlesTypeOK'
  BY DEF Inv, HandlesTypeOK, handles
<1> QED
  BY <1>1, NoHandleKeeps DEF handles

\* Every call keeps the tables.
LEMMA StepGood == ASSUME Inv, [HandlesNext]_handles PROVE Inv'
<1>1. CASE UNCHANGED handles
  BY <1>1, StutterKeeps
<1>2. CASE HandlesNext
  BY <1>2, AllocEnvironmentKeeps, FreeEnvironmentKeeps, AllocConnectionKeeps, FreeConnectionKeeps,
     OpenOrCloseKeeps, AllocStatementKeeps, FreeStatementKeeps, DescriptorCallKeeps
     DEF HandlesNext
<1> QED
  BY <1>1, <1>2

\* The inductive invariant of the tables: types, parents that live, and in each table the
\* live children once each, with a count that is right.
THEOREM HandlesInvariance == HandlesSpec => []Inv
<1>1. HandlesInit => Inv
  BY InitGood
<1>2. Inv /\ [HandlesNext]_handles => Inv'
  BY StepGood
<1> QED
  BY <1>1, <1>2, PTL DEF HandlesSpec

\* Whatever is allocated and freed, in whatever order, the tables of environments and
\* connections hold exactly the live handles (environment.c:77-113, connection.c:450-489).
THEOREM TablesExact == HandlesSpec => []TablesHoldTheLive
<1>1. ASSUME Inv PROVE TablesHoldTheLive
  <2>1. ASSUME NEW e \in Env
        PROVE  LET env == environment[e]
                   held == {i \in ConnectionSlots : env.connections[i] # NULL}
               IN  /\ held = 1 .. env.connection_count
                   /\ \A i, j \in held : env.connections[i] = env.connections[j] => i = j
                   /\ {env.connections[i] : i \in held} =
                        {c \in Conn : connection[c].live /\ connection[c].parent = e}
    <3> DEFINE at == environment[e].connections
               n == environment[e].connection_count
               held == {i \in ConnectionSlots : at[i] # NULL}
    <3>1. EnvironmentTable(e)
      BY <1>1 DEF Inv, EnvironmentTables
    <3>2. /\ n \in 0 .. MAX_CONNECTIONS_PER_ENVIRONMENT
          /\ \A i \in ConnectionSlots : at[i] \in Conn \union {NULL}
      BY <1>1 DEF Inv, HandlesTypeOK, Environment
    <3>3. held = 1 .. n
      BY <3>1, <3>2, CapsAssumption DEF EnvironmentTable, ConnectionSlots
    <3>4. \A i, j \in held : at[i] = at[j] => i = j
      BY <3>1 DEF EnvironmentTable
    <3>5. {at[i] : i \in held} = {c \in Conn : connection[c].live /\ connection[c].parent = e}
      BY <3>1, <3>2, NullIsNone DEF EnvironmentTable
    <3> QED
      BY <3>3, <3>4, <3>5
  <2>2. ASSUME NEW c \in Conn
        PROVE  LET conn == connection[c]
                   held == {i \in StatementSlots : conn.statements[i] # NULL}
               IN  /\ Cardinality(held) = conn.statement_count
                   /\ \A i, j \in held : conn.statements[i] = conn.statements[j] => i = j
                   /\ {conn.statements[i] : i \in held} =
                        {s \in Stmt : statement[s].live /\ statement[s].parent = c}
    <3> DEFINE at == connection[c].statements
               held == {i \in StatementSlots : at[i] # NULL}
    <3>1. StatementTable(c)
      BY <1>1 DEF Inv, StatementTables
    <3>2. \A i \in StatementSlots : at[i] \in Stmt \union {NULL}
      BY <1>1 DEF Inv, HandlesTypeOK, Connection
    <3>3. Cardinality(held) = connection[c].statement_count
      BY <3>1 DEF StatementTable, HeldSlots
    <3>4. \A i, j \in held : at[i] = at[j] => i = j
      BY <3>1 DEF StatementTable
    <3>5. {at[i] : i \in held} = {s \in Stmt : statement[s].live /\ statement[s].parent = c}
      BY <3>1, <3>2, NullIsNone DEF StatementTable
    <3> QED
      BY <3>3, <3>4, <3>5
  <2> QED
    BY <2>1, <2>2 DEF TablesHoldTheLive
<1> QED
  BY <1>1, HandlesInvariance, PTL

\* No handle outlives its parent, for any caps and any order of frees (environment.c:56,
\* connection.c:130).
THEOREM ParentsOutlive == HandlesSpec => []ParentsOutliveChildren
<1>1. Inv => ParentsOutliveChildren
  BY DEF Inv, ParentsLive, ParentsOutliveChildren
<1> QED
  BY <1>1, HandlesInvariance, PTL

----------------------------------------------------------------------------
(* Descriptors                                                             *)

\* While descriptors stay on their connection, the one a statement uses is live and at home.
LEMMA ActiveStep ==
  ASSUME ~AttachAcross, Inv, ActiveAtHome, [HandlesNext]_handles
  PROVE  ActiveAtHome'
<1> SUFFICES ASSUME NEW s \in Stmt, NEW r \in Roles,
                    statement'[s].live, statement'[s].active[r] # implicit
             PROVE  /\ descriptor'[statement'[s].active[r]].live
                    /\ descriptor'[statement'[s].active[r]].connection = statement'[s].parent
  BY DEF ActiveAtHome, implicit, Roles
<1> DEFINE d == statement[s].active[r]
<1>t. /\ statement \in [Stmt -> Statement] /\ descriptor \in [Desc -> Descriptor]
      /\ d \in Desc \union {implicit}
  BY DEF Inv, HandlesTypeOK, Statement
<1>1. CASE UNCHANGED <<statement, descriptor>>
  BY <1>1 DEF ActiveAtHome
<1>2. ASSUME NEW x \in Stmt, (\E c \in Conn : AllocStatement(c, x)) \/ FreeStatement(x)
      PROVE  /\ descriptor'[statement'[s].active[r]].live
             /\ descriptor'[statement'[s].active[r]].connection = statement'[s].parent
  <2>1. s # x
    BY <1>2, <1>t, NewStatementType DEF AllocStatement, FreeStatement
  <2>2. statement'[s] = statement[s] /\ descriptor' = descriptor
    BY <1>2, <1>t, <2>1 DEF AllocStatement, FreeStatement
  <2> QED
    BY <2>2 DEF ActiveAtHome
<1>3. ASSUME NEW c \in Conn, NEW x \in Desc, AllocDescriptor(c, x)
      PROVE  /\ descriptor'[statement'[s].active[r]].live
             /\ descriptor'[statement'[s].active[r]].connection = statement'[s].parent
  <2>1. statement' = statement /\ ~descriptor[x].live
    BY <1>3 DEF AllocDescriptor
  <2>2. d \in Desc \ {x}
    BY <2>1, <1>t DEF ActiveAtHome
  <2>3. descriptor'[d] = descriptor[d]
    BY <1>3, <1>t, <2>2 DEF AllocDescriptor
  <2> QED
    BY <2>1, <2>3 DEF ActiveAtHome
<1>4. ASSUME NEW x \in Desc, FreeDescriptor(x)
      PROVE  /\ descriptor'[statement'[s].active[r]].live
             /\ descriptor'[statement'[s].active[r]].connection = statement'[s].parent
  <2>1. /\ descriptor[x].live
        /\ statement'[s] = IF s \notin UsersOf(x) THEN statement[s]
              ELSE [statement[s] EXCEPT !.active =
                [q \in Roles |-> IF statement[s].active[q] = x THEN implicit
                                 ELSE statement[s].active[q]]]
        /\ descriptor' = [descriptor EXCEPT ![x] = FreedDescriptor]
    BY <1>4 DEF FreeDescriptor
  <2>2. /\ statement'[s].live = statement[s].live /\ statement'[s].parent = statement[s].parent
        /\ statement'[s].active[r] = IF s \in UsersOf(x) /\ d = x THEN implicit ELSE d
    <3>1. statement[s] \in Statement
      BY <1>t
    <3>2. CASE s \notin UsersOf(x)
      BY <2>1, <3>2
    <3>3. CASE s \in UsersOf(x)
      <4> DEFINE f == [q \in Roles |-> IF statement[s].active[q] = x THEN implicit
                                      ELSE statement[s].active[q]]
      <4>1. statement'[s] = [statement[s] EXCEPT !.active = f]
        BY <2>1, <3>3
      <4>2. f[r] = IF d = x THEN implicit ELSE d
        OBVIOUS
      <4> HIDE DEF f
      <4>3. /\ statement'[s].live = statement[s].live
            /\ statement'[s].parent = statement[s].parent
            /\ statement'[s].active = f
        BY <3>1, <4>1 DEF Statement
      <4> QED
        BY <3>3, <4>2, <4>3
    <3> QED
      BY <3>2, <3>3
  <2>3. d \in Desc /\ descriptor[d].live /\ descriptor[d].connection = statement[s].parent
    BY <2>2, <1>t DEF ActiveAtHome
  <2>4. d # x
    <3> SUFFICES ASSUME d = x PROVE FALSE
      OBVIOUS
    <3>1. PICK c \in Conn : c = statement[s].parent /\ c = descriptor[x].connection
      BY <2>2, <2>3 DEF Inv, ParentsLive
    <3>2. PICK i \in StatementSlots : connection[c].statements[i] = s
      BY <3>1, <2>2 DEF Inv, StatementTables, StatementTable
    <3>3. s \in UsersOf(x)
      BY <3>1, <3>2, NullIsNone DEF UsersOf
    <3> QED
      BY <3>3, <2>2
  <2> QED
    BY <2>1, <2>2, <2>3, <2>4, <1>t
<1>5. ASSUME NEW x \in Stmt, NEW q \in Roles, Detach(x, q)
      PROVE  /\ descriptor'[statement'[s].active[r]].live
             /\ descriptor'[statement'[s].active[r]].connection = statement'[s].parent
  <2>1. /\ statement'[s].live = statement[s].live /\ statement'[s].parent = statement[s].parent
        /\ statement'[s].active[r] \in {implicit, d} /\ descriptor' = descriptor
    BY <1>5, <1>t DEF Detach, Statement
  <2> QED
    BY <2>1 DEF ActiveAtHome
<1>6. ASSUME NEW x \in Stmt, NEW q \in Roles, NEW y \in Desc, Attach(x, q, y)
      PROVE  /\ descriptor'[statement'[s].active[r]].live
             /\ descriptor'[statement'[s].active[r]].connection = statement'[s].parent
  <2>1. /\ descriptor[y].live /\ descriptor[y].connection = statement[x].parent
        /\ statement' = [statement EXCEPT ![x].active[q] = y]
        /\ \A z \in Desc : /\ descriptor'[z].live = descriptor[z].live
                           /\ descriptor'[z].connection = descriptor[z].connection
    BY <1>6, <1>t DEF Attach, Descriptor
  <2>2. /\ statement'[s].live = statement[s].live /\ statement'[s].parent = statement[s].parent
        /\ statement'[s].active[r] = IF s = x /\ r = q THEN y ELSE d
    BY <2>1, <1>t DEF Statement
  <2> QED
    BY <2>1, <2>2, <1>t DEF ActiveAtHome
<1>7. CASE UNCHANGED handles
  BY <1>1, <1>7 DEF handles
<1>8. CASE \/ \E e \in Env : AllocEnvironment(e) \/ FreeEnvironment(e)
           \/ \E e \in Env, c \in Conn : AllocConnection(e, c)
           \/ \E c \in Conn : Connect(c) \/ Disconnect(c) \/ FreeConnection(c)
           \/ StartClosing
  <2>1. UNCHANGED <<statement, descriptor>>
    BY <1>8 DEF AllocEnvironment, FreeEnvironment, AllocConnection, FreeConnection, Connect,
         Disconnect, StartClosing
  <2> QED
    BY <1>1, <2>1
<1> QED
  BY <1>2, <1>3, <1>4, <1>5, <1>6, <1>7, <1>8 DEF HandlesNext

\* No statement uses a descriptor that has been freed, for any number of handles, as long as
\* no descriptor is attached to a statement of another connection (descriptor.c:106-131).
THEOREM ActiveLives == ASSUME ~AttachAcross PROVE HandlesSpec => []ActiveDescriptorLives
<1>1. HandlesInit => Inv /\ ActiveAtHome
  <2> SUFFICES ASSUME HandlesInit PROVE Inv /\ ActiveAtHome
    OBVIOUS
  <2>1. \A s \in Stmt : ~statement[s].live
    BY NewStatementType DEF HandlesInit
  <2> QED
    BY <2>1, InitGood DEF ActiveAtHome
<1>2. Inv /\ ActiveAtHome /\ [HandlesNext]_handles => (Inv /\ ActiveAtHome)'
  BY StepGood, ActiveStep
<1>3. Inv /\ ActiveAtHome => ActiveDescriptorLives
  BY DEF ActiveAtHome, ActiveDescriptorLives
<1> QED
  BY <1>1, <1>2, <1>3, PTL DEF HandlesSpec

----------------------------------------------------------------------------
(* Bindings and the records of descriptors                                 *)

\* Bindings, with no bound on the count but the number of columns bound.
CountedBindings ==
  {b \in [bound : SUBSET Columns, indicated : SUBSET Columns,
           bound_column_count : Nat, overridden : SUBSET Columns] :
     b.bound_column_count = Cardinality(b.bound)}

AllCounted == binding \in [Stmt -> CountedBindings]

----------------------------------------------------------------------------
(* Sets of columns                                                         *)

\* Sets of columns can be counted.
LEMMA ColumnsFinite ==
  \A T \in SUBSET Columns : IsFiniteSet(T) /\ Cardinality(T) \in Nat
<1>1. IsFiniteSet(Columns)
  BY FS_Interval, ColumnsAssumption DEF Columns
<1> QED
  BY <1>1, FS_Subset, FS_CardinalityType

\* The columns of a set outside todo, with those of another inside it.
LEMMA SplicedCount ==
  ASSUME NEW B \in SUBSET Columns, NEW todo \in SUBSET Columns, NEW is \in SUBSET todo
  PROVE  Cardinality((B \ todo) \union is)
         = Cardinality(B) + Cardinality(is \ (B \intersect todo))
                          - Cardinality((B \intersect todo) \ is)
<1> DEFINE was == B \intersect todo
<1>1. /\ IsFiniteSet(B) /\ Cardinality(B) \in Nat
      /\ IsFiniteSet(is) /\ Cardinality(is) \in Nat
      /\ IsFiniteSet(was) /\ Cardinality(was) \in Nat
      /\ IsFiniteSet(B \ todo) /\ Cardinality(B \ todo) \in Nat
      /\ Cardinality(is \intersect was) \in Nat
  BY ColumnsFinite
<1>2. Cardinality(B \ todo) = Cardinality(B) - Cardinality(was)
  BY <1>1, FS_Difference
<1>3. Cardinality((B \ todo) \union is) = Cardinality(B \ todo) + Cardinality(is)
  <2>1. (B \ todo) \intersect is = {}
    OBVIOUS
  <2>2. Cardinality((B \ todo) \intersect is) = 0
    BY <2>1, FS_EmptySet
  <2>3. Cardinality((B \ todo) \union is)
        = Cardinality(B \ todo) + Cardinality(is) - Cardinality((B \ todo) \intersect is)
    BY <1>1, FS_Union, Zenon
  <2> QED
    BY <1>1, <2>2, <2>3
<1>4. Cardinality(is \ was) = Cardinality(is) - Cardinality(is \intersect was)
  BY <1>1, FS_Difference
<1>5. Cardinality(was \ is) = Cardinality(was) - Cardinality(is \intersect was)
  <2>1. was \intersect is = is \intersect was
    OBVIOUS
  <2>2. Cardinality(was \ is) = Cardinality(was) - Cardinality(was \intersect is)
    BY <1>1, FS_Difference, Zenon
  <2> QED
    BY <2>1, <2>2
<1> QED
  BY <1>1, <1>2, <1>3, <1>4, <1>5

----------------------------------------------------------------------------
(* Bindings                                                                *)

\* A statement starts with nothing bound.
LEMMA NoBindingsCounted == NoBindings \in CountedBindings
BY FS_EmptySet DEF NoBindings, CountedBindings

\* Binding and unbinding keep the count.
LEMMA BindCounted ==
  ASSUME NEW b \in CountedBindings, NEW i \in Columns, NEW indicator \in BOOLEAN
  PROVE  Bind(b, i, indicator) \in CountedBindings /\ Unbind(b, i) \in CountedBindings
<1> DEFINE indicated == IF indicator THEN b.indicated \union {i} ELSE b.indicated \ {i}
<1>0. indicated \in SUBSET Columns /\ b.indicated \ {i} \in SUBSET Columns
  BY DEF CountedBindings
<1>1. /\ b.bound \in SUBSET Columns /\ b.bound_column_count = Cardinality(b.bound)
      /\ IsFiniteSet(b.bound) /\ Cardinality(b.bound) \in Nat
  BY ColumnsFinite DEF CountedBindings
<1>2. /\ Cardinality(b.bound \union {i}) = IF i \in b.bound THEN Cardinality(b.bound)
                                          ELSE Cardinality(b.bound) + 1
      /\ Cardinality(b.bound \ {i}) = IF i \in b.bound THEN Cardinality(b.bound) - 1
                                      ELSE Cardinality(b.bound)
      /\ Cardinality(b.bound \ {i}) \in Nat /\ Cardinality(b.bound \union {i}) \in Nat
  <2>1. b.bound \union {i} \in SUBSET Columns /\ b.bound \ {i} \in SUBSET Columns
    BY <1>1
  <2> QED
    BY <1>1, <2>1, FS_AddElement, FS_RemoveElement, ColumnsFinite
<1>3. Bind(b, i, indicator) \in CountedBindings
  <2> DEFINE count == IF i \in b.bound THEN b.bound_column_count
                      ELSE b.bound_column_count + 1
  <2>1. count = Cardinality(b.bound \union {i}) /\ count \in Nat
    BY <1>1, <1>2
  <2>2. b.bound \union {i} \in SUBSET Columns
    BY <1>1
  <2>3. Bind(b, i, indicator) = [b EXCEPT !.bound = b.bound \union {i}, !.indicated = indicated,
                                          !.bound_column_count = count]
    BY DEF Bind
  <2> HIDE DEF indicated, count
  <2> QED
    BY <1>0, <2>1, <2>2, <2>3 DEF CountedBindings
<1>4. Unbind(b, i) \in CountedBindings
  <2>1. /\ Unbind(b, i).bound = b.bound \ {i}
        /\ Unbind(b, i).bound_column_count = Cardinality(b.bound \ {i})
        /\ Unbind(b, i) \in [bound : SUBSET Columns, indicated : SUBSET Columns,
                             bound_column_count : Nat, overridden : SUBSET Columns]
    BY <1>0, <1>1, <1>2 DEF Unbind, CountedBindings
  <2> QED
    BY <2>1 DEF CountedBindings
<1> QED
  BY <1>3, <1>4

\* So do unbinding everything and overriding.
LEMMA OverrideCounted ==
  ASSUME NEW b \in CountedBindings, NEW i \in Columns, NEW on \in BOOLEAN
  PROVE  Override(b, i, on) \in CountedBindings /\ UnbindAll(b) \in CountedBindings
<1>1. Override(b, i, on) \in CountedBindings
  <2>1. b.overridden \union {i} \in SUBSET Columns /\ b.overridden \ {i} \in SUBSET Columns
    BY DEF CountedBindings
  <2> DEFINE overridden == IF on THEN b.overridden \union {i} ELSE b.overridden \ {i}
  <2>2. overridden \in SUBSET Columns
    BY <2>1
  <2>3. Override(b, i, on) = [b EXCEPT !.overridden = overridden]
    BY DEF Override
  <2> HIDE DEF overridden
  <2> QED
    BY <2>2, <2>3 DEF CountedBindings
<1>2. UnbindAll(b) \in CountedBindings
  <2>1. b \in [bound : SUBSET Columns, indicated : SUBSET Columns,
              bound_column_count : Nat, overridden : SUBSET Columns]
    BY DEF CountedBindings
  <2>2. /\ UnbindAll(b).bound = {} /\ UnbindAll(b).bound_column_count = 0
        /\ UnbindAll(b) \in [bound : SUBSET Columns, indicated : SUBSET Columns,
                              bound_column_count : Nat, overridden : SUBSET Columns]
    BY <2>1 DEF UnbindAll
  <2> QED
    BY <2>2, FS_EmptySet DEF CountedBindings
<1> QED
  BY <1>1, <1>2

\* So does copying, from whatever source.
LEMMA CopyCounted ==
  ASSUME NEW b \in CountedBindings, NEW source, NEW columns \in SUBSET Columns, NEW params
  PROVE  BindingsAfterCopy(b, source, columns, params) \in CountedBindings
<1> DEFINE todo == Copied(source, columns)
           was == b.bound \intersect todo
           is == {i \in todo : HasDataPtr(source, i, params)}
           override == {i \in todo : ReadOverride(source, i)}
           new == (b.bound \ todo) \union is
           count == b.bound_column_count + Cardinality(is \ was) - Cardinality(was \ is)
<1>1. todo \in SUBSET Columns
  BY DEF Copied, Readable
<1>2. b.bound \in SUBSET Columns /\ b.overridden \in SUBSET Columns
      /\ b.indicated \in SUBSET Columns /\ b.bound_column_count = Cardinality(b.bound)
  BY DEF CountedBindings
<1>3. is \in SUBSET todo /\ override \in SUBSET todo
  OBVIOUS
<1>4. BindingsAfterCopy(b, source, columns, params) =
        [bound |-> new, indicated |-> b.indicated \ todo, bound_column_count |-> count,
         overridden |-> (b.overridden \ todo) \union override]
  BY DEF BindingsAfterCopy
<1> HIDE DEF todo, is, override
<1>5. count = Cardinality(new)
  <2>1. \A c \in SUBSET todo :
          Cardinality((b.bound \ todo) \union c)
          = Cardinality(b.bound) + Cardinality(c \ (b.bound \intersect todo))
                                 - Cardinality((b.bound \intersect todo) \ c)
    BY <1>1, <1>2, SplicedCount
  <2> QED
    BY <1>2, <1>3, <2>1
<1>6. new \in SUBSET Columns /\ b.indicated \ todo \in SUBSET Columns
      /\ (b.overridden \ todo) \union override \in SUBSET Columns
  BY <1>1, <1>2, <1>3
<1>7. Cardinality(new) \in Nat
  BY <1>6, ColumnsFinite
<1> HIDE DEF new, count
<1> QED
  BY <1>4, <1>5, <1>6, <1>7 DEF CountedBindings

----------------------------------------------------------------------------
(* Calls                                                                   *)

\* A statement gets counted bindings, or there is no such statement.
LEMMA RebindKeeps ==
  ASSUME AllCounted, NEW s, NEW b, Rebind(s, b), s \in Stmt => b \in CountedBindings
  PROVE  AllCounted'
BY DEF Rebind, AllCounted

\* Allocating and freeing.
LEMMA HandleCallKeeps ==
  ASSUME AllCounted, HandleCall
  PROVE  AllCounted'
BY NoBindingsCounted DEF HandleCall, AllCounted

\* SQLBindCol, and SQLFreeStmt with SQL_UNBIND.
LEMMA BindingCallKeeps ==
  ASSUME AllCounted, BindingCall
  PROVE  AllCounted'
<1>1. ASSUME NEW s \in Stmt, NEW i \in Columns, BindCol(s, i) PROVE AllCounted'
  <2>1. binding[s] \in CountedBindings
    BY DEF AllCounted
  <2> QED
    BY <1>1, <2>1, BindCounted, RebindKeeps DEF BindCol
<1>2. ASSUME NEW s \in Stmt, FreeStmtUnbind(s) PROVE AllCounted'
  <2>1. binding[s] \in CountedBindings
    BY DEF AllCounted
  <2>2. UnbindAll(binding[s]) \in CountedBindings
    BY <2>1, FS_EmptySet DEF UnbindAll, CountedBindings
  <2> QED
    BY <1>2, <2>2, RebindKeeps DEF FreeStmtUnbind
<1> QED
  BY <1>1, <1>2 DEF BindingCall

\* Setting fields and records, and copying, through whatever leads to a statement.
LEMMA DescriptorCallCounts ==
  ASSUME AllCounted, DescriptorCall
  PROVE  AllCounted'
<1>0. ASSUME UNCHANGED binding PROVE AllCounted'
  BY <1>0 DEF AllCounted
<1>1. ASSUME NEW h \in Handle, NEW i \in Columns, SetDescField(h, i) PROVE AllCounted'
  <2> DEFINE s == Owner(h)
             b == binding[s]
  <2>1. s \in Stmt => b \in CountedBindings
    BY DEF AllCounted
  <2>2. CASE CountRecord(h, i)
    BY <1>0, <2>2 DEF CountRecord
  <2>3. CASE \/ Rebind(s, Bind(b, i, i \in b.indicated)) \/ Rebind(s, Unbind(b, i))
             \/ Rebind(s, Override(b, i, TRUE))
    <3>1. CASE Rebind(s, Bind(b, i, i \in b.indicated))
      <4>1. (i \in b.indicated) \in BOOLEAN
        OBVIOUS
      <4>2. s \in Stmt => Bind(b, i, i \in b.indicated) \in CountedBindings
        BY <2>1, <4>1, BindCounted
      <4> QED
        BY <3>1, <4>2, RebindKeeps
    <3>2. CASE Rebind(s, Unbind(b, i)) \/ Rebind(s, Override(b, i, TRUE))
      BY <2>1, <3>2, BindCounted, OverrideCounted, RebindKeeps
    <3> QED
      BY <2>3, <3>1, <3>2
  <2> QED
    BY <1>1, <2>2, <2>3 DEF SetDescField
<1>2. ASSUME NEW h \in Handle, NEW i \in Columns, SetDescRec(h, i) PROVE AllCounted'
  <2> DEFINE s == Owner(h)
             b == Override(binding[s], i, TRUE)
  <2>1. s \in Stmt => b \in CountedBindings
    BY OverrideCounted DEF AllCounted
  <2>2. CASE CountRecord(h, i)
    BY <1>0, <2>2 DEF CountRecord
  <2>3. CASE \/ \E indicator \in BOOLEAN : Rebind(s, Bind(b, i, indicator))
             \/ Rebind(s, Unbind(b, i))
    <3> HIDE DEF b
    <3> QED
      BY <2>1, <2>3, BindCounted, RebindKeeps
  <2> QED
    BY <1>2, <2>2, <2>3 DEF SetDescRec
<1>3. ASSUME NEW source \in Handle, NEW target \in CopyTargets, NEW from \in Inputs(source),
             CopyDesc(source, target, from.columns, from.params)
      PROVE  AllCounted'
  <2>1. from.columns \in SUBSET Columns
    BY ColumnsAssumption DEF Inputs, Columns, Counts
  <2> DEFINE s == Owner(target)
             b == BindingsAfterCopy(binding[s], source, from.columns, from.params)
  <2>2. s \in Stmt => b \in CountedBindings
    BY <2>1, CopyCounted DEF AllCounted
  <2>3. UNCHANGED binding \/ Rebind(s, b)
    BY <1>3 DEF CopyDesc
  <2> HIDE DEF b
  <2> QED
    BY <1>0, <2>2, <2>3, RebindKeeps
<1> QED
  BY <1>1, <1>2, <1>3 DEF DescriptorCall

\* Every call keeps the counts.
LEMMA CountsStep == ASSUME AllCounted, [Next]_vars PROVE AllCounted'
<1>1. CASE UNCHANGED vars
  BY <1>1 DEF vars, AllCounted
<1>2. ASSUME NEW h \in Handle, UseDangling(h) PROVE AllCounted'
  BY <1>2 DEF UseDangling, AllCounted
<1> QED
  BY <1>1, <1>2, HandleCallKeeps, BindingCallKeeps, DescriptorCallCounts DEF Next

\* The application starts with an environment and an open connection in it.
LEMMA StartGood == ASSUME Init PROVE Inv
<1>1. PICK e \in Env, c \in Conn :
        /\ environment = [x \in Env |-> IF x # e THEN FreedEnvironment
             ELSE [NewEnvironment EXCEPT !.connections[1] = c, !.connection_count = 1]]
        /\ connection = [x \in Conn |-> IF x # c THEN FreedConnection
             ELSE [NewConnection(e) EXCEPT !.state = "connected"]]
        /\ statement = [s \in Stmt |-> FreedStatement]
        /\ descriptor = [d \in Desc |-> FreedDescriptor]
        /\ closing = FALSE
  BY DEF Init
<1>2. 1 \in ConnectionSlots /\ \A i \in ConnectionSlots : i <= 1 <=> i = 1
  BY CapsAssumption DEF ConnectionSlots
<1>3. /\ environment[e] \in Environment /\ environment[e].live
      /\ environment[e].connection_count = 1
      /\ \A i \in ConnectionSlots :
           environment[e].connections[i] = IF i = 1 THEN c ELSE NULL
  <2>1. environment[e] = [NewEnvironment EXCEPT !.connections[1] = c, !.connection_count = 1]
    BY <1>1
  <2>2. /\ NewEnvironment.live
        /\ NewEnvironment.connections = [i \in ConnectionSlots |-> NULL]
        /\ NewEnvironment = [live |-> TRUE, connections |-> [i \in ConnectionSlots |-> NULL],
                             connection_count |-> 0]
    BY DEF NewEnvironment
  <2> DEFINE at == [NewEnvironment.connections EXCEPT ![1] = c]
  <2>3. environment[e] = [live |-> TRUE, connections |-> at, connection_count |-> 1]
    BY <2>1, <2>2
  <2>4. /\ at \in [ConnectionSlots -> Conn \union {NULL}]
        /\ \A i \in ConnectionSlots : at[i] = IF i = 1 THEN c ELSE NULL
    BY <1>2, <2>2
  <2>5. 1 \in 0 .. MAX_CONNECTIONS_PER_ENVIRONMENT
    BY CapsAssumption
  <2> HIDE DEF at
  <2> QED
    BY <2>3, <2>4, <2>5 DEF Environment
<1>4. /\ connection[c] \in Connection /\ connection[c].live /\ connection[c].parent = e
      /\ \A x \in Conn : /\ connection[x].statement_count = 0
                         /\ \A i \in StatementSlots : connection[x].statements[i] = NULL
      /\ \A x \in Conn \ {c} : ~connection[x].live
  <2>1. /\ NewConnection(e) \in Connection /\ NewConnection(e).live
        /\ NewConnection(e).parent = e /\ NewConnection(e).statement_count = 0
        /\ \A i \in StatementSlots : NewConnection(e).statements[i] = NULL
    BY EmptyConnection DEF NewConnection
  <2>2. /\ ~FreedConnection.live /\ FreedConnection.statement_count = 0
        /\ \A i \in StatementSlots : FreedConnection.statements[i] = NULL
    BY EmptyConnection DEF NewConnection, FreedConnection
  <2>3. connection[c] = [NewConnection(e) EXCEPT !.state = "connected"]
    BY <1>1
  <2>4. \A x \in Conn \ {c} : connection[x] = FreedConnection
    BY <1>1
  <2>5. /\ connection[c] \in Connection /\ connection[c].live /\ connection[c].parent = e
        /\ connection[c].statement_count = 0
        /\ \A i \in StatementSlots : connection[c].statements[i] = NULL
    BY <2>1, <2>3 DEF Connection
  <2> QED
    BY <2>2, <2>4, <2>5
<1>5. HandlesTypeOK
  <2>1. FreedConnection \in Connection /\ FreedStatement \in Statement
    BY EmptyConnection, NewStatementType
  <2>2. FreedDescriptor \in Descriptor
    BY DEF FreedDescriptor, NewDescriptor, Descriptor, Roles
  <2>3. environment \in [Env -> Environment]
    BY <1>1, <1>3, EmptyTables
  <2>4. connection \in [Conn -> Connection]
    BY <1>1, <1>4, <2>1
  <2> QED
    BY <1>1, <2>1, <2>2, <2>3, <2>4 DEF HandlesTypeOK
<1>6. \A s \in Stmt : ~statement[s].live
  BY <1>1, NewStatementType
<1>7. ParentsLive
  BY <1>3, <1>4, <1>6 DEF ParentsLive
<1>8. EnvironmentTables
  <2> SUFFICES ASSUME NEW x \in Env PROVE EnvironmentTable(x)
    BY DEF EnvironmentTables
  <2>1. CASE x = e
    BY <1>2, <1>3, <1>4, <2>1, NullIsNone DEF EnvironmentTable
  <2>2. CASE x # e
    <3>1. /\ environment[x].connection_count = 0
          /\ \A i \in ConnectionSlots : environment[x].connections[i] = NULL
      BY <1>1, <2>2 DEF FreedEnvironment, NewEnvironment
    <3>2. \A i \in ConnectionSlots : ~(i <= 0)
      BY CapsAssumption DEF ConnectionSlots
    <3> QED
      BY <1>4, <2>2, <3>1, <3>2 DEF EnvironmentTable
  <2> QED
    BY <2>1, <2>2
<1>9. StatementTables
  <2> SUFFICES ASSUME NEW x \in Conn PROVE StatementTable(x)
    BY DEF StatementTables
  <2>1. HeldSlots(x) = {}
    BY <1>4 DEF HeldSlots
  <2>2. Cardinality(HeldSlots(x)) = 0
    BY <2>1, FS_EmptySet
  <2> QED
    BY <1>4, <1>6, <2>2 DEF StatementTable
<1> QED
  BY <1>5, <1>7, <1>8, <1>9 DEF Inv

\* The calls of this module leave the tables of Handles as they should be.
LEMMA TablesStep == ASSUME Inv, [Next]_vars PROVE Inv'
<1>1. CASE HandleCall
  BY <1>1, AllocStatementKeeps, FreeStatementKeeps, DescriptorCallKeeps DEF HandleCall
<1>2. CASE UNCHANGED handles
  BY <1>2, StutterKeeps
<1> QED
  BY <1>1, <1>2 DEF Next, vars, BindingCall, DescriptorCall, UseDangling

\* A descriptor of its own never counts a record beyond the limit, whether a call sets one
\* record or copies many.
LEMMA RecordsStep ==
  ASSUME record_count \in [Desc -> Counts], [Next]_vars
  PROVE  record_count' \in [Desc -> Counts]
<1>1. CASE UNCHANGED record_count
  BY <1>1
<1>2. CASE HandleCall
  BY <1>2, ColumnsAssumption DEF HandleCall, Counts
<1>3. CASE BindingCall
  BY <1>1, <1>3 DEF BindingCall, BindCol, FreeStmtUnbind, Rebind
<1>4. ASSUME NEW h \in Handle, NEW i \in Columns, CountRecord(h, i)
      PROVE  record_count' \in [Desc -> Counts]
  <2> DEFINE n == IF i > record_count[h.explicit] THEN i ELSE record_count[h.explicit]
  <2>1. h.explicit \in Desc => n \in Counts
    BY ColumnsAssumption DEF Columns, Counts
  <2>2. record_count' = [record_count EXCEPT ![h.explicit] = n]
    BY <1>4 DEF CountRecord
  <2> HIDE DEF n
  <2> QED
    BY <2>1, <2>2
<1>5. ASSUME NEW source \in Handle, NEW target \in CopyTargets, NEW from \in Inputs(source),
             CopyDesc(source, target, from.columns, from.params)
      PROVE  record_count' \in [Desc -> Counts]
  <2>1. CASE UNCHANGED record_count
    BY <1>1, <2>1
  <2>2. CASE \E n \in Copied(source, from.columns) \union {record_count[target.explicit]} :
               record_count' = [record_count EXCEPT ![target.explicit] = n]
    <3>1. Copied(source, from.columns) \in SUBSET Counts
      BY ColumnsAssumption DEF Copied, Readable, Inputs, Columns, Counts
    <3> QED
      BY <2>2, <3>1
  <2> QED
    BY <1>5, <2>1, <2>2 DEF CopyDesc, Rebind
<1>6. CASE DescriptorCall
  <2>1. ASSUME NEW h \in Handle, NEW i \in Columns, SetDescField(h, i) \/ SetDescRec(h, i)
        PROVE  record_count' \in [Desc -> Counts]
    BY <1>1, <1>4, <2>1 DEF SetDescField, SetDescRec, Rebind
  <2> QED
    BY <1>5, <1>6, <2>1 DEF DescriptorCall
<1> QED
  BY <1>1, <1>2, <1>3, <1>6 DEF Next, vars, UseDangling

\* A count of bound columns is a count of columns, and so within the limit.
LEMMA CountedWithinLimit == CountedBindings \subseteq Bindings
<1> SUFFICES ASSUME NEW b \in CountedBindings PROVE b \in Bindings
  OBVIOUS
<1>1. IsFiniteSet(Columns) /\ Cardinality(Columns) = MAX_BOUND_COLUMNS
  <2>1. IsFiniteSet(1 .. MAX_BOUND_COLUMNS) /\ Cardinality(1 .. MAX_BOUND_COLUMNS)
          = IF 1 > MAX_BOUND_COLUMNS THEN 0 ELSE MAX_BOUND_COLUMNS - 1 + 1
    BY FS_Interval, ColumnsAssumption
  <2> QED
    BY <2>1, ColumnsAssumption DEF Columns
<1>2. b.bound \in SUBSET Columns /\ Cardinality(b.bound) \in Nat
  BY ColumnsFinite DEF CountedBindings
<1>3. Cardinality(b.bound) <= MAX_BOUND_COLUMNS
  BY <1>1, <1>2, FS_Subset
<1> QED
  BY <1>2, <1>3, ColumnsAssumption DEF CountedBindings, Bindings, Counts

\* Every call keeps bindings and records to the values the structures can hold: no column is
\* counted beyond the limit, because a bound column is never counted twice
\* (column_binding.c:18-58, descriptor.c:374-470).
THEOREM DescriptorTypes == Spec => []TypeOK
<1> DEFINE Records == record_count \in [Desc -> Counts] /\ stale_access \in BOOLEAN
<1>1. Init => Inv /\ AllCounted /\ Records
  <2>1. Init => Records
    <3>1. Init => record_count = [d \in Desc |-> 0] /\ stale_access = FALSE
      BY DEF Init
    <3>2. 0 \in Counts
      BY ColumnsAssumption DEF Counts
    <3> QED
      BY <3>1, <3>2
  <2>2. Init => Inv /\ AllCounted
    BY StartGood, NoBindingsCounted DEF Init, AllCounted
  <2> QED
    BY <2>1, <2>2
<1>2. Inv /\ AllCounted /\ Records /\ [Next]_vars => Inv' /\ AllCounted' /\ Records'
  <2>1. Records /\ [Next]_vars => stale_access' \in BOOLEAN
    BY DEF Next, vars, HandleCall, BindingCall, DescriptorCall, UseDangling
  <2> QED
    BY <2>1, CountsStep, TablesStep, RecordsStep
<1>3. Inv /\ AllCounted /\ Records => TypeOK
  BY CountedWithinLimit DEF Inv, AllCounted, TypeOK
<1> QED
  BY <1>1, <1>2, <1>3, PTL DEF Spec

\* Whichever entry point binds or unbinds, and however often, bound_column_count is the number
\* of bound columns (column_binding.c, descriptor.c:374-470).
THEOREM BoundCounts == Spec => []BoundCountsAgree
<1>1. Init => AllCounted
  BY NoBindingsCounted DEF Init, AllCounted
<1>2. AllCounted /\ [Next]_vars => AllCounted'
  BY CountsStep
<1>3. AllCounted => BoundCountsAgree
  BY DEF AllCounted, BoundCountsAgree, CountedBindings
<1> QED
  BY <1>1, <1>2, <1>3, PTL DEF Spec

\* Copying a row descriptor that keeps no records of its own to another, or to itself, leaves
\* the target with the columns bound in the source, their number and their overrides, whatever
\* it had before, and without the indicators of either (descriptor.c:820-868).
THEOREM CopyReproduces == Spec => []CopyReproducesBindings
<1>1. Init => Inv /\ AllCounted
  BY StartGood, NoBindingsCounted DEF Init, AllCounted
<1>2. Inv /\ AllCounted /\ [Next]_vars => Inv' /\ AllCounted'
  BY CountsStep, TablesStep
<1>3. ASSUME Inv, AllCounted PROVE CopyReproducesBindings
  <2> SUFFICES ASSUME NEW source \in Handle, NEW target \in Handle,
                      Serves(source, "ard"), Serves(target, "ard"),
                      IsExplicit(source) => record_count[source.explicit] = 0
               PROVE  BindingsAfterCopy(binding[Owner(target)], source, {}, {})
                      = [binding[Owner(source)] EXCEPT !.indicated = {}]
    BY DEF CopyReproducesBindings
  <2>1. \A h \in Handle : Serves(h, "ard") => Owner(h) \in Stmt
    <3> SUFFICES ASSUME NEW h \in Handle, Serves(h, "ard") PROVE Owner(h) \in Stmt
      OBVIOUS
    <3>1. CASE IsExplicit(h)
      <4>1. h \in Explicit
        BY <3>1 DEF Handle, Implicit, IsExplicit
      <4>2. h.explicit \in Desc
        BY <4>1 DEF Explicit
      <4>3. descriptor[h.explicit].owning_statement \in Stmt \union {NULL}
        BY <1>3, <4>2 DEF Inv, HandlesTypeOK, Descriptor
      <4> QED
        BY <3>1, <4>3 DEF Serves, Detached, Owner
    <3>2. CASE ~IsExplicit(h)
      <4>1. h \in Implicit
        BY <3>2 DEF Handle, Explicit, IsExplicit
      <4> QED
        BY <3>2, <4>1 DEF Implicit, Owner
    <3> QED
      BY <3>1, <3>2
  <2>2. PICK from \in CountedBindings, b \in CountedBindings :
          from = binding[Owner(source)] /\ b = binding[Owner(target)]
    BY <1>3, <2>1 DEF AllCounted
  <2>3. Copied(source, {}) = Columns
    <3>1. Readable(source, {}) = Columns
      BY DEF Readable, Serves
    <3>2. CopyLimit(source) = MAX_BOUND_COLUMNS
      BY ColumnsAssumption DEF CopyLimit
    <3> QED
      BY <3>1, <3>2 DEF Copied, Columns
  <2>4. /\ {i \in Columns : HasDataPtr(source, i, {})} = from.bound
        /\ {i \in Columns : ReadOverride(source, i)} = from.overridden
    <3>1. from.bound \in SUBSET Columns /\ from.overridden \in SUBSET Columns
      BY DEF CountedBindings
    <3>2. \A i \in Columns : HasDataPtr(source, i, {}) <=> i \in from.bound
      BY <2>2 DEF HasDataPtr, Serves
    <3>3. \A i \in Columns : ReadOverride(source, i) <=> i \in from.overridden
      BY <2>2 DEF ReadOverride
    <3> QED
      BY <3>1, <3>2, <3>3
  <2>5. /\ b.bound \in SUBSET Columns /\ b.overridden \in SUBSET Columns
        /\ b.indicated \in SUBSET Columns
        /\ from.bound \in SUBSET Columns /\ from.overridden \in SUBSET Columns
        /\ b.bound_column_count = Cardinality(b.bound)
        /\ from.bound_column_count = Cardinality(from.bound)
    BY DEF CountedBindings
  <2>6. b.bound \intersect Columns = b.bound /\ b.bound \ Columns = {}
        /\ b.overridden \ Columns = {} /\ b.indicated \ Columns = {}
    BY <2>5
  <2>7. Cardinality(from.bound) = Cardinality(b.bound) + Cardinality(from.bound \ b.bound)
                                                       - Cardinality(b.bound \ from.bound)
    <3>1. (b.bound \ Columns) \union from.bound = from.bound
      BY <2>6
    <3>2. from.bound \in SUBSET Columns /\ Columns \in SUBSET Columns
      BY <2>5
    <3>3. Cardinality((b.bound \ Columns) \union from.bound)
          = Cardinality(b.bound) + Cardinality(from.bound \ (b.bound \intersect Columns))
                                 - Cardinality((b.bound \intersect Columns) \ from.bound)
      <4>1. \A c \in SUBSET Columns :
              Cardinality((b.bound \ Columns) \union c)
              = Cardinality(b.bound) + Cardinality(c \ (b.bound \intersect Columns))
                                     - Cardinality((b.bound \intersect Columns) \ c)
        BY <2>5, <3>2, SplicedCount
      <4> QED
        BY <3>2, <4>1
    <3> QED
      BY <2>6, <3>1, <3>3
  <2>8. BindingsAfterCopy(b, source, {}, {}) =
          [bound |-> from.bound, indicated |-> {},
           bound_column_count |-> from.bound_column_count,
           overridden |-> from.overridden]
    BY <2>3, <2>4, <2>5, <2>6, <2>7 DEF BindingsAfterCopy
  <2>9. [from EXCEPT !.indicated = {}]
        = [bound |-> from.bound, indicated |-> {},
           bound_column_count |-> from.bound_column_count,
           overridden |-> from.overridden]
    BY DEF CountedBindings
  <2> QED
    BY <2>2, <2>8, <2>9
<1> QED
  BY <1>1, <1>2, <1>3, PTL DEF Spec
=============================================================================
