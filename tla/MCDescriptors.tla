---------------------------- MODULE MCDescriptors ----------------------------
EXTENDS Descriptors, TLC

Symmetric == Permutations(Stmt)

\* A descriptor serves one statement, the last it was attached to: where it was attached
\* before makes no difference to bindings, and is kept to one place.
OnePlace ==
  \A d \in Desc :
    Cardinality({use \in Stmt \X Roles : statement[use[1]].active[use[2]] = d}) <= 1
=============================================================================
