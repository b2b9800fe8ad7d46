------------------------ MODULE MCPreparedStatements ------------------------
EXTENDS PreparedStatements, TLC

Interchangeable == Permutations(Statement) \union Permutations(Single)
=============================================================================
