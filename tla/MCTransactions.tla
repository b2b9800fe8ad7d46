--------------------------- MODULE MCTransactions ---------------------------
EXTENDS Transactions, TLC
Interchangeable == Permutations(Work) \union Permutations(Stmts)
=============================================================================
