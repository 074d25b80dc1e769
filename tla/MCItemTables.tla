---------------------------- MODULE MCItemTables ----------------------------
EXTENDS ItemTables, TLC

\* Characters are interchangeable.
Symmetry == Permutations(Charas)
=============================================================================
