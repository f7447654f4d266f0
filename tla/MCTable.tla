------------------------------ MODULE MCTable ------------------------------
\* Table for TLC.
EXTENDS Table, TLC

Symmetry == Permutations(Users)
=============================================================================
