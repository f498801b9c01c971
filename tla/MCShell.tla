------------------------------ MODULE MCShell ------------------------------
EXTENDS Shell

NameSymmetry == Permutations(Names)
=============================================================================
