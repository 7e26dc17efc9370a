----------------------------- MODULE MCIdentity -----------------------------
EXTENDS Identity, TLC

Symmetry == Permutations(Proc) \cup Permutations(Token) \cup Permutations(Code)
=============================================================================
