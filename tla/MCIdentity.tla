----------------------------- MODULE MCIdentity -----------------------------
EXTENDS Identity, TLC

Symmetry == Permutations(Tabs) \cup Permutations(Keys)
=============================================================================
