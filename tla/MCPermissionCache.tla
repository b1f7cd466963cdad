-------------------------- MODULE MCPermissionCache --------------------------
EXTENDS PermissionCache, TLC

Symmetry == Permutations(Readers) \cup Permutations(Writers)
=============================================================================
