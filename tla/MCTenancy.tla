----------------------------- MODULE MCTenancy -----------------------------
EXTENDS Tenancy, TLC

Symmetry == Permutations(Users) \cup Permutations(Requests)
=============================================================================
