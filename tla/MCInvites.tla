----------------------------- MODULE MCInvites -----------------------------
EXTENDS Invites, TLC

Symmetry == Permutations(Users) \cup Permutations(Requests)
=============================================================================
