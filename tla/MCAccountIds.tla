---------------------------- MODULE MCAccountIds ----------------------------
EXTENDS AccountIds, TLC
Symmetry == Permutations(Person) \cup Permutations(Ticket)
=============================================================================
