---------------------------- MODULE MCLoginFlow ----------------------------
EXTENDS LoginFlow, TLC
Symmetry == Permutations(Account) \cup Permutations(Phone) \cup Permutations(Req)
============================================================================
