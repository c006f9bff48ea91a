------------------------------ MODULE MCBindings ------------------------------
(* A small instance of Bindings for TLC.  A model value is never a record, so *)
(* TombstoneAssumption holds.                                                *)
EXTENDS Bindings, TLC

Symm == Permutations(User) \cup Permutations(Phone) \cup Permutations(Email)
        \cup Permutations(Handler)
=============================================================================
