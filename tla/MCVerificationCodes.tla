------------------------- MODULE MCVerificationCodes -------------------------
(* Small instances of VerificationCodes for TLC: an e-mail address or a paced *)
(* number, and an unpaced number.                                            *)
EXTENDS VerificationCodes, TLC

CONSTANTS mail, phone, c1, c2, login, bind

Virtual == [p \in Phone |-> c1]
TwoMirrors == <<login, bind>>
LoginOrBind == {<<login>>, <<bind, login>>}
OneMirror == <<login>>
OnlyLogin == {<<login>>}

\* Sound for the codes too when every number is paced: Virtual is not used.
Symm == Permutations(Process) \cup Permutations(Code)
=============================================================================
