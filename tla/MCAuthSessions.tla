--------------------------- MODULE MCAuthSessions ---------------------------
(* A small instance of AuthSessions for TLC. *)
EXTENDS AuthSessions, TLC

Symm == Permutations(User) \cup Permutations(Session) \cup Permutations(Token)
=============================================================================
