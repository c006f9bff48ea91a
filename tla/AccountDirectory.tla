--------------------------- MODULE AccountDirectory ---------------------------
(***************************************************************************)
(* What the users table promises as a directory of log-in names: a phone   *)
(* number or an e-mail address belongs to one account or to nobody, an     *)
(* account has at most one of each kind, and a name never passes from one  *)
(* account straight to another: its owner lets go of it first.             *)
(***************************************************************************)
CONSTANTS User, Phone, Email, Nobody

VARIABLE owner

Names == Phone \cup Email

NamesOf(u) == { x \in Names : owner[x] = u }

OneOfAKind(S) ==
    \A x, y \in S : (x \in Phone <=> y \in Phone) => x = y

DInit ==
    /\ owner \in [Names -> User \cup {Nobody}]
    /\ \A u \in User : OneOfAKind(NamesOf(u))

\* The names of one account become S; those it takes were nobody's.
Rebind(u, S) ==
    /\ OneOfAKind(S)
    /\ \A x \in S : owner[x] \in {u, Nobody}
    /\ owner' = [x \in Names |-> IF x \in S THEN u
                                 ELSE IF owner[x] = u THEN Nobody ELSE owner[x]]

DNext == \E u \in User, S \in SUBSET Names : Rebind(u, S)

Directory == DInit /\ [][DNext]_owner
=============================================================================
