-------------------------- MODULE SessionContract --------------------------
(***************************************************************************)
(* What the token store promises to the devices of a user, with no tables, *)
(* clocks or restarts.  A token (the access/refresh pair handed to one     *)
(* device) is first unissued, then held by one user, then dead for good.   *)
(* A login adds one token and disturbs no other; a refresh trades exactly  *)
(* one token for exactly one new one of the same user; everything else the *)
(* server does to tokens can only withdraw them.                           *)
(***************************************************************************)

CONSTANTS Token, User, Unissued, Dead

VARIABLE holder

Held == { t \in Token : holder[t] \in User }

CInit == holder \in [Token -> User \cup {Unissued, Dead}]

Login(u, t) ==
    /\ holder[t] = Unissued
    /\ holder' = [holder EXCEPT ![t] = u]

Rotate(old, new) ==
    /\ holder[old] \in User
    /\ holder[new] = Unissued
    /\ holder' = [holder EXCEPT ![new] = holder[old], ![old] = Dead]

Withdraw(T) ==
    /\ T # {}
    /\ holder' = [t \in Token |-> IF t \in T THEN Dead ELSE holder[t]]

CNext ==
    \/ \E u \in User, t \in Token : Login(u, t)
    \/ \E old, new \in Token : Rotate(old, new)
    \/ \E T \in SUBSET Held : Withdraw(T)

Contract == CInit /\ [][CNext]_holder
=============================================================================
