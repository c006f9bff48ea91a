------------------------------- MODULE Bindings -------------------------------
(***************************************************************************)
(* The names an account can be reached by: the phone and email columns of  *)
(* users, their unique indexes, and everything that writes them            *)
(* (internal/store/bindings.go, createUser and DeleteUser in store.go,     *)
(* RestoreUser and HardDeleteUser in admin.go, accountUnbind in            *)
(* internal/app/international.go).                                         *)
(*                                                                         *)
(* The phone column holds the e-mail address of an account without a phone *)
(* number, and a tombstone (the name, then "#deleted#" and the time) of a  *)
(* deleted account.  Each transaction is one action; unbinding and         *)
(* restoring are requests of several statements.                           *)
(***************************************************************************)
EXTENDS Naturals

CONSTANTS
    User,        \* account ids
    Phone, Email,
    None,        \* null, or the empty string
    Handler,     \* requests the server handles at the same time
    Nobody,      \* the owner of a free name
    MaxTime      \* bound of the clock, for TLC only

Names == Phone \cup Email

Tombstones == [of : Names, at : Nat]

ASSUME NamesAssumption == Phone \cap Email = {} /\ None \notin Names
ASSUME TombstoneAssumption == Tombstones \cap (Names \cup {None}) = {}
ASSUME NobodyAssumption == Nobody \notin User
ASSUME MaxTimeAssumption == MaxTime \in Nat

VARIABLES
    clock,
    users,    \* the columns of users
    req       \* the requests being handled

vars == <<clock, users, req>>

UserRow == [state : {"absent", "live", "deleted", "gone"},
            phone : Names \cup Tombstones \cup {None},
            email : Email \cup {None}]

NoUser == [state |-> "absent", phone |-> None, email |-> None]

Idle == [step |-> "idle"]

Unbinding == [step : {"read", "verify"}, user : User, phone : Names,
              kind : {"phone", "email"}, retained : Names \cup {None}]

Restoring == [step : {"restore"}, user : User, name : Names]

Live(u) == users[u].state = "live"

Exists(u) == users[u].state \in {"live", "deleted"}

Reaches(x, row) == row.state = "live" /\ (row.phone = x \/ row.email = x)

\* userByPhone finds account u under the name x
Has(u, x) == Reaches(x, users[u])

\* The unique indexes on phone and, where it is not null, on email.
Unique(u, phone, email) ==
    \A v \in User \ {u} : Exists(v) =>
        users[v].phone # phone /\ (email # None => users[v].email # email)

\* Any database as Open leaves it (initBindings has filled the email column
\* of the accounts of older releases).
Init ==
    /\ clock = 0
    /\ users \in [User -> {NoUser} \cup
                    { [state |-> "live", phone |-> x,
                       email |-> IF x \in Email THEN x ELSE None] : x \in Names }]
    /\ \A u, v \in User : users[u].phone = users[v].phone /\ users[u].phone # None => u = v
    /\ req = [h \in Handler |-> Idle]

-----------------------------------------------------------------------------
(* Accounts *)

\* mutant: a new account with no phone number leaves its email column empty
BarePrimary(phone, email) ==
    [state |-> "live", phone |-> IF phone = None THEN email ELSE phone,
     email |-> IF phone = None THEN None ELSE email]

\* The columns of an account with these bindings (validateBindings: not both
\* empty): the e-mail address stands in for a missing phone number.
Columns(phone, email) ==
    [state |-> "live", phone |-> IF phone = None THEN email ELSE phone, email |-> email]

\* The statement that writes u's bindings, unless an index refuses it.
Bind(u, phone, email) ==
    /\ phone # None \/ email # None
    /\ Unique(u, Columns(phone, email).phone, Columns(phone, email).email)
    /\ users' = [users EXCEPT ![u] = Columns(phone, email)]

\* createUser with a phone number, CreateAccount with either or both.
CreateAccount(u, phone, email) ==
    /\ users[u].state = "absent"
    /\ Bind(u, phone, email)
    /\ UNCHANGED <<clock, req>>

CurrentPhone(u) == IF users[u].phone \in Email THEN None ELSE users[u].phone
CurrentEmail(u) == IF users[u].phone \in Email THEN users[u].phone ELSE users[u].email

\* updateBindings for an administrator or, with one new name, for the user:
\* either binding is replaced, removed or kept as the transaction finds it.
UpdateBindings(u, phone, email) ==
    /\ Live(u)
    /\ Bind(u, phone, email)
    /\ UNCHANGED <<clock, req>>

\* mutant: the columns of the deleted account keep its e-mail address
BuriedPhone(u) ==
    [users[u] EXCEPT !.state = "deleted", !.phone = [of |-> users[u].phone, at |-> clock]]

\* the update of DeleteUser and CompleteCancellation
Buried(u) ==
    [state |-> "deleted", phone |-> [of |-> users[u].phone, at |-> clock], email |-> None]

\* Two accounts deleted in the same second under the same name collide, and
\* the second deletion fails.
DeleteUser(u) ==
    /\ Live(u)
    /\ Unique(u, Buried(u).phone, None)
    /\ users' = [users EXCEPT ![u] = Buried(u)]
    /\ UNCHANGED <<clock, req>>

HardDeleteUser(u) ==
    /\ Exists(u)
    /\ users' = [users EXCEPT ![u] = [NoUser EXCEPT !.state = "gone"]]
    /\ UNCHANGED <<clock, req>>

-----------------------------------------------------------------------------
(* RestoreUser reads the phone column, derives the name from it unless the *)
(* administrator gives one, and writes in a second statement.  It accepts  *)
(* a live account.                                                         *)

BaseName(u) == IF users[u].phone \in Tombstones THEN users[u].phone.of ELSE users[u].phone

BeginRestore(h, u, name) ==
    /\ req[h] = Idle
    /\ Exists(u)
    /\ req' = [req EXCEPT ![h] = [step |-> "restore", user |-> u, name |-> name]]
    /\ UNCHANGED <<clock, users>>

\* mutant: an e-mail address is restored to the phone column only
RestoredBare(x) == [state |-> "live", phone |-> x, email |-> None]

\* the columns RestoreUser writes
Restored(x) ==
    [state |-> "live", phone |-> x, email |-> IF x \in Email THEN x ELSE None]

FinishRestore(h) ==
    LET u == req[h].user
        row == Restored(req[h].name)
    IN  /\ req[h].step = "restore"
        /\ users' = IF Exists(u) /\ Unique(u, row.phone, row.email)
                    THEN [users EXCEPT ![u] = row] ELSE users
        /\ req' = [req EXCEPT ![h] = Idle]
        /\ UNCHANGED clock

-----------------------------------------------------------------------------
(* accountUnbind: the token gives the phone column, a second query the     *)
(* email column; a code sent to the binding that stays is verified; then   *)
(* the other binding is removed.                                           *)

BeginUnbind(h, u, kind) ==
    /\ req[h] = Idle
    /\ Live(u)
    /\ req' = [req EXCEPT ![h] = [step |-> "read", user |-> u, phone |-> users[u].phone,
                                  kind |-> kind, retained |-> None]]
    /\ UNCHANGED <<clock, users>>

\* AccountBindings, and the refusal to remove the only binding
Retained(h) ==
    LET phone == IF req[h].phone \in Email THEN None ELSE req[h].phone
        email == IF req[h].phone \in Email THEN req[h].phone ELSE users[req[h].user].email
    IN  IF req[h].kind = "phone" THEN email ELSE phone

ReadBindings(h) ==
    /\ req[h].step = "read"
    /\ req' = [req EXCEPT ![h] = IF Retained(h) = None THEN Idle
                                 ELSE [@ EXCEPT !.step = "verify", !.retained = Retained(h)]]
    /\ UNCHANGED <<clock, users>>

\* mutant: the bindings are not compared again with the ones read before
AnyRetained(h) == TRUE

\* "绑定信息已变更": the binding that stays is still the verified one
StillRetained(h) ==
    LET u == req[h].user
    IN  req[h].retained = IF req[h].kind = "phone" THEN CurrentEmail(u) ELSE CurrentPhone(u)

\* UnbindVerified, once the code has been accepted; if it refuses, nothing
\* changes.
UnbindVerified(h) ==
    LET u == req[h].user
    IN  /\ req[h].step = "verify"
        /\ Live(u)
        /\ StillRetained(h)
        /\ IF req[h].kind = "phone" THEN Bind(u, None, CurrentEmail(u))
           ELSE Bind(u, CurrentPhone(u), None)
        /\ req' = [req EXCEPT ![h] = Idle]
        /\ UNCHANGED clock

\* A wrong code, a refusal, or a stop of the server: the request is over.
Abandon(h) ==
    /\ req[h] # Idle
    /\ req' = [req EXCEPT ![h] = Idle]
    /\ UNCHANGED <<clock, users>>

Tick ==
    /\ clock < MaxTime
    /\ clock' = clock + 1
    /\ UNCHANGED <<users, req>>

Next ==
    \/ \E u \in User, p \in Phone \cup {None}, e \in Email \cup {None} : CreateAccount(u, p, e)
    \/ \E u \in User, p \in Phone \cup {None}, e \in Email \cup {None} : UpdateBindings(u, p, e)
    \/ \E u \in User : DeleteUser(u)
    \/ \E u \in User : HardDeleteUser(u)
    \/ \E h \in Handler, u \in User :
          \E name \in Names \cup (IF Exists(u) THEN {BaseName(u)} ELSE {}) :
              BeginRestore(h, u, name)
    \/ \E h \in Handler : FinishRestore(h)
    \/ \E h \in Handler, u \in User, kind \in {"phone", "email"} : BeginUnbind(h, u, kind)
    \/ \E h \in Handler : ReadBindings(h)
    \/ \E h \in Handler : UnbindVerified(h)
    \/ \E h \in Handler : Abandon(h)
    \/ Tick

Spec == Init /\ [][Next]_vars
-----------------------------------------------------------------------------
(* Properties *)

WellFormed(row) ==
    CASE row.state = "live" -> row.phone \in Names
      [] row.state = "deleted" -> row.phone \in Tombstones /\ row.email = None
      [] OTHER -> row.phone = None /\ row.email = None

\* The columns have their types: a live account has a name, a deleted one a
\* tombstone, and requests carry names.
TypeOK ==
    /\ clock \in Nat
    /\ users \in [User -> UserRow]
    /\ \A u \in User : WellFormed(users[u])
    /\ req \in [Handler -> {Idle} \cup Unbinding \cup Restoring]

\* A name that someone can log in with leads to one account only, whichever
\* of the two columns it is found in.
OneAccountPerName ==
    \A x \in Names, u, v \in User : Has(u, x) /\ Has(v, x) => u = v

\* What an unbinding leaves is the very name whose code the request verified,
\* however the bindings changed while the user typed it.
UnbindKeepsVerified ==
    [][\A h \in Handler :
          req[h].step = "verify" /\ users' # users /\ req'[h] = Idle
          => \A x \in Names : Reaches(x, users'[req[h].user]) => x = req[h].retained]_vars

\* The inductive strengthening: the indexes hold, and an account that is
\* reached by an e-mail address has it in the email column.
ColumnsUnique ==
    \A u, v \in User : u # v /\ Exists(u) /\ Exists(v) =>
        /\ users[u].phone # users[v].phone
        /\ users[u].email # None => users[u].email # users[v].email

EmailStandsIn ==
    \A u \in User : Live(u) /\ users[u].phone \in Email => users[u].email = users[u].phone

IInv == TypeOK /\ ColumnsUnique /\ EmailStandsIn

Owner(x) ==
    IF \E u \in User : Has(u, x) THEN CHOOSE u \in User : Has(u, x) ELSE Nobody

AD == INSTANCE AccountDirectory WITH owner <- [x \in Phone \cup Email |-> Owner(x)]

\* Every statement changes the names of one account, and takes only free ones.
ImplementsDirectory == AD!Directory
=============================================================================
