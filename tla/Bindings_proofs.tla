---------------------------- MODULE Bindings_proofs ----------------------------
(***************************************************************************)
(* Proofs about Bindings, for any sets of accounts, names and requests:    *)
(* the invariant IInv is inductive, a name leads to one account, an        *)
(* unbinding leaves the verified name, and the table implements            *)
(* AccountDirectory.  Every statement writes one row; SoundRow says what   *)
(* that row must be, and all the rest follows from it.                     *)
(***************************************************************************)
EXTENDS Bindings, TLAPS

\* What a statement may write into the row of account u.
SoundRow(u, row) ==
    /\ row \in UserRow
    /\ WellFormed(row)
    /\ row.state = "live" /\ row.phone \in Email => row.email = row.phone
    /\ row.state \in {"live", "deleted"} => Unique(u, row.phone, row.email)

\* The step writes a sound row, or none at all.
WritesOneRow ==
    \/ users' = users
    \/ \E u \in User, row \in UserRow : SoundRow(u, row) /\ users' = [users EXCEPT ![u] = row]

RequestsTyped == req' \in [Handler -> {Idle} \cup Unbinding \cup Restoring]

-----------------------------------------------------------------------------
(* The rows that the statements write are sound *)

LEMMA ColumnsSound ==
    ASSUME NEW u \in User, NEW p \in Phone \cup {None}, NEW e \in Email \cup {None}, Bind(u, p, e)
    PROVE  WritesOneRow
<1>1. Columns(p, e) \in UserRow /\ Columns(p, e).state = "live"
      /\ Columns(p, e).phone \in Names /\ Columns(p, e).email = e
  BY DEF Bind, Columns, UserRow, Names
<1>2. Columns(p, e).phone \in Email => Columns(p, e).phone = e
  BY NamesAssumption DEF Bind, Columns, Names
<1>3. SoundRow(u, Columns(p, e))
  BY <1>1, <1>2 DEF SoundRow, WellFormed, Bind
<1> QED
  BY <1>1, <1>3 DEF Bind, WritesOneRow

LEMMA RestoredSound ==
    ASSUME NEW u \in User, NEW x \in Names, Unique(u, Restored(x).phone, Restored(x).email)
    PROVE  Restored(x) \in UserRow /\ SoundRow(u, Restored(x))
<1>1. Restored(x) \in UserRow /\ Restored(x).state = "live" /\ Restored(x).phone = x
      /\ (x \in Email => Restored(x).email = x)
  BY DEF Restored, UserRow, Names
<1> QED
  BY <1>1 DEF SoundRow, WellFormed

LEMMA BuriedSound ==
    ASSUME TypeOK, NEW u \in User, Live(u), Unique(u, Buried(u).phone, None)
    PROVE  Buried(u) \in UserRow /\ SoundRow(u, Buried(u))
<1>1. users[u].phone \in Names /\ clock \in Nat
  BY DEF TypeOK, WellFormed, Live
<1>2. Buried(u) \in UserRow /\ Buried(u).state = "deleted" /\ Buried(u).email = None
      /\ Buried(u).phone \in Tombstones
  BY <1>1 DEF Buried, UserRow, Tombstones
<1> QED
  BY <1>2 DEF SoundRow, WellFormed

LEMMA GoneSound ==
    ASSUME NEW u \in User
    PROVE  LET row == [NoUser EXCEPT !.state = "gone"] IN row \in UserRow /\ SoundRow(u, row)
BY DEF NoUser, UserRow, SoundRow, WellFormed

\* Every action writes at most one row, and that row is sound.
LEMMA OneRowPerStep ==
    ASSUME IInv, [Next]_vars
    PROVE  WritesOneRow /\ RequestsTyped /\ clock' \in Nat
<1> USE DEF IInv
<1>1. ASSUME NEW u \in User, NEW p \in Phone \cup {None}, NEW e \in Email \cup {None},
             CreateAccount(u, p, e)
      PROVE  WritesOneRow /\ RequestsTyped /\ clock' \in Nat
  BY <1>1, ColumnsSound DEF CreateAccount, TypeOK, RequestsTyped
<1>2. ASSUME NEW u \in User, NEW p \in Phone \cup {None}, NEW e \in Email \cup {None},
             UpdateBindings(u, p, e)
      PROVE  WritesOneRow /\ RequestsTyped /\ clock' \in Nat
  BY <1>2, ColumnsSound DEF UpdateBindings, TypeOK, RequestsTyped
<1>3. ASSUME NEW u \in User, DeleteUser(u)
      PROVE  WritesOneRow /\ RequestsTyped /\ clock' \in Nat
  BY <1>3, BuriedSound DEF DeleteUser, TypeOK, RequestsTyped, WritesOneRow
<1>4. ASSUME NEW u \in User, HardDeleteUser(u)
      PROVE  WritesOneRow /\ RequestsTyped /\ clock' \in Nat
  BY <1>4, GoneSound DEF HardDeleteUser, TypeOK, RequestsTyped, WritesOneRow
<1>5. ASSUME NEW h \in Handler, NEW u \in User,
             NEW name \in Names \cup (IF Exists(u) THEN {BaseName(u)} ELSE {}),
             BeginRestore(h, u, name)
      PROVE  WritesOneRow /\ RequestsTyped /\ clock' \in Nat
  <2>1. BaseName(u) \in Names
    BY <1>5, TombstoneAssumption
    DEF BeginRestore, TypeOK, Exists, WellFormed, BaseName, Tombstones
  <2>2. [step |-> "restore", user |-> u, name |-> name] \in Restoring
    BY <1>5, <2>1 DEF Restoring
  <2> QED
    BY <1>5, <2>2 DEF BeginRestore, TypeOK, RequestsTyped, WritesOneRow
<1>6. ASSUME NEW h \in Handler, FinishRestore(h)
      PROVE  WritesOneRow /\ RequestsTyped /\ clock' \in Nat
  <2>1. req[h] \in Restoring
    BY <1>6 DEF FinishRestore, TypeOK, Idle, Unbinding, Restoring
  <2>2. req[h].user \in User /\ req[h].name \in Names
    BY <2>1 DEF Restoring
  <2>3. WritesOneRow
    BY <1>6, <2>2, RestoredSound DEF FinishRestore, WritesOneRow
  <2> QED
    BY <1>6, <2>3 DEF FinishRestore, TypeOK, RequestsTyped
<1>7. ASSUME NEW h \in Handler, NEW u \in User, NEW kind \in {"phone", "email"},
             BeginUnbind(h, u, kind)
      PROVE  WritesOneRow /\ RequestsTyped /\ clock' \in Nat
  <2>1. users[u].phone \in Names
    BY <1>7 DEF BeginUnbind, TypeOK, WellFormed, Live
  <2>2. [step |-> "read", user |-> u, phone |-> users[u].phone, kind |-> kind,
         retained |-> None] \in Unbinding
    BY <1>7, <2>1 DEF Unbinding
  <2> QED
    BY <1>7, <2>2 DEF BeginUnbind, TypeOK, RequestsTyped, WritesOneRow
<1>8. ASSUME NEW h \in Handler, ReadBindings(h)
      PROVE  WritesOneRow /\ RequestsTyped /\ clock' \in Nat
  <2>1. req[h] \in Unbinding
    BY <1>8 DEF ReadBindings, TypeOK, Idle, Unbinding, Restoring
  <2>2. Retained(h) \in Names \cup {None}
    BY <2>1 DEF Retained, Unbinding, TypeOK, UserRow, Names
  <2>3. [req[h] EXCEPT !.step = "verify", !.retained = Retained(h)] \in Unbinding
    BY <2>1, <2>2 DEF Unbinding
  <2> QED
    BY <1>8, <2>3 DEF ReadBindings, TypeOK, RequestsTyped, WritesOneRow
<1>9. ASSUME NEW h \in Handler, UnbindVerified(h)
      PROVE  WritesOneRow /\ RequestsTyped /\ clock' \in Nat
  <2>1. req[h] \in Unbinding /\ req[h].user \in User
    BY <1>9 DEF UnbindVerified, TypeOK, Idle, Unbinding, Restoring
  <2> DEFINE u == req[h].user
  <2>2. CurrentPhone(u) \in Phone \cup {None} /\ CurrentEmail(u) \in Email \cup {None}
    BY <1>9, <2>1 DEF UnbindVerified, TypeOK, UserRow, WellFormed, Live, Names,
                      CurrentPhone, CurrentEmail
  <2>3. Bind(u, None, CurrentEmail(u)) \/ Bind(u, CurrentPhone(u), None)
    BY <1>9 DEF UnbindVerified
  <2>4. WritesOneRow
    BY <2>1, <2>2, <2>3, ColumnsSound
  <2> QED
    BY <1>9, <2>4 DEF UnbindVerified, TypeOK, RequestsTyped
<1>10. ASSUME NEW h \in Handler, Abandon(h)
       PROVE  WritesOneRow /\ RequestsTyped /\ clock' \in Nat
  BY <1>10 DEF Abandon, TypeOK, RequestsTyped, WritesOneRow
<1>11. CASE Tick
  BY <1>11 DEF Tick, TypeOK, RequestsTyped, WritesOneRow
<1>12. CASE UNCHANGED vars
  BY <1>12 DEF vars, TypeOK, RequestsTyped, WritesOneRow
<1> QED
  BY <1>1, <1>2, <1>3, <1>4, <1>5, <1>6, <1>7, <1>8, <1>9, <1>10, <1>11, <1>12 DEF Next

-----------------------------------------------------------------------------
(* The invariant *)

LEMMA InitInvariant == Init => IInv
<1> SUFFICES ASSUME Init PROVE IInv
  OBVIOUS
<1>1. \A u \in User :
        \/ users[u] = NoUser
        \/ \E x \in Names : users[u] = [state |-> "live", phone |-> x,
                                        email |-> IF x \in Email THEN x ELSE None]
  BY DEF Init
<1>2. ASSUME NEW u \in User
      PROVE  /\ users[u] \in UserRow /\ WellFormed(users[u])
             /\ Live(u) /\ users[u].phone \in Email => users[u].email = users[u].phone
  <2>1. CASE users[u] = NoUser
    BY <2>1 DEF NoUser, UserRow, WellFormed, Live
  <2>2. ASSUME NEW x \in Names,
               users[u] = [state |-> "live", phone |-> x, email |-> IF x \in Email THEN x ELSE None]
        PROVE  /\ users[u] \in UserRow /\ WellFormed(users[u])
               /\ Live(u) /\ users[u].phone \in Email => users[u].email = users[u].phone
    BY <2>2 DEF UserRow, WellFormed, Live
  <2> QED
    BY <1>1, <2>1, <2>2
<1>3. TypeOK
  BY <1>2 DEF Init, TypeOK
<1>4. EmailStandsIn
  BY <1>2 DEF EmailStandsIn
<1>5. ColumnsUnique
  <2> SUFFICES ASSUME NEW u \in User, NEW v \in User, u # v, Exists(u), Exists(v)
      PROVE  users[u].phone # users[v].phone
             /\ (users[u].email # None => users[u].email # users[v].email)
    BY DEF ColumnsUnique
  <2>1. PICK x \in Names : users[u] = [state |-> "live", phone |-> x,
                                       email |-> IF x \in Email THEN x ELSE None]
    BY <1>1 DEF Exists, NoUser
  <2>2. PICK y \in Names : users[v] = [state |-> "live", phone |-> y,
                                       email |-> IF y \in Email THEN y ELSE None]
    BY <1>1 DEF Exists, NoUser
  <2>3. x # y
    BY <2>1, <2>2, NamesAssumption DEF Init
  <2> QED
    BY <2>1, <2>2, <2>3, NamesAssumption DEF Names
<1> QED
  BY <1>3, <1>4, <1>5 DEF IInv

LEMMA NextInvariant == IInv /\ [Next]_vars => IInv'
<1> SUFFICES ASSUME IInv, [Next]_vars PROVE IInv'
  OBVIOUS
<1>1. WritesOneRow /\ RequestsTyped /\ clock' \in Nat
  BY OneRowPerStep
<1>2. CASE users' = users
  BY <1>1, <1>2 DEF IInv, TypeOK, ColumnsUnique, EmailStandsIn, Exists, Live, RequestsTyped
<1>3. ASSUME NEW w \in User, NEW row \in UserRow, SoundRow(w, row),
             users' = [users EXCEPT ![w] = row]
      PROVE  IInv'
  <2>1. /\ users' \in [User -> UserRow]
        /\ users'[w] = row
        /\ \A v \in User \ {w} : users'[v] = users[v]
    BY <1>3 DEF IInv, TypeOK
  <2>2. TypeOK'
    BY <1>1, <1>3, <2>1 DEF IInv, TypeOK, RequestsTyped, SoundRow
  <2>3. EmailStandsIn'
    BY <1>3, <2>1 DEF IInv, EmailStandsIn, SoundRow, Live
  <2>4. ASSUME NEW u \in User, NEW v \in User, u # v, Exists(u)', Exists(v)'
        PROVE  /\ users'[u].phone # users'[v].phone
               /\ users'[u].email # None => users'[u].email # users'[v].email
    <3>1. CASE u # w /\ v # w
      BY <2>1, <2>4, <3>1 DEF IInv, ColumnsUnique, Exists
    <3>2. CASE u = w
      BY <1>3, <2>1, <2>4, <3>2 DEF SoundRow, Unique, Exists
    <3>3. CASE v = w
      BY <1>3, <2>1, <2>4, <3>3 DEF SoundRow, Unique, Exists
    <3> QED
      BY <3>1, <3>2, <3>3
  <2> QED
    BY <2>2, <2>3, <2>4 DEF IInv, ColumnsUnique
<1> QED
  BY <1>1, <1>2, <1>3 DEF WritesOneRow

\* The table is always as the strengthened invariant says.
THEOREM Invariance == Spec => []IInv
BY InitInvariant, NextInvariant, PTL DEF Spec

\* The columns and the requests keep their types.
THEOREM TypeCorrect == Spec => []TypeOK
BY Invariance, PTL DEF IInv

LEMMA OneAccount == IInv => OneAccountPerName
<1> SUFFICES ASSUME IInv, NEW x \in Names, NEW u \in User, NEW v \in User, Has(u, x), Has(v, x), u # v
    PROVE  FALSE
  BY DEF OneAccountPerName
<1>1. Live(u) /\ Live(v) /\ Exists(u) /\ Exists(v)
  BY DEF Has, Reaches, Live, Exists
<1>2. /\ users[u].phone # users[v].phone
      /\ users[u].email # None => users[u].email # users[v].email
      /\ users[v].email # None => users[v].email # users[u].email
  BY <1>1 DEF IInv, ColumnsUnique
<1>3. x # None
  BY NamesAssumption
<1>4. users[u].email \in Email \cup {None} /\ users[v].email \in Email \cup {None}
  BY DEF IInv, TypeOK, UserRow
<1>5. CASE x \in Email
  BY <1>1, <1>2, <1>3, <1>5 DEF IInv, EmailStandsIn, Has, Reaches
<1>6. CASE x \notin Email
  BY <1>2, <1>3, <1>4, <1>6 DEF Has, Reaches
<1> QED
  BY <1>5, <1>6

\* A log-in name leads to at most one account, for any number of accounts,
\* names and concurrent requests.
THEOREM NamesAreUnambiguous == Spec => []OneAccountPerName
BY Invariance, OneAccount, PTL

-----------------------------------------------------------------------------
(* Unbinding *)

LEMMA UnbindStep ==
    ASSUME IInv, [Next]_vars, NEW h \in Handler,
           req[h].step = "verify", users' # users, req'[h] = Idle,
           NEW x \in Names, Reaches(x, users'[req[h].user])
    PROVE  x = req[h].retained
<1>1. req[h] \in Unbinding /\ req[h].user \in User /\ req[h].step # "idle"
  BY DEF IInv, TypeOK, Idle, Unbinding, Restoring
<1>2. req[h] # Idle
  BY <1>1 DEF Idle
<1>3. UnbindVerified(h)
  <2>1. ~UNCHANGED vars /\ ~(users' = users) /\ ~(req' = req)
    BY <1>2 DEF vars
  <2>2. ASSUME NEW g \in Handler, UnbindVerified(g)
        PROVE  g = h
    BY <1>2, <2>2 DEF UnbindVerified, IInv, TypeOK
  <2>3. ASSUME NEW g \in Handler, FinishRestore(g)
        PROVE  FALSE
    BY <1>2, <2>3 DEF FinishRestore, IInv, TypeOK
  <2> QED
    BY <2>1, <2>2, <2>3
    DEF Next, CreateAccount, UpdateBindings, DeleteUser, HardDeleteUser, BeginRestore,
        BeginUnbind, ReadBindings, Abandon, Tick
<1> DEFINE u == req[h].user
<1>4. /\ users[u] \in UserRow /\ users[u].phone \in Names
      /\ CurrentPhone(u) \in Phone \cup {None} /\ CurrentEmail(u) \in Email \cup {None}
  BY <1>1, <1>3 DEF UnbindVerified, IInv, TypeOK, UserRow, WellFormed, Live, Names,
                    CurrentPhone, CurrentEmail
<1>5. CASE req[h].kind = "phone"
  <2>1. users'[u] = Columns(None, CurrentEmail(u)) /\ req[h].retained = CurrentEmail(u)
    BY <1>1, <1>3, <1>5 DEF UnbindVerified, Bind, StillRetained, IInv, TypeOK
  <2> QED
    BY <2>1 DEF Columns, Reaches
<1>6. CASE req[h].kind # "phone"
  <2>1. /\ users'[u] = Columns(CurrentPhone(u), None) /\ req[h].retained = CurrentPhone(u)
        /\ CurrentPhone(u) # None
    BY <1>1, <1>3, <1>6 DEF UnbindVerified, Bind, StillRetained, IInv, TypeOK
  <2> QED
    BY <2>1, NamesAssumption DEF Columns, Reaches
<1> QED
  BY <1>5, <1>6

\* After an unbinding the account is reached by the verified name alone.
THEOREM UnbindLeavesVerified == Spec => UnbindKeepsVerified
<1> DEFINE P == \A h \in Handler :
                   req[h].step = "verify" /\ users' # users /\ req'[h] = Idle
                   => \A x \in Names : Reaches(x, users'[req[h].user]) => x = req[h].retained
<1>1. IInv /\ [Next]_vars => [P]_vars
  BY UnbindStep
<1> QED
  BY <1>1, Invariance, PTL DEF Spec, UnbindKeepsVerified

-----------------------------------------------------------------------------
(* Refinement *)

ownerMap == [x \in Phone \cup Email |-> Owner(x)]

\* Under the invariant, Owner names the one account that has the name.
OwnerShape ==
    \A x \in Names :
        /\ Owner(x) \in User \cup {Nobody}
        /\ \A u \in User : Owner(x) = u <=> Has(u, x)

LEMMA OwnerCases == IInv => OwnerShape
<1> SUFFICES ASSUME IInv, NEW x \in Names
    PROVE  /\ Owner(x) \in User \cup {Nobody}
           /\ \A u \in User : Owner(x) = u <=> Has(u, x)
  BY DEF OwnerShape
<1>1. CASE \E u \in User : Has(u, x)
  <2>1. PICK u \in User : Has(u, x)
    BY <1>1
  <2>2. \A v \in User : Has(v, x) => v = u
    BY <2>1, OneAccount DEF OneAccountPerName
  <2>3. Owner(x) = u
    BY <1>1, <2>1, <2>2 DEF Owner
  <2> QED
    BY <2>1, <2>2, <2>3
<1>2. CASE ~\E u \in User : Has(u, x)
  BY <1>2, NobodyAssumption DEF Owner
<1> QED
  BY <1>1, <1>2

LEMMA OwnerCasesNext == IInv' => OwnerShape'
BY OwnerCases, PTL

\* An account is reached by one phone number and one e-mail address at most.
LEMMA RowOfAKind ==
    ASSUME NEW row \in UserRow, WellFormed(row),
           row.state = "live" /\ row.phone \in Email => row.email = row.phone
    PROVE  AD!OneOfAKind({ x \in Names : Reaches(x, row) })
<1> SUFFICES ASSUME NEW x \in Names, NEW y \in Names, Reaches(x, row), Reaches(y, row),
                    x \in Phone <=> y \in Phone
    PROVE  x = y
  BY DEF AD!OneOfAKind
<1>1. row.email \in Email \cup {None} /\ row.phone \in Names
  BY DEF UserRow, WellFormed, Reaches
<1> QED
  BY <1>1, NamesAssumption DEF Reaches, Names

LEMMA InitDirectory == Init => AD!DInit
<1> SUFFICES ASSUME Init PROVE AD!DInit
  OBVIOUS
<1>1. IInv
  BY InitInvariant
<1>2. OwnerShape
  BY <1>1, OwnerCases
<1>3. ownerMap \in [AD!Names -> User \cup {Nobody}]
  BY <1>2 DEF ownerMap, OwnerShape, AD!Names, Names
<1>4. ASSUME NEW u \in User
      PROVE  AD!OneOfAKind(AD!NamesOf(u))
  <2>1. AD!NamesOf(u) = { x \in Names : Reaches(x, users[u]) }
    BY <1>2 DEF AD!NamesOf, AD!Names, Names, OwnerShape, Has
  <2>2. users[u] \in UserRow /\ WellFormed(users[u])
        /\ (users[u].state = "live" /\ users[u].phone \in Email => users[u].email = users[u].phone)
    BY <1>1 DEF IInv, TypeOK, EmailStandsIn, Live
  <2> QED
    BY <2>1, <2>2, RowOfAKind
<1> QED
  BY <1>3, <1>4 DEF AD!DInit, ownerMap

LEMMA StepDirectory ==
    ASSUME IInv, IInv', [Next]_vars
    PROVE  AD!DNext \/ ownerMap' = ownerMap
<1>1. WritesOneRow
  BY OneRowPerStep
<1>2. CASE users' = users
  BY <1>2 DEF ownerMap, Owner, Has
<1>3. ASSUME NEW u \in User, NEW row \in UserRow, SoundRow(u, row),
             users' = [users EXCEPT ![u] = row]
      PROVE  AD!DNext
  <2> DEFINE S == { x \in Names : Reaches(x, row) }
  <2>1. users'[u] = row /\ \A v \in User \ {u} : users'[v] = users[v]
    BY <1>3 DEF IInv, TypeOK
  <2>2. OwnerShape /\ OwnerShape'
    BY OwnerCases, OwnerCasesNext
  <2>3. AD!OneOfAKind(S)
    BY <1>3, RowOfAKind DEF SoundRow
  <2>4. \A x \in Names : Has(u, x)' <=> x \in S
    BY <2>1 DEF Has
  <2>5. \A x \in Names, v \in User \ {u} : Has(v, x)' <=> Has(v, x)
    BY <2>1 DEF Has
  <2>6. \A x \in S : Owner(x) \in {u, Nobody}
    <3> SUFFICES ASSUME NEW x \in S, Owner(x) # u, Owner(x) # Nobody PROVE FALSE
      OBVIOUS
    <3>1. PICK v \in User : Owner(x) = v /\ v # u
      BY <2>2 DEF OwnerShape
    <3>2. Has(v, x)' /\ Has(u, x)'
      BY <2>2, <2>4, <2>5, <3>1 DEF OwnerShape
    <3> QED
      BY <2>2, <3>1, <3>2 DEF OwnerShape
  <2>7. ASSUME NEW x \in Names
        PROVE  Owner(x)' = IF x \in S THEN u ELSE IF Owner(x) = u THEN Nobody ELSE Owner(x)
    <3>1. CASE x \in S
      BY <2>2, <2>4, <3>1 DEF OwnerShape
    <3>2. CASE x \notin S /\ Owner(x) = u
      <4>1. ~Has(u, x)'
        BY <2>4, <3>2
      <4>2. \A v \in User \ {u} : ~Has(v, x)'
        BY <2>2, <2>5, <3>2 DEF OwnerShape
      <4> QED
        BY <2>2, <3>2, <4>1, <4>2 DEF OwnerShape
    <3>3. CASE x \notin S /\ Owner(x) # u
      <4>1. ~Has(u, x)'
        BY <2>4, <3>3
      <4>2. CASE Owner(x) = Nobody
        <5>1. \A v \in User : ~Has(v, x)
          BY <2>2, <4>2, NobodyAssumption DEF OwnerShape
        <5> QED
          BY <2>2, <2>5, <3>3, <4>1, <4>2, <5>1 DEF OwnerShape
      <4>3. ASSUME NEW v \in User \ {u}, Owner(x) = v
            PROVE  Owner(x)' = v
        BY <2>2, <2>5, <4>3 DEF OwnerShape
      <4> QED
        BY <2>2, <3>3, <4>2, <4>3 DEF OwnerShape
    <3> QED
      BY <3>1, <3>2, <3>3
  <2>8. ownerMap' = [x \in AD!Names |-> IF x \in S THEN u
                                        ELSE IF ownerMap[x] = u THEN Nobody ELSE ownerMap[x]]
    BY <2>7 DEF ownerMap, AD!Names, Names
  <2>9. AD!Rebind(u, S)
    BY <2>3, <2>6, <2>8 DEF AD!Rebind, ownerMap, Names
  <2>10. S \in SUBSET AD!Names
    BY DEF AD!Names, Names
  <2> QED
    BY <2>9, <2>10 DEF AD!DNext
<1> QED
  BY <1>1, <1>2, <1>3 DEF WritesOneRow

\* The two columns and their indexes implement the directory of names.
THEOREM Refinement == Spec => ImplementsDirectory
<1>1. IInv /\ IInv' /\ [Next]_vars => [AD!DNext]_ownerMap
  BY StepDirectory
<1> QED
  BY <1>1, InitDirectory, Invariance, PTL
  DEF Spec, ImplementsDirectory, AD!Directory, ownerMap
=============================================================================
