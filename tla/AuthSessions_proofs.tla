------------------------ MODULE AuthSessions_proofs ------------------------
(***************************************************************************)
(* The invariants of AuthSessions, for every set of accounts, session rows *)
(* and token pairs, every lifetime and every value of the clock.  IInv is  *)
(* inductive: each step of the proof takes one action.  The second half    *)
(* shows that AuthSessions implements SessionContract.                     *)
(***************************************************************************)
EXTENDS AuthSessions, TLAPS

USE TokenAssumption, RowAssumption, HolderAssumption, TTLAssumption, MaxTimeAssumption

\* The initial database satisfies the inductive invariant.
LEMMA InitIInv == Init => IInv
<1> SUFFICES ASSUME Init PROVE IInv
  OBVIOUS
<1>1. ASSUME NEW u \in User
      PROVE  /\ users[u] \in UserRow
             /\ users[u].accessExp <= users[u].refreshExp
             /\ users[u].state # "deleted"
             /\ users[u].state \in {"absent", "gone"} => users[u].token = NoToken
  <2>1. CASE users[u] = EmptyUser
    BY <2>1 DEF EmptyUser, UserRow
  <2>2. ASSUME NEW t \in Token, NEW life \in 0..AccessTTL, NEW rev \in BOOLEAN,
               users[u] = LegacyUser(t, life, rev)
        PROVE  /\ users[u] \in UserRow
               /\ users[u].accessExp <= users[u].refreshExp
               /\ users[u].state # "deleted"
               /\ users[u].state \notin {"absent", "gone"}
    <3>1. /\ life \in Nat /\ life + (RefreshTTL - AccessTTL) \in Nat
          /\ life <= life + (RefreshTTL - AccessTTL)
      BY <2>2
    <3> QED
      BY <2>2, <3>1 DEF LegacyUser, UserRow
  <2> QED
    BY <2>1, <2>2 DEF Init
<1>2. users \in [User -> UserRow]
  BY <1>1 DEF Init
<1>3. Rows = {}
  BY DEF Init, Rows
<1>4. sess \in [Session -> SessionRow \cup {NoRow}]
  BY DEF Init
<1>5. issued \subseteq Token
  BY <1>1 DEF Init, UserRow
<1>6. TypeOK
  BY <1>1, <1>2, <1>3, <1>4, <1>5 DEF Init, TypeOK
<1>7. \A u \in User : users[u].token \in issued \cup {NoToken}
  BY DEF Init
<1>8. \A u, v \in User :
        users[u].token = users[v].token /\ users[u].token # NoToken => u = v
  BY DEF Init
<1>9. PairsAreUnique
  BY <1>3, <1>7, <1>8 DEF PairsAreUnique
<1>10. MarksAgree /\ AccountShape /\ MirrorSettled /\ RetiredRows
  BY <1>1, <1>3 DEF Init, MarksAgree, AccountShape, MirrorSettled, RetiredRows
<1> QED
  BY <1>6, <1>9, <1>10 DEF IInv

\* What revoking every row of an account does to the table.
LEMMA RevokeAllRows ==
    ASSUME TypeOK, NEW u \in User, sess' = RevokeAll(u)
    PROVE  /\ sess' \in [Session -> SessionRow \cup {NoRow}]
           /\ Rows' = Rows
           /\ \A s \in Rows :
                /\ sess'[s].user = sess[s].user
                /\ sess'[s].token = sess[s].token
                /\ sess'[s].accessExp = sess[s].accessExp
                /\ sess'[s].refreshExp = sess[s].refreshExp
                /\ sess[s].revoked => sess'[s].revoked
                /\ sess[s].user = u => sess'[s].revoked
                /\ ~sess'[s].revoked => sess'[s] = sess[s]
<1>1. ASSUME NEW s \in Rows, sess[s].user = u
      PROVE  /\ sess'[s] = [sess[s] EXCEPT !.revoked = TRUE]
             /\ sess[s] \in SessionRow
  BY <1>1 DEF RevokeAll, Rows, TypeOK
<1>2. ASSUME NEW s \in Session, s \notin Rows \/ sess[s].user # u
      PROVE  sess'[s] = sess[s]
  BY <1>2 DEF RevokeAll
<1>3. ASSUME NEW s \in Rows, sess[s].user = u
      PROVE  /\ sess'[s] \in SessionRow
             /\ sess'[s].user = u
             /\ sess'[s].token = sess[s].token
             /\ sess'[s].accessExp = sess[s].accessExp
             /\ sess'[s].refreshExp = sess[s].refreshExp
             /\ sess'[s].revoked
             /\ sess'[s] # NoRow
  <2>1. /\ sess'[s].user = u
        /\ sess'[s].token = sess[s].token
        /\ sess'[s].accessExp = sess[s].accessExp
        /\ sess'[s].refreshExp = sess[s].refreshExp
        /\ sess'[s].revoked
    BY <1>1, <1>3 DEF SessionRow
  <2>2. sess'[s] \in SessionRow
    BY <1>1, <1>3 DEF SessionRow
  <2> QED
    BY <2>1, <2>2, RowAssumption DEF SessionRow
<1>4. sess' \in [Session -> SessionRow \cup {NoRow}]
  BY <1>2, <1>3 DEF RevokeAll, TypeOK
<1>5. Rows' = Rows
  BY <1>2, <1>3 DEF Rows
<1> QED
  BY <1>2, <1>3, <1>4, <1>5 DEF Rows

\* RevokeTokens: the account's mark and its rows change together.
LEMMA RevokeTokensIInv == ASSUME IInv, NEW u \in User, RevokeTokens(u) PROVE IInv'
<1> USE DEF IInv
<1>1. /\ sess' \in [Session -> SessionRow \cup {NoRow}]
      /\ Rows' = Rows
      /\ \A s \in Rows :
           /\ sess'[s].user = sess[s].user
           /\ sess'[s].token = sess[s].token
           /\ sess'[s].accessExp = sess[s].accessExp
           /\ sess'[s].refreshExp = sess[s].refreshExp
           /\ sess[s].revoked => sess'[s].revoked
           /\ sess[s].user = u => sess'[s].revoked
           /\ ~sess'[s].revoked => sess'[s] = sess[s]
  BY RevokeAllRows DEF RevokeTokens, LoggedOutRows
<1>2. users' \in [User -> UserRow]
  BY DEF RevokeTokens, TypeOK, UserRow
<1>3. \A v \in User :
        /\ users'[v].token = users[v].token
        /\ users'[v].state = users[v].state
        /\ users'[v].accessExp = users[v].accessExp
        /\ users'[v].refreshExp = users[v].refreshExp
        /\ users[v].revoked => users'[v].revoked
        /\ v # u => users'[v] = users[v]
  BY DEF RevokeTokens, TypeOK, UserRow
<1>4. TypeOK'
  BY <1>1, <1>2, <1>3 DEF RevokeTokens, TypeOK, PairsAreUnique, TokensOf
<1>5. PairsAreUnique'
  BY <1>1, <1>3 DEF RevokeTokens, PairsAreUnique
<1>6. MarksAgree'
  BY <1>1, <1>3 DEF RevokeTokens, TypeOK, Rows, SessionRow, MarksAgree, Live
<1>7. \A v \in User, n \in Nat : Migratable(v, n)' => Migratable(v, n)
  BY <1>1, <1>3 DEF Migratable, HasRow, Live
<1>8. AccountShape' /\ MirrorSettled' /\ RetiredRows'
  BY <1>1, <1>3, <1>7 DEF RevokeTokens, TypeOK, AccountShape, MirrorSettled, RetiredRows, TokensOf, PairsAreUnique
<1> QED
  BY <1>4, <1>5, <1>6, <1>8

\* Open, Serve and Crash change only the phase of the server.
LEMMA PhaseIInv ==
    ASSUME IInv, Open \/ Serve \/ Crash PROVE IInv'
<1> USE DEF IInv
<1>1. users' = users /\ sess' = sess /\ issued' = issued /\ retired' = retired /\ clock' = clock
  BY DEF Open, Serve, Crash
<1>2. Rows' = Rows
  BY <1>1 DEF Rows
<1>3. TypeOK' /\ PairsAreUnique' /\ MarksAgree' /\ AccountShape'
  BY <1>1, <1>2 DEF Open, Serve, Crash, TypeOK, PairsAreUnique, MarksAgree, AccountShape, Live
<1>4. openedAt' >= openedAt /\ openedAt' \in Nat /\ openedAt \in Nat
  BY DEF Open, Serve, Crash, TypeOK
<1>5. \A u \in User, m, n \in Nat : m <= n /\ Migratable(u, n)' => Migratable(u, m)
  BY <1>1, <1>2 DEF Migratable, HasRow, Live, TypeOK, UserRow
<1>6. MirrorSettled'
  BY <1>4, <1>5 DEF Open, Serve, Crash, MirrorSettled
<1>7. RetiredRows'
  BY <1>1, <1>2, <1>4, <1>5 DEF RetiredRows
<1> QED
  BY <1>3, <1>6, <1>7

\* Time passing changes no table.
LEMMA TickIInv == ASSUME IInv, Tick PROVE IInv'
<1> USE DEF IInv
<1>1. UNCHANGED <<server, openedAt, users, sess, issued, retired>> /\ Rows' = Rows
  BY DEF Tick, Rows
<1>2. \A u \in User : Migratable(u, openedAt)' <=> Migratable(u, openedAt)
  BY <1>1 DEF Migratable, HasRow, Live
<1>3. TypeOK'
  BY <1>1 DEF Tick, TypeOK
<1> QED
  BY <1>1, <1>2, <1>3
     DEF PairsAreUnique, MarksAgree, AccountShape, MirrorSettled, RetiredRows, Live

\* One migrated mirror: the pair was in no row, and is not retired.
LEMMA MigrateOneIInv == ASSUME IInv, NEW u \in User, MigrateOne(u) PROVE IInv'
<1> USE DEF IInv
<1>1. PICK s \in Session \ Rows :
        sess' = [sess EXCEPT ![s] =
                   NewSession(u, users[u].token, users[u].accessExp, users[u].refreshExp)]
  BY DEF MigrateOne
<1> DEFINE row == NewSession(u, users[u].token, users[u].accessExp, users[u].refreshExp)
<1>2. /\ row \in SessionRow /\ row # NoRow
      /\ row.user = u /\ row.token = users[u].token /\ ~row.revoked
      /\ row.accessExp <= row.refreshExp
      /\ Live(u) /\ ~users[u].revoked /\ users[u].token # NoToken
      /\ ~HasRow(users[u].token) /\ users[u].token \notin retired
  <2>1. /\ Live(u) /\ ~users[u].revoked /\ users[u].token # NoToken
        /\ ~HasRow(users[u].token) /\ users[u].token \notin retired
    BY DEF MigrateOne, Migratable, RetiredRows
  <2>2. users[u] \in UserRow /\ users[u].accessExp <= users[u].refreshExp
    BY DEF TypeOK
  <2>3. row \in SessionRow
    BY <2>1, <2>2 DEF NewSession, SessionRow, UserRow
  <2>4. row # NoRow
    BY <2>3, RowAssumption DEF SessionRow
  <2> QED
    BY <2>1, <2>2, <2>3, <2>4 DEF NewSession
<1> HIDE DEF row
<1>3. /\ Rows' = Rows \cup {s} /\ s \notin Rows
      /\ sess'[s] = row
      /\ \A r \in Rows : sess'[r] = sess[r]
      /\ sess' \in [Session -> SessionRow \cup {NoRow}]
  BY <1>1, <1>2 DEF Rows, TypeOK, row
<1>4. UNCHANGED <<clock, server, openedAt, users, issued, retired>>
  BY DEF MigrateOne
<1>5. TypeOK'
  BY <1>2, <1>3, <1>4 DEF TypeOK
<1>6. PairsAreUnique'
  BY <1>2, <1>3, <1>4 DEF PairsAreUnique, HasRow
<1>7. MarksAgree'
  BY <1>2, <1>3, <1>4 DEF MarksAgree, Live
<1>8. \A v \in User, n \in Nat : Migratable(v, n)' => Migratable(v, n)
  BY <1>3, <1>4 DEF Migratable, HasRow, Live
<1>9. MirrorSettled' /\ AccountShape'
  BY <1>4 DEF MigrateOne, MirrorSettled, AccountShape
<1>10. RetiredRows'
  BY <1>2, <1>3, <1>4, <1>8 DEF RetiredRows, TypeOK
<1> QED
  BY <1>5, <1>6, <1>7, <1>9, <1>10

\* A new account has neither mirror nor rows.
LEMMA CreateUserIInv ==
    ASSUME IInv, NEW u \in User, NEW rev \in BOOLEAN, CreateUser(u, rev) PROVE IInv'
<1> USE DEF IInv
<1>1. UNCHANGED <<clock, server, openedAt, sess, issued, retired>> /\ Rows' = Rows
  BY DEF CreateUser, Rows
<1>2. /\ users' \in [User -> UserRow]
      /\ users'[u].token = NoToken /\ users[u].token = NoToken
      /\ users'[u].state = "live" /\ ~Live(u)
      /\ users'[u].accessExp = users[u].accessExp
      /\ users'[u].refreshExp = users[u].refreshExp
      /\ \A v \in User : v # u => users'[v] = users[v]
  BY DEF CreateUser, TypeOK, UserRow, AccountShape, Live
<1>3. TypeOK'
  BY <1>1, <1>2 DEF TypeOK
<1>4. PairsAreUnique'
  BY <1>1, <1>2, TokenAssumption DEF PairsAreUnique, TypeOK, Rows, SessionRow
<1>5. MarksAgree'
  BY <1>1, <1>2 DEF MarksAgree, Live, TypeOK, Rows, SessionRow
<1>6. \A v \in User : Migratable(v, openedAt)' => Migratable(v, openedAt)
  BY <1>1, <1>2 DEF Migratable, HasRow, Live
<1>7. AccountShape' /\ MirrorSettled' /\ RetiredRows'
  BY <1>1, <1>2, <1>6, TokenAssumption DEF AccountShape, MirrorSettled, RetiredRows, TypeOK
<1> QED
  BY <1>3, <1>4, <1>5, <1>7

\* A fresh pair with its expiries is a well-formed row.
LEMMA FreshColumns ==
    ASSUME TypeOK, NEW t \in Token, NEW r \in SessionRow
    PROVE  /\ PairColumns(r, t) \in SessionRow /\ PairColumns(r, t) # NoRow
           /\ PairColumns(r, t).user = r.user
           /\ PairColumns(r, t).token = t
           /\ PairColumns(r, t).revoked = r.revoked
           /\ PairColumns(r, t).accessExp <= PairColumns(r, t).refreshExp
<1>1. clock + AccessTTL \in Nat /\ clock + RefreshTTL \in Nat
      /\ clock + AccessTTL <= clock + RefreshTTL
  BY TTLAssumption DEF TypeOK
<1>2. PairColumns(r, t) \in SessionRow
  BY <1>1 DEF PairColumns, SessionRow
<1> QED
  BY <1>1, <1>2, RowAssumption DEF PairColumns, SessionRow

\* A login: the mirror and the new row hold the same fresh pair.
LEMMA IssueIInv ==
    ASSUME IInv, NEW u \in User, NEW t \in Token, IssueAuthSession(u, t) PROVE IInv'
<1> USE DEF IInv
<1> DEFINE row == PairColumns(NewSession(u, t, 0, 0), t)
<1>1. PICK s \in Session \ Rows : sess' = [sess EXCEPT ![s] = row]
  BY DEF IssueAuthSession
<1>2. NewSession(u, t, 0, 0) \in SessionRow
  BY DEF NewSession, SessionRow
<1>3. /\ row \in SessionRow /\ row # NoRow
      /\ row.user = u /\ row.token = t /\ ~row.revoked
      /\ row.accessExp <= row.refreshExp
  BY <1>2, FreshColumns DEF NewSession
<1> HIDE DEF row
<1>4. /\ Rows' = Rows \cup {s} /\ s \notin Rows
      /\ sess'[s] = row
      /\ \A r \in Rows : sess'[r] = sess[r]
      /\ sess' \in [Session -> SessionRow \cup {NoRow}]
  BY <1>1, <1>3 DEF Rows, TypeOK
<1>5. /\ UNCHANGED <<clock, server, openedAt, retired>>
      /\ issued' = issued \cup {t} /\ t \notin issued /\ t # NoToken
      /\ Live(u) /\ server = "serving"
  BY TokenAssumption DEF IssueAuthSession
<1>6. /\ users' \in [User -> UserRow]
      /\ users'[u].token = t /\ ~users'[u].revoked /\ users'[u].state = "live"
      /\ users'[u].accessExp <= users'[u].refreshExp
      /\ \A v \in User : v # u => users'[v] = users[v]
  <2>1. clock + AccessTTL \in Nat /\ clock + RefreshTTL \in Nat
        /\ clock + AccessTTL <= clock + RefreshTTL
    BY TTLAssumption DEF TypeOK
  <2>2. users' = [users EXCEPT ![u] = [PairColumns(users[u], t) EXCEPT !.revoked = FALSE]]
    BY DEF IssueAuthSession
  <2>3. users[u] \in UserRow /\ users[u].state = "live"
    BY <1>5 DEF TypeOK, Live
  <2>4. [PairColumns(users[u], t) EXCEPT !.revoked = FALSE] \in UserRow
    BY <2>1, <2>3 DEF PairColumns, UserRow
  <2>5. users'[u] = [PairColumns(users[u], t) EXCEPT !.revoked = FALSE]
        /\ \A v \in User : v # u => users'[v] = users[v]
    BY <2>2 DEF TypeOK
  <2>6. users'[u].token = t /\ ~users'[u].revoked /\ users'[u].state = "live"
        /\ users'[u].accessExp <= users'[u].refreshExp
    BY <2>1, <2>3, <2>5 DEF PairColumns, UserRow
  <2> QED
    BY <2>2, <2>4, <2>5, <2>6 DEF TypeOK
<1>7. TypeOK'
  BY <1>3, <1>4, <1>5, <1>6 DEF TypeOK
<1>8. PairsAreUnique'
  BY <1>3, <1>4, <1>5, <1>6 DEF PairsAreUnique
<1>9. MarksAgree'
  <2>1. ASSUME NEW r \in Rows', ~sess'[r].revoked
        PROVE  /\ users'[sess'[r].user].state = "live"
               /\ ~users'[sess'[r].user].revoked
    <3>1. CASE r = s
      BY <1>3, <1>4, <1>6, <3>1
    <3>2. CASE r # s
      <4>1. r \in Rows /\ sess'[r] = sess[r] /\ sess[r].user \in User /\ ~sess[r].revoked
        BY <1>4, <2>1, <3>2 DEF Rows, TypeOK, SessionRow
      <4> QED
        BY <1>6, <4>1 DEF MarksAgree, Live
    <3> QED
      BY <3>1, <3>2
  <2> QED
    BY <2>1 DEF MarksAgree, Live
<1>10. /\ \A v \in User : v # u /\ Migratable(v, openedAt)' => Migratable(v, openedAt)
       /\ ~Migratable(u, openedAt)'
  BY <1>3, <1>4, <1>5, <1>6 DEF Migratable, HasRow, Live
<1>11. AccountShape' /\ MirrorSettled'
  BY <1>5, <1>6, <1>10 DEF AccountShape, MirrorSettled
<1>12. RetiredRows'
  BY <1>3, <1>4, <1>5, <1>6, <1>10 DEF RetiredRows, TypeOK
<1> QED
  BY <1>7, <1>8, <1>9, <1>11, <1>12

\* A refresh: the presented pair is replaced in its row and in the mirror.
LEMMA RefreshIInv ==
    ASSUME IInv, NEW s \in Session, NEW t \in Token, RefreshAuthSession(s, t) PROVE IInv'
<1> USE DEF IInv
<1>0. PICK u \in User : u = sess[s].user
  BY DEF RefreshAuthSession, AcceptedRow, Rows, TypeOK, SessionRow
<1> DEFINE row == PairColumns(sess[s], t)
<1>1. /\ s \in Rows /\ sess[s] \in SessionRow /\ sess[s].user = u
      /\ ~sess[s].revoked /\ Live(u) /\ ~users[u].revoked
  BY <1>0 DEF RefreshAuthSession, AcceptedRow, Rows, TypeOK, SessionRow
<1>2. /\ row \in SessionRow /\ row # NoRow
      /\ row.user = u /\ row.token = t /\ ~row.revoked
      /\ row.accessExp <= row.refreshExp
  BY <1>1, FreshColumns
<1>3. sess' = [sess EXCEPT ![s] = row]
  BY DEF RefreshAuthSession, RotatedRow
<1>4. /\ UNCHANGED <<clock, server, openedAt>>
      /\ issued' = issued \cup {t} /\ t \notin issued /\ t # NoToken
      /\ retired' = retired \cup {sess[s].token}
      /\ server = "serving"
  BY TokenAssumption DEF RefreshAuthSession
<1>5. /\ users' \in [User -> UserRow]
      /\ users'[u].token = t /\ users'[u].state = "live" /\ ~users'[u].revoked
      /\ users'[u].accessExp <= users'[u].refreshExp
      /\ \A v \in User : v # u => users'[v] = users[v]
  <2>1. clock + AccessTTL \in Nat /\ clock + RefreshTTL \in Nat
        /\ clock + AccessTTL <= clock + RefreshTTL
    BY TTLAssumption DEF TypeOK
  <2>2. users' = [users EXCEPT ![u] = PairColumns(users[u], t)]
    BY <1>0 DEF RefreshAuthSession, RefreshedMirror
  <2>3. users[u] \in UserRow /\ users[u].state = "live" /\ ~users[u].revoked
    BY <1>1 DEF TypeOK, Live
  <2>4. PairColumns(users[u], t) \in UserRow
    BY <2>1, <2>3 DEF PairColumns, UserRow
  <2>5. users'[u] = PairColumns(users[u], t)
        /\ \A v \in User : v # u => users'[v] = users[v]
    BY <1>1, <2>2 DEF TypeOK
  <2>6. users'[u].token = t /\ users'[u].state = "live" /\ ~users'[u].revoked
        /\ users'[u].accessExp <= users'[u].refreshExp
    BY <2>1, <2>3, <2>5 DEF PairColumns, UserRow
  <2> QED
    BY <2>2, <2>4, <2>5, <2>6 DEF TypeOK
<1> HIDE DEF row
<1>6. /\ Rows' = Rows /\ sess'[s] = row
      /\ \A r \in Rows : r # s => sess'[r] = sess[r]
      /\ sess' \in [Session -> SessionRow \cup {NoRow}]
  BY <1>1, <1>2, <1>3 DEF Rows, TypeOK
<1>7. TypeOK'
  <2>1. sess[s].token \in issued
    BY <1>1 DEF PairsAreUnique
  <2> QED
    BY <1>2, <1>4, <1>5, <1>6, <2>1 DEF TypeOK
<1>8. PairsAreUnique'
  BY <1>1, <1>2, <1>4, <1>5, <1>6 DEF PairsAreUnique
<1>9. MarksAgree'
  <2>1. ASSUME NEW r \in Rows', ~sess'[r].revoked
        PROVE  /\ users'[sess'[r].user].state = "live"
               /\ ~users'[sess'[r].user].revoked
    <3>1. CASE r = s
      BY <1>2, <1>5, <1>6, <3>1
    <3>2. CASE r # s
      <4>1. r \in Rows /\ sess'[r] = sess[r] /\ sess[r].user \in User /\ ~sess[r].revoked
        BY <1>6, <2>1, <3>2 DEF Rows, TypeOK, SessionRow
      <4> QED
        BY <1>5, <4>1 DEF MarksAgree, Live
    <3> QED
      BY <3>1, <3>2
  <2> QED
    BY <2>1 DEF MarksAgree, Live
<1>10. \A v \in User : ~Migratable(v, openedAt)'
  <2>1. ASSUME NEW v \in User, v # u PROVE users[v].token # sess[s].token
    BY <1>1, <2>1 DEF PairsAreUnique
  <2>2. \A v \in User : ~Migratable(v, openedAt)
    BY <1>4 DEF MirrorSettled
  <2>3. ~Migratable(u, openedAt)'
    BY <1>2, <1>5, <1>6, <1>1 DEF Migratable, HasRow
  <2>4. ASSUME NEW v \in User, v # u PROVE ~Migratable(v, openedAt)'
    BY <1>4, <1>5, <1>6, <2>1, <2>2, <2>4 DEF Migratable, HasRow, Live
  <2> QED
    BY <2>3, <2>4
<1>11. AccountShape' /\ MirrorSettled'
  BY <1>4, <1>5, <1>10 DEF AccountShape, MirrorSettled
<1>12. RetiredRows'
  BY <1>1, <1>2, <1>4, <1>6, <1>10 DEF RetiredRows, TypeOK, PairsAreUnique
<1> QED
  BY <1>7, <1>8, <1>9, <1>11, <1>12

\* Revoking one session leaves every other row and all accounts alone.
LEMMA RevokeSessionIInv ==
    ASSUME IInv, NEW t \in Token, RevokeSessionByToken(t) PROVE IInv'
<1> USE DEF IInv
<1>1. UNCHANGED <<clock, server, openedAt, users, issued>> /\ retired' = retired \cup {t}
      /\ server = "serving"
  BY DEF RevokeSessionByToken
<1>2. ASSUME NEW s \in Rows, sess[s].token = t
      PROVE  /\ sess'[s].user = sess[s].user /\ sess'[s].token = t
             /\ sess'[s].accessExp = sess[s].accessExp
             /\ sess'[s].refreshExp = sess[s].refreshExp
             /\ sess'[s].revoked /\ sess'[s] \in SessionRow /\ sess'[s] # NoRow
  <2>1. sess'[s] = [sess[s] EXCEPT !.revoked = TRUE] /\ sess[s] \in SessionRow
    BY <1>2 DEF RevokeSessionByToken, Rows, TypeOK
  <2>2. sess'[s] \in SessionRow
    BY <2>1 DEF SessionRow
  <2>3. /\ sess'[s].user = sess[s].user /\ sess'[s].token = t
        /\ sess'[s].accessExp = sess[s].accessExp
        /\ sess'[s].refreshExp = sess[s].refreshExp
        /\ sess'[s].revoked
    BY <1>2, <2>1 DEF SessionRow
  <2> QED
    BY <2>2, <2>3, RowAssumption DEF SessionRow
<1>3. ASSUME NEW s \in Session, s \notin Rows \/ sess[s].token # t
      PROVE  sess'[s] = sess[s]
  BY <1>3 DEF RevokeSessionByToken
<1>4. Rows' = Rows /\ sess' \in [Session -> SessionRow \cup {NoRow}]
  BY <1>2, <1>3 DEF Rows, TypeOK, RevokeSessionByToken
<1>5. /\ \A s \in Rows : sess'[s].user = sess[s].user /\ sess'[s].token = sess[s].token
                           /\ sess'[s].accessExp <= sess'[s].refreshExp
      /\ \A s \in Rows : ~sess'[s].revoked => sess'[s] = sess[s]
      /\ \A s \in Rows : sess[s].token = t => sess'[s].revoked
  BY <1>2, <1>3 DEF TypeOK, Rows
<1>6. TypeOK'
  <2>1. t \in issued
    BY DEF RevokeSessionByToken, PairsAreUnique
  <2> QED
    BY <1>1, <1>4, <1>5, <2>1 DEF TypeOK
<1>7. PairsAreUnique'
  BY <1>1, <1>4, <1>5 DEF PairsAreUnique
<1>8. MarksAgree'
  BY <1>1, <1>4, <1>5 DEF MarksAgree, Live
<1>9. \A v \in User : Migratable(v, openedAt)' => Migratable(v, openedAt)
  BY <1>1, <1>4, <1>5 DEF Migratable, HasRow, Live
<1>10. AccountShape' /\ MirrorSettled' /\ RetiredRows'
  BY <1>1, <1>4, <1>5, <1>9 DEF AccountShape, MirrorSettled, RetiredRows
<1> QED
  BY <1>6, <1>7, <1>8, <1>10

\* DeleteUser: the account loses its mirror and all its rows are revoked.
LEMMA DeleteUserIInv == ASSUME IInv, NEW u \in User, DeleteUser(u) PROVE IInv'
<1> USE DEF IInv
<1>1. /\ sess' \in [Session -> SessionRow \cup {NoRow}]
      /\ Rows' = Rows
      /\ \A s \in Rows :
           /\ sess'[s].user = sess[s].user
           /\ sess'[s].token = sess[s].token
           /\ sess'[s].accessExp = sess[s].accessExp
           /\ sess'[s].refreshExp = sess[s].refreshExp
           /\ sess[s].revoked => sess'[s].revoked
           /\ sess[s].user = u => sess'[s].revoked
           /\ ~sess'[s].revoked => sess'[s] = sess[s]
  BY RevokeAllRows DEF DeleteUser, DeletedRows
<1>2. /\ users' \in [User -> UserRow]
      /\ ~Live(u)' /\ users'[u].state = "deleted" /\ users'[u].revoked
      /\ users'[u].token \in {users[u].token, NoToken}
      /\ users'[u].accessExp = users[u].accessExp
      /\ users'[u].refreshExp = users[u].refreshExp
      /\ \A v \in User : v # u => users'[v] = users[v]
  <2>1. CASE Live(u)
    BY <2>1 DEF DeleteUser, DeletedRows, TypeOK, UserRow, Live
  <2>2. CASE ~Live(u)
    BY <2>2 DEF DeleteUser, DeletedRows, TypeOK, UserRow, Live, AccountShape
  <2> QED
    BY <2>1, <2>2
<1>3. UNCHANGED <<clock, server, openedAt, issued>> /\ retired' = retired \cup TokensOf(u)
      /\ server = "serving"
  BY DEF DeleteUser
<1>4. TypeOK'
  BY <1>1, <1>2, <1>3 DEF TypeOK, PairsAreUnique, TokensOf
<1>5. PairsAreUnique'
  BY <1>1, <1>2, <1>3, TokenAssumption DEF PairsAreUnique, TypeOK, Rows, SessionRow
<1>6. MarksAgree'
  <2>1. ASSUME NEW r \in Rows, ~sess'[r].revoked
        PROVE  sess[r].user # u /\ sess[r].user \in User /\ ~sess[r].revoked
    BY <1>1, <2>1 DEF TypeOK, Rows, SessionRow
  <2> QED
    BY <1>1, <1>2, <2>1 DEF MarksAgree, Live
<1>7. \A v \in User : Migratable(v, openedAt)' => Migratable(v, openedAt)
  BY <1>1, <1>2, <1>3 DEF Migratable, HasRow, Live
<1>8. AccountShape' /\ MirrorSettled' /\ RetiredRows'
  BY <1>1, <1>2, <1>3, <1>7
     DEF AccountShape, MirrorSettled, RetiredRows, TokensOf, PairsAreUnique
<1> QED
  BY <1>4, <1>5, <1>6, <1>8

\* RestoreUser: a restored account stays marked logged out.
LEMMA RestoreUserIInv == ASSUME IInv, NEW u \in User, RestoreUser(u) PROVE IInv'
<1> USE DEF IInv
<1>1. UNCHANGED <<clock, server, openedAt, sess, issued, retired>> /\ Rows' = Rows
  BY DEF RestoreUser, Rows
<1>2. /\ users' \in [User -> UserRow]
      /\ users'[u].state = "live"
      /\ users'[u].revoked = users[u].revoked
      /\ ~Live(u) => users[u].revoked
      /\ \A v \in User : users'[v].token = users[v].token
                           /\ users'[v].accessExp = users[v].accessExp
                           /\ users'[v].refreshExp = users[v].refreshExp
      /\ \A v \in User : v # u => users'[v] = users[v]
  BY DEF RestoreUser, TypeOK, UserRow, AccountShape, Live
<1>3. TypeOK'
  BY <1>1, <1>2 DEF TypeOK
<1>4. PairsAreUnique'
  BY <1>1, <1>2 DEF PairsAreUnique
<1>5. MarksAgree'
  <2>1. ASSUME NEW r \in Rows PROVE sess[r].user \in User
    BY DEF TypeOK, Rows, SessionRow
  <2> QED
    BY <1>1, <1>2, <2>1 DEF MarksAgree, Live
<1>6. \A v \in User : Migratable(v, openedAt)' => Migratable(v, openedAt)
  BY <1>1, <1>2 DEF Migratable, HasRow, Live
<1>7. AccountShape' /\ MirrorSettled' /\ RetiredRows'
  BY <1>1, <1>2, <1>6 DEF AccountShape, MirrorSettled, RetiredRows
<1> QED
  BY <1>3, <1>4, <1>5, <1>7

\* HardDeleteUser: the row of users goes with all its session rows.
LEMMA HardDeleteUserIInv == ASSUME IInv, NEW u \in User, HardDeleteUser(u) PROVE IInv'
<1> USE DEF IInv
<1>1. /\ UNCHANGED <<clock, server, openedAt, issued>>
      /\ retired' = retired \cup TokensOf(u) /\ server = "serving"
  BY DEF HardDeleteUser
<1>2. /\ Rows' = { s \in Rows : sess[s].user # u }
      /\ \A s \in Rows' : sess'[s] = sess[s]
      /\ sess' \in [Session -> SessionRow \cup {NoRow}]
  BY DEF HardDeleteUser, Rows, TypeOK
<1>3. /\ users' \in [User -> UserRow]
      /\ users'[u].state = "gone" /\ users'[u].token = NoToken
      /\ users'[u].accessExp = 0 /\ users'[u].refreshExp = 0
      /\ \A v \in User : v # u => users'[v] = users[v]
  BY DEF HardDeleteUser, EmptyUser, TypeOK, UserRow
<1>4. TypeOK'
  BY <1>1, <1>2, <1>3 DEF TypeOK, PairsAreUnique, TokensOf
<1>5. PairsAreUnique'
  BY <1>1, <1>2, <1>3, TokenAssumption DEF PairsAreUnique, TypeOK, Rows, SessionRow
<1>6. MarksAgree'
  BY <1>2, <1>3 DEF MarksAgree, Live, TypeOK, Rows, SessionRow
<1>7. \A v \in User : Migratable(v, openedAt)' => Migratable(v, openedAt)
  <2>1. ASSUME NEW v \in User, Migratable(v, openedAt)' PROVE v # u /\ users'[v] = users[v]
    BY <1>3, <2>1 DEF Migratable, Live
  <2>2. ASSUME NEW v \in User, v # u, NEW s \in Rows, sess[s].token = users[v].token
        PROVE  s \in Rows' /\ sess'[s].token = users[v].token
    BY <1>2, <2>2 DEF PairsAreUnique
  <2> QED
    BY <1>1, <2>1, <2>2 DEF Migratable, HasRow, Live
<1>8. AccountShape' /\ MirrorSettled'
  BY <1>1, <1>3, <1>7 DEF AccountShape, MirrorSettled
<1>9. RetiredRows'
  <2>1. ASSUME NEW s \in Rows' PROVE sess'[s].token \notin TokensOf(u)
    BY <1>2 DEF TokensOf, PairsAreUnique
  <2>2. \A v \in User : ~Migratable(v, openedAt)'
    BY <1>1, <1>7 DEF MirrorSettled
  <2> QED
    BY <1>1, <1>2, <2>1, <2>2 DEF RetiredRows
<1> QED
  BY <1>4, <1>5, <1>6, <1>8, <1>9

-----------------------------------------------------------------------------

\* IInv is an invariant of every behaviour.
THEOREM Invariance == Spec => []IInv
<1>1. IInv /\ [Next]_vars => IInv'
  <2> SUFFICES ASSUME IInv, [Next]_vars PROVE IInv'
    OBVIOUS
  <2>1. CASE UNCHANGED vars
    BY <2>1 DEF vars, IInv, TypeOK, PairsAreUnique, MarksAgree, AccountShape, MirrorSettled,
                RetiredRows, Rows, Migratable, HasRow, Live
  <2>2. CASE Open \/ Serve \/ Crash
    BY <2>2, PhaseIInv
  <2>3. CASE Tick
    BY <2>3, TickIInv
  <2>4. CASE \E u \in User : MigrateOne(u)
    BY <2>4, MigrateOneIInv
  <2>5. CASE \E u \in User, rev \in BOOLEAN : CreateUser(u, rev)
    BY <2>5, CreateUserIInv
  <2>6. CASE \E u \in User, t \in Token : IssueAuthSession(u, t)
    BY <2>6, IssueIInv
  <2>7. CASE \E s \in Session, t \in Token : RefreshAuthSession(s, t)
    BY <2>7, RefreshIInv
  <2>8. CASE \E t \in Token : RevokeSessionByToken(t)
    BY <2>8, RevokeSessionIInv
  <2>9. CASE \E u \in User : RevokeTokens(u)
    BY <2>9, RevokeTokensIInv
  <2>10. CASE \E u \in User : DeleteUser(u)
    BY <2>10, DeleteUserIInv
  <2>11. CASE \E u \in User : RestoreUser(u)
    BY <2>11, RestoreUserIInv
  <2>12. CASE \E u \in User : HardDeleteUser(u)
    BY <2>12, HardDeleteUserIInv
  <2> QED
    BY <2>1, <2>2, <2>3, <2>4, <2>5, <2>6, <2>7, <2>8, <2>9, <2>10, <2>11, <2>12 DEF Next
<1> QED
  BY InitIInv, <1>1, PTL DEF Spec

\* Type correctness, for every instance.
THEOREM TypeCorrect == Spec => []TypeOK
<1>1. IInv => TypeOK
  BY DEF IInv
<1> QED
  BY Invariance, <1>1, PTL

\* The two marks of revocation never disagree (auth_sessions.revoked_at and
\* users.token_revoked_at), whatever the account has been through.
THEOREM MarksAlwaysAgree == Spec => []MarksAgree
<1>1. IInv => MarksAgree
  BY DEF IInv
<1> QED
  BY Invariance, <1>1, PTL

\* A restart after any history turns no mirrored pair into a session.
THEOREM RestartSafe == Spec => []RestartAddsNothing
<1>1. IInv => RestartAddsNothing
  <2> SUFFICES ASSUME IInv, server = "serving", NEW u \in User PROVE ~Migratable(u, clock)
    BY DEF RestartAddsNothing
  <2>1. users[u] \in UserRow /\ clock \in Nat /\ openedAt \in Nat /\ openedAt <= clock
    BY DEF IInv, TypeOK
  <2>2. Migratable(u, clock) => Migratable(u, openedAt)
    BY <2>1 DEF Migratable, UserRow
  <2> QED
    BY <2>2 DEF IInv, MirrorSettled
<1> QED
  BY Invariance, <1>1, PTL

\* A rotated, logged-out or deleted pair is rejected for ever.
THEOREM RetiredForGood == Spec => []RetiredStaysDead
<1>1. IInv => RetiredStaysDead
  BY DEF IInv, RetiredRows, RetiredStaysDead, UserByToken, UserByRefreshToken, AcceptedRow
<1> QED
  BY Invariance, <1>1, PTL

-----------------------------------------------------------------------------
(***************************************************************************)
(* Refinement: the initial tables map to an initial assignment of holders, *)
(* a login maps to Login, a refresh to Rotate, and every other step to     *)
(* Withdraw or to a stutter.                                               *)
(***************************************************************************)

\* At most one account holds a pair, and only a generated pair is held.
LEMMA OneHolder ==
    ASSUME IInv
    PROVE  /\ \A t \in Token, u, v \in User : Holds(u, t) /\ Holds(v, t) => u = v
           /\ \A t \in Token, u \in User : Holds(u, t) => t \in issued
<1> USE DEF IInv
<1>1. ASSUME NEW t \in Token, NEW u \in User, NEW v \in User, RowHolds(u, t), RowHolds(v, t)
      PROVE  u = v
  BY <1>1 DEF RowHolds, PairsAreUnique
<1>2. ASSUME NEW t \in Token, NEW u \in User, NEW v \in User,
             users[u].token = t, Migratable(u, MigrationTime), Holds(v, t)
      PROVE  u = v
  <2>1. ~RowHolds(v, t)
    BY <1>2 DEF Migratable, HasRow, RowHolds
  <2> QED
    BY <1>2, <2>1 DEF Holds, PairsAreUnique, Migratable
<1>3. \A t \in Token, u \in User : Holds(u, t) => t \in issued
  BY TokenAssumption DEF Holds, RowHolds, PairsAreUnique, Migratable
<1> QED
  BY <1>1, <1>2, <1>3 DEF Holds

\* What Holder answers, in each of its three cases.
HolderShape ==
    \A t \in Token :
        /\ \A u \in User : Holder(t) = u <=> Holds(u, t)
        /\ Holder(t) = Unissued <=> t \notin issued
        /\ Holder(t) = Dead <=> t \in issued /\ \A u \in User : ~Holds(u, t)
        /\ Holder(t) \in User \cup {Unissued, Dead}

\* Under the invariant, Holder names the one user who holds the pair.
LEMMA HolderCases == IInv => HolderShape
<1> SUFFICES ASSUME IInv, NEW t \in Token
    PROVE  /\ \A u \in User : Holder(t) = u <=> Holds(u, t)
           /\ Holder(t) = Unissued <=> t \notin issued
           /\ Holder(t) = Dead <=> t \in issued /\ \A u \in User : ~Holds(u, t)
           /\ Holder(t) \in User \cup {Unissued, Dead}
  BY DEF HolderShape
<1>1. CASE t \notin issued
  BY <1>1, OneHolder, HolderAssumption DEF Holder
<1>2. CASE t \in issued /\ \E u \in User : Holds(u, t)
  <2>1. PICK u \in User : Holds(u, t)
    BY <1>2
  <2>2. (CHOOSE v \in User : Holds(v, t)) = u
    BY <2>1, OneHolder
  <2>3. Holder(t) = u
    BY <1>2, <2>2 DEF Holder
  <2> QED
    BY <1>2, <2>1, <2>3, OneHolder, HolderAssumption
<1>3. CASE t \in issued /\ \A u \in User : ~Holds(u, t)
  BY <1>3, HolderAssumption DEF Holder
<1> QED
  BY <1>1, <1>2, <1>3

\* The same, one step later.
LEMMA HolderCasesNext == IInv' => HolderShape'
  BY HolderCases, PTL

\* A step that generates no pair and gives no pair a new holder is a
\* withdrawal, or a stutter.
LEMMA WithdrawalStep ==
    ASSUME IInv, IInv', issued' = issued,
           \A u \in User, t \in Token : Holds(u, t)' => Holds(u, t)
    PROVE  SC!CNext \/ holderMap' = holderMap
<1> DEFINE T == { t \in Token : holderMap'[t] # holderMap[t] }
<1>1. ASSUME NEW t \in Token
      PROVE  /\ holderMap[t] = Holder(t) /\ holderMap'[t] = Holder(t)'
             /\ t \in T => Holder(t) \in User /\ Holder(t)' = Dead
  <2>1. holderMap[t] = Holder(t) /\ holderMap'[t] = Holder(t)'
    BY DEF holderMap
  <2>2. /\ \A u \in User : Holder(t) = u <=> Holds(u, t)
        /\ Holder(t) = Unissued <=> t \notin issued
        /\ Holder(t) = Dead <=> t \in issued /\ \A u \in User : ~Holds(u, t)
        /\ Holder(t) \in User \cup {Unissued, Dead}
    BY HolderCases DEF HolderShape
  <2>3. /\ \A u \in User : Holder(t)' = u <=> Holds(u, t)'
        /\ Holder(t)' = Unissued <=> t \notin issued'
        /\ Holder(t)' = Dead <=> t \in issued' /\ \A u \in User : ~Holds(u, t)'
        /\ Holder(t)' \in User \cup {Unissued, Dead}
    BY HolderCasesNext DEF HolderShape
  <2>4. CASE \E u \in User : Holds(u, t)'
    BY <2>1, <2>2, <2>3, <2>4
  <2>5. CASE \A u \in User : ~Holds(u, t)'
    BY <2>1, <2>2, <2>3, <2>5
  <2> QED
    BY <2>4, <2>5
<1>2. CASE T = {}
  <2>1. holderMap = [t \in Token |-> holderMap[t]] /\ holderMap' = [t \in Token |-> holderMap'[t]]
    BY DEF holderMap
  <2> QED
    BY <1>2, <2>1
<1>3. CASE T # {}
  <2>1. T \in SUBSET SC!Held
    BY <1>1 DEF SC!Held
  <2>2. holderMap' = [t \in Token |-> IF t \in T THEN Dead ELSE holderMap[t]]
    <3>1. holderMap' = [t \in Token |-> holderMap'[t]]
      BY DEF holderMap
    <3> QED
      BY <1>1, <3>1
  <2> QED
    BY <1>3, <2>1, <2>2 DEF SC!CNext, SC!Withdraw
<1> QED
  BY <1>2, <1>3

\* A step that leaves the rows and mirrors of every pair alone but one, which
\* it gives to a user, changes the map at that pair alone.
LEMMA MapPointwise ==
    ASSUME IInv, IInv', NEW w \in Token,
           \A t \in Token : t # w => (t \in issued <=> t \in issued'),
           \A u \in User, t \in Token : t # w => (Holds(u, t)' <=> Holds(u, t))
    PROVE  \A t \in Token : t # w => holderMap'[t] = holderMap[t]
<1> SUFFICES ASSUME NEW t \in Token, t # w PROVE Holder(t)' = Holder(t)
  BY DEF holderMap
<1>1. /\ \A u \in User : Holder(t) = u <=> Holds(u, t)
      /\ Holder(t) = Unissued <=> t \notin issued
      /\ Holder(t) \in User \cup {Unissued, Dead}
  BY HolderCases DEF HolderShape
<1>2. /\ \A u \in User : Holder(t)' = u <=> Holds(u, t)'
      /\ Holder(t)' = Unissued <=> t \notin issued'
      /\ Holder(t)' \in User \cup {Unissued, Dead}
  BY HolderCasesNext DEF HolderShape
<1> QED
  BY <1>1, <1>2, HolderAssumption

\* A login is the contract's Login.
LEMMA IssueStep ==
    ASSUME IInv, IInv', NEW u \in User, NEW t \in Token, IssueAuthSession(u, t)
    PROVE  SC!Login(u, t)
<1> DEFINE row == PairColumns(NewSession(u, t, 0, 0), t)
<1>1. PICK s \in Session \ Rows : sess' = [sess EXCEPT ![s] = row]
  BY DEF IssueAuthSession
<1>2. /\ row.user = u /\ row.token = t /\ ~row.revoked /\ row # NoRow
  <2>1. NewSession(u, t, 0, 0) \in SessionRow
    BY DEF NewSession, SessionRow
  <2> QED
    BY <2>1, FreshColumns DEF IInv, NewSession
<1> HIDE DEF row
<1>3. /\ Rows' = Rows \cup {s} /\ s \notin Rows /\ sess'[s] = row
      /\ \A r \in Rows : sess'[r] = sess[r]
  BY <1>1, <1>2 DEF Rows, IInv, TypeOK
<1>4. /\ server = "serving" /\ server' = "serving" /\ openedAt' = openedAt
      /\ issued' = issued \cup {t} /\ t \notin issued
  BY DEF IssueAuthSession
<1>5. \A v \in User : ~Migratable(v, MigrationTime) /\ ~Migratable(v, MigrationTime)'
  BY <1>4 DEF IInv, MirrorSettled, MigrationTime
<1>6. \A v \in User, w \in Token : w # t => (Holds(v, w)' <=> Holds(v, w))
  BY <1>2, <1>3, <1>5 DEF Holds, RowHolds
<1>7. Holds(u, t)'
  BY <1>2, <1>3 DEF Holds, RowHolds
<1>8. holderMap[t] = Unissued /\ holderMap'[t] = u
  <2>1. Holder(t) = Unissued
    BY <1>4, HolderCases DEF HolderShape
  <2>2. Holder(t)' = u
    BY <1>7, HolderCasesNext DEF HolderShape
  <2> QED
    BY <2>1, <2>2 DEF holderMap
<1>9. \A w \in Token : w # t => holderMap'[w] = holderMap[w]
  BY <1>4, <1>6, MapPointwise
<1>10. holderMap = [w \in Token |-> holderMap[w]] /\ holderMap' = [w \in Token |-> holderMap'[w]]
  BY DEF holderMap
<1> QED
  BY <1>8, <1>9, <1>10 DEF SC!Login

\* A refresh is the contract's Rotate.
LEMMA RefreshStep ==
    ASSUME IInv, IInv', NEW s \in Session, NEW t \in Token, RefreshAuthSession(s, t)
    PROVE  SC!CNext
<1>1. PICK u \in User, old \in Token :
        /\ s \in Rows /\ sess[s] \in SessionRow
        /\ sess[s].user = u /\ sess[s].token = old /\ ~sess[s].revoked
  BY DEF IInv, RefreshAuthSession, AcceptedRow, Rows, TypeOK, SessionRow
<1> DEFINE row == PairColumns(sess[s], t)
<1>2. /\ row.user = u /\ row.token = t /\ ~row.revoked /\ row # NoRow
  BY <1>1, FreshColumns DEF IInv
<1>3. sess' = [sess EXCEPT ![s] = row]
  BY DEF RefreshAuthSession, RotatedRow
<1> HIDE DEF row
<1>4. /\ Rows' = Rows /\ sess'[s] = row
      /\ \A r \in Rows : r # s => sess'[r] = sess[r]
  BY <1>1, <1>2, <1>3 DEF Rows, IInv, TypeOK
<1>5. /\ server = "serving" /\ server' = "serving" /\ openedAt' = openedAt
      /\ issued' = issued \cup {t} /\ t \notin issued /\ old \in issued /\ old # t
  BY <1>1 DEF RefreshAuthSession, IInv, PairsAreUnique
<1>6. \A v \in User : ~Migratable(v, MigrationTime) /\ ~Migratable(v, MigrationTime)'
  BY <1>5 DEF IInv, MirrorSettled, MigrationTime
<1>7. ASSUME NEW v \in User, NEW w \in Token, w # t, w # old
      PROVE  Holds(v, w)' <=> Holds(v, w)
  BY <1>1, <1>2, <1>4, <1>6, <1>7 DEF Holds, RowHolds
<1>8. /\ Holds(u, t)' /\ Holds(u, old) /\ \A v \in User : ~Holds(v, old)'
  <2>1. \A r \in Rows : r # s => sess[r].token # old
    BY <1>1 DEF IInv, PairsAreUnique
  <2> QED
    BY <1>1, <1>2, <1>4, <1>5, <1>6, <2>1 DEF Holds, RowHolds
<1>9. /\ holderMap[t] = Unissued /\ holderMap'[t] = u
      /\ holderMap[old] = u /\ holderMap'[old] = Dead
  <2>1. Holder(t) = Unissued /\ Holder(old) = u
    BY <1>5, <1>8, HolderCases DEF HolderShape
  <2>2. Holder(t)' = u /\ Holder(old)' = Dead
    BY <1>5, <1>8, HolderCasesNext DEF HolderShape
  <2> QED
    BY <2>1, <2>2 DEF holderMap
<1>10. ASSUME NEW w \in Token, w # t, w # old PROVE holderMap'[w] = holderMap[w]
  <2>1. /\ \A v \in User : Holder(w) = v <=> Holds(v, w)
        /\ Holder(w) = Unissued <=> w \notin issued
        /\ Holder(w) \in User \cup {Unissued, Dead}
    BY HolderCases DEF HolderShape
  <2>2. /\ \A v \in User : Holder(w)' = v <=> Holds(v, w)'
        /\ Holder(w)' = Unissued <=> w \notin issued'
        /\ Holder(w)' \in User \cup {Unissued, Dead}
    BY HolderCasesNext DEF HolderShape
  <2>3. Holder(w)' = Holder(w)
    BY <1>5, <1>7, <1>10, <2>1, <2>2, HolderAssumption
  <2> QED
    BY <2>3 DEF holderMap
<1>11. holderMap = [w \in Token |-> holderMap[w]] /\ holderMap' = [w \in Token |-> holderMap'[w]]
  BY DEF holderMap
<1>12. SC!Rotate(old, t)
  BY <1>5, <1>9, <1>10, <1>11 DEF SC!Rotate
<1> QED
  BY <1>12 DEF SC!CNext

\* A pair whose rows and mirror do not change keeps its holder, or loses it
\* because time has passed for an unmigrated mirror.
LEMMA TableStep ==
    ASSUME IInv, IInv', issued' = issued, Rows' \subseteq Rows,
           \A s \in Rows' : /\ sess'[s].user = sess[s].user
                            /\ sess'[s].token = sess[s].token
                            /\ sess[s].revoked => sess'[s].revoked,
           \A u \in User : Migratable(u, MigrationTime)' =>
                /\ Migratable(u, MigrationTime) /\ users'[u].token = users[u].token
    PROVE  SC!CNext \/ holderMap' = holderMap
<1>1. \A u \in User, t \in Token : Holds(u, t)' => Holds(u, t)
  BY DEF Holds, RowHolds
<1> QED
  BY <1>1, WithdrawalStep

\* Starting, stopping and time: the tables stay as they are.
LEMMA PhaseStep ==
    ASSUME IInv, IInv', Open \/ Serve \/ Crash \/ Tick
    PROVE  SC!CNext \/ holderMap' = holderMap
<1>1. UNCHANGED <<users, sess, issued>>
  BY DEF Open, Serve, Crash, Tick
<1>2. Rows' = Rows
  BY <1>1 DEF Rows
<1>3. /\ clock \in Nat /\ openedAt \in Nat /\ openedAt <= clock
      /\ clock' \in Nat /\ openedAt' \in Nat /\ clock' >= clock
  BY DEF IInv, TypeOK, Open, Serve, Crash, Tick
<1>4. MigrationTime \in Nat /\ MigrationTime' \in Nat /\ MigrationTime' >= MigrationTime
  BY <1>3 DEF MigrationTime, Open, Serve, Crash, Tick
<1>5. ASSUME NEW u \in User, Migratable(u, MigrationTime)'
      PROVE  Migratable(u, MigrationTime)
  <2>1. users[u].accessExp \in Nat /\ users[u].refreshExp \in Nat
    BY DEF IInv, TypeOK, UserRow
  <2> QED
    BY <1>1, <1>2, <1>4, <1>5, <2>1 DEF Migratable, HasRow, Live
<1> QED
  BY <1>1, <1>2, <1>5, TableStep

\* A migrated mirror becomes a row of the same holder.
LEMMA MigrateStep ==
    ASSUME IInv, IInv', NEW u \in User, MigrateOne(u)
    PROVE  SC!CNext \/ holderMap' = holderMap
<1> DEFINE row == NewSession(u, users[u].token, users[u].accessExp, users[u].refreshExp)
<1>1. PICK s \in Session \ Rows : sess' = [sess EXCEPT ![s] = row]
  BY DEF MigrateOne
<1>2. row.user = u /\ row.token = users[u].token /\ ~row.revoked
  BY DEF NewSession
<1>3. UNCHANGED <<clock, server, openedAt, users, issued>> /\ server = "opening"
      /\ Migratable(u, openedAt)
  BY DEF MigrateOne
<1> HIDE DEF row
<1>4. /\ Rows' \subseteq Rows \cup {s} /\ Rows \subseteq Rows'
      /\ sess'[s] = row /\ \A r \in Rows : sess'[r] = sess[r]
  BY <1>1 DEF Rows, IInv, TypeOK
<1>5. MigrationTime' = openedAt /\ MigrationTime = openedAt
  BY <1>3 DEF MigrationTime
<1>6. ASSUME NEW v \in User, Migratable(v, MigrationTime)'
      PROVE  Migratable(v, MigrationTime)
  BY <1>3, <1>4, <1>5, <1>6 DEF Migratable, HasRow, Live
<1>7. ASSUME NEW v \in User, NEW t \in Token, RowHolds(v, t)'
      PROVE  Holds(v, t)
  <2>1. PICK r \in Rows' : sess'[r].token = t /\ ~sess'[r].revoked /\ sess'[r].user = v
    BY <1>7 DEF RowHolds
  <2>2. CASE r = s
    BY <1>2, <1>3, <1>4, <1>5, <2>1, <2>2 DEF Holds
  <2>3. CASE r # s
    BY <1>4, <2>1, <2>3 DEF Holds, RowHolds
  <2> QED
    BY <2>2, <2>3
<1>8. \A v \in User, t \in Token : Holds(v, t)' => Holds(v, t)
  BY <1>3, <1>6, <1>7 DEF Holds
<1> QED
  BY <1>3, <1>8, WithdrawalStep

\* While the server runs no mirror is migratable, so only rows matter.
LEMMA ServingStep ==
    ASSUME IInv, IInv', server = "serving", server' = "serving",
           issued' = issued, Rows' \subseteq Rows,
           \A s \in Rows' : /\ sess'[s].user = sess[s].user
                            /\ sess'[s].token = sess[s].token
                            /\ sess[s].revoked => sess'[s].revoked
    PROVE  SC!CNext \/ holderMap' = holderMap
<1>1. \A u \in User : ~Migratable(u, MigrationTime)'
  BY DEF IInv, MirrorSettled, MigrationTime
<1> QED
  BY <1>1, TableStep

\* The account operations that generate no pair.
LEMMA AccountStep ==
    ASSUME IInv, IInv', NEW u \in User,
           \/ \E rev \in BOOLEAN : CreateUser(u, rev)
           \/ RevokeTokens(u) \/ DeleteUser(u) \/ RestoreUser(u) \/ HardDeleteUser(u)
    PROVE  SC!CNext \/ holderMap' = holderMap
<1>1. server = "serving" /\ server' = "serving" /\ issued' = issued
  BY DEF CreateUser, RevokeTokens, DeleteUser, RestoreUser, HardDeleteUser
<1>2. CASE (\E rev \in BOOLEAN : CreateUser(u, rev)) \/ RestoreUser(u)
  <2>1. sess' = sess /\ Rows' = Rows
    BY <1>2 DEF CreateUser, RestoreUser, Rows
  <2> QED
    BY <1>1, <2>1, ServingStep
<1>3. CASE RevokeTokens(u) \/ DeleteUser(u)
  <2>1. sess' = RevokeAll(u)
    BY <1>3 DEF RevokeTokens, LoggedOutRows, DeleteUser, DeletedRows
  <2>2. Rows' = Rows
    BY <2>1, RevokeAllRows DEF IInv
  <2>3. \A s \in Rows : /\ sess'[s].user = sess[s].user
                        /\ sess'[s].token = sess[s].token
                        /\ sess[s].revoked => sess'[s].revoked
    BY <2>1, RevokeAllRows DEF IInv
  <2>4. Rows' \subseteq Rows
    BY <2>2
  <2>5. \A s \in Rows' : /\ sess'[s].user = sess[s].user
                         /\ sess'[s].token = sess[s].token
                         /\ sess[s].revoked => sess'[s].revoked
    BY <2>2, <2>3, Zenon
  <2> QED
    BY <1>1, <2>4, <2>5, ServingStep
<1>4. CASE HardDeleteUser(u)
  <2>1. /\ Rows' \subseteq Rows /\ \A s \in Rows' : sess'[s] = sess[s]
    BY <1>4 DEF HardDeleteUser, Rows, IInv, TypeOK
  <2> QED
    BY <1>1, <2>1, ServingStep
<1> QED
  BY <1>2, <1>3, <1>4

\* Logging one device out withdraws its pair.
LEMMA RevokeSessionStep ==
    ASSUME IInv, IInv', NEW t \in Token, RevokeSessionByToken(t)
    PROVE  SC!CNext \/ holderMap' = holderMap
<1>1. server = "serving" /\ server' = "serving" /\ issued' = issued
  BY DEF RevokeSessionByToken
<1>2. ASSUME NEW s \in Rows, sess[s].token = t
      PROVE  /\ sess'[s].user = sess[s].user /\ sess'[s].token = sess[s].token
             /\ sess'[s].revoked
  <2>1. sess'[s] = [sess[s] EXCEPT !.revoked = TRUE] /\ sess[s] \in SessionRow
    BY <1>2 DEF RevokeSessionByToken, Rows, IInv, TypeOK
  <2> QED
    BY <2>1 DEF SessionRow
<1>3. ASSUME NEW s \in Session, s \notin Rows \/ sess[s].token # t
      PROVE  sess'[s] = sess[s]
  BY <1>3 DEF RevokeSessionByToken
<1>4. Rows' \subseteq Rows
  BY <1>3 DEF Rows
<1>5. \A s \in Rows' : /\ sess'[s].user = sess[s].user
                       /\ sess'[s].token = sess[s].token
                       /\ sess[s].revoked => sess'[s].revoked
  <2> SUFFICES ASSUME NEW s \in Rows'
               PROVE  /\ sess'[s].user = sess[s].user
                      /\ sess'[s].token = sess[s].token
                      /\ sess[s].revoked => sess'[s].revoked
    OBVIOUS
  <2>1. s \in Rows /\ s \in Session
    BY <1>4 DEF Rows
  <2>2. CASE sess[s].token = t
    BY <1>2, <2>1, <2>2
  <2>3. CASE sess[s].token # t
    BY <1>3, <2>1, <2>3
  <2> QED
    BY <2>2, <2>3
<1> QED
  BY <1>1, <1>4, <1>5, ServingStep

-----------------------------------------------------------------------------

\* The tables implement the contract: a dead pair never comes back, a login
\* and a refresh disturb no other device, and no step moves a pair from one
\* account to another.
THEOREM Refinement == Spec => ImplementsContract
<1>1. IInv => SC!CInit
  <2>1. IInv => \A t \in Token : Holder(t) \in User \cup {Unissued, Dead}
    BY HolderCases DEF HolderShape
  <2> QED
    BY <2>1 DEF SC!CInit, holderMap
<1>2. IInv /\ IInv' /\ [Next]_vars => [SC!CNext]_holderMap
  <2> SUFFICES ASSUME IInv, IInv', [Next]_vars PROVE SC!CNext \/ holderMap' = holderMap
    OBVIOUS
  <2>1. CASE UNCHANGED vars
    BY <2>1 DEF vars, holderMap, Holder, Holds, RowHolds, Rows, Migratable, MigrationTime,
                HasRow, Live
  <2>2. CASE Open \/ Serve \/ Crash \/ Tick
    BY <2>2, PhaseStep
  <2>3. CASE \E u \in User : MigrateOne(u)
    BY <2>3, MigrateStep
  <2>4. CASE \E u \in User, t \in Token : IssueAuthSession(u, t)
    BY <2>4, IssueStep DEF SC!CNext
  <2>5. CASE \E s \in Session, t \in Token : RefreshAuthSession(s, t)
    BY <2>5, RefreshStep
  <2>6. CASE \E t \in Token : RevokeSessionByToken(t)
    BY <2>6, RevokeSessionStep
  <2>7. CASE \E u \in User :
               \/ \E rev \in BOOLEAN : CreateUser(u, rev)
               \/ RevokeTokens(u) \/ DeleteUser(u) \/ RestoreUser(u) \/ HardDeleteUser(u)
    BY <2>7, AccountStep
  <2> QED
    BY <2>1, <2>2, <2>3, <2>4, <2>5, <2>6, <2>7 DEF Next
<1> QED
  BY Invariance, <1>1, <1>2, PTL DEF ImplementsContract, SC!Contract, Spec
=============================================================================
