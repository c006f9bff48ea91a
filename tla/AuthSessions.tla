---------------------------- MODULE AuthSessions ----------------------------
(***************************************************************************)
(* Device sessions of the account server: internal/store/auth_sessions.go, *)
(* the token queries of internal/store/store.go and the account operations *)
(* that end sessions.                                                      *)
(*                                                                         *)
(* One element of Token is one access/refresh PAIR: newTokenPair makes     *)
(* both at once, and every statement that writes one writes the other.     *)
(* The users table keeps a mirror of the pair issued last (the only copy   *)
(* an older release had); auth_sessions keeps one row per device.  SQLite  *)
(* runs with a single connection, so each transaction is one action.       *)
(***************************************************************************)
EXTENDS Naturals

CONSTANTS
    User,        \* account ids; an id is used by at most one account
    Session,     \* row ids of auth_sessions
    Token,       \* token pairs
    NoToken,     \* the empty token mirror of users ('' / null)
    NoRow,       \* a row id of auth_sessions that holds no row
    Unissued, Dead,          \* the states of a token nobody holds
    AccessTTL, RefreshTTL,   \* lifetimes, in clock ticks
    MaxTime      \* bound of the clock, for TLC only

ASSUME TokenAssumption == NoToken \notin Token
ASSUME RowAssumption ==
    NoRow \notin [user : User, token : Token, accessExp : Nat,
                  refreshExp : Nat, revoked : BOOLEAN]
ASSUME HolderAssumption == Unissued \notin User /\ Dead \notin User /\ Unissued # Dead
ASSUME TTLAssumption ==
    AccessTTL \in Nat /\ RefreshTTL \in Nat /\ AccessTTL < RefreshTTL
ASSUME MaxTimeAssumption == MaxTime \in Nat

VARIABLES
    clock,     \* unix time
    server,    \* "down", "opening" (Open is migrating) or "serving"
    openedAt,  \* the `now` of migrateLegacyAuthSessions in the last Open
    users,     \* the users table: account state and token mirror
    sess,      \* the auth_sessions table
    issued,    \* history: every pair ever generated
    retired    \* history: pairs refreshed away, logged out or deleted

vars == <<clock, server, openedAt, users, sess, issued, retired>>

-----------------------------------------------------------------------------
(* Rows *)

SessionRow == [user : User, token : Token, accessExp : Nat,
               refreshExp : Nat, revoked : BOOLEAN]

UserRow == [state : {"absent", "live", "deleted", "gone"},
            revoked : BOOLEAN,               \* token_revoked_at is not null
            token : Token \cup {NoToken},
            accessExp : Nat, refreshExp : Nat]

EmptyUser == [state |-> "absent", revoked |-> FALSE, token |-> NoToken,
              accessExp |-> 0, refreshExp |-> 0]

Rows == { s \in Session : sess[s] # NoRow }

HasRow(t) == \E s \in Rows : sess[s].token = t

TokensOf(u) == { sess[s].token : s \in { r \in Rows : sess[r].user = u } }

Live(u) == users[u].state = "live"

\* mutant: the two expiries that newTokenPair returns side by side are swapped
SwappedColumns(row, t) ==
    [row EXCEPT !.token = t,
                !.accessExp = clock + RefreshTTL,
                !.refreshExp = clock + AccessTTL]

\* The columns of a pair issued at the current time (newTokenPair).
PairColumns(row, t) ==
    [row EXCEPT !.token = t,
                !.accessExp = clock + AccessTTL,
                !.refreshExp = clock + RefreshTTL]

NewSession(u, t, ax, rx) ==
    [user |-> u, token |-> t, accessExp |-> ax, refreshExp |-> rx, revoked |-> FALSE]

\* "update auth_sessions set revoked_at = ? where user_id = ? and revoked_at is null"
RevokeAll(u) ==
    [s \in Session |-> IF s \in Rows /\ sess[s].user = u
                       THEN [sess[s] EXCEPT !.revoked = TRUE] ELSE sess[s]]

-----------------------------------------------------------------------------
(* Which tokens the queries accept *)

AcceptedRow(s) ==
    /\ s \in Rows
    /\ ~sess[s].revoked
    /\ Live(sess[s].user)
    /\ ~users[sess[s].user].revoked

UserByToken(t) ==
    \E s \in Session :
        AcceptedRow(s) /\ sess[s].token = t /\ sess[s].accessExp >= clock

UserByRefreshToken(t) ==
    \E s \in Session :
        AcceptedRow(s) /\ sess[s].token = t /\ sess[s].refreshExp >= clock

-----------------------------------------------------------------------------
(* The initial database: fresh, or written by a release that knew only the *)
(* token mirror of users.                                                  *)

LegacyUser(t, life, rev) ==
    [state |-> "live", revoked |-> rev, token |-> t, accessExp |-> life,
     refreshExp |-> life + (RefreshTTL - AccessTTL)]

Init ==
    /\ clock = 0
    /\ server = "down"
    /\ openedAt = 0
    /\ users \in [User -> {EmptyUser} \cup
                  { LegacyUser(t, life, rev) :
                      t \in Token, life \in 0..AccessTTL, rev \in BOOLEAN }]
    /\ \A u, v \in User :
          users[u].token = users[v].token /\ users[u].token # NoToken => u = v
    /\ sess = [s \in Session |-> NoRow]
    /\ issued = { users[u].token : u \in User } \ {NoToken}
    /\ retired = {}

-----------------------------------------------------------------------------
(* Opening the store *)

\* The conditions of migrateLegacyAuthSessions at its time `now`.
Migratable(u, now) ==
    /\ Live(u)
    /\ users[u].token # NoToken
    /\ ~users[u].revoked
    /\ users[u].accessExp >= now
    /\ users[u].refreshExp >= now
    /\ ~HasRow(users[u].token)

Open ==
    /\ server = "down"
    /\ server' = "opening"
    /\ openedAt' = clock
    /\ UNCHANGED <<clock, users, sess, issued, retired>>

\* One insert of migrateLegacyAuthSessions; each is a transaction of its own.
MigrateOne(u) ==
    /\ server = "opening"
    /\ Migratable(u, openedAt)
    /\ \E s \in Session \ Rows :
          sess' = [sess EXCEPT ![s] =
                     NewSession(u, users[u].token, users[u].accessExp, users[u].refreshExp)]
    /\ UNCHANGED <<clock, server, openedAt, users, issued, retired>>

Serve ==
    /\ server = "opening"
    /\ \A u \in User : ~Migratable(u, openedAt)
    /\ server' = "serving"
    /\ UNCHANGED <<clock, openedAt, users, sess, issued, retired>>

\* The process stops, in the middle of Open too; the tables are durable.
Crash ==
    /\ server # "down"
    /\ server' = "down"
    /\ UNCHANGED <<clock, openedAt, users, sess, issued, retired>>

Tick ==
    /\ clock < MaxTime
    /\ clock' = clock + 1
    /\ UNCHANGED <<server, openedAt, users, sess, issued, retired>>

-----------------------------------------------------------------------------
(* Accounts *)

\* CreateAccount writes token_revoked_at = 0, createUser writes null.
CreateUser(u, rev) ==
    /\ server = "serving"
    /\ users[u].state = "absent"
    /\ users' = [users EXCEPT ![u].state = "live", ![u].revoked = rev]
    /\ UNCHANGED <<clock, server, openedAt, sess, issued, retired>>

\* issueAuthSession: the mirror and a new session row in one transaction.
IssueAuthSession(u, t) ==
    /\ server = "serving"
    /\ Live(u)
    /\ t \notin issued
    /\ users' = [users EXCEPT ![u] = [PairColumns(@, t) EXCEPT !.revoked = FALSE]]
    /\ \E s \in Session \ Rows :
          sess' = [sess EXCEPT ![s] =
                     PairColumns(NewSession(u, t, 0, 0), t)]
    /\ issued' = issued \cup {t}
    /\ UNCHANGED <<clock, server, openedAt, retired>>

\* mutant: the refreshed pair is not written to the mirror of users
MirrorKept(u, t) == users

\* the last update of refreshAuthSession
RefreshedMirror(u, t) == [users EXCEPT ![u] = PairColumns(@, t)]

\* mutant: a refresh signs the user's other devices out
OnlyDevice(s, t) == [RevokeAll(sess[s].user) EXCEPT ![s] = PairColumns(sess[s], t)]

\* the rotation of the presented session, and of no other
RotatedRow(s, t) == [sess EXCEPT ![s] = PairColumns(@, t)]

\* refreshAuthSession: rotate the presented session, and the mirror.
RefreshAuthSession(s, t) ==
    /\ server = "serving"
    /\ AcceptedRow(s)
    /\ sess[s].refreshExp >= clock
    /\ t \notin issued
    /\ sess' = RotatedRow(s, t)
    /\ users' = RefreshedMirror(sess[s].user, t)
    /\ issued' = issued \cup {t}
    /\ retired' = retired \cup {sess[s].token}
    /\ UNCHANGED <<clock, server, openedAt>>

RevokeSessionByToken(t) ==
    /\ server = "serving"
    /\ \E s \in Rows : sess[s].token = t /\ ~sess[s].revoked
    /\ sess' = [s \in Session |-> IF s \in Rows /\ sess[s].token = t
                                  THEN [sess[s] EXCEPT !.revoked = TRUE] ELSE sess[s]]
    /\ retired' = retired \cup {t}
    /\ UNCHANGED <<clock, server, openedAt, users, issued>>

\* mutant: logging out everywhere marks the account and forgets the rows
RowsKept(u) == sess

\* RevokeTokens' second update
LoggedOutRows(u) == RevokeAll(u)

\* RevokeTokens (admin "log out everywhere"): mark the account, if not
\* deleted, and revoke its rows.
RevokeTokens(u) ==
    /\ server = "serving"
    /\ users[u].state \in {"live", "deleted"}
    /\ users' = IF Live(u) THEN [users EXCEPT ![u].revoked = TRUE] ELSE users
    /\ sess' = LoggedOutRows(u)
    /\ retired' = retired \cup TokensOf(u)
    /\ UNCHANGED <<clock, server, openedAt, issued>>

\* mutant: the deleted row keeps its token columns and its rows
DeletedKeepingRows(u) ==
    /\ users' = [users EXCEPT ![u].state = "deleted"]
    /\ sess' = sess

\* DeleteUser's transaction, and CompleteCancellation's when it deletes.
DeletedRows(u) ==
    /\ users' = IF Live(u)
                THEN [users EXCEPT ![u].state = "deleted", ![u].revoked = TRUE,
                                   ![u].token = NoToken]
                ELSE users
    /\ sess' = RevokeAll(u)

DeleteUser(u) ==
    /\ server = "serving"
    /\ users[u].state \in {"live", "deleted"}
    /\ DeletedRows(u)
    /\ retired' = retired \cup TokensOf(u)
    /\ UNCHANGED <<clock, server, openedAt, issued>>

\* RestoreUser: clears deleted_at and leaves every token column alone; it is
\* as happy with a live account.
RestoreUser(u) ==
    /\ server = "serving"
    /\ users[u].state \in {"live", "deleted"}
    /\ users' = [users EXCEPT ![u].state = "live"]
    /\ UNCHANGED <<clock, server, openedAt, sess, issued, retired>>

HardDeleteUser(u) ==
    /\ server = "serving"
    /\ users[u].state \in {"live", "deleted"}
    /\ users' = [users EXCEPT ![u] = [EmptyUser EXCEPT !.state = "gone"]]
    /\ sess' = [s \in Session |-> IF s \in Rows /\ sess[s].user = u THEN NoRow ELSE sess[s]]
    /\ retired' = retired \cup TokensOf(u)
    /\ UNCHANGED <<clock, server, openedAt, issued>>

-----------------------------------------------------------------------------
Next ==
    \/ Open
    \/ \E u \in User : MigrateOne(u)
    \/ Serve
    \/ Crash
    \/ Tick
    \/ \E u \in User, rev \in BOOLEAN : CreateUser(u, rev)
    \/ \E u \in User, t \in Token : IssueAuthSession(u, t)
    \/ \E s \in Session, t \in Token : RefreshAuthSession(s, t)
    \/ \E t \in Token : RevokeSessionByToken(t)
    \/ \E u \in User : RevokeTokens(u)
    \/ \E u \in User : DeleteUser(u)
    \/ \E u \in User : RestoreUser(u)
    \/ \E u \in User : HardDeleteUser(u)

Spec == Init /\ [][Next]_vars
-----------------------------------------------------------------------------
(* Properties *)

\* The variables hold rows of the right shape, an access token never outlives
\* the refresh token issued with it, and Open's time is not in the future.
TypeOK ==
    /\ clock \in Nat
    /\ server \in {"down", "opening", "serving"}
    /\ openedAt \in 0..clock
    /\ users \in [User -> UserRow]
    /\ sess \in [Session -> SessionRow \cup {NoRow}]
    /\ issued \subseteq Token
    /\ retired \subseteq issued
    /\ \A s \in Rows : sess[s].accessExp <= sess[s].refreshExp
    /\ \A u \in User : users[u].accessExp <= users[u].refreshExp

\* A pair identifies one session row, was generated, and the mirror that
\* holds it belongs to the user of that row and to nobody else.
PairsAreUnique ==
    /\ \A s \in Rows : sess[s].token \in issued
    /\ \A r, s \in Rows : sess[r].token = sess[s].token => r = s
    /\ \A u \in User : users[u].token \in issued \cup {NoToken}
    /\ \A u, v \in User :
          users[u].token = users[v].token /\ users[u].token # NoToken => u = v
    /\ \A u \in User, s \in Rows : users[u].token = sess[s].token => sess[s].user = u

\* The two marks of revocation agree: a session row that is not revoked
\* belongs to an account that is neither deleted nor marked logged out, so
\* clearing the account's mark at the next login revives no old row.
MarksAgree ==
    \A s \in Rows : ~sess[s].revoked => Live(sess[s].user) /\ ~users[sess[s].user].revoked

\* While the server runs, the mirror holds no pair that the next Open would
\* turn into a session row: a restart logs no device in.
RestartAddsNothing ==
    server = "serving" => \A u \in User : ~Migratable(u, clock)

\* A pair that was refreshed away, logged out or deleted is never accepted
\* again, and no later Open can bring it back.
RetiredStaysDead ==
    \A t \in retired :
        /\ ~UserByToken(t)
        /\ ~UserByRefreshToken(t)
        /\ \A u \in User : users[u].token = t => ~Migratable(u, openedAt)

\* The inductive strengthening of the invariants above.
AccountShape ==
    \A u \in User :
        /\ users[u].state = "deleted" => users[u].revoked
        /\ users[u].state \in {"absent", "gone"} => users[u].token = NoToken

MirrorSettled == server = "serving" => \A u \in User : ~Migratable(u, openedAt)

RetiredRows ==
    /\ \A s \in Rows : sess[s].token \in retired => sess[s].revoked
    /\ \A u \in User : users[u].token \in retired => ~Migratable(u, openedAt)

IInv ==
    /\ TypeOK
    /\ PairsAreUnique
    /\ MarksAgree
    /\ AccountShape
    /\ MirrorSettled
    /\ RetiredRows

\* Who holds a pair: the user of its unrevoked row, or, before Open has
\* migrated it, the user whose mirror has it.
MigrationTime == IF server = "down" THEN clock ELSE openedAt

RowHolds(u, t) ==
    \E s \in Rows : sess[s].token = t /\ ~sess[s].revoked /\ sess[s].user = u

Holds(u, t) == RowHolds(u, t) \/ (users[u].token = t /\ Migratable(u, MigrationTime))

Holder(t) ==
    IF t \notin issued THEN Unissued
    ELSE IF \E u \in User : Holds(u, t) THEN CHOOSE u \in User : Holds(u, t)
    ELSE Dead

holderMap == [t \in Token |-> Holder(t)]

SC == INSTANCE SessionContract WITH holder <- holderMap

\* Through restarts, upgrades and every account operation, the tables keep
\* the contract of SessionContract.
ImplementsContract == SC!Contract
=============================================================================
