------------------------------ MODULE LoginFlow ------------------------------
(***************************************************************************)
(* The handlers that log in, register and set passwords (internal/app/     *)
(* app.go), run by concurrent requests under the registration policy of    *)
(* config.Auth.  Each handler looks an account up, decides, and then acts  *)
(* in further SQL statements; other requests run between any two of them.  *)
(*                                                                         *)
(* A verification code is taken to be right whenever the handler asks:     *)
(* README.md:154 promises the policy even for codes written by hand.  A    *)
(* wrong code, a short password and a database error are all Abort.  Names *)
(* are phone numbers; e-mail addresses differ in losing a registration     *)
(* race with an error instead of logging in.                               *)
(***************************************************************************)
EXTENDS Naturals, FiniteSets

CONSTANTS
    Account,    \* row ids of users, each used at most once
    Phone,      \* phone numbers
    Req,        \* requests in flight at one time
    NoAccount,  \* the zero User
    NoPhone     \* the name of a row that is not live

ASSUME NoneAssumption == NoAccount \notin Account /\ NoPhone \notin Phone

VARIABLES
    policy,  \* allow_register, sms_only_register, real_password
    users,   \* the users table: state, phone and "has a password"
    req,     \* the requests
    effect   \* history: what the last step did, for the properties

vars == <<policy, users, req, effect>>

(* login..recover prove a code; password and change prove the password.    *)
Registering == {"login", "register", "ucRegister"}
Resetting == {"reset", "ucRecover"}
ByCode == Registering \cup Resetting
ByPassword == {"password", "change"}
Flow == ByCode \cup ByPassword

UserRow == [state : {"absent", "live", "deleted", "gone"},
            phone : Phone \cup {NoPhone}, pw : BOOLEAN]
Request == [pc : {"idle", "verify", "resolve", "insert", "again", "grant", "write"},
            flow : Flow, phone : Phone \cup {NoPhone}, withPw : BOOLEAN,
            acct : Account \cup {NoAccount},  \* the account acted upon
            seenPw : BOOLEAN,                 \* `existing` had a password
            created : BOOLEAN,
            raced : BOOLEAN]                  \* history: see Touched
Idle == [pc |-> "idle", flow |-> "login", phone |-> NoPhone, withPw |-> FALSE,
         acct |-> NoAccount, seenPw |-> FALSE, created |-> FALSE, raced |-> FALSE]

Effect == [kind : {"none", "created", "session", "password"}, flow : Flow,
           hadPw : BOOLEAN, raced : BOOLEAN]
NoEffect == [kind |-> "none", flow |-> "login", hadPw |-> FALSE, raced |-> FALSE]
Done(k, r, hadPw) == [kind |-> k, flow |-> req[r].flow, hadPw |-> hadPw,
                      raced |-> req[r].raced]

Absent == [state |-> "absent", phone |-> NoPhone, pw |-> FALSE]
Init ==
    /\ policy \in [allow : BOOLEAN, smsOnly : BOOLEAN, realPw : BOOLEAN]
    /\ users = [a \in Account |-> Absent]
    /\ req = [r \in Req |-> Idle]
    /\ effect = NoEffect

-----------------------------------------------------------------------------
(* userByPhone; the zero User when no live row has the name.               *)
Holders(p) == { a \in Account : users[a].state = "live" /\ users[a].phone = p }
ByPhone(p) == IF Holders(p) = {} THEN NoAccount ELSE CHOOSE a \in Holders(p) : TRUE
HasPassword(a) == a # NoAccount /\ users[a].pw

(* A write to the row of a phone number marks every request under way for *)
(* that number as raced.                                                   *)
Touched(phones) ==
    [q \in Req |-> IF req[q].pc # "idle" /\ req[q].phone \in phones
                   THEN [req[q] EXCEPT !.raced = TRUE] ELSE req[q]]
Step(r, rec) == req' = [req EXCEPT ![r] = rec]

\* mutant: registering ignores allow_register
AdmittedClosed(flow, a) ==
    CASE flow \in {"login", "register", "ucRegister"} -> a # NoAccount => ~policy.smsOnly
      [] flow \in Resetting -> policy.smsOnly => a # NoAccount /\ ~HasPassword(a)
      [] flow \in ByPassword -> HasPassword(a)
\* mutant: logging in by code ignores sms_only_register
AdmittedByCode(flow, a) ==
    CASE flow = "login" -> a # NoAccount \/ policy.allow
      [] flow \in {"register", "ucRegister"} ->
            IF a = NoAccount THEN policy.allow ELSE ~policy.smsOnly
      [] flow \in Resetting -> policy.smsOnly => a # NoAccount /\ ~HasPassword(a)
      [] flow \in ByPassword -> HasPassword(a)

(* The decision of each handler on the account it found, before a code is  *)
(* looked at.  A reset that is not admitted is answered with success.      *)
Admitted(flow, a) ==
    CASE flow = "login" -> ~policy.smsOnly /\ (a # NoAccount \/ policy.allow)
      [] flow \in {"register", "ucRegister"} ->
            /\ a # NoAccount => ~policy.smsOnly
            /\ a = NoAccount => policy.allow
      [] flow \in Resetting ->
            policy.smsOnly => a # NoAccount /\ ~HasPassword(a)
      [] flow \in ByPassword -> HasPassword(a)

(* loginLike takes the password path when a password is sent and counts.   *)
PasswordCounts == policy.realPw \/ policy.smsOnly

Lookup(r, flow, p, withPw) ==
    /\ req[r].pc = "idle"
    /\ flow = "login" /\ withPw => ~PasswordCounts
    /\ flow = "password" => withPw /\ PasswordCounts
    /\ flow \in {"ucRecover", "change"} => withPw
    /\ Admitted(flow, ByPhone(p))
    /\ Step(r, [pc |-> IF flow \in ByPassword THEN "grant" ELSE "verify",
                flow |-> flow, phone |-> p, withPw |-> withPw,
                acct |-> ByPhone(p), seenPw |-> HasPassword(ByPhone(p)),
                created |-> FALSE, raced |-> FALSE])
    /\ effect' = NoEffect
    /\ UNCHANGED <<policy, users>>

\* mutant: a reset that forgets the missing account
ResetsAnyone(r) == req[r].flow = "reset" => PasswordCounts /\ req[r].withPw

(* What a reset does once its code is consumed: nothing for a number that  *)
(* had no account, nothing when passwords do not count (passwordReset).    *)
ResetWrites(r) ==
    /\ req[r].acct # NoAccount
    /\ req[r].flow = "reset" => PasswordCounts /\ req[r].withPw

(* verifySMSForScene, verifySMSForAnyScene: the code is right.             *)
Verify(r) ==
    /\ req[r].pc = "verify"
    /\ Step(r, IF req[r].flow \in Registering THEN [req[r] EXCEPT !.pc = "resolve"]
               ELSE IF ResetWrites(r) THEN [req[r] EXCEPT !.pc = "write"] ELSE Idle)
    /\ effect' = NoEffect
    /\ UNCHANGED <<policy, users>>

(* GetOrCreateUser, first statement: the account is looked up again.       *)
Resolve(r) ==
    /\ req[r].pc = "resolve"
    /\ LET a == ByPhone(req[r].phone)
       IN Step(r, [req[r] EXCEPT !.acct = a,
                                 !.pc = IF a = NoAccount THEN "insert" ELSE "grant"])
    /\ effect' = NoEffect
    /\ UNCHANGED <<policy, users>>

(* createUser: the insert, which the unique index on the name may refuse.  *)
InsertUser(r) ==
    /\ req[r].pc = "insert"
    /\ Holders(req[r].phone) = {}
    /\ \E a \in Account :
          /\ users[a].state = "absent"
          /\ users' = [users EXCEPT ![a] = [state |-> "live", phone |-> req[r].phone,
                                            pw |-> FALSE]]
          /\ req' = [Touched({req[r].phone}) EXCEPT
                        ![r] = [req[r] EXCEPT !.acct = a, !.created = TRUE, !.pc = "grant"]]
    /\ effect' = Done("created", r, FALSE)
    /\ UNCHANGED policy

InsertRefused(r) ==
    /\ req[r].pc = "insert"
    /\ Holders(req[r].phone) # {}
    /\ Step(r, [req[r] EXCEPT !.pc = "again"])
    /\ effect' = NoEffect
    /\ UNCHANGED <<policy, users>>

\* mutant: every password sent along is stored
WantsAnyPassword(r, created) ==
    req[r].flow = "change" \/ (req[r].flow \in Registering /\ req[r].withPw)

(* What is left to do after GetOrCreateUser or the password check.         *)
WantsPassword(r, created) ==
    CASE req[r].flow \in {"login", "register"} -> req[r].withPw /\ ~req[r].seenPw
      [] req[r].flow = "ucRegister" -> req[r].withPw /\ created
      [] req[r].flow = "change" -> TRUE
      [] OTHER -> FALSE

(* createUser, the lookup after a refused insert.  When the row has gone   *)
(* meanwhile the zero User is returned without an error: no session, and   *)
(* SetPasswordHash of id 0 changes no row.                                 *)
LookupAgain(r) ==
    /\ req[r].pc = "again"
    /\ LET a == ByPhone(req[r].phone)
       IN Step(r, IF a = NoAccount THEN Idle ELSE [req[r] EXCEPT !.acct = a, !.pc = "grant"])
    /\ effect' = NoEffect
    /\ UNCHANGED <<policy, users>>

(* issueAuthSession, which refuses a row that is no longer live.           *)
Grant(r) ==
    /\ req[r].pc = "grant"
    /\ users[req[r].acct].state = "live"
    /\ Step(r, IF WantsPassword(r, req[r].created) THEN [req[r] EXCEPT !.pc = "write"] ELSE Idle)
    /\ effect' = Done("session", r, users[req[r].acct].pw)
    /\ UNCHANGED <<policy, users>>

(* setPassword, SetPasswordHash: by id, whatever has become of the row.    *)
SetPassword(r) ==
    /\ req[r].pc = "write"
    /\ LET a == req[r].acct
           hit == users[a].state \in {"live", "deleted"}
       IN /\ users' = IF hit THEN [users EXCEPT ![a].pw = TRUE] ELSE users
          /\ req' = [Touched({users[a].phone}) EXCEPT ![r] = Idle]
          /\ effect' = IF hit THEN Done("password", r, users[a].pw) ELSE NoEffect
    /\ UNCHANGED policy

(* An error return before the request has finished.                        *)
Abort(r) ==
    /\ req[r].pc # "idle"
    /\ Step(r, Idle)
    /\ effect' = NoEffect
    /\ UNCHANGED <<policy, users>>

-----------------------------------------------------------------------------
(* What the operator, a binding change and a deletion do to the table.     *)

Write(a, row) ==
    /\ users' = [users EXCEPT ![a] = row]
    /\ req' = Touched({users[a].phone, row.phone})
    /\ effect' = NoEffect
    /\ UNCHANGED policy

CreateAccount(a, p, pw) ==
    /\ users[a].state = "absent" /\ Holders(p) = {}
    /\ Write(a, [state |-> "live", phone |-> p, pw |-> pw])

DeleteUser(a) ==
    /\ users[a].state = "live"
    /\ Write(a, [users[a] EXCEPT !.state = "deleted", !.phone = NoPhone])

HardDeleteUser(a) ==
    /\ users[a].state \in {"live", "deleted"}
    /\ Write(a, [state |-> "gone", phone |-> NoPhone, pw |-> FALSE])

RestoreUser(a, p) ==
    /\ users[a].state = "deleted" /\ Holders(p) = {}
    /\ Write(a, [users[a] EXCEPT !.state = "live", !.phone = p])

ChangePhone(a, p) ==
    /\ users[a].state = "live" /\ Holders(p) = {}
    /\ Write(a, [users[a] EXCEPT !.phone = p])

AdminPassword(a) ==
    /\ users[a].state \in {"live", "deleted"} /\ ~users[a].pw
    /\ Write(a, [users[a] EXCEPT !.pw = TRUE])

Next ==
    \/ \E r \in Req :
        \/ \E flow \in Flow, p \in Phone, withPw \in BOOLEAN : Lookup(r, flow, p, withPw)
        \/ Verify(r)
        \/ Resolve(r)
        \/ InsertUser(r)
        \/ InsertRefused(r)
        \/ LookupAgain(r)
        \/ Grant(r)
        \/ SetPassword(r)
        \/ Abort(r)
    \/ \E a \in Account :
        \/ \E p \in Phone, pw \in BOOLEAN : CreateAccount(a, p, pw)
        \/ \E p \in Phone : RestoreUser(a, p) \/ ChangePhone(a, p)
        \/ DeleteUser(a)
        \/ HardDeleteUser(a)
        \/ AdminPassword(a)

Spec == Init /\ [][Next]_vars

-----------------------------------------------------------------------------
(* Every variable keeps to its set of values, and a request that is about  *)
(* to issue a session or write a password knows for which account.         *)
TypeOK ==
    /\ policy \in [allow : BOOLEAN, smsOnly : BOOLEAN, realPw : BOOLEAN]
    /\ users \in [Account -> UserRow]
    /\ req \in [Req -> Request]
    /\ effect \in Effect
    /\ \A r \in Req : req[r].pc \in {"grant", "write"} => req[r].acct \in Account

(* README.md:150: with allow_register off no registration and no login by  *)
(* code creates an account.                                                *)
RegistrationClosed == effect.kind = "created" => policy.allow

(* README.md:152, sms_only_register: an account that has a password is not *)
(* logged in to by a code.                                                 *)
PasswordProtected ==
    effect.kind = "session" /\ effect.flow \in ByCode /\ effect.hadPw
        => ~policy.smsOnly

(* README.md:152, sms_only_register: a code sets a first password and      *)
(* never replaces one.                                                     *)
FirstPasswordOnly ==
    effect.kind = "password" /\ effect.flow \in ByCode /\ effect.hadPw
        => ~policy.smsOnly

(* Under every policy, registering or logging in by code leaves a password *)
(* the account already has; only a reset replaces it.                      *)
RegisteringKeepsPassword ==
    effect.kind = "password" /\ effect.flow \in Registering => ~effect.hadPw

(* The four hold of every request that had its phone number to itself:     *)
(* nobody else wrote a row of that number between its lookup and its       *)
(* effect, whatever happened to other numbers.                             *)
ClosedUnlessRaced == ~effect.raced => RegistrationClosed
ProtectedUnlessRaced == ~effect.raced => PasswordProtected
KeptUnlessRaced == ~effect.raced => FirstPasswordOnly /\ RegisteringKeepsPassword
=============================================================================
