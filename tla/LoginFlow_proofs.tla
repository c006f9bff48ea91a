--------------------------- MODULE LoginFlow_proofs ---------------------------
(***************************************************************************)
(* The registration policy, for any number of accounts, phone numbers and  *)
(* requests: a request that had its number to itself obeys it.  The        *)
(* argument: as long as nobody writes a row of its number, what a request  *)
(* found and decided at its lookup is still so when it acts.               *)
(***************************************************************************)
EXTENDS LoginFlow, TLAPS

-----------------------------------------------------------------------------
(* The inductive invariant *)

Live(U, p) == {a \in Account : U[a].state = "live" /\ U[a].phone = p}

\* A name belongs to a live row, and to one of them.
RowsOK ==
    /\ \A a \in Account : users[a].state = "live" <=> users[a].phone \in Phone
    /\ \A a, b \in Account :
          users[a].state = "live" /\ users[b].state = "live" /\ users[a].phone = users[b].phone
             => a = b

\* Where a request is says which handler it runs.
PlaceOK(q) ==
    /\ q.pc # "idle" => q.phone \in Phone
    /\ q.pc = "verify" => q.flow \in ByCode
    /\ q.pc \in {"resolve", "insert", "again"} => q.flow \in Registering
    /\ q.pc = "grant" => q.flow \in Registering \cup ByPassword
    /\ q.pc \in {"grant", "write"} => q.acct \in Account
    /\ q.pc \in {"verify", "resolve", "insert", "again"} => ~q.created

\* What an unraced request decided still holds.
DecisionOK(q, U, pol) ==
    /\ q.pc # "again"
    /\ Live(U, q.phone) = {q.acct} \cap Account
    /\ q.pc = "insert" => q.acct = NoAccount
    /\ q.flow \in Registering /\ ~q.created =>
          /\ IF q.acct = NoAccount THEN pol.allow ELSE ~pol.smsOnly
          /\ q.acct \in Account => (q.seenPw <=> U[q.acct].pw)
    /\ q.created => ~U[q.acct].pw
    /\ q.flow \in Resetting /\ pol.smsOnly /\ q.acct \in Account => ~U[q.acct].pw
    /\ q.pc = "write" /\ q.flow \in Registering => ~U[q.acct].pw

RequestOK(q, U, pol) ==
    /\ PlaceOK(q)
    /\ q.pc # "idle" /\ ~q.raced => DecisionOK(q, U, pol)

RequestsOK == \A r \in Req : RequestOK(req[r], users, policy)

Typed ==
    /\ policy \in [allow : BOOLEAN, smsOnly : BOOLEAN, realPw : BOOLEAN]
    /\ users \in [Account -> UserRow]
    /\ req \in [Req -> Request]
    /\ effect \in Effect

EffectOK == ClosedUnlessRaced /\ ProtectedUnlessRaced /\ KeptUnlessRaced

Inv == Typed /\ RowsOK /\ RequestsOK /\ EffectOK

-----------------------------------------------------------------------------
(* The table *)

LEMMA Names ==
    /\ Registering = {"login", "register", "ucRegister"}
    /\ Resetting = {"reset", "ucRecover"}
    /\ ByPassword = {"password", "change"}
    /\ ByCode = {"login", "register", "ucRegister", "reset", "ucRecover"}
    /\ Flow = {"login", "register", "ucRegister", "reset", "ucRecover", "password", "change"}
  BY DEF Registering, Resetting, ByPassword, ByCode, Flow

LEMMA IdleType == Idle \in Request /\ Idle.pc = "idle" /\ NoEffect \in Effect /\ NoEffect.kind = "none"
  BY Names DEF Idle, Request, NoEffect, Effect

\* userByPhone finds the one live row of a number, or none.
LEMMA ByPhoneFinds ==
    ASSUME RowsOK, NEW p
    PROVE  /\ ByPhone(p) \in Account \cup {NoAccount}
           /\ Live(users, p) = {ByPhone(p)} \cap Account
           /\ ByPhone(p) = NoAccount <=> Holders(p) = {}
  <1>1. Holders(p) = Live(users, p)
    BY DEF Holders, Live
  <1>2. CASE Holders(p) = {}
    <2>1. ByPhone(p) = NoAccount
      BY <1>2 DEF ByPhone
    <2>2. {NoAccount} \cap Account = {}
      BY NoneAssumption
    <2>3. QED BY <1>1, <1>2, <2>1, <2>2
  <1>3. CASE Holders(p) # {}
    <2>1. ByPhone(p) \in Holders(p)
      BY <1>3 DEF ByPhone
    <2>2. \A a \in Holders(p) : a = ByPhone(p)
      BY <2>1 DEF Holders, RowsOK
    <2>3. ByPhone(p) \in Account /\ ByPhone(p) # NoAccount
      BY <2>1, NoneAssumption DEF Holders
    <2>4. Holders(p) = {ByPhone(p)} \cap Account
      BY <2>1, <2>2, <2>3
    <2>5. QED BY <1>1, <1>3, <2>3, <2>4
  <1>4. QED BY <1>2, <1>3

\* Writing one row leaves the numbers it had and has not where they were.
LEMMA OtherNumbers ==
    ASSUME Typed, RowsOK, NEW a \in Account, NEW row \in UserRow,
           NEW p \in Phone, p # users[a].phone, p # row.phone,
           users' = [users EXCEPT ![a] = row]
    PROVE  /\ Live(users', p) = Live(users, p)
           /\ a \notin Live(users, p)
           /\ \A b \in Live(users, p) : users'[b] = users[b]
  BY DEF Typed, Live

\* So does a request that is not raced by it.
LEMMA Undisturbed ==
    ASSUME Typed, RowsOK, NEW a \in Account, NEW row \in UserRow,
           users' = [users EXCEPT ![a] = row],
           NEW q \in Request, RequestOK(q, users, policy),
           q.phone \notin {users[a].phone, row.phone}
    PROVE  RequestOK(q, users', policy)
  <1>1. CASE q.pc # "idle" /\ ~q.raced
    <2>1. DecisionOK(q, users, policy) /\ PlaceOK(q) /\ q.phone \in Phone
      BY <1>1 DEF RequestOK, PlaceOK
    <2>2. /\ Live(users', q.phone) = Live(users, q.phone)
          /\ \A b \in Live(users, q.phone) : users'[b] = users[b]
      BY <2>1, OtherNumbers
    <2>3. q.acct \in Account => q.acct \in Live(users, q.phone)
      BY <2>1 DEF DecisionOK
    <2>4. q.acct \in Account => users'[q.acct] = users[q.acct]
      BY <2>2, <2>3
    <2>5. q.created => q.acct \in Account
      BY <1>1, <2>1 DEF PlaceOK, Request
    <2>6. q.pc = "write" => q.acct \in Account
      BY <2>1 DEF PlaceOK
    <2>7. DecisionOK(q, users', policy)
      BY <2>1, <2>2, <2>4, <2>5, <2>6 DEF DecisionOK
    <2>8. QED BY <2>1, <2>7 DEF RequestOK
  <1>2. CASE q.pc = "idle" \/ q.raced
    BY <1>2 DEF RequestOK, Request
  <1>3. QED BY <1>1, <1>2

\* Touched changes nothing of a request but its mark.
LEMMA TouchedRequest ==
    ASSUME Typed, NEW S, NEW r \in Req
    PROVE  /\ Touched(S)[r] \in Request
           /\ req[r].pc # "idle" /\ req[r].phone \in S => Touched(S)[r] = [req[r] EXCEPT !.raced = TRUE]
           /\ ~(req[r].pc # "idle" /\ req[r].phone \in S) => Touched(S)[r] = req[r]
  BY DEF Typed, Touched, Request

LEMMA Marked ==
    ASSUME NEW q \in Request, NEW U, NEW V, RequestOK(q, U, policy)
    PROVE  RequestOK([q EXCEPT !.raced = TRUE], V, policy)
  <1> DEFINE m == [q EXCEPT !.raced = TRUE]
  <1>1. /\ m.pc = q.pc /\ m.flow = q.flow /\ m.phone = q.phone /\ m.acct = q.acct
        /\ m.created = q.created /\ m.raced
    BY DEF Request
  <1> HIDE DEF m
  <1>2. RequestOK(m, V, policy)
    BY <1>1 DEF RequestOK, PlaceOK
  <1>3. QED BY <1>2 DEF m

\* The other requests after a row was written.
LEMMA TouchedOK ==
    ASSUME Typed, RowsOK, RequestsOK, NEW a \in Account, NEW row \in UserRow, NEW S,
           users' = [users EXCEPT ![a] = row], {users[a].phone, row.phone} \cap Phone \subseteq S,
           NEW r \in Req
    PROVE  RequestOK(Touched(S)[r], users', policy) /\ Touched(S)[r] \in Request
  <1>1. req[r] \in Request /\ RequestOK(req[r], users, policy)
    BY DEF Typed, RequestsOK
  <1>2. CASE req[r].pc # "idle" /\ req[r].phone \in S
    BY <1>1, <1>2, TouchedRequest, Marked
  <1>3. CASE req[r].pc # "idle" /\ req[r].phone \notin S
    <2>1. req[r].phone \in Phone
      BY <1>1, <1>3 DEF RequestOK, PlaceOK
    <2>2. req[r].phone \notin {users[a].phone, row.phone}
      BY <1>3, <2>1
    <2>3. RequestOK(req[r], users', policy)
      BY <1>1, <2>2, Undisturbed
    <2>4. QED BY <1>1, <1>3, <2>3, TouchedRequest
  <1>4. CASE req[r].pc = "idle"
    <2>1. Touched(S)[r] = req[r]
      BY <1>4, TouchedRequest
    <2>2. QED BY <1>1, <1>4, <2>1 DEF RequestOK, PlaceOK
  <1>5. QED BY <1>2, <1>3, <1>4

\* One row is written and the number it gets is free.
LEMMA RowWritten ==
    ASSUME Typed, RowsOK, NEW a \in Account, NEW row \in UserRow,
           users' = [users EXCEPT ![a] = row],
           row.state = "live" <=> row.phone \in Phone,
           row.state = "live" => row.phone = users[a].phone \/ Holders(row.phone) = {}
    PROVE  RowsOK' /\ users' \in [Account -> UserRow]
  <1>1. \A b \in Account : users'[b] = IF b = a THEN row ELSE users[b]
    BY DEF Typed
  <1>2. ASSUME NEW b \in Account, b # a, users[b].state = "live", row.state = "live",
               users[b].phone = row.phone
        PROVE  FALSE
    <2>1. b \in Holders(row.phone)
      BY <1>2 DEF Holders
    <2>2. row.phone = users[a].phone
      BY <1>2, <2>1
    <2>3. users[a].state = "live"
      BY <1>2, <2>2 DEF RowsOK
    <2>4. QED BY <1>2, <2>2, <2>3 DEF RowsOK
  <1>3. QED BY <1>1, <1>2 DEF RowsOK, Typed

-----------------------------------------------------------------------------
(* The steps *)

LEMMA InitInv == Init => Inv
  <1> SUFFICES ASSUME Init PROVE Inv
    OBVIOUS
  <1>1. Absent \in UserRow /\ Absent.state = "absent" /\ Absent.phone = NoPhone
    BY DEF Absent, UserRow
  <1>2. Typed /\ RowsOK
    BY <1>1, IdleType, NoneAssumption DEF Init, Typed, RowsOK
  <1>3. RequestsOK
    BY IdleType DEF Init, RequestsOK, RequestOK, PlaceOK
  <1>4. EffectOK
    BY IdleType DEF Init, EffectOK, ClosedUnlessRaced, ProtectedUnlessRaced, KeptUnlessRaced,
                    RegistrationClosed, PasswordProtected, FirstPasswordOnly,
                    RegisteringKeepsPassword
  <1>5. QED BY <1>2, <1>3, <1>4 DEF Inv

\* A step without an effect shows nothing.
LEMMA NoEffectOK == effect' = NoEffect => EffectOK' /\ effect' \in Effect
  BY IdleType DEF EffectOK, ClosedUnlessRaced, ProtectedUnlessRaced, KeptUnlessRaced,
                  RegistrationClosed, PasswordProtected, FirstPasswordOnly,
                  RegisteringKeepsPassword

\* One request moves and the table stays.
LEMMA StepInv ==
    ASSUME Inv, NEW r \in Req, NEW rec \in Request, Step(r, rec), UNCHANGED <<policy, users>>,
           RequestOK(rec, users, policy), EffectOK', effect' \in Effect
    PROVE  Inv'
  <1>1. Typed' /\ RowsOK'
    BY DEF Inv, Typed, RowsOK, Step
  <1>2. ASSUME NEW q \in Req PROVE RequestOK(req'[q], users', policy')
    <2>1. CASE q = r
      <3>1. req'[q] = rec
        BY <2>1 DEF Step, Inv, Typed
      <3>2. QED BY <3>1
    <2>2. CASE q # r
      <3>1. req'[q] = req[q] /\ RequestOK(req[q], users, policy)
        BY <2>2 DEF Step, Inv, Typed, RequestsOK
      <3>2. QED BY <3>1
    <2>3. QED BY <2>1, <2>2
  <1>3. QED BY <1>1, <1>2 DEF Inv, RequestsOK

\* A request ends.
LEMMA EndInv ==
    ASSUME Inv, NEW r \in Req, Step(r, Idle), UNCHANGED <<policy, users>>,
           EffectOK', effect' \in Effect
    PROVE  Inv'
  <1>1. RequestOK(Idle, users, policy)
    BY IdleType DEF RequestOK, PlaceOK
  <1>2. QED BY <1>1, IdleType, StepInv

LEMMA OfRequest ==
    ASSUME Inv, NEW r \in Req
    PROVE  /\ req[r] \in Request /\ PlaceOK(req[r])
           /\ req[r].pc # "idle" /\ ~req[r].raced => DecisionOK(req[r], users, policy)
  BY DEF Inv, Typed, RequestsOK, RequestOK

LEMMA LookupInv ==
    ASSUME Inv, NEW r \in Req, NEW flow \in Flow, NEW p \in Phone, NEW withPw \in BOOLEAN,
           Lookup(r, flow, p, withPw)
    PROVE  Inv'
  <1> DEFINE rec == [pc |-> IF flow \in ByPassword THEN "grant" ELSE "verify",
                     flow |-> flow, phone |-> p, withPw |-> withPw,
                     acct |-> ByPhone(p), seenPw |-> HasPassword(ByPhone(p)),
                     created |-> FALSE, raced |-> FALSE]
  <1>1. /\ Admitted(flow, ByPhone(p)) /\ Step(r, rec) /\ effect' = NoEffect
        /\ UNCHANGED <<policy, users>>
    BY DEF Lookup
  <1>2. /\ ByPhone(p) \in Account \cup {NoAccount}
        /\ Live(users, p) = {ByPhone(p)} \cap Account
    BY ByPhoneFinds DEF Inv
  <1>3. HasPassword(ByPhone(p)) \in BOOLEAN
    BY DEF HasPassword
  <1>4. /\ rec.pc = (IF flow \in ByPassword THEN "grant" ELSE "verify")
        /\ rec.flow = flow /\ rec.phone = p /\ rec.acct = ByPhone(p)
        /\ rec.seenPw = HasPassword(ByPhone(p)) /\ rec.created = FALSE /\ rec.raced = FALSE
    OBVIOUS
  <1>5. rec \in Request
    BY <1>2, <1>3 DEF Request
  <1>6. ByPhone(p) \in Account => (HasPassword(ByPhone(p)) <=> users[ByPhone(p)].pw)
    BY NoneAssumption DEF HasPassword
  <1>7. flow \in ByPassword => ByPhone(p) \in Account
    BY <1>1, <1>2, Names DEF Admitted, HasPassword
  <1>8. flow \in Registering => IF ByPhone(p) = NoAccount THEN policy.allow ELSE ~policy.smsOnly
    BY <1>1, Names DEF Admitted
  <1>9. flow \in Resetting /\ policy.smsOnly /\ ByPhone(p) \in Account => ~users[ByPhone(p)].pw
    BY <1>1, <1>6, Names DEF Admitted
  <1> HIDE DEF rec
  <1>10. PlaceOK(rec)
    BY <1>4, <1>7, Names DEF PlaceOK
  <1>11. DecisionOK(rec, users, policy)
    BY <1>2, <1>4, <1>6, <1>8, <1>9 DEF DecisionOK
  <1>12. QED BY <1>1, <1>5, <1>10, <1>11, NoEffectOK, StepInv DEF RequestOK

LEMMA VerifyInv ==
    ASSUME Inv, NEW r \in Req, Verify(r)
    PROVE  Inv'
  <1> DEFINE q == req[r]
  <1>1. /\ q \in Request /\ PlaceOK(q) /\ q.pc = "verify"
        /\ ~q.raced => DecisionOK(q, users, policy)
        /\ effect' = NoEffect /\ UNCHANGED <<policy, users>>
    BY OfRequest DEF Verify
  <1>2. ASSUME NEW pc \in {"resolve", "write"}, Step(r, [q EXCEPT !.pc = pc]),
               pc = "resolve" => q.flow \in Registering,
               pc = "write" => q.flow \notin Registering /\ q.acct \in Account
        PROVE  Inv'
    <2> DEFINE rec == [q EXCEPT !.pc = pc]
    <2>1. /\ rec \in Request /\ rec.pc = pc /\ rec.flow = q.flow /\ rec.phone = q.phone
          /\ rec.acct = q.acct /\ rec.seenPw = q.seenPw /\ rec.created = q.created
          /\ rec.raced = q.raced
      BY <1>1 DEF Request
    <2> HIDE DEF rec
    <2>2. PlaceOK(rec)
      BY <1>1, <1>2, <2>1 DEF PlaceOK
    <2>3. ~rec.raced => DecisionOK(rec, users, policy)
      BY <1>1, <1>2, <2>1 DEF DecisionOK
    <2>4. QED BY <1>1, <1>2, <2>1, <2>2, <2>3, NoEffectOK, StepInv DEF RequestOK, rec
  <1>3. CASE q.flow \in Registering
    BY <1>2, <1>3 DEF Verify
  <1>4. CASE q.flow \notin Registering /\ ResetWrites(r)
    BY <1>1, <1>2, <1>4 DEF Verify, ResetWrites, Request
  <1>5. CASE q.flow \notin Registering /\ ~ResetWrites(r)
    BY <1>1, <1>5, EndInv, NoEffectOK DEF Verify
  <1>6. QED BY <1>3, <1>4, <1>5

LEMMA ResolveInv ==
    ASSUME Inv, NEW r \in Req, Resolve(r)
    PROVE  Inv'
  <1> DEFINE q == req[r]
             a == ByPhone(q.phone)
             rec == [q EXCEPT !.acct = a, !.pc = IF a = NoAccount THEN "insert" ELSE "grant"]
  <1>1. /\ q \in Request /\ PlaceOK(q) /\ q.pc = "resolve"
        /\ ~q.raced => DecisionOK(q, users, policy)
        /\ effect' = NoEffect /\ UNCHANGED <<policy, users>> /\ Step(r, rec)
    BY OfRequest DEF Resolve
  <1>2. a \in Account \cup {NoAccount} /\ Live(users, q.phone) = {a} \cap Account
    BY ByPhoneFinds DEF Inv
  <1>3. ~q.raced => a = q.acct
    <2>1. ~q.raced => {a} \cap Account = {q.acct} \cap Account
      BY <1>1, <1>2 DEF DecisionOK
    <2>2. q.acct \in Account \cup {NoAccount}
      BY <1>1 DEF Request
    <2>3. QED BY <1>2, <2>1, <2>2, NoneAssumption
  <1>4. /\ rec \in Request /\ rec.pc = (IF a = NoAccount THEN "insert" ELSE "grant")
        /\ rec.flow = q.flow /\ rec.phone = q.phone
        /\ rec.acct = a /\ rec.seenPw = q.seenPw /\ rec.created = q.created
        /\ rec.raced = q.raced
    BY <1>1, <1>2 DEF Request
  <1> HIDE DEF rec, a
  <1>5. PlaceOK(rec)
    BY <1>1, <1>2, <1>4, NoneAssumption DEF PlaceOK
  <1>6. ~rec.raced => DecisionOK(rec, users, policy)
    BY <1>1, <1>3, <1>4 DEF DecisionOK
  <1>7. QED BY <1>1, <1>4, <1>5, <1>6, NoEffectOK, StepInv DEF RequestOK

LEMMA InsertUserInv ==
    ASSUME Inv, NEW r \in Req, InsertUser(r)
    PROVE  Inv'
  <1> DEFINE q == req[r]
  <1>1. /\ q \in Request /\ PlaceOK(q) /\ q.pc = "insert" /\ q.phone \in Phone
        /\ q.flow \in Registering /\ ~q.created
        /\ ~q.raced => DecisionOK(q, users, policy)
        /\ Holders(q.phone) = {} /\ effect' = Done("created", r, FALSE) /\ policy' = policy
    BY OfRequest DEF InsertUser, PlaceOK
  <1>2. PICK a \in Account :
          /\ users[a].state = "absent"
          /\ users' = [users EXCEPT ![a] = [state |-> "live", phone |-> q.phone, pw |-> FALSE]]
          /\ req' = [Touched({q.phone}) EXCEPT
                        ![r] = [q EXCEPT !.acct = a, !.created = TRUE, !.pc = "grant"]]
    BY DEF InsertUser
  <1> DEFINE row == [state |-> "live", phone |-> q.phone, pw |-> FALSE]
             rec == [q EXCEPT !.acct = a, !.created = TRUE, !.pc = "grant"]
  <1>3. row \in UserRow /\ row.state = "live" /\ row.phone = q.phone /\ row.pw = FALSE
    BY <1>1 DEF UserRow
  <1>4. /\ rec \in Request /\ rec.pc = "grant" /\ rec.flow = q.flow /\ rec.phone = q.phone
        /\ rec.acct = a /\ rec.created /\ rec.raced = q.raced
    BY <1>1 DEF Request
  <1>5. users[a].phone \notin Phone
    BY <1>2 DEF Inv, RowsOK
  <1>6. users' = [users EXCEPT ![a] = row] /\ req' = [Touched({q.phone}) EXCEPT ![r] = rec]
    BY <1>2
  <1> HIDE DEF row, rec
  <1>7. RowsOK' /\ users' \in [Account -> UserRow]
    BY <1>1, <1>3, <1>6, RowWritten DEF Inv
  <1>8. Touched({q.phone}) \in [Req -> Request]
    <2>1. \A g \in Req : Touched({q.phone})[g] \in Request
      BY TouchedRequest DEF Inv
    <2>2. QED BY <2>1 DEF Touched
  <1>9. Live(users', q.phone) = {a} \cap Account /\ users'[a] = row
    BY <1>1, <1>3, <1>6 DEF Live, Holders, Inv, Typed
  <1>10. RequestOK(rec, users', policy')
    <2>1. PlaceOK(rec)
      BY <1>1, <1>4 DEF PlaceOK
    <2>2. DecisionOK(rec, users', policy')
      BY <1>1, <1>3, <1>4, <1>9, Names DEF DecisionOK
    <2>3. QED BY <2>1, <2>2 DEF RequestOK
  <1>11. ASSUME NEW g \in Req PROVE RequestOK(req'[g], users', policy')
    <2>1. CASE g = r
      BY <1>6, <1>8, <1>10, <2>1
    <2>2. CASE g # r
      <3>1. RequestOK(Touched({q.phone})[g], users', policy)
        BY <1>3, <1>5, <1>6, TouchedOK DEF Inv
      <3>2. req'[g] = Touched({q.phone})[g]
        BY <1>6, <1>8, <2>2
      <3>3. QED BY <1>1, <3>1, <3>2
    <2>3. QED BY <2>1, <2>2
  <1>12. EffectOK' /\ effect' \in Effect
    <2>1. /\ effect'.kind = "created" /\ effect'.raced = q.raced /\ effect' \in Effect
      BY <1>1 DEF Done, Effect, Request
    <2>2. ~q.raced => policy.allow
      BY <1>1 DEF DecisionOK
    <2>3. QED
      BY <1>1, <2>1, <2>2
      DEF EffectOK, ClosedUnlessRaced, ProtectedUnlessRaced, KeptUnlessRaced, RegistrationClosed,
          PasswordProtected, FirstPasswordOnly, RegisteringKeepsPassword
  <1>13. QED BY <1>1, <1>4, <1>6, <1>7, <1>8, <1>11, <1>12 DEF Inv, Typed, RequestsOK

\* A request with its number to itself is not refused: nobody took the name.
LEMMA InsertRefusedInv ==
    ASSUME Inv, NEW r \in Req, InsertRefused(r)
    PROVE  Inv'
  <1> DEFINE q == req[r]
             rec == [q EXCEPT !.pc = "again"]
  <1>1. /\ q \in Request /\ PlaceOK(q) /\ q.pc = "insert"
        /\ ~q.raced => DecisionOK(q, users, policy)
        /\ Holders(q.phone) # {} /\ Step(r, rec)
        /\ effect' = NoEffect /\ UNCHANGED <<policy, users>>
    BY OfRequest DEF InsertRefused
  <1>2. /\ rec \in Request /\ rec.pc = "again" /\ rec.flow = q.flow /\ rec.phone = q.phone
        /\ rec.created = q.created /\ rec.raced = q.raced
    BY <1>1 DEF Request
  <1>3. q.raced
    <2>1. ~q.raced => Live(users, q.phone) = {}
      BY <1>1, NoneAssumption DEF DecisionOK
    <2>2. QED BY <1>1, <2>1 DEF Live, Holders, Request
  <1> HIDE DEF rec
  <1>4. PlaceOK(rec)
    BY <1>1, <1>2 DEF PlaceOK
  <1>5. QED BY <1>1, <1>2, <1>3, <1>4, NoEffectOK, StepInv DEF RequestOK

LEMMA LookupAgainInv ==
    ASSUME Inv, NEW r \in Req, LookupAgain(r)
    PROVE  Inv'
  <1> DEFINE q == req[r]
             a == ByPhone(q.phone)
             rec == [q EXCEPT !.acct = a, !.pc = "grant"]
  <1>1. /\ q \in Request /\ PlaceOK(q) /\ q.pc = "again" /\ q.raced
        /\ effect' = NoEffect /\ UNCHANGED <<policy, users>>
        /\ Step(r, IF a = NoAccount THEN Idle ELSE rec)
    BY OfRequest DEF LookupAgain, DecisionOK, Request
  <1>2. a \in Account \cup {NoAccount}
    BY ByPhoneFinds DEF Inv
  <1>3. CASE a = NoAccount
    BY <1>1, <1>3, EndInv, NoEffectOK
  <1>4. CASE a # NoAccount
    <2>1. /\ rec \in Request /\ rec.pc = "grant" /\ rec.flow = q.flow /\ rec.phone = q.phone
          /\ rec.acct = a /\ rec.raced = q.raced
      BY <1>1, <1>2 DEF Request
    <2>2. Step(r, rec)
      BY <1>1, <1>4
    <2> HIDE DEF rec, a
    <2>3. PlaceOK(rec)
      BY <1>1, <1>2, <1>4, <2>1 DEF PlaceOK
    <2>4. QED BY <1>1, <2>1, <2>2, <2>3, NoEffectOK, StepInv DEF RequestOK
  <1>5. QED BY <1>3, <1>4

LEMMA GrantInv ==
    ASSUME Inv, NEW r \in Req, Grant(r)
    PROVE  Inv'
  <1> DEFINE q == req[r]
             rec == [q EXCEPT !.pc = "write"]
  <1>1. /\ q \in Request /\ PlaceOK(q) /\ q.pc = "grant" /\ q.acct \in Account
        /\ q.flow \in Registering \cup ByPassword
        /\ ~q.raced => DecisionOK(q, users, policy)
        /\ effect' = Done("session", r, users[q.acct].pw) /\ UNCHANGED <<policy, users>>
        /\ Step(r, IF WantsPassword(r, q.created) THEN rec ELSE Idle)
    BY OfRequest DEF Grant, PlaceOK
  <1>2. EffectOK' /\ effect' \in Effect
    <2>1. users[q.acct].pw \in BOOLEAN
      BY <1>1 DEF Inv, Typed, UserRow
    <2>2. /\ effect'.kind = "session" /\ effect'.flow = q.flow /\ effect'.raced = q.raced
          /\ effect'.hadPw = users[q.acct].pw /\ effect' \in Effect
      BY <1>1, <2>1 DEF Done, Effect, Request
    <2>3. ~q.raced /\ q.flow \in ByCode /\ users[q.acct].pw => ~policy.smsOnly
      <3>1. q.flow \in ByCode => q.flow \in Registering
        BY <1>1, Names
      <3>2. QED BY <1>1, <3>1, NoneAssumption DEF DecisionOK
    <2>4. QED
      BY <1>1, <2>2, <2>3
      DEF EffectOK, ClosedUnlessRaced, ProtectedUnlessRaced, KeptUnlessRaced, RegistrationClosed,
          PasswordProtected, FirstPasswordOnly, RegisteringKeepsPassword
  <1>3. CASE ~WantsPassword(r, q.created)
    BY <1>1, <1>2, <1>3, EndInv
  <1>4. CASE WantsPassword(r, q.created)
    <2>1. /\ rec \in Request /\ rec.pc = "write" /\ rec.flow = q.flow /\ rec.phone = q.phone
          /\ rec.acct = q.acct /\ rec.seenPw = q.seenPw /\ rec.created = q.created
          /\ rec.raced = q.raced
      BY <1>1 DEF Request
    <2>2. q.flow \in Registering => q.created \/ ~q.seenPw
      BY <1>4, Names DEF WantsPassword
    <2>3. Step(r, rec)
      BY <1>1, <1>4
    <2> HIDE DEF rec
    <2>4. PlaceOK(rec)
      BY <1>1, <2>1 DEF PlaceOK
    <2>5. ~rec.raced => DecisionOK(rec, users, policy)
      BY <1>1, <2>1, <2>2 DEF DecisionOK, Request
    <2>6. QED BY <1>1, <1>2, <2>1, <2>3, <2>4, <2>5, StepInv DEF RequestOK
  <1>5. QED BY <1>3, <1>4

\* A row is written, by a request that ends or by somebody else.
LEMMA WriteInv ==
    ASSUME Inv, NEW a \in Account, NEW row \in UserRow, NEW S,
           users' = [users EXCEPT ![a] = row], policy' = policy,
           {users[a].phone, row.phone} \cap Phone \subseteq S,
           row.state = "live" <=> row.phone \in Phone,
           row.state = "live" => row.phone = users[a].phone \/ Holders(row.phone) = {},
           req' = Touched(S) \/ \E r \in Req : req' = [Touched(S) EXCEPT ![r] = Idle],
           EffectOK', effect' \in Effect
    PROVE  Inv'
  <1>1. RowsOK' /\ users' \in [Account -> UserRow]
    BY RowWritten DEF Inv
  <1>2. \A g \in Req : Touched(S)[g] \in Request /\ RequestOK(Touched(S)[g], users', policy)
    BY TouchedOK DEF Inv
  <1>3. Touched(S) \in [Req -> Request]
    BY <1>2 DEF Touched
  <1>4. Idle \in Request /\ RequestOK(Idle, users', policy)
    BY IdleType DEF RequestOK, PlaceOK
  <1>5. req' \in [Req -> Request] /\ \A g \in Req : req'[g] = Touched(S)[g] \/ req'[g] = Idle
    BY <1>3, <1>4
  <1>6. RequestsOK'
    BY <1>2, <1>4, <1>5 DEF RequestsOK
  <1>7. QED BY <1>1, <1>5, <1>6 DEF Inv, Typed

LEMMA SetPasswordInv ==
    ASSUME Inv, NEW r \in Req, SetPassword(r)
    PROVE  Inv'
  <1> DEFINE q == req[r]
             a == q.acct
             hit == users[a].state \in {"live", "deleted"}
             row == IF hit THEN [users[a] EXCEPT !.pw = TRUE] ELSE users[a]
  <1>1. /\ q \in Request /\ PlaceOK(q) /\ q.pc = "write" /\ a \in Account
        /\ ~q.raced => DecisionOK(q, users, policy)
        /\ users' = (IF hit THEN [users EXCEPT ![a].pw = TRUE] ELSE users)
        /\ req' = [Touched({users[a].phone}) EXCEPT ![r] = Idle]
        /\ effect' = (IF hit THEN Done("password", r, users[a].pw) ELSE NoEffect)
        /\ policy' = policy
    BY OfRequest DEF SetPassword, PlaceOK
  <1>2. row \in UserRow /\ row.state = users[a].state /\ row.phone = users[a].phone
    BY <1>1 DEF Inv, Typed, UserRow
  <1>3. users' = [users EXCEPT ![a] = row]
    <2>1. users = [users EXCEPT ![a] = users[a]]
      BY DEF Inv, Typed
    <2>2. QED BY <1>1, <2>1
  <1>4. EffectOK' /\ effect' \in Effect
    <2>1. CASE ~hit
      BY <1>1, <2>1, NoEffectOK
    <2>2. CASE hit
      <3>1. users[a].pw \in BOOLEAN
        BY <1>1 DEF Inv, Typed, UserRow
      <3>2. /\ effect'.kind = "password" /\ effect'.flow = q.flow /\ effect'.raced = q.raced
            /\ effect'.hadPw = users[a].pw /\ effect' \in Effect
        BY <1>1, <2>2, <3>1 DEF Done, Effect, Request
      <3>3. ~q.raced /\ q.flow \in Registering => ~users[a].pw
        BY <1>1 DEF DecisionOK
      <3>4. ~q.raced /\ q.flow \in Resetting /\ policy.smsOnly => ~users[a].pw
        BY <1>1 DEF DecisionOK
      <3>5. QED
        BY <1>1, <3>2, <3>3, <3>4, Names
        DEF EffectOK, ClosedUnlessRaced, ProtectedUnlessRaced, KeptUnlessRaced,
            RegistrationClosed, PasswordProtected, FirstPasswordOnly, RegisteringKeepsPassword
    <2>3. QED BY <2>1, <2>2
  <1>5. row.state = "live" <=> row.phone \in Phone
    BY <1>1, <1>2 DEF Inv, RowsOK
  <1>6. {users[a].phone, row.phone} \cap Phone \subseteq {users[a].phone}
    BY <1>2
  <1> HIDE DEF row, a
  <1>7. QED BY <1>1, <1>2, <1>3, <1>4, <1>5, <1>6, WriteInv

\* The operator, a binding change, a deletion.
LEMMA OthersInv ==
    ASSUME Inv, NEW a \in Account, NEW row \in UserRow, Write(a, row),
           row.state = "live" <=> row.phone \in Phone,
           row.state = "live" => row.phone = users[a].phone \/ Holders(row.phone) = {}
    PROVE  Inv'
  <1>1. {users[a].phone, row.phone} \cap Phone \subseteq {users[a].phone, row.phone}
    OBVIOUS
  <1>2. QED BY <1>1, NoEffectOK, WriteInv DEF Write

LEMMA OperatorInv ==
    ASSUME Inv, NEW a \in Account,
           \/ \E p \in Phone, pw \in BOOLEAN : CreateAccount(a, p, pw)
           \/ \E p \in Phone : RestoreUser(a, p) \/ ChangePhone(a, p)
           \/ DeleteUser(a) \/ HardDeleteUser(a) \/ AdminPassword(a)
    PROVE  Inv'
  <1>1. /\ users[a] \in UserRow
        /\ users[a].state = "live" <=> users[a].phone \in Phone
        /\ NoPhone \notin Phone
    BY NoneAssumption DEF Inv, Typed, RowsOK
  <1>2. ASSUME NEW p \in Phone, NEW pw \in BOOLEAN, CreateAccount(a, p, pw) PROVE Inv'
    <2> DEFINE row == [state |-> "live", phone |-> p, pw |-> pw]
    <2>1. row \in UserRow /\ row.state = "live" /\ row.phone = p
      BY DEF UserRow
    <2>2. Write(a, row) /\ Holders(p) = {}
      BY <1>2 DEF CreateAccount
    <2> HIDE DEF row
    <2>3. QED BY <2>1, <2>2, OthersInv
  <1>3. ASSUME NEW p \in Phone, RestoreUser(a, p) PROVE Inv'
    <2> DEFINE row == [users[a] EXCEPT !.state = "live", !.phone = p]
    <2>1. row \in UserRow /\ row.state = "live" /\ row.phone = p
      BY <1>1 DEF UserRow
    <2>2. Write(a, row) /\ Holders(p) = {}
      BY <1>3 DEF RestoreUser
    <2> HIDE DEF row
    <2>3. QED BY <2>1, <2>2, OthersInv
  <1>4. ASSUME NEW p \in Phone, ChangePhone(a, p) PROVE Inv'
    <2> DEFINE row == [users[a] EXCEPT !.phone = p]
    <2>1. row \in UserRow /\ row.state = "live" /\ row.phone = p
      BY <1>1, <1>4 DEF UserRow, ChangePhone
    <2>2. Write(a, row) /\ Holders(p) = {}
      BY <1>4 DEF ChangePhone
    <2> HIDE DEF row
    <2>3. QED BY <2>1, <2>2, OthersInv
  <1>5. CASE DeleteUser(a)
    <2> DEFINE row == [users[a] EXCEPT !.state = "deleted", !.phone = NoPhone]
    <2>1. row \in UserRow /\ row.state = "deleted" /\ row.phone = NoPhone
      BY <1>1 DEF UserRow
    <2>2. Write(a, row)
      BY <1>5 DEF DeleteUser
    <2> HIDE DEF row
    <2>3. QED BY <1>1, <2>1, <2>2, OthersInv
  <1>6. CASE HardDeleteUser(a)
    <2> DEFINE row == [state |-> "gone", phone |-> NoPhone, pw |-> FALSE]
    <2>1. row \in UserRow /\ row.state = "gone" /\ row.phone = NoPhone
      BY DEF UserRow
    <2>2. Write(a, row)
      BY <1>6 DEF HardDeleteUser
    <2> HIDE DEF row
    <2>3. QED BY <1>1, <2>1, <2>2, OthersInv
  <1>7. CASE AdminPassword(a)
    <2> DEFINE row == [users[a] EXCEPT !.pw = TRUE]
    <2>1. row \in UserRow /\ row.state = users[a].state /\ row.phone = users[a].phone
      BY <1>1 DEF UserRow
    <2>2. Write(a, row)
      BY <1>7 DEF AdminPassword
    <2> HIDE DEF row
    <2>3. QED BY <1>1, <2>1, <2>2, OthersInv
  <1>8. QED BY <1>2, <1>3, <1>4, <1>5, <1>6, <1>7

LEMMA NextInv == Inv /\ [Next]_vars => Inv'
  <1> SUFFICES ASSUME Inv, [Next]_vars PROVE Inv'
    OBVIOUS
  <1>1. ASSUME NEW r \in Req, NEW flow \in Flow, NEW p \in Phone, NEW withPw \in BOOLEAN,
               Lookup(r, flow, p, withPw)
        PROVE  Inv'
    BY <1>1, LookupInv
  <1>2. ASSUME NEW r \in Req, Verify(r) \/ Resolve(r) \/ InsertUser(r) \/ InsertRefused(r)
        PROVE  Inv'
    BY <1>2, VerifyInv, ResolveInv, InsertUserInv, InsertRefusedInv
  <1>3. ASSUME NEW r \in Req, LookupAgain(r) \/ Grant(r) \/ SetPassword(r)
        PROVE  Inv'
    BY <1>3, LookupAgainInv, GrantInv, SetPasswordInv
  <1>4. ASSUME NEW r \in Req, Abort(r) PROVE Inv'
    BY <1>4, EndInv, NoEffectOK DEF Abort
  <1>5. ASSUME NEW a \in Account,
               \/ \E p \in Phone, pw \in BOOLEAN : CreateAccount(a, p, pw)
               \/ \E p \in Phone : RestoreUser(a, p) \/ ChangePhone(a, p)
               \/ DeleteUser(a) \/ HardDeleteUser(a) \/ AdminPassword(a)
        PROVE  Inv'
    BY <1>5, OperatorInv
  <1>6. CASE UNCHANGED vars
    BY <1>6 DEF vars, Inv, Typed, RowsOK, RequestsOK, EffectOK, ClosedUnlessRaced,
                ProtectedUnlessRaced, KeptUnlessRaced, RegistrationClosed, PasswordProtected,
                FirstPasswordOnly, RegisteringKeepsPassword
  <1>7. QED BY <1>1, <1>2, <1>3, <1>4, <1>5, <1>6 DEF Next

LEMMA Invariant == Spec => []Inv
  BY InitInv, NextInv, PTL DEF Spec

-----------------------------------------------------------------------------
(* The theorems *)

\* Types; a request that issues a session or writes a password has an account.
THEOREM LoginTyped == Spec => []TypeOK
  <1>1. Inv => TypeOK
    BY DEF Inv, Typed, RequestsOK, RequestOK, PlaceOK, TypeOK
  <1>2. QED BY <1>1, Invariant, PTL

\* allow_register off: no account comes from a request whose number nobody
\* else wrote while it ran.
THEOREM Closed == Spec => []ClosedUnlessRaced
  <1>1. Inv => ClosedUnlessRaced
    BY DEF Inv, EffectOK
  <1>2. QED BY <1>1, Invariant, PTL

\* sms_only_register: nor does such a request log in to an account that has a
\* password.
THEOREM Protected == Spec => []ProtectedUnlessRaced
  <1>1. Inv => ProtectedUnlessRaced
    BY DEF Inv, EffectOK
  <1>2. QED BY <1>1, Invariant, PTL

\* Nor does it replace one: only a reset does, and not under
\* sms_only_register.
THEOREM Kept == Spec => []KeptUnlessRaced
  <1>1. Inv => KeptUnlessRaced
    BY DEF Inv, EffectOK
  <1>2. QED BY <1>1, Invariant, PTL
=============================================================================
