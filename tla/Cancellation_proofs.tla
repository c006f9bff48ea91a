------------------------- MODULE Cancellation_proofs -------------------------
(***************************************************************************)
(* The finalizer closes only what was asked for and never taken back, and  *)
(* leaves no role behind, for any number of accounts, game servers,        *)
(* requests, faults and any cooling-off period of at least two ticks.      *)
(*                                                                         *)
(* The argument: a login that was accepted is of an account outside its    *)
(* cooling-off period; an application made after that falls due only when  *)
(* that login is long over.  So an account that is due has no login under  *)
(* way, and a server that unbound it stays so until it is closed.          *)
(***************************************************************************)
EXTENDS Cancellation, TLAPS, SequenceTheorems, FiniteSetTheorems

-----------------------------------------------------------------------------
(* The inductive invariant *)

Cooling(u) == acct[u].status = InCoolingOff

\* A request lives for a tick at most, and the finalizer's time is past.
TimesOK ==
    /\ \A h \in Handler : req[h] # Idle => req[h].born <= clock /\ clock <= req[h].born + 1
    /\ fin.now <= clock

\* A login that was accepted ends before its account can fall due.
LoginsOK ==
    \A h \in Handler :
        req[h].kind = "answered" /\ Cooling(req[h].user) => acct[req[h].user].at >= req[h].born + 2

\* The servers that confirmed keep no role of the account the pass is at.
PassOK ==
    fin.todo # <<>> /\ ~fin.failed /\ Due(Head(fin.todo), fin.now)
        => \A b \in Booi \ fin.wait : Head(fin.todo) \notin bound[b]

ClosedOK ==
    \A u \in User : closedBy[u] = "finalizer" =>
        /\ acct[u].state = "deleted" /\ Cooling(u) /\ acct[u].at <= clock
        /\ \A b \in Booi : u \notin bound[b]

\* The date of a live account is that of the application that stands.
AskedOK ==
    \A u \in User : Live(u) /\ Cooling(u) => \E t \in asked[u] : t + CoolingOff = acct[u].at

Inv == TypeOK /\ TimesOK /\ LoginsOK /\ PassOK /\ ClosedOK /\ AskedOK

-----------------------------------------------------------------------------
(* Data *)

LEMMA Statuses == Normal = 1 /\ InCoolingOff = 2 /\ Idle.kind = "idle"
  BY DEF Normal, InCoolingOff, Idle

\* What SetCancellation writes is a row.
LEMMA Dated ==
    ASSUME NEW row \in Account, NEW status \in {Normal, InCoolingOff}, NEW at \in Nat
    PROVE  /\ [row EXCEPT !.status = status, !.at = at] \in Account
           /\ [row EXCEPT !.status = status, !.at = at].status = status
           /\ [row EXCEPT !.status = status, !.at = at].at = at
  BY DEF Account

\* A request that is not idle is a record of its user, date and servers.
LEMMA BusyRequest ==
    ASSUME NEW r \in Request, r.kind # "idle"
    PROVE  /\ r \in [kind : {"submit", "withdraw", "login", "answered", "delete", "hard"},
                     user : User, born : Nat, wait : SUBSET Booi, failed : BOOLEAN]
           /\ r # Idle /\ r.user \in User /\ r.born \in Nat /\ r.wait \in SUBSET Booi
           /\ r.failed \in BOOLEAN
  BY Statuses DEF Request

\* The finalizer's list is a list of accounts.
LEMMA ListType ==
    ASSUME NEW now, NEW list \in DueCancellations(now)
    PROVE  list \in Seq(User)
  <1> DEFINE due == {u \in User : Selected(u, now)}
             n == IF Cardinality(due) < Limit THEN Cardinality(due) ELSE Limit
  <1>1. Cardinality(due) \in Nat
    BY UserAssumption, FS_Subset, FS_CardinalityType
  <1>2. n \in Nat
    BY <1>1, LimitAssumption
  <1>3. list \in [1 .. n -> due]
    BY DEF DueCancellations
  <1>4. list \in [1 .. n -> User]
    BY <1>3
  <1> HIDE DEF n
  <1>5. QED BY <1>2, <1>4, SeqDef

LEMMA NewRequest ==
    ASSUME NEW h \in Handler, NEW u \in User, NEW servers \in SUBSET Booi, TypeOK,
           NEW kind \in {"submit", "withdraw", "login", "delete", "hard"},
           Begin(h, kind, u, servers)
    PROVE  /\ req' \in [Handler -> Request]
           /\ req'[h].kind = kind /\ req'[h].born = clock /\ req'[h] # Idle
           /\ \A g \in Handler \ {h} : req'[g] = req[g]
  <1> DEFINE r == [kind |-> kind, user |-> u, born |-> clock, wait |-> servers,
                   failed |-> servers # {} /\ Booi = {}]
  <1>1. r \in Request /\ r.kind = kind /\ r.born = clock
    BY DEF TypeOK, Request
  <1>2. r # Idle
    BY <1>1, Statuses
  <1>3. req' = [req EXCEPT ![h] = r]
    BY DEF Begin
  <1> HIDE DEF r
  <1>4. QED BY <1>1, <1>2, <1>3 DEF TypeOK

LEMMA EndedRequest ==
    ASSUME NEW h \in Handler, TypeOK, End(h)
    PROVE  /\ req' \in [Handler -> Request] /\ req'[h] = Idle
           /\ \A g \in Handler \ {h} : req'[g] = req[g]
  BY DEF End, TypeOK, Request

\* A new request is no accepted login, and is as old as the clock.
LEMMA BeginInv ==
    ASSUME Inv, NEW h \in Handler, NEW u \in User, NEW servers \in SUBSET Booi,
           NEW kind \in {"submit", "withdraw", "login", "delete", "hard"},
           Begin(h, kind, u, servers), UNCHANGED <<clock, acct, bound, fin, faults, asked, closedBy>>
    PROVE  Inv'
  <1>1. /\ req' \in [Handler -> Request]
        /\ req'[h].kind = kind /\ req'[h].born = clock /\ req'[h] # Idle
        /\ \A g \in Handler \ {h} : req'[g] = req[g]
    BY NewRequest DEF Inv
  <1>2. TypeOK'
    BY <1>1 DEF Inv, TypeOK
  <1>3. TimesOK'
    BY <1>1 DEF Inv, TypeOK, TimesOK
  <1>4. LoginsOK'
    BY <1>1 DEF Inv, LoginsOK, Cooling
  <1>5. PassOK' /\ ClosedOK' /\ AskedOK'
    BY DEF Inv, PassOK, ClosedOK, AskedOK, Due, Live, Cooling
  <1>6. QED BY <1>2, <1>3, <1>4, <1>5 DEF Inv

\* What is left of the requests after one has ended.
LEMMA EndTimes ==
    ASSUME Inv, NEW h \in Handler, End(h), UNCHANGED <<clock, fin>>
    PROVE  TimesOK'
  BY EndedRequest DEF Inv, TimesOK

\* A request that ends without writing.
LEMMA EndInv ==
    ASSUME Inv, NEW h \in Handler, End(h),
           UNCHANGED <<clock, acct, bound, fin, faults, asked, closedBy>>
    PROVE  Inv'
  <1>1. TypeOK'
    BY EndedRequest DEF Inv, TypeOK
  <1>2. TimesOK'
    BY EndTimes
  <1>3. LoginsOK'
    BY EndedRequest, Statuses DEF Inv, LoginsOK, Cooling
  <1>4. PassOK' /\ ClosedOK' /\ AskedOK'
    BY DEF Inv, PassOK, ClosedOK, AskedOK, Due, Live, Cooling
  <1>5. QED BY <1>1, <1>2, <1>3, <1>4 DEF Inv

\* One account's row is written, by a request that ends or by the operator:
\* its application is a new one, or none, or the one it had while it is closed.
LEMMA RowInv ==
    ASSUME Inv, NEW u \in User, NEW row \in Account,
           req' = req \/ \E h \in Handler : End(h),
           acct' = [acct EXCEPT ![u] = row],
           UNCHANGED <<clock, bound, fin, faults>>,
           asked' \in [User -> SUBSET Nat],
           closedBy' \in [User -> {"nobody", "finalizer", "request"}],
           \A v \in User \ {u} : asked'[v] = asked[v] /\ closedBy'[v] = closedBy[v],
           row.at > 0 <=> row.status = InCoolingOff,
           row.status = InCoolingOff =>
              \/ row.at = clock + CoolingOff /\ \E t \in asked'[u] : t + CoolingOff = row.at
              \/ row.status = acct[u].status /\ row.at = acct[u].at /\ row.state # "live",
           closedBy'[u] = "finalizer" => closedBy[u] = "finalizer" /\ row = acct[u]
    PROVE  Inv'
  <1>1. /\ req' \in [Handler -> Request]
        /\ \A g \in Handler : req'[g] = req[g] \/ req'[g] = Idle
    BY EndedRequest DEF Inv, TypeOK
  <1>2. /\ acct' \in [User -> Account] /\ acct'[u] = row
        /\ \A v \in User \ {u} : acct'[v] = acct[v]
    BY DEF Inv, TypeOK
  <1>3. TypeOK'
    BY <1>1, <1>2 DEF Inv, TypeOK
  <1>4. TimesOK'
    BY <1>1 DEF Inv, TimesOK
  <1>5. /\ clock \in Nat /\ fin.now \in Nat /\ fin.now <= clock /\ row.at \in Nat
        /\ fin.todo \in Seq(User) /\ CoolingOff \in Nat /\ CoolingOff >= 2
    BY CoolingOffAssumption DEF Inv, TypeOK, TimesOK, Finalizer, Account
  <1>6. LoginsOK'
    <2> SUFFICES ASSUME NEW g \in Handler, req'[g].kind = "answered",
                        acct'[req'[g].user].status = InCoolingOff
                 PROVE  acct'[req'[g].user].at >= req'[g].born + 2
      BY DEF LoginsOK, Cooling
    <2>1. req'[g] = req[g] /\ req[g] \in Request /\ req[g].kind = "answered"
      BY <1>1, Statuses DEF Inv, TypeOK
    <2>2. req[g].user \in User /\ req[g].born \in Nat /\ req[g].born <= clock
      BY <2>1, BusyRequest DEF Inv, TimesOK
    <2>3. Cooling(req[g].user) => acct[req[g].user].at >= req[g].born + 2
      BY <2>1 DEF Inv, LoginsOK
    <2>4. CASE req[g].user # u
      BY <1>2, <2>1, <2>2, <2>3, <2>4 DEF Cooling
    <2>5. CASE req[g].user = u
      <3>1. row.status = InCoolingOff
        BY <1>2, <2>1, <2>5 DEF Cooling
      <3>2. CASE row.at = clock + CoolingOff
        BY <1>2, <1>5, <2>1, <2>2, <2>5, <3>2
      <3>3. CASE row.status = acct[u].status /\ row.at = acct[u].at
        BY <1>2, <2>1, <2>3, <2>5, <3>1, <3>3 DEF Cooling
      <3>4. QED BY <3>1, <3>2, <3>3
    <2>6. QED BY <2>4, <2>5
  <1>7. PassOK'
    <2> SUFFICES ASSUME fin.todo # <<>>, ~fin.failed, Due(Head(fin.todo), fin.now)'
                 PROVE  \A b \in Booi \ fin.wait : Head(fin.todo) \notin bound[b]
      BY DEF PassOK, Due, Live
    <2>1. Head(fin.todo) \in User
      BY <1>5, HeadTailProperties
    <2>2. CASE Head(fin.todo) = u
      BY <1>2, <1>5, <2>2 DEF Due, Live
    <2>3. CASE Head(fin.todo) # u
      <3>1. Due(Head(fin.todo), fin.now)
        BY <1>2, <2>1, <2>3 DEF Due, Live
      <3>2. QED BY <3>1 DEF Inv, PassOK
    <2>4. QED BY <2>2, <2>3
  <1>8. ClosedOK'
    BY <1>2 DEF Inv, ClosedOK, Cooling
  <1>9. AskedOK'
    BY <1>2 DEF Inv, AskedOK, Live, Cooling
  <1>10. QED BY <1>3, <1>4, <1>6, <1>7, <1>8, <1>9 DEF Inv

-----------------------------------------------------------------------------
(* The wizard *)

LEMMA WriteInv ==
    ASSUME Inv, NEW h \in Handler, WriteSubmit(h) \/ WriteWithdraw(h)
    PROVE  Inv'
  <1> DEFINE u == req[h].user
  <1>1. /\ u \in User /\ End(h) /\ UNCHANGED <<clock, bound, fin, faults, closedBy>>
        /\ acct[u] \in Account /\ clock \in Nat
        /\ asked \in [User -> SUBSET Nat] /\ CoolingOff \in Nat /\ CoolingOff >= 2
        /\ closedBy \in [User -> {"nobody", "finalizer", "request"}]
    BY BusyRequest, CoolingOffAssumption DEF WriteSubmit, WriteWithdraw, Inv, TypeOK
  <1>2. CASE ~Live(u)
    <2>1. acct' = [acct EXCEPT ![u] = acct[u]]
      BY <1>2 DEF WriteSubmit, WriteWithdraw, SetCancellation, Inv, TypeOK
    <2>2. /\ asked' \in [User -> SUBSET Nat]
          /\ \A v \in User \ {u} : asked'[v] = asked[v]
      BY <1>1 DEF WriteSubmit, WriteWithdraw
    <2>3. acct[u].at > 0 <=> acct[u].status = InCoolingOff
      BY <1>1 DEF Inv, TypeOK
    <2>4. acct[u].state # "live"
      BY <1>2 DEF Live
    <2>5. QED BY <1>1, <2>1, <2>2, <2>3, <2>4, RowInv
  <1>3. CASE Live(u) /\ WriteSubmit(h)
    <2> DEFINE row == [acct[u] EXCEPT !.status = InCoolingOff, !.at = clock + CoolingOff]
    <2>1. /\ row \in Account /\ row.status = InCoolingOff /\ row.at = clock + CoolingOff
      <3>1. clock + CoolingOff \in Nat /\ InCoolingOff \in {Normal, InCoolingOff}
        BY <1>1
      <3>2. QED BY <1>1, <3>1, Dated
    <2>2. acct' = [acct EXCEPT ![u] = row]
      BY <1>1, <1>3 DEF WriteSubmit, SetCancellation, Inv, TypeOK
    <2>3. asked' = [asked EXCEPT ![u] = {clock}]
      BY <1>3 DEF WriteSubmit
    <2>4. closedBy[u] # "finalizer"
      BY <1>1, <1>3 DEF Live, Inv, ClosedOK
    <2> HIDE DEF row
    <2>5. /\ asked' \in [User -> SUBSET Nat] /\ clock \in asked'[u]
          /\ \A v \in User \ {u} : asked'[v] = asked[v]
      BY <1>1, <2>3
    <2>6. row.at > 0
      BY <1>1, <2>1
    <2>7. QED BY <1>1, <2>1, <2>2, <2>4, <2>5, <2>6, RowInv
  <1>4. CASE Live(u) /\ WriteWithdraw(h)
    <2> DEFINE row == [acct[u] EXCEPT !.status = Normal, !.at = 0]
    <2>1. row \in Account /\ row.status # InCoolingOff /\ row.at = 0 /\ ~(row.at > 0)
      <3>1. 0 \in Nat /\ Normal \in {Normal, InCoolingOff} /\ Normal # InCoolingOff
        BY Statuses
      <3>2. row \in Account /\ row.status = Normal /\ row.at = 0
        BY <1>1, <3>1, Dated
      <3> HIDE DEF row
      <3>3. QED BY <3>1, <3>2
    <2>2. acct' = [acct EXCEPT ![u] = row]
      BY <1>1, <1>4 DEF WriteWithdraw, SetCancellation, Inv, TypeOK
    <2>3. asked' = [asked EXCEPT ![u] = {}]
      BY <1>4 DEF WriteWithdraw
    <2>4. closedBy[u] # "finalizer"
      BY <1>1, <1>4 DEF Live, Inv, ClosedOK
    <2> HIDE DEF row
    <2>5. /\ asked' \in [User -> SUBSET Nat]
          /\ \A v \in User \ {u} : asked'[v] = asked[v]
      BY <1>1, <2>3
    <2>6. QED BY <1>1, <2>1, <2>2, <2>4, <2>5, RowInv
  <1>5. QED BY <1>2, <1>3, <1>4

-----------------------------------------------------------------------------
(* Deletion, restoration *)

LEMMA DeletionInv ==
    ASSUME Inv, NEW h \in Handler, FinishDeletion(h) \/ FinishHardDeletion(h)
    PROVE  Inv'
  <1> DEFINE u == req[h].user
  <1>1. /\ u \in User /\ End(h) /\ UNCHANGED <<clock, bound, fin, faults, asked>>
        /\ acct[u] \in Account /\ acct \in [User -> Account]
        /\ asked \in [User -> SUBSET Nat]
        /\ closedBy \in [User -> {"nobody", "finalizer", "request"}]
        /\ acct[u].at > 0 <=> acct[u].status = InCoolingOff
    BY BusyRequest DEF FinishDeletion, FinishHardDeletion, Inv, TypeOK
  <1>2. CASE acct' = acct /\ closedBy' = closedBy
    BY <1>1, <1>2, EndInv
  <1>3. ASSUME NEW row \in Account, acct' = [acct EXCEPT ![u] = row],
               closedBy' = [closedBy EXCEPT ![u] = "request"],
               row.at > 0 <=> row.status = InCoolingOff,
               row.status = InCoolingOff =>
                  row.status = acct[u].status /\ row.at = acct[u].at /\ row.state # "live"
        PROVE  Inv'
    <2>1. /\ closedBy' \in [User -> {"nobody", "finalizer", "request"}]
          /\ closedBy'[u] = "request"
          /\ \A v \in User \ {u} : asked'[v] = asked[v] /\ closedBy'[v] = closedBy[v]
      BY <1>1, <1>3
    <2>2. QED BY <1>1, <1>3, <2>1, RowInv
  <1>4. CASE FinishDeletion(h) /\ ~req[h].failed /\ Live(u)
    <2> DEFINE row == [acct[u] EXCEPT !.state = "deleted"]
    <2>1. row \in Account /\ row.status = acct[u].status /\ row.at = acct[u].at /\ row.state = "deleted"
      BY <1>1 DEF Account
    <2>2. acct' = [acct EXCEPT ![u] = row] /\ closedBy' = [closedBy EXCEPT ![u] = "request"]
      BY <1>1, <1>4 DEF FinishDeletion
    <2> HIDE DEF row
    <2>3. QED BY <1>1, <1>3, <2>1, <2>2
  <1>5. CASE FinishHardDeletion(h) /\ ~req[h].failed /\ acct[u].state # "gone"
    <2> DEFINE row == [state |-> "gone", status |-> Normal, at |-> 0]
    <2>1. row \in Account /\ row.status # InCoolingOff /\ row.at = 0 /\ ~(row.at > 0)
      BY Statuses DEF Account
    <2>2. acct' = [acct EXCEPT ![u] = row] /\ closedBy' = [closedBy EXCEPT ![u] = "request"]
      BY <1>1, <1>5 DEF FinishHardDeletion
    <2> HIDE DEF row
    <2>3. QED BY <1>3, <2>1, <2>2
  <1>6. QED BY <1>2, <1>4, <1>5 DEF FinishDeletion, FinishHardDeletion

LEMMA RestoreInv ==
    ASSUME Inv, NEW u \in User, RestoreUser(u)
    PROVE  Inv'
  <1>1. /\ Restored(u) \in Account /\ Restored(u).status # InCoolingOff
        /\ ~(Restored(u).at > 0)
    BY Statuses DEF Restored, Account
  <1>2. /\ acct' = [acct EXCEPT ![u] = Restored(u)]
        /\ asked' \in [User -> SUBSET Nat]
        /\ closedBy' \in [User -> {"nobody", "finalizer", "request"}]
        /\ closedBy'[u] = "nobody"
        /\ \A v \in User \ {u} : asked'[v] = asked[v] /\ closedBy'[v] = closedBy[v]
        /\ UNCHANGED <<clock, bound, fin, req, faults>>
    BY DEF RestoreUser, Inv, TypeOK
  <1>3. QED BY <1>1, <1>2, RowInv

-----------------------------------------------------------------------------
(* Game servers and the finalizer *)

LEMMA CalledServer ==
    ASSUME TypeOK, NEW b \in Booi, NEW u \in User, NEW o \in Outcomes, UnbindEffect(b, u, o)
    PROVE  /\ bound' \in [Booi -> SUBSET User] /\ faults' \in Nat
           /\ \A a \in Booi : bound'[a] \subseteq bound[a]
           /\ o = "done" => u \notin bound'[b]
  BY BoundAssumption DEF UnbindEffect, TypeOK, Outcomes

\* A server that forgets a role disturbs nobody.
LEMMA Unbound ==
    ASSUME TypeOK, \A a \in Booi : bound'[a] \subseteq bound[a],
           UNCHANGED <<acct, fin, closedBy, clock>>, PassOK, ClosedOK
    PROVE  PassOK' /\ ClosedOK'
  BY DEF PassOK, ClosedOK, Due, Live, Cooling

LEMMA DeletionCallInv ==
    ASSUME Inv, NEW h \in Handler, NEW b \in Booi, NEW o \in Outcomes, DeletionCall(h, b, o)
    PROVE  Inv'
  <1> DEFINE r == AfterCall(req[h], b, o)
  <1>1. /\ req[h] \in Request /\ req[h].kind \in {"delete", "hard"}
        /\ UnbindEffect(b, req[h].user, o)
        /\ req' = [req EXCEPT ![h] = r] /\ UNCHANGED <<clock, acct, fin, asked, closedBy>>
    BY DEF DeletionCall, Inv, TypeOK
  <1>2. /\ r \in Request /\ r.kind = req[h].kind /\ r.born = req[h].born /\ req[h] # Idle
    BY <1>1, BusyRequest DEF AfterCall, Request
  <1> HIDE DEF r
  <1>3. /\ req' \in [Handler -> Request] /\ req'[h] = r
        /\ \A g \in Handler \ {h} : req'[g] = req[g]
    BY <1>1, <1>2 DEF Inv, TypeOK
  <1>4. /\ bound' \in [Booi -> SUBSET User] /\ faults' \in Nat
        /\ \A a \in Booi : bound'[a] \subseteq bound[a]
    BY <1>1, BusyRequest, CalledServer DEF Inv
  <1>5. TypeOK'
    BY <1>1, <1>3, <1>4 DEF Inv, TypeOK
  <1>6. TimesOK'
    BY <1>1, <1>2, <1>3 DEF Inv, TimesOK
  <1>7. LoginsOK'
    BY <1>1, <1>2, <1>3 DEF Inv, LoginsOK, Cooling
  <1>8. PassOK' /\ ClosedOK'
    BY <1>1, <1>4, Unbound DEF Inv
  <1>9. AskedOK'
    BY <1>1 DEF Inv, AskedOK, Live, Cooling
  <1>10. QED BY <1>5, <1>6, <1>7, <1>8, <1>9 DEF Inv

LEMMA StartPassInv == ASSUME Inv, StartPass PROVE Inv'
  <1>1. PICK list \in DueCancellations(clock) :
          fin' = [now |-> clock, todo |-> list, wait |-> Booi, failed |-> Booi = {}]
    BY DEF StartPass
  <1>2. UNCHANGED <<clock, acct, bound, req, faults, asked, closedBy>>
    BY DEF StartPass
  <1>3. list \in Seq(User) /\ (Booi = {}) \in BOOLEAN
    BY ListType
  <1>4. fin' \in Finalizer /\ fin'.now = clock /\ fin'.wait = Booi
    BY <1>1, <1>3 DEF Finalizer, Inv, TypeOK
  <1>5. TypeOK'
    BY <1>2, <1>4 DEF Inv, TypeOK
  <1>6. TimesOK'
    BY <1>2, <1>4 DEF Inv, TypeOK, TimesOK
  <1>7. PassOK'
    BY <1>4 DEF PassOK
  <1>8. LoginsOK' /\ ClosedOK' /\ AskedOK'
    BY <1>2 DEF Inv, LoginsOK, ClosedOK, AskedOK, Live, Cooling
  <1>9. QED BY <1>5, <1>6, <1>7, <1>8 DEF Inv

LEMMA FinalizerCallInv ==
    ASSUME Inv, NEW b \in Booi, NEW o \in Outcomes, FinalizerCall(b, o)
    PROVE  Inv'
  <1> DEFINE u == Head(fin.todo)
  <1>1. /\ fin.todo # <<>> /\ b \in fin.wait /\ UnbindEffect(b, u, o)
        /\ fin' = AfterCall(fin, b, o) /\ UNCHANGED <<clock, acct, req, asked, closedBy>>
        /\ fin \in Finalizer
    BY DEF FinalizerCall, Inv, TypeOK
  <1>2. u \in User
    BY <1>1, HeadTailProperties DEF Finalizer
  <1>3. /\ fin' \in Finalizer /\ fin'.now = fin.now /\ fin'.todo = fin.todo
        /\ fin'.wait = fin.wait \ {b}
        /\ ~fin'.failed => ~fin.failed /\ o = "done"
    BY <1>1 DEF AfterCall, Finalizer
  <1>4. /\ bound' \in [Booi -> SUBSET User] /\ faults' \in Nat
        /\ \A a \in Booi : bound'[a] \subseteq bound[a]
        /\ o = "done" => u \notin bound'[b]
    BY <1>1, <1>2, CalledServer DEF Inv
  <1>5. TypeOK'
    BY <1>1, <1>3, <1>4 DEF Inv, TypeOK
  <1>6. TimesOK'
    BY <1>1, <1>3 DEF Inv, TimesOK
  <1>7. PassOK'
    <2> SUFFICES ASSUME ~fin'.failed, Due(u, fin.now), NEW a \in Booi \ fin'.wait
                 PROVE  u \notin bound'[a]
      BY <1>1, <1>3 DEF PassOK, Due, Live
    <2>1. CASE a = b
      BY <1>3, <1>4, <2>1
    <2>2. CASE a # b
      <3>1. a \in Booi \ fin.wait
        BY <1>3, <2>2
      <3>2. u \notin bound[a]
        BY <1>1, <1>3, <3>1 DEF Inv, PassOK
      <3>3. QED BY <1>4, <3>2
    <2>3. QED BY <2>1, <2>2
  <1>8. ClosedOK'
    BY <1>1, <1>4 DEF Inv, ClosedOK, Cooling
  <1>9. LoginsOK' /\ AskedOK'
    BY <1>1 DEF Inv, LoginsOK, AskedOK, Live, Cooling
  <1>10. QED BY <1>5, <1>6, <1>7, <1>8, <1>9 DEF Inv

\* The account at the head of a pass whose servers have all answered.
LEMMA Confirmed ==
    ASSUME Inv, CompleteCancellation
    PROVE  /\ Head(fin.todo) \in User
           /\ fin' \in Finalizer /\ fin'.now = fin.now
           /\ fin'.todo = <<>> \/ fin'.wait = Booi
           /\ ~fin.failed /\ StillDue(Head(fin.todo), fin.now)
                => \A b \in Booi : Head(fin.todo) \notin bound[b]
  <1>1. fin.todo # <<>> /\ fin.wait = {} /\ fin' = NextAccount /\ fin \in Finalizer
    BY DEF CompleteCancellation, Inv, TypeOK
  <1>2. Head(fin.todo) \in User /\ Tail(fin.todo) \in Seq(User)
    BY <1>1, HeadTailProperties DEF Finalizer
  <1>3. /\ (IF Tail(fin.todo) = <<>> THEN {} ELSE Booi) \in SUBSET Booi
        /\ (Tail(fin.todo) # <<>> /\ Booi = {}) \in BOOLEAN
    OBVIOUS
  <1>4. /\ fin' \in Finalizer /\ fin'.now = fin.now /\ fin'.todo = Tail(fin.todo)
        /\ fin'.wait = IF Tail(fin.todo) = <<>> THEN {} ELSE Booi
    <2> DEFINE t == Tail(fin.todo)
               w == IF Tail(fin.todo) = <<>> THEN {} ELSE Booi
               x == Tail(fin.todo) # <<>> /\ Booi = {}
    <2>1. fin' = [fin EXCEPT !.todo = t, !.wait = w, !.failed = x]
      BY <1>1 DEF NextAccount
    <2>2. t \in Seq(User) /\ w \in SUBSET Booi /\ x \in BOOLEAN
      BY <1>2, <1>3
    <2> HIDE DEF t, w, x
    <2>3. fin' \in Finalizer /\ fin'.now = fin.now /\ fin'.todo = t /\ fin'.wait = w
      BY <1>1, <2>1, <2>2 DEF Finalizer
    <2>4. QED BY <2>3 DEF t, w
  <1>5. QED BY <1>1, <1>2, <1>4 DEF StillDue, Inv, PassOK

LEMMA CompleteInv == ASSUME Inv, CompleteCancellation PROVE Inv'
  <1> DEFINE u == Head(fin.todo)
             closes == ~fin.failed /\ StillDue(u, fin.now)
  <1>1. /\ acct' = IF closes THEN [acct EXCEPT ![u].state = "deleted"] ELSE acct
        /\ closedBy' = IF closes THEN [closedBy EXCEPT ![u] = "finalizer"] ELSE closedBy
        /\ UNCHANGED <<clock, bound, req, faults, asked>>
    BY DEF CompleteCancellation
  <1>2. /\ u \in User /\ fin' \in Finalizer /\ fin'.now = fin.now
        /\ fin'.todo = <<>> \/ fin'.wait = Booi
        /\ closes => \A b \in Booi : u \notin bound[b]
    BY Confirmed
  <1>3. /\ acct' \in [User -> Account]
        /\ \A v \in User : /\ acct'[v].status = acct[v].status /\ acct'[v].at = acct[v].at
                           /\ acct'[v].state = IF closes /\ v = u THEN "deleted" ELSE acct[v].state
    <2>1. [acct[u] EXCEPT !.state = "deleted"] \in Account
      BY <1>2 DEF Inv, TypeOK, Account
    <2>2. CASE closes
      BY <1>1, <1>2, <2>1, <2>2 DEF Inv, TypeOK, Account
    <2>3. CASE ~closes
      BY <1>1, <2>3 DEF Inv, TypeOK
    <2>4. QED BY <2>2, <2>3
  <1>4. /\ closedBy' \in [User -> {"nobody", "finalizer", "request"}]
        /\ \A v \in User : closedBy'[v] = IF closes /\ v = u THEN "finalizer" ELSE closedBy[v]
    BY <1>1, <1>2 DEF Inv, TypeOK
  <1>5. closes => acct[u].status = InCoolingOff /\ acct[u].at <= clock
    <2>1. acct[u].at \in Nat /\ fin.now \in Nat /\ clock \in Nat /\ fin.now <= clock
      BY <1>2 DEF Inv, TypeOK, TimesOK, Account, Finalizer
    <2>2. QED BY <2>1 DEF StillDue, Due
  <1> HIDE DEF closes, u
  <1>6. TypeOK'
    BY <1>1, <1>2, <1>3, <1>4 DEF Inv, TypeOK
  <1>7. TimesOK'
    BY <1>1, <1>2 DEF Inv, TimesOK
  <1>8. LoginsOK'
    <2> SUFFICES ASSUME NEW g \in Handler, req[g].kind = "answered",
                        acct'[req[g].user].status = InCoolingOff
                 PROVE  acct'[req[g].user].at >= req[g].born + 2
      BY <1>1 DEF LoginsOK, Cooling
    <2>1. req[g].user \in User
      BY BusyRequest DEF Inv, TypeOK
    <2>2. QED BY <1>3, <2>1 DEF Inv, LoginsOK, Cooling
  <1>9. PassOK'
    BY <1>2 DEF PassOK
  <1>10. ClosedOK'
    BY <1>1, <1>2, <1>3, <1>4, <1>5 DEF Inv, ClosedOK, Cooling
  <1>11. AskedOK'
    BY <1>1, <1>3 DEF Inv, AskedOK, Live, Cooling
  <1>12. QED BY <1>6, <1>7, <1>8, <1>9, <1>10, <1>11 DEF Inv

-----------------------------------------------------------------------------
(* Game logins, crashes, time *)

LEMMA VerifyStatusInv ==
    ASSUME Inv, NEW h \in Handler, VerifyStatus(h)
    PROVE  Inv'
  <1>1. /\ req[h] \in Request /\ req[h].kind = "login"
        /\ UNCHANGED <<clock, acct, bound, fin, faults, asked, closedBy>>
    BY DEF VerifyStatus, Inv, TypeOK
  <1>2. CASE ~AcceptsLogin(req[h].user)
    BY <1>2, EndInv DEF VerifyStatus, End
  <1>3. CASE AcceptsLogin(req[h].user)
    <2> DEFINE r == [req[h] EXCEPT !.kind = "answered"]
    <2>1. /\ r \in Request /\ r.kind = "answered" /\ r.user = req[h].user /\ r.born = req[h].born
          /\ req[h] # Idle
      BY <1>1, BusyRequest DEF Request
    <2>2. req' = [req EXCEPT ![h] = r]
      BY <1>3 DEF VerifyStatus
    <2> HIDE DEF r
    <2>3. /\ req' \in [Handler -> Request] /\ req'[h] = r
          /\ \A g \in Handler \ {h} : req'[g] = req[g]
      BY <2>1, <2>2 DEF Inv, TypeOK
    <2>4. TypeOK'
      BY <1>1, <2>3 DEF Inv, TypeOK
    <2>5. TimesOK'
      BY <1>1, <2>1, <2>3 DEF Inv, TimesOK
    <2>6. LoginsOK'
      BY <1>1, <1>3, <2>1, <2>3 DEF AcceptsLogin, Inv, LoginsOK, Cooling
    <2>7. PassOK' /\ ClosedOK' /\ AskedOK'
      BY <1>1 DEF Inv, PassOK, ClosedOK, AskedOK, Due, Live, Cooling
    <2>8. QED BY <2>4, <2>5, <2>6, <2>7 DEF Inv
  <1>4. QED BY <1>2, <1>3

\* The heart of the matter: an account with an accepted login is not due.
LEMMA NotDue ==
    ASSUME Inv, NEW h \in Handler, req[h].kind = "answered"
    PROVE  /\ req[h].user \in User
           /\ Cooling(req[h].user) => acct[req[h].user].at > clock
  <1>1. /\ req[h].user \in User /\ req[h].born \in Nat /\ req[h] # Idle
    BY BusyRequest DEF Inv, TypeOK
  <1>2. clock \in Nat /\ clock <= req[h].born + 1 /\ acct[req[h].user].at \in Nat
    BY <1>1 DEF Inv, TypeOK, TimesOK, Account
  <1>3. Cooling(req[h].user) => acct[req[h].user].at >= req[h].born + 2
    BY DEF Inv, LoginsOK
  <1>4. QED BY <1>1, <1>2, <1>3

LEMMA BindRoleInv ==
    ASSUME Inv, NEW h \in Handler, NEW b \in Booi, BindRole(h, b)
    PROVE  Inv'
  <1> DEFINE u == req[h].user
  <1>1. /\ req[h].kind = "answered" /\ bound' = [bound EXCEPT ![b] = @ \cup {u}]
        /\ End(h) /\ UNCHANGED <<clock, acct, fin, faults, asked, closedBy>>
    BY DEF BindRole
  <1>2. u \in User /\ (Cooling(u) => acct[u].at > clock)
    BY <1>1, NotDue
  <1>3. /\ acct[u].at \in Nat /\ clock \in Nat /\ fin.now \in Nat /\ fin.now <= clock
    BY <1>2 DEF Inv, TypeOK, TimesOK, Account, Finalizer
  <1>4. /\ bound' \in [Booi -> SUBSET User]
        /\ \A a \in Booi : bound'[a] \subseteq bound[a] \cup {u}
    BY <1>1, <1>2 DEF Inv, TypeOK
  <1>5. TypeOK'
    BY <1>1, <1>4, EndedRequest DEF Inv, TypeOK
  <1>6. TimesOK'
    BY <1>1, EndTimes
  <1>7. LoginsOK'
    BY <1>1, EndedRequest, Statuses DEF Inv, LoginsOK, Cooling
  <1>8. PassOK'
    <2> SUFFICES ASSUME fin.todo # <<>>, ~fin.failed, Due(Head(fin.todo), fin.now),
                        NEW a \in Booi \ fin.wait
                 PROVE  Head(fin.todo) \notin bound'[a]
      BY <1>1 DEF PassOK, Due, Live
    <2>1. Head(fin.todo) # u
      BY <1>2, <1>3 DEF Due, Cooling
    <2>2. Head(fin.todo) \notin bound[a]
      BY DEF Inv, PassOK
    <2>3. QED BY <1>4, <2>1, <2>2
  <1>9. ClosedOK'
    <2> SUFFICES ASSUME NEW v \in User, closedBy[v] = "finalizer"
                 PROVE  /\ acct[v].state = "deleted" /\ acct[v].status = InCoolingOff
                        /\ acct[v].at <= clock /\ \A a \in Booi : v \notin bound'[a]
      BY <1>1 DEF ClosedOK, Cooling
    <2>1. /\ acct[v].state = "deleted" /\ Cooling(v) /\ acct[v].at <= clock
          /\ \A a \in Booi : v \notin bound[a]
      BY DEF Inv, ClosedOK
    <2>2. v # u
      BY <1>2, <1>3, <2>1
    <2>3. QED BY <1>4, <2>1, <2>2 DEF Cooling
  <1>10. AskedOK'
    BY <1>1 DEF Inv, AskedOK, Live, Cooling
  <1>11. QED BY <1>5, <1>6, <1>7, <1>8, <1>9, <1>10 DEF Inv

LEMMA CrashInv == ASSUME Inv, Crash PROVE Inv'
  <1> DEFINE f == [fin EXCEPT !.todo = <<>>, !.wait = {}, !.failed = FALSE]
  <1>1. /\ faults' = faults + 1 /\ fin' = f /\ UNCHANGED <<clock, acct, bound, asked, closedBy>>
        /\ req' = [h \in Handler |-> IF req[h].kind = "answered" THEN req[h] ELSE Idle]
    BY DEF Crash
  <1>2. f \in Finalizer /\ f.now = fin.now /\ f.todo = <<>>
    BY EmptySeq DEF Inv, TypeOK, Finalizer
  <1> HIDE DEF f
  <1>3. /\ req' \in [Handler -> Request]
        /\ \A h \in Handler : req'[h] = req[h] \/ req'[h] = Idle
    BY <1>1 DEF Inv, TypeOK, Request
  <1>4. TypeOK'
    BY <1>1, <1>2, <1>3 DEF Inv, TypeOK
  <1>5. TimesOK'
    BY <1>1, <1>2, <1>3 DEF Inv, TimesOK
  <1>6. LoginsOK'
    BY <1>1, <1>3, Statuses DEF Inv, LoginsOK, Cooling
  <1>7. PassOK'
    BY <1>1, <1>2 DEF PassOK
  <1>8. ClosedOK' /\ AskedOK'
    BY <1>1 DEF Inv, ClosedOK, AskedOK, Live, Cooling
  <1>9. QED BY <1>4, <1>5, <1>6, <1>7, <1>8 DEF Inv

LEMMA TickInv == ASSUME Inv, Tick PROVE Inv'
  <1>1. /\ clock' = clock + 1 /\ \A h \in Handler : req[h] # Idle => req[h].born = clock
        /\ UNCHANGED <<acct, bound, fin, req, faults, asked, closedBy>> /\ clock \in Nat
    BY DEF Tick, Inv, TypeOK
  <1>2. TypeOK'
    BY <1>1 DEF Inv, TypeOK
  <1>3. TimesOK'
    BY <1>1 DEF Inv, TypeOK, TimesOK, Finalizer
  <1>4. LoginsOK' /\ PassOK' /\ AskedOK'
    BY <1>1 DEF Inv, LoginsOK, PassOK, AskedOK, Due, Live, Cooling
  <1>5. ClosedOK'
    BY <1>1 DEF Inv, TypeOK, Account, ClosedOK, Cooling
  <1>6. QED BY <1>2, <1>3, <1>4, <1>5 DEF Inv

-----------------------------------------------------------------------------
LEMMA InitInv == Init => Inv
  <1> SUFFICES ASSUME Init PROVE Inv
    OBVIOUS
  <1>1. \A u \in User : acct[u] \in Account /\ acct[u].at = 0 /\ acct[u].status = Normal
    BY Statuses DEF Init, Account
  <1>2. fin \in Finalizer /\ fin.now = 0 /\ fin.todo = <<>>
    BY EmptySeq DEF Init, Finalizer
  <1>3. TypeOK
    BY <1>1, <1>2, Statuses DEF Init, TypeOK, Request
  <1>4. TimesOK
    BY <1>2 DEF Init, TimesOK
  <1>5. LoginsOK
    BY Statuses DEF Init, LoginsOK
  <1>6. PassOK /\ ClosedOK
    BY <1>2 DEF Init, PassOK, ClosedOK
  <1>7. AskedOK
    BY <1>1, Statuses DEF AskedOK, Cooling
  <1>8. QED BY <1>3, <1>4, <1>5, <1>6, <1>7 DEF Inv

LEMMA NextInv == Inv /\ [Next]_vars => Inv'
  <1> SUFFICES ASSUME Inv, [Next]_vars PROVE Inv'
    OBVIOUS
  <1>1. ASSUME NEW h \in Handler, NEW u \in User,
               ReadForSubmit(h, u) \/ ReadForWithdraw(h, u) \/ VerifyToken(h, u)
        PROVE  Inv'
    <2>1. {} \in SUBSET Booi
      OBVIOUS
    <2>2. QED BY <1>1, <2>1, BeginInv DEF ReadForSubmit, ReadForWithdraw, VerifyToken
  <1>2. ASSUME NEW h \in Handler, NEW u \in User, NEW kind \in {"delete", "hard"},
               StartDeletion(h, u, kind)
        PROVE  Inv'
    <2>1. Booi \in SUBSET Booi
      OBVIOUS
    <2>2. QED BY <1>2, <2>1, BeginInv DEF StartDeletion
  <1>3. ASSUME NEW h \in Handler, WriteSubmit(h) \/ WriteWithdraw(h) PROVE Inv'
    BY <1>3, WriteInv
  <1>4. CASE StartPass
    BY <1>4, StartPassInv
  <1>5. ASSUME NEW b \in Booi, NEW o \in Outcomes, FinalizerCall(b, o) PROVE Inv'
    BY <1>5, FinalizerCallInv
  <1>6. CASE CompleteCancellation
    BY <1>6, CompleteInv
  <1>7. ASSUME NEW h \in Handler, NEW b \in Booi, NEW o \in Outcomes, DeletionCall(h, b, o)
        PROVE  Inv'
    BY <1>7, DeletionCallInv
  <1>8. ASSUME NEW h \in Handler, FinishDeletion(h) \/ FinishHardDeletion(h) PROVE Inv'
    BY <1>8, DeletionInv
  <1>9. ASSUME NEW u \in User, RestoreUser(u) PROVE Inv'
    BY <1>9, RestoreInv
  <1>10. ASSUME NEW h \in Handler, VerifyStatus(h) PROVE Inv'
    BY <1>10, VerifyStatusInv
  <1>11. ASSUME NEW h \in Handler, NEW b \in Booi, BindRole(h, b) PROVE Inv'
    BY <1>11, BindRoleInv
  <1>12. CASE Crash \/ Tick
    BY <1>12, CrashInv, TickInv
  <1>13. CASE UNCHANGED vars
    BY <1>13 DEF vars, Inv, TypeOK, TimesOK, LoginsOK, PassOK, ClosedOK, AskedOK, Due, Live,
                 Cooling
  <1>14. QED
    BY <1>1, <1>2, <1>3, <1>4, <1>5, <1>6, <1>7, <1>8, <1>9, <1>10, <1>11, <1>12, <1>13 DEF Next

LEMMA Invariant == Spec => []Inv
  BY InitInv, NextInv, PTL DEF Spec

-----------------------------------------------------------------------------
(* The theorems *)

\* Types; an account has a date of deletion exactly in the cooling-off period.
THEOREM CancellationTyped == Spec => []TypeOK
  <1>1. Inv => TypeOK
    BY DEF Inv
  <1>2. QED BY <1>1, Invariant, PTL

\* An account that the finalizer closed has no role on any game server.
THEOREM Released == Spec => []RolesReleased
  <1>1. Inv => RolesReleased
    BY DEF Inv, ClosedOK, RolesReleased
  <1>2. QED BY <1>1, Invariant, PTL

\* The finalizer closes on an application that has stood for the whole
\* cooling-off period when it looks, whatever became of the one it started with.
THEOREM Served == Spec => CoolingOffServed
  <1> DEFINE Justified == \A u \in User : closedBy[u] = "nobody" /\ closedBy'[u] = "finalizer"
                         => \E t \in asked[u] : t + CoolingOff <= clock
  <1>1. Inv /\ [Next]_vars => [Justified]_vars
    <2> SUFFICES ASSUME Inv, Next, NEW u \in User,
                        closedBy[u] = "nobody", closedBy'[u] = "finalizer"
                 PROVE  \E t \in asked[u] : t + CoolingOff <= clock
      OBVIOUS
    <2>1. closedBy' # closedBy /\ closedBy \in [User -> {"nobody", "finalizer", "request"}]
      BY DEF Inv, TypeOK
    <2>2. ASSUME NEW h \in Handler, FinishDeletion(h) \/ FinishHardDeletion(h) PROVE FALSE
      BY <2>1, <2>2 DEF FinishDeletion, FinishHardDeletion
    <2>3. ASSUME NEW v \in User, RestoreUser(v) PROVE FALSE
      BY <2>1, <2>3 DEF RestoreUser
    <2>4. CompleteCancellation
      BY <2>1, <2>2, <2>3
      DEF Next, ReadForSubmit, ReadForWithdraw, WriteSubmit, WriteWithdraw, StartPass,
          FinalizerCall, StartDeletion, DeletionCall, VerifyToken, VerifyStatus, BindRole,
          Crash, Tick
    <2>5. u = Head(fin.todo) /\ StillDue(u, fin.now)
      BY <2>1, <2>4 DEF CompleteCancellation
    <2>6. /\ Live(u) /\ Cooling(u) /\ acct[u].at <= fin.now /\ fin.now <= clock
          /\ acct[u].at \in Nat /\ fin.now \in Nat /\ clock \in Nat
      BY <2>5 DEF StillDue, Due, Cooling, Inv, TypeOK, TimesOK, Account, Finalizer
    <2>7. PICK t \in asked[u] : t + CoolingOff = acct[u].at
      BY <2>6 DEF Inv, AskedOK
    <2>8. QED BY <2>6, <2>7
  <1>2. QED BY <1>1, Invariant, PTL DEF Spec, CoolingOffServed
=============================================================================
