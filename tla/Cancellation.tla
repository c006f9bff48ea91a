----------------------------- MODULE Cancellation -----------------------------
(***************************************************************************)
(* Ending an account: the cancellation wizard and its cooling-off period   *)
(* (internal/app/app.go), the finalizer (internal/app/cancellation.go),    *)
(* immediate deletion by the account's owner or an administrator           *)
(* (internal/app/account_deletion.go), the unbinding of game roles on every *)
(* BOOI game server (internal/booi/client.go) and the login check those    *)
(* servers make (internal/app/inner.go).                                   *)
(*                                                                         *)
(* A handler is several SQL statements and HTTP calls; each of them is an  *)
(* action, so that requests, the finalizer and crashes interleave as they  *)
(* do in the program.  The game servers are external: they keep a set of   *)
(* bound roles, bind one after a login the SDK accepted, and unbind on     *)
(* request.                                                                *)
(***************************************************************************)
EXTENDS Naturals, FiniteSets, Sequences

CONSTANTS
    User,        \* account ids (numbers: the finalizer orders by them)
    Booi,        \* the configured game servers
    Handler,     \* requests the server handles at the same time
    CoolingOff,  \* the 15 days, in clock ticks
    Limit,       \* how many accounts one finalizer pass takes (100)
    MaxTime,     \* bound of the clock, for TLC only
    MaxFaults    \* bound of failed calls and crashes: outages end

ASSUME UserAssumption == User \subseteq Nat /\ IsFiniteSet(User)
\* Two ticks at least: a request lives for one tick at most (see Tick).
ASSUME CoolingOffAssumption == CoolingOff \in Nat /\ CoolingOff >= 2
ASSUME LimitAssumption == Limit \in Nat \ {0}
ASSUME BoundAssumption == MaxTime \in Nat /\ MaxFaults \in Nat

VARIABLES
    clock,      \* unix time
    acct,       \* the users table: existence and cancellation columns
    bound,      \* per game server: the accounts with a bound role
    fin,        \* the finalizer goroutine
    req,        \* the requests being handled
    faults,     \* failed calls and crashes so far
    asked,      \* history: the time of the application that stands, if any
    closedBy    \* history: who ended the account last

vars == <<clock, acct, bound, fin, req, faults, asked, closedBy>>

-----------------------------------------------------------------------------
(* Data *)

Normal == 1          \* cancellationStatusNormal
InCoolingOff == 2    \* cancellationStatusCoolingOff; 3 and 4 are never written

Account == [state : {"live", "deleted", "gone"}, status : {Normal, InCoolingOff}, at : Nat]

\* The finalizer: the accounts left in this pass, the first one's servers that
\* have not answered and whether one failed; it sleeps when none is left.
Finalizer == [now : Nat, todo : Seq(User), wait : SUBSET Booi, failed : BOOLEAN]

Idle == [kind |-> "idle"]

Request == {Idle} \cup
    [kind : {"submit", "withdraw", "login", "answered", "delete", "hard"},
     user : User, born : Nat, wait : SUBSET Booi, failed : BOOLEAN]

Live(u) == acct[u].state = "live"

Due(u, now) == Live(u) /\ acct[u].status = InCoolingOff /\ acct[u].at <= now

\* mutant: only applications that fall due in this very tick are found
DueOnTime(u, now) == Due(u, now) /\ acct[u].at = now

\* the condition of DueCancellations' query
Selected(u, now) == Due(u, now)

\* order by cancellation_at, id
Older(u, v) == acct[u].at < acct[v].at \/ (acct[u].at = acct[v].at /\ u < v)

\* The first Limit due accounts in that order; one list, in a set.
DueCancellations(now) ==
    LET due == { u \in User : Selected(u, now) }
        n == IF Cardinality(due) < Limit THEN Cardinality(due) ELSE Limit
    IN  { list \in [1 .. n -> due] :
            /\ \A i, j \in 1 .. n : i < j => Older(list[i], list[j])
            /\ \A u \in due, i \in 1 .. n : Older(list[i], u) \/ \E j \in 1 .. i : list[j] = u }

-----------------------------------------------------------------------------
Init ==
    /\ clock = 0
    /\ acct = [u \in User |-> [state |-> "live", status |-> Normal, at |-> 0]]
    /\ bound \in [Booi -> SUBSET User]
    /\ fin = [now |-> 0, todo |-> <<>>, wait |-> {}, failed |-> FALSE]
    /\ req = [h \in Handler |-> Idle]
    /\ faults = 0
    /\ asked = [u \in User |-> {}]
    /\ closedBy = [u \in User |-> "nobody"]

Begin(h, kind, u, servers) ==
    req' = [req EXCEPT ![h] = [kind |-> kind, user |-> u, born |-> clock,
                               wait |-> servers, failed |-> servers # {} /\ Booi = {}]]

End(h) == req' = [req EXCEPT ![h] = Idle]

-----------------------------------------------------------------------------
(* The wizard: cancellationHandle reads the status, decides, and writes the *)
(* new status in a later statement.  Actions 1-4, 7 and 8 never write.     *)

ReadForSubmit(h, u) ==
    /\ req[h] = Idle
    /\ Live(u) /\ acct[u].status = Normal
    /\ Begin(h, "submit", u, {})
    /\ UNCHANGED <<clock, acct, bound, fin, faults, asked, closedBy>>

ReadForWithdraw(h, u) ==
    /\ req[h] = Idle
    /\ Live(u) /\ acct[u].status = InCoolingOff
    /\ ~Due(u, clock)
    /\ Begin(h, "withdraw", u, {})
    /\ UNCHANGED <<clock, acct, bound, fin, faults, asked, closedBy>>

\* SetCancellation writes no deleted account, and the request succeeds anyway.
SetCancellation(u, status, at) ==
    acct' = IF Live(u) THEN [acct EXCEPT ![u].status = status, ![u].at = at] ELSE acct

WriteSubmit(h) ==
    /\ req[h].kind = "submit"
    /\ SetCancellation(req[h].user, InCoolingOff, clock + CoolingOff)
    /\ asked' = [asked EXCEPT ![req[h].user] = {clock}]
    /\ End(h)
    /\ UNCHANGED <<clock, bound, fin, faults, closedBy>>

WriteWithdraw(h) ==
    /\ req[h].kind = "withdraw"
    /\ SetCancellation(req[h].user, Normal, 0)
    /\ asked' = [asked EXCEPT ![req[h].user] = {}]
    /\ End(h)
    /\ UNCHANGED <<clock, bound, fin, faults, closedBy>>

-----------------------------------------------------------------------------
(* Pool.UnbindRoles: one call per server, all at once, each with a timeout *)

Outcomes == {"done", "refused", "lost"}   \* lost: unbound, but the answer is not

AfterCall(job, b, o) == [job EXCEPT !.wait = @ \ {b}, !.failed = @ \/ o # "done"]

UnbindEffect(b, u, o) ==
    /\ o # "done" => faults < MaxFaults
    /\ faults' = IF o = "done" THEN faults ELSE faults + 1
    /\ bound' = IF o = "refused" THEN bound ELSE [bound EXCEPT ![b] = @ \ {u}]

-----------------------------------------------------------------------------
(* The finalizer *)

StartPass ==
    /\ fin.todo = <<>>
    /\ \E list \in DueCancellations(clock) :
          /\ list # <<>>
          /\ fin' = [now |-> clock, todo |-> list, wait |-> Booi, failed |-> Booi = {}]
    /\ UNCHANGED <<clock, acct, bound, req, faults, asked, closedBy>>

FinalizerCall(b, o) ==
    /\ fin.todo # <<>> /\ b \in fin.wait
    /\ UnbindEffect(b, Head(fin.todo), o)
    /\ fin' = AfterCall(fin, b, o)
    /\ UNCHANGED <<clock, acct, req, asked, closedBy>>

NextAccount ==
    LET rest == Tail(fin.todo)
    IN  [fin EXCEPT !.todo = rest, !.wait = IF rest = <<>> THEN {} ELSE Booi,
                    !.failed = rest # <<>> /\ Booi = {}]

\* mutant: the status is not looked at again after the game servers answered
StillLive(u, now) == Live(u)

\* the condition of CompleteCancellation's update
StillDue(u, now) == Due(u, now)

\* CompleteCancellation, after every server confirmed; otherwise the account
\* waits for the next pass.
CompleteCancellation ==
    LET u == Head(fin.todo)
        closes == ~fin.failed /\ StillDue(u, fin.now)
    IN  /\ fin.todo # <<>> /\ fin.wait = {}
        /\ acct' = IF closes THEN [acct EXCEPT ![u].state = "deleted"] ELSE acct
        /\ closedBy' = IF closes THEN [closedBy EXCEPT ![u] = "finalizer"] ELSE closedBy
        /\ fin' = NextAccount
        /\ UNCHANGED <<clock, bound, req, faults, asked>>

-----------------------------------------------------------------------------
(* Immediate deletion: unbindAndDeleteUser, for the user centre and the    *)
(* administrator's two delete requests                                     *)

StartDeletion(h, u, kind) ==
    /\ req[h] = Idle
    /\ Begin(h, kind, u, Booi)
    /\ UNCHANGED <<clock, acct, bound, fin, faults, asked, closedBy>>

DeletionCall(h, b, o) ==
    /\ req[h].kind \in {"delete", "hard"} /\ b \in req[h].wait
    /\ UnbindEffect(b, req[h].user, o)
    /\ req' = [req EXCEPT ![h] = AfterCall(@, b, o)]
    /\ UNCHANGED <<clock, acct, fin, asked, closedBy>>

FinishDeletion(h) ==
    LET u == req[h].user
        deletes == ~req[h].failed /\ Live(u)
    IN  /\ req[h].kind = "delete" /\ req[h].wait = {}
        /\ acct' = IF deletes THEN [acct EXCEPT ![u].state = "deleted"] ELSE acct
        /\ closedBy' = IF deletes THEN [closedBy EXCEPT ![u] = "request"] ELSE closedBy
        /\ End(h)
        /\ UNCHANGED <<clock, bound, fin, faults, asked>>

FinishHardDeletion(h) ==
    LET u == req[h].user
        deletes == ~req[h].failed /\ acct[u].state # "gone"
    IN  /\ req[h].kind = "hard" /\ req[h].wait = {}
        /\ acct' = IF deletes THEN [acct EXCEPT ![u] = [state |-> "gone", status |-> Normal, at |-> 0]]
                   ELSE acct
        /\ closedBy' = IF deletes THEN [closedBy EXCEPT ![u] = "request"] ELSE closedBy
        /\ End(h)
        /\ UNCHANGED <<clock, bound, fin, faults, asked>>

\* mutant: restoring an account leaves its application's date behind
RestoredKeepingDate(u) == [acct[u] EXCEPT !.state = "live", !.status = Normal]

\* the columns RestoreUser writes
Restored(u) == [state |-> "live", status |-> Normal, at |-> 0]

\* RestoreUser accepts a live account too, and ends its application.
RestoreUser(u) ==
    /\ acct[u].state # "gone"
    /\ acct' = [acct EXCEPT ![u] = Restored(u)]
    /\ asked' = [asked EXCEPT ![u] = {}]
    /\ closedBy' = [closedBy EXCEPT ![u] = "nobody"]
    /\ UNCHANGED <<clock, bound, fin, req, faults>>

-----------------------------------------------------------------------------
(* A game login: a game server asks verifyInnerLogin and binds a role      *)

\* UserByOpenID and UserByToken: both ask for a live account.
VerifyToken(h, u) ==
    /\ req[h] = Idle
    /\ Live(u)
    /\ Begin(h, "login", u, {})
    /\ UNCHANGED <<clock, acct, bound, fin, faults, asked, closedBy>>

\* mutant: accounts in the cooling-off period may log in
UnlockedAnswer(u) == Live(u)

\* the status query of verifyInnerLogin and its 423 answer
AcceptsLogin(u) == Live(u) /\ acct[u].status # InCoolingOff

VerifyStatus(h) ==
    /\ req[h].kind = "login"
    /\ req' = [req EXCEPT ![h] = IF AcceptsLogin(@.user)
                                 THEN [@ EXCEPT !.kind = "answered"] ELSE Idle]
    /\ UNCHANGED <<clock, acct, bound, fin, faults, asked, closedBy>>

BindRole(h, b) ==
    /\ req[h].kind = "answered"
    /\ bound' = [bound EXCEPT ![b] = @ \cup {req[h].user}]
    /\ End(h)
    /\ UNCHANGED <<clock, acct, fin, faults, asked, closedBy>>

-----------------------------------------------------------------------------
\* The SDK stops and starts again.  What a game server was already told stays.
Crash ==
    /\ faults < MaxFaults
    /\ faults' = faults + 1
    /\ fin' = [fin EXCEPT !.todo = <<>>, !.wait = {}, !.failed = FALSE]
    /\ req' = [h \in Handler |-> IF req[h].kind = "answered" THEN req[h] ELSE Idle]
    /\ UNCHANGED <<clock, acct, bound, asked, closedBy>>

\* A tick is days and a request lasts seconds (the HTTP and BOOI timeouts): no
\* request sees two ticks.  A finalizer pass may take as long as it likes.
Tick ==
    /\ clock < MaxTime
    /\ \A h \in Handler : req[h] # Idle => req[h].born = clock
    /\ clock' = clock + 1
    /\ UNCHANGED <<acct, bound, fin, req, faults, asked, closedBy>>

Next ==
    \/ \E h \in Handler, u \in User : ReadForSubmit(h, u)
    \/ \E h \in Handler, u \in User : ReadForWithdraw(h, u)
    \/ \E h \in Handler : WriteSubmit(h)
    \/ \E h \in Handler : WriteWithdraw(h)
    \/ StartPass
    \/ \E b \in Booi, o \in Outcomes : FinalizerCall(b, o)
    \/ CompleteCancellation
    \/ \E h \in Handler, u \in User, kind \in {"delete", "hard"} : StartDeletion(h, u, kind)
    \/ \E h \in Handler, b \in Booi, o \in Outcomes : DeletionCall(h, b, o)
    \/ \E h \in Handler : FinishDeletion(h)
    \/ \E h \in Handler : FinishHardDeletion(h)
    \/ \E u \in User : RestoreUser(u)
    \/ \E h \in Handler, u \in User : VerifyToken(h, u)
    \/ \E h \in Handler : VerifyStatus(h)
    \/ \E h \in Handler, b \in Booi : BindRole(h, b)
    \/ Crash
    \/ Tick

Spec == Init /\ [][Next]_vars

\* The finalizer goroutine keeps running and every call it makes returns.
Fairness ==
    /\ WF_vars(StartPass)
    /\ WF_vars(\E b \in Booi, o \in Outcomes : FinalizerCall(b, o))
    /\ WF_vars(CompleteCancellation)

FairSpec == Spec /\ Fairness
-----------------------------------------------------------------------------
(* Properties *)

\* The variables have their types, and an account has a date of deletion
\* exactly when it is in the cooling-off period.
TypeOK ==
    /\ clock \in Nat
    /\ acct \in [User -> Account]
    /\ \A u \in User : acct[u].at > 0 <=> acct[u].status = InCoolingOff
    /\ bound \in [Booi -> SUBSET User]
    /\ fin \in Finalizer
    /\ req \in [Handler -> Request]
    /\ faults \in Nat
    /\ asked \in [User -> SUBSET Nat]
    /\ closedBy \in [User -> {"nobody", "finalizer", "request"}]

\* The finalizer closes an account only while an application of its owner
\* stands that has not been withdrawn, restored away or replaced during the
\* whole cooling-off period, however long its pass over the servers took.
CoolingOffServed ==
    [][\A u \in User : closedBy[u] = "nobody" /\ closedBy'[u] = "finalizer"
          => \E t \in asked[u] : t + CoolingOff <= clock]_vars

\* No game server keeps a role of an account that the finalizer closed: the
\* unbinding happened before, and no login was accepted behind its back.
RolesReleased ==
    \A u \in User : closedBy[u] = "finalizer" => \A b \in Booi : u \notin bound[b]

\* An application that is due is not due for ever: the account is closed, or
\* restored, once outages and crashes have an end.
DueEnds == \A u \in User : Due(u, clock) ~> ~Due(u, clock)
=============================================================================
