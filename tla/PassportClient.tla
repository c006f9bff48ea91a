--------------------------- MODULE PassportClient ---------------------------
(***************************************************************************)
(* The passport client of the user centre's pages and its risk             *)
(* challenges (static/usercenter/assets): how one call becomes one or more *)
(* requests, with a secure token for some of them, and how the server's    *)
(* demand for a captcha or a phone code is met before the request is made  *)
(* again.  A call is `request` of the bundle: everything between two       *)
(* awaits is one action.                                                   *)
(*                                                                         *)
(* The answers come from outside: this server accepts every challenge and  *)
(* demands none, the deployments it stands in for do.  A script that loads *)
(* without what it should bring counts as failed.                          *)
(***************************************************************************)
EXTENDS Naturals, FiniteSets

CONSTANTS
    Caller,      \* page handlers that may wait for a call at the same time
    Operation,   \* what a call may ask the server for
    Guarded,     \* the operations sent with a secure_scene
    MaxTrouble   \* bound of lost, challenged and refused answers

ASSUME GuardedAssumption == Guarded \subseteq Operation
ASSUME TroubleAssumption == MaxTrouble \in Nat

VARIABLES
    call,      \* the calls
    token,     \* secureTokenCache: a token in date, or none (one scene at a time)
    script,    \* the promise of the captcha's script; where no address of it is
               \* configured it fails at once
    trouble,   \* answers of the servers other than the one asked for, so far
    owed,      \* history: challenges demanded of a call and not yet met
    count      \* history: times the server carried the call out

clientVars == <<call, token, script, trouble, owed, count>>

-----------------------------------------------------------------------------
(* Data *)

Captcha == "2203"
Phone == "2204"
Notice == "2206"
StaleToken == "60502"

RiskCode == {Captcha, Phone, Notice, StaleToken}

Rounds == 3

\* ok: done; lost: done, but no answer came; refused: an error code; unsent:
\* the request never reached the server
Answer == {"ok", "lost", "refused", "unsent"} \cup RiskCode

Waiting == {"acquire", "sent", "answered", "script", "captcha", "phone", "notice"}

Settled == {"resolved", "rejected"}

NoCall == [pc |-> "idle", op |-> "none", round |-> 0, answer |-> "none"]

Call == [pc : {"idle"} \cup Waiting \cup Settled, op : Operation \cup {"none"},
         round : 0 .. Rounds, answer : Answer \cup {"none"}]

ClientInit ==
    /\ call = [h \in Caller |-> NoCall]
    /\ token = "none"
    /\ script = "none"
    /\ trouble = 0
    /\ owed = [h \in Caller |-> {}]
    /\ count = [h \in Caller |-> 0]

\* A call goes on, and what it was answered is forgotten; the rounds count only
\* while it may be answered again.
MovedTo(c, pc, n) ==
    [c EXCEPT !.pc = pc, !.answer = "none", !.round = IF pc \in Settled THEN 0 ELSE @ + n]

Move(h, pc) == call' = [call EXCEPT ![h] = MovedTo(@, pc, 0)]

\* Something goes wrong: bounded, for TLC only.
Spend(n) == trouble + n <= MaxTrouble /\ trouble' = trouble + n

\* A call has ended, and what the history says of it with it.
ForgetCalls(S) ==
    /\ owed' = [h \in Caller |-> IF h \in S THEN {} ELSE owed[h]]
    /\ count' = [h \in Caller |-> IF h \in S THEN 0 ELSE count[h]]

-----------------------------------------------------------------------------
(* request: the secure token first, if the cache holds none in date *)

FirstPc(op) == IF op \in Guarded /\ token # "held" THEN "acquire" ELSE "sent"

Start(h, op) ==
    /\ call[h].pc \notin Waiting
    /\ call' = [call EXCEPT ![h] = [NoCall EXCEPT !.op = op, !.pc = FirstPc(op)]]
    /\ ForgetCalls({h})
    /\ UNCHANGED <<token, script, trouble>>

\* updateSecureToken: an answer without a token changes nothing and stops
\* nothing; a failed request rejects the call.
Acquire(h, got) ==
    /\ call[h].pc = "acquire"
    /\ Move(h, IF got = "failed" THEN "rejected" ELSE "sent")
    /\ token' = IF got = "token" THEN "held" ELSE token
    /\ Spend(IF got = "token" THEN 0 ELSE 1)
    /\ UNCHANGED <<script, owed, count>>

TokenExpires ==
    /\ token = "held"
    /\ token' = "none"
    /\ UNCHANGED <<call, script, trouble, owed, count>>

\* The server's end of `send`; a refusal the server owes the caller is free.
Serve(h, a, free) ==
    /\ call[h].pc = "sent"
    /\ Spend(IF free \/ a = "ok" THEN 0 ELSE 1)
    /\ call' = [call EXCEPT ![h].pc = "answered", ![h].answer = a]
    /\ count' = IF a \in {"ok", "lost"} THEN [count EXCEPT ![h] = @ + 1] ELSE count
    /\ owed' = IF a \in {Captcha, Phone} THEN [owed EXCEPT ![h] = @ \cup {a}] ELSE owed
    /\ UNCHANGED <<token, script>>

\* mutant: the code of the answer is not looked at
AnyAnswer(a) == a \in {"ok", "refused"}

\* send returns the data of an answer with code 0
Succeeds(a) == a = "ok"

Resolve(h) ==
    /\ call[h].pc = "answered" /\ Succeeds(call[h].answer)
    /\ Move(h, "resolved")
    /\ UNCHANGED <<token, script, trouble, owed, count>>

\* mutant: a request without an answer is made once more
RepeatsLost(a, round) == a \in RiskCode \cup {"lost"} /\ round < Rounds

\* the loop of `request` goes round again
Repeats(a, round) == a \in RiskCode /\ round < Rounds

\* send's throw, the throw after the loop, and resolve's for a code it does
\* not know: 60502 on a request without a scene
Reject(h) ==
    /\ call[h].pc = "answered" /\ ~Succeeds(call[h].answer)
    /\ \/ ~Repeats(call[h].answer, call[h].round)
       \/ call[h].answer = StaleToken /\ call[h].op \notin Guarded
    /\ Move(h, "rejected")
    /\ UNCHANGED <<token, script, trouble, owed, count>>

\* What answers a risk code: a token again, or a dialog once the captcha's
\* script is there.  The promise of the script is kept even when it fails.
NextPc(a) ==
    CASE a = Phone   -> "phone"
      [] a = Notice  -> "notice"
      [] a = Captcha -> CASE script = "loaded" -> "captcha"
                          [] script = "failed" -> "rejected"
                          [] OTHER -> "script"
      [] a = StaleToken -> "acquire"
      [] OTHER -> "sent"

Challenge(h) ==
    LET a == call[h].answer
    IN  /\ call[h].pc = "answered"
        /\ Repeats(a, call[h].round)
        /\ a = StaleToken => call[h].op \in Guarded
        /\ call' = [call EXCEPT ![h] = MovedTo(@, NextPc(a), 1)]
        /\ script' = IF a = Captcha /\ script = "none" THEN "loading" ELSE script
        /\ UNCHANGED <<token, trouble, owed, count>>

\* The bundle of the challenges is another file, which may fail to load.
ImportFails(h) ==
    /\ call[h].pc = "answered"
    /\ Repeats(call[h].answer, call[h].round)
    /\ Move(h, "rejected")
    /\ UNCHANGED <<token, script, trouble, owed, count>>

-----------------------------------------------------------------------------
(* RiskChallengeController *)

\* mutant: a script that fails to load tells nobody
OnlyLoaded(ok) == IF ok THEN "captcha" ELSE "script"

\* where the calls that wait for the script go on
Woken(ok) == IF ok THEN "captcha" ELSE "rejected"

ScriptArrives(ok) ==
    /\ script = "loading"
    /\ script' = IF ok THEN "loaded" ELSE "failed"
    /\ call' = [h \in Caller |-> IF call[h].pc # "script" THEN call[h]
                                 ELSE MovedTo(call[h], Woken(ok), 0)]
    /\ UNCHANGED <<token, trouble, owed, count>>

Dialog == {"captcha", "phone"}

\* The user solves the captcha, or types the code of the text message, and
\* /v1/risk/captcha/g/check or /v1/risk/code/check answers: on an error the
\* dialog stays, and the user may try again.
Check(h, ok) ==
    /\ call[h].pc \in Dialog
    /\ Spend(IF ok THEN 0 ELSE 1)
    /\ owed' = IF ok THEN [owed EXCEPT ![h] = {}] ELSE owed
    /\ Move(h, IF ok THEN "sent" ELSE call[h].pc)
    /\ UNCHANGED <<token, script, count>>

\* mutant: a dialog that is closed counts as passed
ClosedPc(pc) == "sent"

\* what becomes of the call when its dialog is closed
AfterClose(pc) == "rejected"

\* The dialog's cross or the button under a notice; a check that is still on
\* its way finds the promise settled.
Close(h) ==
    /\ call[h].pc \in Dialog \cup {"notice"}
    /\ Move(h, AfterClose(call[h].pc))
    /\ UNCHANGED <<token, script, trouble, owed, count>>

-----------------------------------------------------------------------------
(* The ends of a call *)

\* The page's code after its last await.
Return(h) ==
    /\ call[h].pc \in Settled
    /\ call' = [call EXCEPT ![h] = NoCall]
    /\ ForgetCalls({h})
    /\ UNCHANGED <<token, script, trouble>>

\* A new document: nothing of the old one is left.
Reload ==
    /\ call' = [h \in Caller |-> NoCall]
    /\ token' = "none"
    /\ script' = "none"
    /\ ForgetCalls(Caller)
    /\ UNCHANGED trouble

\* The pages' own share of what may go wrong.
OtherTrouble ==
    /\ Spend(1)
    /\ UNCHANGED <<call, token, script, owed, count>>

\* What the client does of itself, once a page has made a call.
Proceed(h) ==
    \/ \E got \in {"token", "nothing", "failed"} : Acquire(h, got)
    \/ Resolve(h) \/ Reject(h) \/ Challenge(h) \/ ImportFails(h)
    \/ (\E ok \in BOOLEAN : Check(h, ok)) \/ Close(h)

Ambient == TokenExpires \/ \E ok \in BOOLEAN : ScriptArrives(ok)

ClientNext ==
    \/ \E h \in Caller : Proceed(h) \/ Return(h)
    \/ \E h \in Caller, op \in Operation : Start(h, op)
    \/ \E h \in Caller, a \in Answer, free \in BOOLEAN : Serve(h, a, free)
    \/ Ambient
    \/ OtherTrouble
    \/ Reload

ClientSpec == ClientInit /\ [][ClientNext]_clientVars
-----------------------------------------------------------------------------
(* Properties *)

ClientTypeOK ==
    /\ call \in [Caller -> Call]
    /\ token \in {"none", "held"}
    /\ script \in {"none", "loading", "loaded", "failed"}
    /\ trouble \in Nat
    /\ owed \in [Caller -> SUBSET {Captcha, Phone}]
    /\ count \in [Caller -> Nat]

\* A request is made (again) only when every challenge the server demanded
\* for it was met: the server accepted the captcha or the phone code.
ChallengeHeeded ==
    \A h \in Caller : call[h].pc \in {"acquire", "sent"} => owed[h] = {}

\* The calls as their callers see them.
Phase(c) == IF c.pc \in Waiting THEN "pending" ELSE c.pc

Calls == INSTANCE CallContract WITH phase <- [h \in Caller |-> Phase(call[h])]

\* However often a call makes its request, the server carries it out at most
\* once, and the page is told of success only if it did.
KeepsContract == Calls!Contract
=============================================================================
