----------------------------- MODULE UserCenter -----------------------------
(***************************************************************************)
(* The user centre in a browser (static/usercenter/assets): the log-in     *)
(* dialog and the wizard that ends an account, on top of PassportClient,   *)
(* talking to cancellationHandle (internal/app/app.go).                    *)
(*                                                                         *)
(* No button of the wizard waits for the answer to an earlier click, and   *)
(* leaving a page cancels nothing: answers arrive when the wizard is at    *)
(* another step, or gone.  A click starts a job, the async function that   *)
(* runs until its last await; only the jobs of a page that is still        *)
(* mounted change what it shows.                                           *)
(*                                                                         *)
(* Requests that are made together, or one after the other with nothing    *)
(* between them, are one call: the status and the profile of the wizard,   *)
(* and the checks of a code, an identity or a password that make up one    *)
(* security check.                                                         *)
(***************************************************************************)
EXTENDS PassportClient, Functions

VARIABLES
    status,     \* users.cancellation_status, on the server
    page,       \* the route; "held": the log-in dialog shows an error, but the
                \* session is stored
    view,       \* what the wizard holds: the status it was told, and its step;
                \* history: what the server accepted for this wizard
    job         \* the async functions that wait for a call

pageVars == <<status, page, view, job>>

vars == <<clientVars, pageVars>>

Normal == 1        \* cancellationStatusNormal
InCoolingOff == 2  \* cancellationStatusCoolingOff, the bundle's CANCELLING
Unknown == 0       \* no answer yet

\* Ut: the actions of the wizard, each also the number of the step it leads to.
WizardAction == <<"accept", "confirm", "reason", "secure", "submit">>

Submit == 5
Secure == 4
Accept == 1

PageOperation == {WizardAction[i] : i \in 1 .. 5} \cup {"revoke", "status", "roles", "verify", "login"}

ASSUME OperationAssumption == PageOperation \subseteq Operation

NoJob == [flow |-> "none", act |-> 0, here |-> FALSE, told |-> Unknown]

Job == [flow : {"none", "login", "load", "verify", "handle", "roles", "status", "revoke"},
        act : 0 .. 5, here : BOOLEAN, told : {Unknown, Normal, InCoolingOff}]

View == [status : {Unknown, Normal, InCoolingOff}, step : 0 .. Submit,
         verified : BOOLEAN, applied : BOOLEAN]

FreshView == [status |-> Unknown, step |-> 0, verified |-> FALSE, applied |-> FALSE]

Init ==
    /\ ClientInit
    /\ status = Normal
    /\ page = "login"
    /\ view = FreshView
    /\ job = [h \in Caller |-> NoJob]

-----------------------------------------------------------------------------
(* What the user sees and does *)

\* The returns of the wizard's render function, in their order.
Shown == IF view.status = Unknown THEN "loading"
         ELSE IF view.status = InCoolingOff /\ view.step # Submit THEN "cancelling"
         ELSE "steps"

Request(h, flow, act, op) ==
    /\ job[h] = NoJob
    /\ job' = [job EXCEPT ![h] = [NoJob EXCEPT !.flow = flow, !.act = act, !.here = TRUE]]
    /\ Start(h, op)

\* The submit button is disabled while its request is on the way.
ClickLogin(h) ==
    /\ page \in {"login", "held"}
    /\ \A g \in Caller : job[g].flow # "login"
    /\ Request(h, "login", 0, "login")
    /\ UNCHANGED <<status, page, view>>

\* Navigating to the wizard mounts it, and its effect asks for the status.
OpenWizard(h) ==
    /\ page = "selfService"
    /\ page' = "wizard"
    /\ view' = FreshView
    /\ Request(h, "load", 0, "status")
    /\ UNCHANGED status

\* The next button of a step: its action, or the security check first.
ClickNext(h) ==
    /\ page = "wizard" /\ Shown = "steps" /\ view.step < Submit
    /\ LET act == view.step + 1
       IN  IF act = Secure THEN Request(h, "verify", act, "verify")
                           ELSE Request(h, "handle", act, WizardAction[act])
    /\ UNCHANGED <<status, page, view>>

ClickBack ==
    /\ page = "wizard" /\ Shown = "steps" /\ view.step \in {1, 2, 3}
    /\ view' = [view EXCEPT !.step = @ - 1]
    /\ UNCHANGED <<clientVars, status, page, job>>

ClickRevoke(h) ==
    /\ page = "wizard" /\ Shown = "cancelling"
    /\ Request(h, "revoke", 0, "revoke")
    /\ UNCHANGED <<status, page, view>>

\* The jobs whose page is gone still run.
Unmounted(jobs) == [h \in Caller |-> [jobs[h] EXCEPT !.here = FALSE]]

\* The wizard's own buttons, or the browser's.
Leave ==
    /\ page = "wizard"
    /\ page' = "selfService"
    /\ view' = FreshView
    /\ job' = Unmounted(job)
    /\ UNCHANGED <<clientVars, status>>

NewDocument ==
    /\ Reload
    /\ job' = [h \in Caller |-> NoJob]
    /\ view' = FreshView
    /\ UNCHANGED status

\* logout: only this browser forgets, then the document is replaced.
Logout ==
    /\ page = "selfService"
    /\ page' = "login"
    /\ NewDocument

-----------------------------------------------------------------------------
(* The server *)

\* cancellationHandle's checks of the status
Refuses(op) ==
    \/ op \in Range(WizardAction) /\ status # Normal
    \/ op = "revoke" /\ status # InCoolingOff

Effect(op) == CASE op = "submit" -> InCoolingOff
                [] op = "revoke" -> Normal
                [] OTHER -> status

Handle(h, a) ==
    LET op == call[h].op
        done == a \in {"ok", "lost"}
    IN  /\ done => ~Refuses(op)
        /\ Serve(h, a, a = "refused" /\ Refuses(op))
        /\ status' = IF done THEN Effect(op) ELSE status
        /\ job' = [job EXCEPT ![h].told = IF done /\ op = "status" THEN status ELSE @]
        /\ view' = IF done /\ job[h].here
                   THEN [view EXCEPT !.verified = @ \/ op = "verify", !.applied = @ \/ op = "submit"]
                   ELSE view
        /\ UNCHANGED page

\* Another browser, or a request whose document is gone.
Elsewhere ==
    /\ OtherTrouble
    /\ status' = IF status = Normal THEN InCoolingOff ELSE Normal
    /\ UNCHANGED <<page, view, job>>

-----------------------------------------------------------------------------
(* What follows an await *)

\* mutant: an answer moves whatever wizard is there now
ShowsAnyway(j) == TRUE

\* Setting the state of an unmounted page does nothing.
Shows(j) == j.here

Follow(h, flow, op) ==
    /\ job' = [job EXCEPT ![h].flow = flow]
    /\ Start(h, op)
    /\ UNCHANGED <<status, page, view>>

EndJob(h) ==
    /\ Return(h)
    /\ job' = [job EXCEPT ![h] = NoJob]
    /\ UNCHANGED status

Succeeded(h, flow) == job[h].flow = flow /\ call[h].pc = "resolved"

\* onLogin stores the session, then a token is fetched for the next log-in, and
\* only then the document is replaced: if that request fails, the dialog
\* reports an error although the browser is signed in.
AfterLogin(h) ==
    /\ Succeeded(h, "login")
    /\ \/ page' = "selfService" /\ NewDocument
       \/ page' = "held" /\ EndJob(h) /\ UNCHANGED view

\* The user reloads: the next document finds a stored session.  (The wizard's
\* own address mounts it afresh, as OpenWizard does.)
Refresh ==
    /\ page' = IF page = "login" THEN "login" ELSE "selfService"
    /\ NewDocument

\* A wizard whose first question fails goes on saying that it loads.
AfterLoad(h) ==
    /\ Succeeded(h, "load")
    /\ view' = IF Shows(job[h]) THEN [view EXCEPT !.status = job[h].told] ELSE view
    /\ EndJob(h)
    /\ UNCHANGED page

\* The security check, then its action.
AfterVerify(h) ==
    /\ Succeeded(h, "verify")
    /\ Follow(h, "handle", WizardAction[Secure])

\* The first action is followed by the roles, the last by the status.
AfterHandle(h) ==
    /\ Succeeded(h, "handle")
    /\ \/ job[h].act = Accept /\ Follow(h, "roles", "roles")
       \/ job[h].act = Submit /\ Follow(h, "status", "status")
       \/ /\ job[h].act \notin {Accept, Submit}
          /\ view' = IF Shows(job[h]) THEN [view EXCEPT !.step = job[h].act] ELSE view
          /\ EndJob(h)
          /\ UNCHANGED page

AfterAction(h) ==
    /\ Succeeded(h, "roles") \/ Succeeded(h, "status")
    /\ view' = IF ~Shows(job[h]) THEN view
               ELSE IF job[h].flow = "roles" THEN [view EXCEPT !.step = Accept]
               ELSE [view EXCEPT !.status = job[h].told, !.step = Submit]
    /\ EndJob(h)
    /\ UNCHANGED page

\* navigate belongs to the application: it works from a page that is gone.
AfterRevoke(h) ==
    /\ Succeeded(h, "revoke")
    /\ page' = "selfService"
    /\ view' = FreshView
    /\ Return(h)
    /\ job' = [Unmounted(job) EXCEPT ![h] = NoJob]
    /\ UNCHANGED status

\* Every handler shows the error and stops.
AfterError(h) ==
    /\ job[h] # NoJob
    /\ call[h].pc = "rejected"
    /\ EndJob(h)
    /\ UNCHANGED <<page, view>>

Follows(h) ==
    \/ AfterLogin(h) \/ AfterLoad(h) \/ AfterVerify(h) \/ AfterHandle(h)
    \/ AfterAction(h) \/ AfterRevoke(h) \/ AfterError(h)

-----------------------------------------------------------------------------
Click(h) == ClickLogin(h) \/ OpenWizard(h) \/ ClickNext(h) \/ ClickRevoke(h)

Next ==
    \/ \E h \in Caller : Click(h)
    \/ ClickBack \/ Leave \/ Logout \/ Refresh \/ Elsewhere
    \/ \E h \in Caller : Proceed(h) /\ UNCHANGED pageVars
    \/ Ambient /\ UNCHANGED pageVars
    \/ \E h \in Caller, a \in Answer : Handle(h, a)
    \/ \E h \in Caller : Follows(h)

Spec == Init /\ [][Next]_vars

\* Whatever a call waits for comes: the server's answer, the user's attention
\* to a dialog, the page's own code; and scripts load or fail.
Attend(h) ==
    \/ \E a \in Answer : Handle(h, a)
    \/ Proceed(h) /\ UNCHANGED pageVars
    \/ Follows(h)

Fairness ==
    /\ \A h \in Caller : WF_vars(Attend(h))
    /\ WF_vars((\E ok \in BOOLEAN : ScriptArrives(ok)) /\ UNCHANGED pageVars)

FairSpec == Spec /\ Fairness
-----------------------------------------------------------------------------
(* Properties *)

\* Types; a job waits for a call and nobody else does; the wizard has a state
\* only while it is open.
TypeOK ==
    /\ ClientTypeOK
    /\ status \in {Normal, InCoolingOff}
    /\ page \in {"login", "held", "selfService", "wizard"}
    /\ view \in View
    /\ job \in [Caller -> Job]
    /\ \A h \in Caller : job[h] = NoJob <=> call[h] = NoCall
    /\ page # "wizard" => view = FreshView

\* The wizard offers to submit the application, and shows that it was, only
\* to someone whose security check the server accepted in this very wizard:
\* the server's own handler does not look (cancellationHandle, action 5).
VerifiedFirst == view.step >= Secure => view.verified

\* The page says that the application was submitted only if it was, in this
\* wizard, whatever older jobs were told and whichever answers got lost.
SuccessIsTrue == view.step = Submit => view.applied

\* Every click gets an answer: no job waits for ever for a token, a script, a
\* challenge or the server.
JobsEnd == \A h \in Caller : (job[h] # NoJob) ~> (job[h] = NoJob)
=============================================================================
