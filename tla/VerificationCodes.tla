--------------------------- MODULE VerificationCodes ---------------------------
(***************************************************************************)
(* Verification codes: issuing (issueSMSForScene and its callers in        *)
(* internal/app/app.go), mirroring into further scenes, pacing, and        *)
(* verifying (CheckSMSRate ... findSMS in internal/store/store.go).        *)
(*                                                                         *)
(* A request is a sequence of SQL statements with a slow delivery (SMS or  *)
(* SMTP) in their middle; each is an action.  Whether the account policy   *)
(* lets a request have a code is not modelled here: it may always begin.   *)
(***************************************************************************)
EXTENDS Naturals, FiniteSets, Sequences

CONSTANTS
    Phone,        \* phone numbers and e-mail addresses
    Paced,        \* those whose codes are random, paced and delivered: e-mail
                  \* addresses, and phone numbers too when real_sms is set
    VirtualCode,  \* the code of any other: the last six digits of the number
    Ip, Scene, Code,
    Mirrors,      \* the scenes a code is mirrored into, in order
    Accepts,      \* the scene lists that verifying handlers try, in order
    Process,      \* requests the server handles at the same time
    TTL, Window,  \* 10 minutes and 60 seconds, in ticks
    IpLimit,      \* codes per Window and address (10)
    MaxTime, MaxSends   \* bounds, for TLC only

ASSUME PacedAssumption == Paced \subseteq Phone /\ VirtualCode \in [Phone -> Code]
ASSUME SceneAssumption == Mirrors \in Seq(Scene) /\ Accepts \subseteq Seq(Scene) \ {<<>>}
ASSUME TimeAssumption == TTL \in Nat /\ Window \in Nat /\ IpLimit \in Nat
ASSUME BoundAssumption == MaxTime \in Nat /\ MaxSends \in Nat

VARIABLES
    clock,
    rows,     \* sms_verifications, in order of id
    events,   \* sms_events
    proc,     \* the requests being handled
    sends     \* history: every code that was generated

vars == <<clock, rows, events, proc, sends>>

\* `send` (the code's index in sends) and `uses` (how often a request was let
\* through by the row) are history.
Row == [phone : Phone, scene : Scene, code : Code, created : Nat,
        consumed : BOOLEAN, send : Nat, uses : Nat]

Event == [phone : Phone, ip : Ip, at : Nat, begun : Nat]   \* begun is history

Send == [phone : Phone, code : Code, at : Nat, delivered : BOOLEAN]

Idle == [phase |-> "idle"]

Sending == [phase : {"deliver", "insert", "event", "mirror"}, phone : Phone, ip : Ip,
            scene : Scene, todo : Seq(Scene), send : Nat, begun : Nat]

Verifying == [phase : {"find", "consume"}, phone : Phone, code : Code,
              todo : Seq(Scene), found : Nat, begun : Nat,
              known : Nat]   \* history: how many rows there were when it began

Init ==
    /\ clock = 0
    /\ rows = <<>>
    /\ events = <<>>
    /\ proc = [h \in Process |-> Idle]
    /\ sends = <<>>

-----------------------------------------------------------------------------
(* Issuing *)

\* mutant: an event exactly Window old is not counted
CountsTooLittle(e) == events[e].at > clock - Window

\* "created_at >= cutoff"
Counts(e) == events[e].at + Window >= clock

Recent == { e \in DOMAIN events : Counts(e) }

CheckSMSRate(p, ip) ==
    /\ \A e \in Recent : events[e].phone # p
    /\ Cardinality({ e \in Recent : events[e].ip = ip }) < IpLimit

Firsts(list) == { i \in DOMAIN list : \A j \in 1 .. i - 1 : list[j] # list[i] }

\* uniqueScenes, and mirrorSMSCode's own filter: each scene where it first
\* occurs.  One list, in a set.
Distinct(list) ==
    LET n == Cardinality(Firsts(list))
        increasing == { at \in [1 .. n -> Firsts(list)] :
                          \A i, j \in 1 .. n : i < j => at[i] < at[j] }
    IN  { [i \in 1 .. n |-> list[at[i]]] : at \in increasing }

\* sendCode and sendCodeWithData mirror into the requested scene first, which
\* has the code already; userCenterSendCode mirrors nothing.
MirrorLists(scene) == {<<>>} \cup Distinct(<<scene>> \o Mirrors)

\* The rate is read, and the code made, before anything is written.
BeginSend(h, p, ip, scene, list) ==
    /\ proc[h] = Idle
    /\ Len(sends) < MaxSends
    /\ p \in Paced => CheckSMSRate(p, ip)
    /\ \E c \in IF p \in Paced THEN Code ELSE {VirtualCode[p]} :
          sends' = Append(sends, [phone |-> p, code |-> c, at |-> clock,
                                  delivered |-> p \notin Paced])
    /\ proc' = [proc EXCEPT ![h] =
                  [phase |-> IF p \in Paced THEN "deliver" ELSE "insert", phone |-> p,
                   ip |-> ip, scene |-> scene, todo |-> list,
                   send |-> Len(sends) + 1, begun |-> clock]]
    /\ UNCHANGED <<clock, rows, events>>

Deliver(h) ==
    /\ proc[h].phase = "deliver"
    /\ sends' = [sends EXCEPT ![proc[h].send].delivered = TRUE]
    /\ proc' = [proc EXCEPT ![h].phase = "insert"]
    /\ UNCHANGED <<clock, rows, events>>

\* mutant: the error of the delivery is dropped
FailureIgnored(h) == [proc[h] EXCEPT !.phase = "insert"]

AfterFailure(h) == Idle

\* An error, after which the message may have gone out none the less.
DeliveryFails(h) ==
    /\ proc[h].phase = "deliver"
    /\ \E gone \in BOOLEAN : sends' = [sends EXCEPT ![proc[h].send].delivered = gone]
    /\ proc' = [proc EXCEPT ![h] = AfterFailure(h)]
    /\ UNCHANGED <<clock, rows, events>>

\* mutant: every row is dated as if it were valid from the far end of TTL
InsertedLate(h, scene) ==
    Append(rows, [phone |-> proc[h].phone, scene |-> scene, created |-> clock + TTL,
                  code |-> sends[proc[h].send].code, consumed |-> FALSE,
                  send |-> proc[h].send, uses |-> 0])

\* insertSMS
Inserted(h, scene) ==
    Append(rows, [phone |-> proc[h].phone, scene |-> scene, created |-> clock,
                  code |-> sends[proc[h].send].code, consumed |-> FALSE,
                  send |-> proc[h].send, uses |-> 0])

\* IssueSMS writes the row and then the event, in two statements.
InsertRow(h) ==
    /\ proc[h].phase = "insert"
    /\ rows' = Inserted(h, proc[h].scene)
    /\ proc' = [proc EXCEPT ![h].phase = "event"]
    /\ UNCHANGED <<clock, events, sends>>

RecordEvent(h) ==
    /\ proc[h].phase = "event"
    /\ events' = Append(events, [phone |-> proc[h].phone, ip |-> proc[h].ip,
                                 at |-> clock, begun |-> proc[h].begun])
    /\ proc' = [proc EXCEPT ![h] =
                  IF proc[h].todo = <<>> THEN Idle ELSE [proc[h] EXCEPT !.phase = "mirror"]]
    /\ UNCHANGED <<clock, rows, sends>>

\* mirrorSMSCode: one row per scene, each in a statement of its own.
MirrorSMS(h) ==
    /\ proc[h].phase = "mirror"
    /\ rows' = Inserted(h, Head(proc[h].todo))
    /\ proc' = [proc EXCEPT ![h] =
                  IF Len(proc[h].todo) = 1 THEN Idle
                  ELSE [proc[h] EXCEPT !.todo = Tail(@)]]
    /\ UNCHANGED <<clock, events, sends>>

-----------------------------------------------------------------------------
(* Verifying *)

BeginVerify(h, p, c, list) ==
    /\ proc[h] = Idle
    /\ \E todo \in Distinct(list) :
          proc' = [proc EXCEPT ![h] =
                     [phase |-> "find", phone |-> p, code |-> c, todo |-> todo,
                      found |-> 0, begun |-> clock, known |-> Len(rows)]]
    /\ UNCHANGED <<clock, rows, events, sends>>

Open(p, scene) ==
    { i \in DOMAIN rows : rows[i].phone = p /\ rows[i].scene = scene /\ ~rows[i].consumed }

\* mutant: "order by created_at" without desc
Oldest(p, scene) ==
    { i \in Open(p, scene) : \A j \in Open(p, scene) : rows[j].created >= rows[i].created }

\* "order by created_at desc limit 1": any one of the newest
Newest(p, scene) ==
    { i \in Open(p, scene) : \A j \in Open(p, scene) : rows[j].created <= rows[i].created }

\* mutant: the expiry is not looked at
MatchesForEver(i, c) == rows[i].code = c

\* findSMS accepts the row it read if it has the code and is not expired
Matches(i, c) == rows[i].code = c /\ clock <= rows[i].created + TTL

TryNextScene(h) ==
    IF Len(proc[h].todo) = 1 THEN Idle
    ELSE [proc[h] EXCEPT !.phase = "find", !.todo = Tail(@), !.found = 0]

FindSMS(h) ==
    /\ proc[h].phase = "find"
    /\ LET newest == Newest(proc[h].phone, Head(proc[h].todo))
       IN  \/ /\ newest = {}
              /\ proc' = [proc EXCEPT ![h] = TryNextScene(h)]
           \/ \E i \in newest :
                 proc' = [proc EXCEPT ![h] =
                            IF Matches(i, @.code)
                            THEN [@ EXCEPT !.phase = "consume", !.found = i]
                            ELSE TryNextScene(h)]
    /\ UNCHANGED <<clock, rows, events, sends>>

\* mutant: VerifySMS does not ask whether its update changed a row
AlwaysConsumable(i) == TRUE

\* "where id = ? and consumed_at is null"
Consumable(i) == ~rows[i].consumed

Consume(row) == [row EXCEPT !.consumed = TRUE, !.uses = @ + 1]

\* VerifySMS' update; the request goes on if it changed the row.
VerifySMS(h) ==
    /\ proc[h].phase = "consume"
    /\ LET i == proc[h].found
       IN  IF Consumable(i)
           THEN /\ rows' = [rows EXCEPT ![i] = Consume(@)]
                /\ proc' = [proc EXCEPT ![h] = Idle]
           ELSE /\ proc' = [proc EXCEPT ![h] = TryNextScene(h)]
                /\ UNCHANGED rows
    /\ UNCHANGED <<clock, events, sends>>

-----------------------------------------------------------------------------
Crash ==
    /\ \E h \in Process : proc[h] # Idle
    /\ proc' = [h \in Process |-> Idle]
    /\ UNCHANGED <<clock, rows, events, sends>>

\* A request lasts less than a tick (deliveries time out in 10 to 15 seconds).
Tick ==
    /\ clock < MaxTime
    /\ \A h \in Process : proc[h] # Idle => proc[h].begun = clock
    /\ clock' = clock + 1
    /\ UNCHANGED <<rows, events, proc, sends>>

Next ==
    \/ \E h \in Process, p \in Phone, ip \in Ip, scene \in Scene :
          \E list \in MirrorLists(scene) : BeginSend(h, p, ip, scene, list)
    \/ \E h \in Process : Deliver(h)
    \/ \E h \in Process : DeliveryFails(h)
    \/ \E h \in Process : InsertRow(h)
    \/ \E h \in Process : RecordEvent(h)
    \/ \E h \in Process : MirrorSMS(h)
    \/ \E h \in Process, p \in Phone, c \in Code, list \in Accepts : BeginVerify(h, p, c, list)
    \/ \E h \in Process : FindSMS(h)
    \/ \E h \in Process : VerifySMS(h)
    \/ Crash
    \/ Tick

Spec == Init /\ [][Next]_vars
-----------------------------------------------------------------------------
(* Properties *)

\* The tables hold rows of their types, and no row is dated in the future.
TypeOK ==
    /\ clock \in Nat
    /\ rows \in Seq(Row)
    /\ events \in Seq(Event)
    /\ sends \in Seq(Send)
    /\ proc \in [Process -> {Idle} \cup Sending \cup Verifying]
    /\ \A i \in DOMAIN rows : rows[i].created <= clock /\ rows[i].send \in DOMAIN sends

\* Two requests that read the same row before either consumed it: one row
\* lets at most one of them through.
RowUsedOnce == \A i \in DOMAIN rows : rows[i].uses <= 1

\* A code whose delivery failed lets nobody through, whichever scene is asked.
DeliveredOnly ==
    \A i \in DOMAIN rows : rows[i].uses > 0 => sends[rows[i].send].delivered

\* A code is refused while a later code for the same number and scene, there
\* before the request began, is still unused.
SupersededRefused ==
    [][\A h \in Process :
          proc[h].phase = "consume" /\ rows'[proc[h].found].uses > rows[proc[h].found].uses
          => LET i == proc[h].found
             IN  ~\E j \in Open(rows[i].phone, rows[i].scene) :
                     rows[i].created < rows[j].created /\ j <= proc[h].known]_vars

\* No row, mirrored ones included, lets a request through later than its
\* code's lifetime and the two requests' own durations after the code was made.
ExpiredRefused ==
    [][\A i \in DOMAIN rows : rows'[i].uses > rows[i].uses
          => clock <= sends[rows[i].send].at + TTL + 2]_vars

\* Pacing: a request for a code that begins after another was recorded for the
\* same number is recorded itself only once the window has passed.  Requests
\* that overlap are not paced (all of them read before any of them writes).
PacedApart ==
    \A d, e \in DOMAIN events :
        /\ events[d].phone = events[e].phone
        /\ events[d].phone \in Paced
        /\ events[d].at < events[e].begun
        => events[d].at + Window < events[e].at

\* "Every SMS code is consumed once" (README.md): a code lets at most one
\* request through.  It does not hold: a code has a row per scene.
SingleUse ==
    \A s \in DOMAIN sends :
        \A i, j \in DOMAIN rows :
            rows[i].send = s /\ rows[j].send = s /\ rows[i].uses > 0 /\ rows[j].uses > 0 => i = j
=============================================================================
