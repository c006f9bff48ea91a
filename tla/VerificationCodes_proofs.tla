----------------------- MODULE VerificationCodes_proofs -----------------------
(***************************************************************************)
(* Proofs about VerificationCodes, for any number of requests, rows, codes *)
(* and scenes: its types and the five properties its run checks.           *)
(*                                                                         *)
(* The invariant ties the tables to the requests that write them.  A row   *)
(* is made from a code that went out, by the only request that has it, so  *)
(* a failing delivery cannot take it back (RowOK, SendOK); a request that  *)
(* passed the pacing check still keeps its distance from every event older *)
(* than itself (Apart); a request about to consume a row knows nothing     *)
(* newer (VerifyOK).  The state is a parameter of each part, so that one   *)
(* lemma per kind of write carries it to the next state.                   *)
(***************************************************************************)
EXTENDS VerificationCodes, SequenceTheorems, FiniteSetTheorems, TLAPS

Request == {Idle} \cup Sending \cup Verifying

\* A row has been used as often as it is consumed, and has a code that went out.
RowOK(r, sd, ck) ==
    /\ r.created <= ck /\ r.send \in 1 .. Len(sd)
    /\ r.uses = IF r.consumed THEN 1 ELSE 0
    /\ sd[r.send].delivered
    /\ r.created <= sd[r.send].at + 1

RowsOK(rw, sd, ck) == \A i \in 1 .. Len(rw) : RowOK(rw[i], sd, ck)

EventsOK(ev, ck) == \A e \in 1 .. Len(ev) : ev[e].begun <= ev[e].at /\ ev[e].at <= ck

\* What the pacing check made sure of, for a request that began at b.
Apart(p, b, ev) ==
    p \in Paced => \A d \in 1 .. Len(ev) :
        ev[d].phone = p /\ ev[d].at < b => ev[d].at + Window < b

AllApart(ev) == \A e \in 1 .. Len(ev) : Apart(ev[e].phone, ev[e].begun, ev)

\* A request that has made a code.
SendOK(q, rw, ev, sd, ck) ==
    /\ q.send \in 1 .. Len(sd) /\ sd[q.send].at = q.begun
    /\ q.begun <= ck /\ ck <= q.begun + 1
    /\ q.phase # "deliver" => sd[q.send].delivered
    /\ q.phase = "deliver" => \A i \in 1 .. Len(rw) : rw[i].send # q.send
    /\ q.phase = "mirror" => q.todo # <<>>
    /\ Apart(q.phone, q.begun, ev)

\* Row f is not older than any row up to k that is still open beside it.
NewestKnown(f, k, rw) ==
    \A j \in 1 .. Len(rw) :
        /\ j <= k /\ ~rw[j].consumed
        /\ rw[j].phone = rw[f].phone /\ rw[j].scene = rw[f].scene
        => rw[j].created <= rw[f].created

\* A request that verifies one.
VerifyOK(q, rw, ck) ==
    /\ q.todo # <<>> /\ q.known <= Len(rw)
    /\ q.begun <= ck /\ ck <= q.begun + 1
    /\ q.phase = "consume" =>
        /\ q.found \in 1 .. Len(rw)
        /\ q.begun <= rw[q.found].created + TTL
        /\ NewestKnown(q.found, q.known, rw)

RequestOK(q, rw, ev, sd, ck) ==
    /\ q \in Request
    /\ q \in Sending => SendOK(q, rw, ev, sd, ck)
    /\ q \in Verifying => VerifyOK(q, rw, ck)

\* No two requests have the same code.
OneOwner(pr) ==
    \A g, h \in Process :
        g # h /\ pr[g] \in Sending /\ pr[h] \in Sending => pr[g].send # pr[h].send

Inv(pr, rw, ev, sd, ck) ==
    /\ ck \in Nat /\ rw \in Seq(Row) /\ ev \in Seq(Event) /\ sd \in Seq(Send)
    /\ RowsOK(rw, sd, ck) /\ EventsOK(ev, ck) /\ AllApart(ev)
    /\ pr \in [Process -> Request]
    /\ \A h \in Process : RequestOK(pr[h], rw, ev, sd, ck)
    /\ OneOwner(pr)

IInv == Inv(proc, rows, events, sends, clock)

USE PacedAssumption, SceneAssumption, TimeAssumption

-----------------------------------------------------------------------------
(* Requests *)

\* A request's phase tells what it is.
LEMMA Phases ==
    ASSUME NEW q \in Request
    PROVE  /\ q.phase \in {"deliver", "insert", "event", "mirror"} <=> q \in Sending
           /\ q.phase \in {"find", "consume"} <=> q \in Verifying
           /\ q = Idle <=> q.phase = "idle"
           /\ q \notin Sending \/ q \notin Verifying
  BY DEF Request, Idle, Sending, Verifying

\* An idle request promises nothing.
LEMMA IdleOK ==
    ASSUME NEW rw, NEW ev, NEW sd, NEW ck
    PROVE  RequestOK(Idle, rw, ev, sd, ck) /\ Idle \in Request /\ Idle \notin Sending
  <1>1. Idle \in Request /\ Idle.phase = "idle"
    BY DEF Request, Idle
  <1>2. Idle \notin Sending /\ Idle \notin Verifying
    BY <1>1, Phases
  <1> QED BY <1>1, <1>2 DEF RequestOK

\* The scenes of a list without repetitions: a sequence of scenes, and not an
\* empty one unless the list is.
LEMMA DistinctScenes ==
    ASSUME NEW list \in Seq(Scene), NEW d \in Distinct(list)
    PROVE  d \in Seq(Scene) /\ (list # <<>> => d # <<>>)
  <1> DEFINE n == Cardinality(Firsts(list))
  <1>1. IsFiniteSet(1 .. Len(list)) /\ Firsts(list) \subseteq 1 .. Len(list)
    <2>1. Len(list) \in Nat /\ DOMAIN list = 1 .. Len(list)
      BY LenProperties
    <2> QED BY <2>1, FS_Interval DEF Firsts
  <1>2. IsFiniteSet(Firsts(list))
    BY <1>1, FS_Subset
  <1>3. n \in Nat /\ (n = 0 <=> Firsts(list) = {})
    BY <1>2, FS_CardinalityType, FS_EmptySet
  <1>4. PICK at \in [1 .. n -> Firsts(list)] : d = [i \in 1 .. n |-> list[at[i]]]
    BY DEF Distinct
  <1>5. list # <<>> => 1 \in Firsts(list)
    <2>1. ASSUME list # <<>> PROVE Len(list) > 0
      BY <2>1, EmptySeq
    <2> QED BY <2>1 DEF Firsts
  <1> HIDE DEF n
  <1>6. d \in [1 .. n -> Scene]
    BY <1>1, <1>4
  <1>7. d \in Seq(Scene) /\ Len(d) = n
    BY <1>3, <1>6, SeqDef
  <1> QED BY <1>3, <1>5, <1>7, EmptySeq

\* A record with one field replaced keeps its type and its other fields.
LEMMA SendPhase ==
    ASSUME NEW q \in Sending, NEW ph \in {"deliver", "insert", "event", "mirror"}
    PROVE  LET n == [q EXCEPT !.phase = ph]
           IN  /\ n \in Sending /\ n.phase = ph /\ n.phone = q.phone /\ n.ip = q.ip
               /\ n.scene = q.scene /\ n.todo = q.todo /\ n.send = q.send /\ n.begun = q.begun
  BY DEF Sending

LEMMA SendTail ==
    ASSUME NEW q \in Sending, q.todo # <<>>
    PROVE  LET n == [q EXCEPT !.todo = Tail(@)]
           IN  /\ n \in Sending /\ n.phase = q.phase /\ n.phone = q.phone
               /\ n.todo = Tail(q.todo) /\ n.send = q.send /\ n.begun = q.begun
  <1>1. q.todo \in Seq(Scene) /\ Tail(q.todo) \in Seq(Scene)
    BY HeadTailProperties DEF Sending
  <1> QED BY <1>1 DEF Sending

LEMMA VerifyNext ==
    ASSUME NEW q \in Verifying, q.todo # <<>>
    PROVE  LET n == [q EXCEPT !.phase = "find", !.todo = Tail(@), !.found = 0]
           IN  /\ n \in Verifying /\ n.phase = "find" /\ n.todo = Tail(q.todo)
               /\ n.begun = q.begun /\ n.known = q.known
  <1>1. q.todo \in Seq(Scene) /\ Tail(q.todo) \in Seq(Scene)
    BY HeadTailProperties DEF Verifying
  <1> QED BY <1>1 DEF Verifying

LEMMA VerifyFound ==
    ASSUME NEW q \in Verifying, NEW i \in Nat
    PROVE  LET n == [q EXCEPT !.phase = "consume", !.found = i]
           IN  /\ n \in Verifying /\ n.phase = "consume" /\ n.todo = q.todo
               /\ n.begun = q.begun /\ n.known = q.known /\ n.found = i
  BY DEF Verifying

\* The tail of a list of more than one scene is not empty.
LEMMA TailLeft ==
    ASSUME NEW s \in Seq(Scene), s # <<>>, Len(s) # 1
    PROVE  Tail(s) # <<>>
  <1>1. Len(s) \in Nat /\ Len(s) # 0
    BY EmptySeq, LenProperties
  <1>2. Len(Tail(s)) = Len(s) - 1
    BY HeadTailProperties
  <1>3. Tail(s) \in Seq(Scene) /\ Len(Tail(s)) # 0
    BY <1>1, <1>2, HeadTailProperties
  <1> QED BY <1>3, EmptySeq

-----------------------------------------------------------------------------
(* The tables *)

LEMMA AppendFacts ==
    ASSUME NEW S, NEW s \in Seq(S), NEW x \in S
    PROVE  /\ Append(s, x) \in Seq(S) /\ Len(Append(s, x)) = Len(s) + 1
           /\ \A i \in 1 .. Len(s) : Append(s, x)[i] = s[i]
           /\ Append(s, x)[Len(s) + 1] = x
           /\ Len(s) \in Nat
  BY AppendProperties, LenProperties

\* A new code at the end of sends.
LEMMA NewSend ==
    ASSUME NEW rw \in Seq(Row), NEW ev, NEW sd \in Seq(Send), NEW ck \in Nat, NEW x \in Send,
           NEW q, RequestOK(q, rw, ev, sd, ck)
    PROVE  RequestOK(q, rw, ev, Append(sd, x), ck)
  BY AppendFacts DEF RequestOK, SendOK

LEMMA NewSendRows ==
    ASSUME NEW rw \in Seq(Row), NEW sd \in Seq(Send), NEW ck \in Nat, NEW x \in Send,
           RowsOK(rw, sd, ck)
    PROVE  RowsOK(rw, Append(sd, x), ck)
  BY AppendFacts DEF RowsOK, RowOK

\* The answer of the delivery of code s, which no row has yet.
LEMMA Answered ==
    ASSUME NEW rw \in Seq(Row), NEW sd \in Seq(Send), NEW ck \in Nat,
           NEW s \in 1 .. Len(sd), NEW b \in BOOLEAN
    PROVE  LET sd2 == [sd EXCEPT ![s].delivered = b]
           IN  /\ sd2 \in Seq(Send) /\ Len(sd2) = Len(sd)
               /\ \A i \in 1 .. Len(sd) : sd2[i].at = sd[i].at /\ (i # s => sd2[i] = sd[i])
               /\ sd2[s].delivered = b
  <1> DEFINE x == [sd[s] EXCEPT !.delivered = b]
             sd2 == [sd EXCEPT ![s] = x]
  <1>1. sd \in [1 .. Len(sd) -> Send] /\ Len(sd) \in Nat
    BY SeqDef, LenProperties
  <1>2. x \in Send /\ x.at = sd[s].at /\ x.delivered = b
    BY <1>1 DEF Send
  <1> HIDE DEF x
  <1>3. sd2 \in [1 .. Len(sd) -> Send]
    BY <1>1, <1>2
  <1>4. sd2 \in Seq(Send) /\ Len(sd2) = Len(sd)
    BY <1>1, <1>3, SeqDef
  <1>5. sd2[s] = x /\ \A i \in 1 .. Len(sd) : i # s => sd2[i] = sd[i]
    BY <1>1
  <1> HIDE DEF sd2
  <1>6. sd2[s].delivered = b /\ \A i \in 1 .. Len(sd) : sd2[i].at = sd[i].at
    BY <1>2, <1>5
  <1> QED BY <1>4, <1>5, <1>6 DEF sd2, x

\* A new row of code s: only a request still to deliver s would mind.
LEMMA NewRow ==
    ASSUME NEW rw \in Seq(Row), NEW ev, NEW sd, NEW ck \in Nat, NEW x \in Row,
           NEW q, RequestOK(q, rw, ev, sd, ck),
           q \in Sending => q.send # x.send \/ q.phase # "deliver"
    PROVE  RequestOK(q, Append(rw, x), ev, sd, ck)
  <1> DEFINE rw2 == Append(rw, x)
  <1>1. /\ rw2 \in Seq(Row) /\ Len(rw2) = Len(rw) + 1 /\ Len(rw) \in Nat
        /\ \A i \in 1 .. Len(rw) : rw2[i] = rw[i]
        /\ rw2[Len(rw) + 1] = x
    BY AppendFacts
  <1> HIDE DEF rw2
  <1>2. ASSUME q \in Sending PROVE SendOK(q, rw2, ev, sd, ck)
    BY <1>1, <1>2 DEF RequestOK, SendOK
  <1>3. ASSUME q \in Verifying PROVE VerifyOK(q, rw2, ck)
    <2>1. q.known \in Nat
      BY <1>3 DEF Verifying
    <2>2. VerifyOK(q, rw, ck)
      BY <1>3 DEF RequestOK
    <2>3. ASSUME q.phase = "consume"
          PROVE  /\ q.found \in 1 .. Len(rw2) /\ rw2[q.found] = rw[q.found]
                 /\ NewestKnown(q.found, q.known, rw2)
      <3>1. q.found \in 1 .. Len(rw) /\ NewestKnown(q.found, q.known, rw) /\ q.known <= Len(rw)
        BY <2>2, <2>3 DEF VerifyOK
      <3>2. ASSUME NEW j \in 1 .. Len(rw2), j <= q.known PROVE j \in 1 .. Len(rw)
        BY <1>1, <2>1, <3>1, <3>2
      <3> QED BY <1>1, <3>1, <3>2 DEF NewestKnown
    <2> QED BY <1>1, <2>1, <2>2, <2>3 DEF VerifyOK
  <1> QED BY <1>2, <1>3 DEF RequestOK, rw2

LEMMA NewRowRows ==
    ASSUME NEW rw \in Seq(Row), NEW sd, NEW ck \in Nat, NEW x \in Row,
           RowsOK(rw, sd, ck), RowOK(x, sd, ck)
    PROVE  RowsOK(Append(rw, x), sd, ck) /\ Append(rw, x) \in Seq(Row)
  BY AppendFacts DEF RowsOK

\* A new event of the present time is older than no request.
LEMMA NewEvent ==
    ASSUME NEW rw, NEW ev \in Seq(Event), NEW sd, NEW ck \in Nat, NEW x \in Event, x.at = ck,
           NEW q, RequestOK(q, rw, ev, sd, ck)
    PROVE  RequestOK(q, rw, Append(ev, x), sd, ck)
  <1> DEFINE ev2 == Append(ev, x)
  <1>1. /\ ev2 \in Seq(Event) /\ Len(ev2) = Len(ev) + 1 /\ Len(ev) \in Nat
        /\ \A i \in 1 .. Len(ev) : ev2[i] = ev[i]
        /\ ev2[Len(ev) + 1] = x
    BY AppendFacts
  <1> HIDE DEF ev2
  <1>2. ASSUME q \in Sending PROVE SendOK(q, rw, ev2, sd, ck)
    <2>1. q.begun \in Nat /\ q.begun <= ck
      BY <1>2 DEF Sending, RequestOK, SendOK
    <2>2. SendOK(q, rw, ev, sd, ck)
      BY <1>2 DEF RequestOK
    <2>3. Apart(q.phone, q.begun, ev)
      BY <2>2 DEF SendOK
    <2>4. ~(x.at < q.begun)
      BY <2>1
    <2>5. Apart(q.phone, q.begun, ev2)
      BY <1>1, <2>3, <2>4 DEF Apart
    <2> QED BY <2>2, <2>5 DEF SendOK
  <1> QED BY <1>2 DEF RequestOK, ev2

LEMMA NewEventEvents ==
    ASSUME NEW ev \in Seq(Event), NEW ck \in Nat, NEW x \in Event,
           EventsOK(ev, ck), AllApart(ev),
           x.at = ck, x.begun <= ck, Apart(x.phone, x.begun, ev)
    PROVE  LET ev2 == Append(ev, x) IN ev2 \in Seq(Event) /\ EventsOK(ev2, ck) /\ AllApart(ev2)
  <1> DEFINE ev2 == Append(ev, x)
  <1>1. /\ ev2 \in Seq(Event) /\ Len(ev2) = Len(ev) + 1 /\ Len(ev) \in Nat
        /\ \A i \in 1 .. Len(ev) : ev2[i] = ev[i]
        /\ ev2[Len(ev) + 1] = x
    BY AppendFacts
  <1> HIDE DEF ev2
  <1>2. \A i \in 1 .. Len(ev2) : ev2[i].at \in Nat /\ ev2[i].begun \in Nat
    <2>1. ev2 \in [1 .. Len(ev2) -> Event]
      BY <1>1, SeqDef, LenProperties
    <2> QED BY <2>1 DEF Event
  <1>3. EventsOK(ev2, ck)
    <2>1. ASSUME NEW e \in 1 .. Len(ev2) PROVE ev2[e].begun <= ev2[e].at /\ ev2[e].at <= ck
      <3>1. CASE e \in 1 .. Len(ev)
        BY <1>1, <3>1 DEF EventsOK
      <3>2. CASE e = Len(ev) + 1
        BY <1>1, <1>2, <3>2
      <3> QED BY <1>1, <3>1, <3>2
    <2> QED BY <2>1 DEF EventsOK
  <1>4. ASSUME NEW e \in 1 .. Len(ev2), ev2[e].phone \in Paced, NEW d \in 1 .. Len(ev2),
               ev2[d].phone = ev2[e].phone, ev2[d].at < ev2[e].begun
        PROVE  ev2[d].at + Window < ev2[e].begun
    <2>1. d \in 1 .. Len(ev)
      BY <1>1, <1>2, <1>3, <1>4 DEF EventsOK
    <2>2. CASE e \in 1 .. Len(ev)
      BY <1>1, <1>4, <2>1, <2>2 DEF AllApart, Apart
    <2>3. CASE e = Len(ev) + 1
      BY <1>1, <1>4, <2>1, <2>3 DEF Apart
    <2> QED BY <1>1, <2>2, <2>3
  <1> QED BY <1>1, <1>3, <1>4 DEF AllApart, Apart, ev2

\* Row i is consumed.
LEMMA ConsumedRow ==
    ASSUME NEW rw \in Seq(Row), NEW i \in 1 .. Len(rw)
    PROVE  LET rw2 == [rw EXCEPT ![i] = Consume(@)]
           IN  /\ rw2 \in Seq(Row) /\ Len(rw2) = Len(rw)
               /\ \A j \in 1 .. Len(rw) :
                     /\ j # i => rw2[j] = rw[j]
                     /\ rw2[j].phone = rw[j].phone /\ rw2[j].scene = rw[j].scene
                     /\ rw2[j].created = rw[j].created /\ rw2[j].send = rw[j].send
               /\ rw2[i].consumed /\ rw2[i].uses = rw[i].uses + 1
  <1> DEFINE x == Consume(rw[i])  rw2 == [rw EXCEPT ![i] = x]
  <1>1. rw \in [1 .. Len(rw) -> Row] /\ Len(rw) \in Nat
    BY SeqDef, LenProperties
  <1>2. /\ x \in Row /\ x.phone = rw[i].phone /\ x.scene = rw[i].scene
        /\ x.created = rw[i].created /\ x.send = rw[i].send
        /\ x.consumed /\ x.uses = rw[i].uses + 1
    <2>1. rw[i] \in Row
      BY <1>1
    <2>2. rw[i].uses + 1 \in Nat
      BY <2>1 DEF Row
    <2>3. x \in Row
      BY <2>1, <2>2 DEF Row, Consume
    <2>4. x.consumed
      BY <2>1 DEF Row, Consume
    <2>5. x.uses = rw[i].uses + 1
      BY <2>1 DEF Row, Consume
    <2>6. x.phone = rw[i].phone /\ x.scene = rw[i].scene /\ x.created = rw[i].created /\ x.send = rw[i].send
      BY <2>1 DEF Row, Consume
    <2> QED BY <2>3, <2>4, <2>5, <2>6
  <1> HIDE DEF x
  <1>3. rw2 \in [1 .. Len(rw) -> Row]
    BY <1>1, <1>2
  <1>4. rw2 \in Seq(Row) /\ Len(rw2) = Len(rw)
    BY <1>1, <1>3, SeqDef
  <1>5. rw2[i] = x /\ \A j \in 1 .. Len(rw) : j # i => rw2[j] = rw[j]
    BY <1>1
  <1> HIDE DEF rw2
  <1>6. /\ \A j \in 1 .. Len(rw) :
             /\ rw2[j].phone = rw[j].phone /\ rw2[j].scene = rw[j].scene
             /\ rw2[j].created = rw[j].created /\ rw2[j].send = rw[j].send
        /\ rw2[i].consumed /\ rw2[i].uses = rw[i].uses + 1
    BY <1>2, <1>5
  <1> QED BY <1>4, <1>5, <1>6 DEF rw2, x

LEMMA ConsumedRowRequests ==
    ASSUME NEW rw \in Seq(Row), NEW ev, NEW sd, NEW ck \in Nat, NEW i \in 1 .. Len(rw),
           NEW q, RequestOK(q, rw, ev, sd, ck)
    PROVE  RequestOK(q, [rw EXCEPT ![i] = Consume(@)], ev, sd, ck)
  <1> DEFINE rw2 == [rw EXCEPT ![i] = Consume(@)]
  <1>1. /\ rw2 \in Seq(Row) /\ Len(rw2) = Len(rw)
        /\ \A j \in 1 .. Len(rw) :
             /\ j # i => rw2[j] = rw[j]
             /\ rw2[j].phone = rw[j].phone /\ rw2[j].scene = rw[j].scene
             /\ rw2[j].created = rw[j].created /\ rw2[j].send = rw[j].send
        /\ rw2[i].consumed /\ rw2[i].uses = rw[i].uses + 1
    BY ConsumedRow
  <1> HIDE DEF rw2
  <1>2. ASSUME q \in Sending PROVE SendOK(q, rw2, ev, sd, ck)
    BY <1>1, <1>2 DEF RequestOK, SendOK
  <1>3. ASSUME q \in Verifying PROVE VerifyOK(q, rw2, ck)
    BY <1>1, <1>3 DEF RequestOK, VerifyOK, NewestKnown
  <1> QED BY <1>2, <1>3 DEF RequestOK, rw2

-----------------------------------------------------------------------------
(* Steps *)

\* Request h becomes n, which has a code of its own only if h had it.
LEMMA Changed ==
    ASSUME NEW pr \in [Process -> Request], OneOwner(pr), NEW h \in Process, NEW n,
           NEW rw, NEW ev, NEW sd, NEW ck,
           \A g \in Process : g # h => RequestOK(pr[g], rw, ev, sd, ck),
           RequestOK(n, rw, ev, sd, ck),
           n \in Sending => pr[h] \in Sending /\ pr[h].send = n.send
    PROVE  /\ [pr EXCEPT ![h] = n] \in [Process -> Request]
           /\ OneOwner([pr EXCEPT ![h] = n])
           /\ \A g \in Process : RequestOK([pr EXCEPT ![h] = n][g], rw, ev, sd, ck)
  <1> DEFINE pr2 == [pr EXCEPT ![h] = n]
  <1>1. pr2 \in [Process -> Request]
    BY DEF RequestOK
  <1>2. pr2[h] = n /\ \A g \in Process : g # h => pr2[g] = pr[g]
    OBVIOUS
  <1> HIDE DEF pr2
  <1>3. OneOwner(pr2)
    BY <1>2 DEF OneOwner
  <1>4. \A g \in Process : RequestOK(pr2[g], rw, ev, sd, ck)
    BY <1>2
  <1> QED BY <1>1, <1>3, <1>4 DEF pr2

\* Initially there is nothing.
LEMMA InitInv == Init => IInv
  <1> SUFFICES ASSUME Init PROVE IInv
    OBVIOUS
  <1>1. \A h \in Process : proc[h] = Idle
    BY DEF Init
  <1>2. /\ rows \in Seq(Row) /\ events \in Seq(Event) /\ sends \in Seq(Send)
        /\ Len(rows) = 0 /\ Len(events) = 0 /\ clock = 0
    BY EmptySeq DEF Init
  <1>3. proc \in [Process -> Request] /\ OneOwner(proc)
    BY <1>1, IdleOK DEF Init, OneOwner
  <1>4. RowsOK(rows, sends, clock) /\ EventsOK(events, clock) /\ AllApart(events)
    BY <1>2 DEF RowsOK, EventsOK, AllApart
  <1>5. \A h \in Process : RequestOK(proc[h], rows, events, sends, clock)
    BY <1>1, IdleOK
  <1> QED BY <1>2, <1>3, <1>4, <1>5 DEF IInv, Inv

\* A new code: nobody has its index yet, and the pacing check keeps its
\* request apart from every event there is.
LEMMA BeginSendStep ==
    ASSUME IInv, NEW h \in Process, NEW p \in Phone, NEW ip \in Ip, NEW scene \in Scene,
           NEW list \in MirrorLists(scene), BeginSend(h, p, ip, scene, list)
    PROVE  IInv'
  <1> USE DEF IInv, Inv
  <1>1. PICK c \in Code : sends' = Append(sends, [phone |-> p, code |-> c, at |-> clock,
                                                 delivered |-> p \notin Paced])
    BY DEF BeginSend
  <1> DEFINE x == [phone |-> p, code |-> c, at |-> clock, delivered |-> p \notin Paced]
             s == Len(sends) + 1
             n == [phase |-> IF p \in Paced THEN "deliver" ELSE "insert", phone |-> p,
                   ip |-> ip, scene |-> scene, todo |-> list, send |-> s, begun |-> clock]
  <1>2. x \in Send /\ x.at = clock /\ (x.delivered <=> p \notin Paced)
    BY DEF Send
  <1>3. list \in Seq(Scene)
    <2>1. <<scene>> \o Mirrors \in Seq(Scene)
      OBVIOUS
    <2> QED BY <2>1, DistinctScenes, EmptySeq DEF MirrorLists
  <1>4. Len(sends) \in Nat /\ clock \in Nat
    BY LenProperties
  <1>5. /\ n \in Sending /\ n.send = s /\ n.begun = clock /\ n.phone = p
        /\ n.phase = IF p \in Paced THEN "deliver" ELSE "insert"
    BY <1>3, <1>4 DEF Sending
  <1>6. /\ proc' = [proc EXCEPT ![h] = n] /\ sends' = Append(sends, x)
        /\ UNCHANGED <<clock, rows, events>>
    BY <1>1 DEF BeginSend
  <1>7. p \in Paced => \A e \in 1 .. Len(events) : events[e].phone = p => events[e].at + Window < clock
    <2> SUFFICES ASSUME p \in Paced, NEW e \in 1 .. Len(events), events[e].phone = p
                 PROVE  events[e].at + Window < clock
      OBVIOUS
    <2>1. events[e].at \in Nat /\ e \in DOMAIN events
      <3>1. events \in [1 .. Len(events) -> Event]
        BY SeqDef, LenProperties
      <3> QED BY <3>1 DEF Event
    <2>2. ~Counts(e)
      BY <2>1 DEF BeginSend, CheckSMSRate, Recent
    <2> QED BY <2>1, <2>2, <1>4 DEF Counts
  <1> HIDE DEF x, n
  <1>8. /\ sends' \in Seq(Send) /\ Len(sends') = s /\ sends'[s] = x
    BY <1>2, <1>6, AppendFacts
  <1>9. \A i \in 1 .. Len(rows) : rows[i].send # s
    BY <1>4 DEF RowsOK, RowOK
  <1>10. RequestOK(n, rows, events, sends', clock)
    <2>1. Apart(p, clock, events)
      BY <1>7 DEF Apart
    <2>2. SendOK(n, rows, events, sends', clock)
      BY <1>2, <1>4, <1>5, <1>8, <1>9, <2>1 DEF SendOK
    <2>3. n \in Request /\ n \notin Verifying
      BY <1>5, Phases DEF Request
    <2> QED BY <2>2, <2>3 DEF RequestOK
  <1>11. ASSUME NEW g \in Process PROVE RequestOK(proc[g], rows, events, sends', clock)
    BY <1>2, <1>6, NewSend
  <1>12. proc' \in [Process -> Request] /\ \A g \in Process : RequestOK(proc'[g], rows, events, sends', clock)
    BY <1>6, <1>10, <1>11 DEF RequestOK
  <1>13. OneOwner(proc')
    <2>1. \A g \in Process : proc[g] \in Sending => proc[g].send # s
      BY <1>4 DEF RequestOK, SendOK
    <2> QED BY <1>5, <1>6, <2>1 DEF OneOwner
  <1>14. RowsOK(rows, sends', clock)
    BY <1>2, <1>6, NewSendRows
  <1> QED BY <1>6, <1>8, <1>12, <1>13, <1>14

\* An answer of the delivery concerns the one request whose code it is.
LEMMA AnswerStep ==
    ASSUME IInv, NEW h \in Process, Deliver(h) \/ DeliveryFails(h)
    PROVE  IInv'
  <1> USE DEF IInv, Inv
  <1>1. proc[h].phase = "deliver" /\ UNCHANGED <<clock, rows, events>>
    BY DEF Deliver, DeliveryFails
  <1>2. proc[h] \in Sending /\ SendOK(proc[h], rows, events, sends, clock)
    <2>1. proc[h] \in Request
      OBVIOUS
    <2> QED BY <1>1, <2>1, Phases DEF RequestOK
  <1> DEFINE s == proc[h].send
  <1>3. s \in 1 .. Len(sends) /\ \A i \in 1 .. Len(rows) : rows[i].send # s
    BY <1>1, <1>2 DEF SendOK
  <1>4. PICK b \in BOOLEAN : sends' = [sends EXCEPT ![s].delivered = b] /\ (Deliver(h) => b = TRUE)
    BY DEF Deliver, DeliveryFails
  <1>5. /\ sends' \in Seq(Send) /\ Len(sends') = Len(sends)
        /\ \A i \in 1 .. Len(sends) : sends'[i].at = sends[i].at /\ (i # s => sends'[i] = sends[i])
        /\ sends'[s].delivered = b
    <2> HIDE DEF s
    <2>1. sends \in Seq(Send) /\ rows \in Seq(Row) /\ clock \in Nat
      OBVIOUS
    <2> HIDE DEF IInv, Inv
    <2>2. LET sd2 == [sends EXCEPT ![s].delivered = b]
          IN  /\ sd2 \in Seq(Send) /\ Len(sd2) = Len(sends)
              /\ \A i \in 1 .. Len(sends) : sd2[i].at = sends[i].at /\ (i # s => sd2[i] = sends[i])
              /\ sd2[s].delivered = b
      BY <1>3, <2>1, Answered
    <2> QED BY <1>4, <2>2
  <1>6. RowsOK(rows, sends', clock)
    BY <1>3, <1>5 DEF RowsOK, RowOK
  <1>7. ASSUME NEW g \in Process, g # h PROVE RequestOK(proc[g], rows, events, sends', clock)
    <2>1. proc[g] \in Sending => proc[g].send # s
      BY <1>2, <1>7 DEF OneOwner
    <2> QED BY <1>5, <2>1 DEF RequestOK, SendOK
  <1>8. PICK n \in Request : /\ proc' = [proc EXCEPT ![h] = n]
                             /\ RequestOK(n, rows, events, sends', clock)
                             /\ n \in Sending => n.send = s
    <2>1. CASE Deliver(h)
      <3> DEFINE n == [proc[h] EXCEPT !.phase = "insert"]
      <3>1. /\ n \in Sending /\ n.phase = "insert" /\ n.phone = proc[h].phone
            /\ n.send = s /\ n.begun = proc[h].begun
        BY <1>2, SendPhase
      <3>2. proc' = [proc EXCEPT ![h] = n]
        BY <2>1 DEF Deliver
      <3> HIDE DEF n
      <3>3. SendOK(n, rows, events, sends', clock)
        BY <1>2, <1>4, <1>5, <2>1, <3>1 DEF SendOK
      <3>4. n \in Request /\ n \notin Verifying
        BY <3>1, Phases DEF Request
      <3> QED BY <3>1, <3>2, <3>3, <3>4 DEF RequestOK
    <2>2. CASE DeliveryFails(h)
      BY <2>2, IdleOK DEF DeliveryFails, AfterFailure
    <2> QED BY <2>1, <2>2
  <1>9. /\ proc' \in [Process -> Request] /\ OneOwner(proc')
        /\ \A g \in Process : RequestOK(proc'[g], rows, events, sends', clock)
    <2>1. proc \in [Process -> Request] /\ OneOwner(proc)
      OBVIOUS
    <2> HIDE DEF IInv, Inv
    <2> DEFINE sd == sends'
    <2>2. /\ RequestOK(n, rows, events, sd, clock)
          /\ n \in Sending => proc[h] \in Sending /\ proc[h].send = n.send
          /\ \A g \in Process : g # h => RequestOK(proc[g], rows, events, sd, clock)
      BY <1>2, <1>7, <1>8
    <2> HIDE DEF sd, s
    <2>3. /\ [proc EXCEPT ![h] = n] \in [Process -> Request]
          /\ OneOwner([proc EXCEPT ![h] = n])
          /\ \A g \in Process : RequestOK([proc EXCEPT ![h] = n][g], rows, events, sd, clock)
      BY <2>1, <2>2, Changed
    <2> QED BY <1>8, <2>3 DEF sd
  <1> QED BY <1>1, <1>5, <1>6, <1>9

\* The row a request writes is dated now, at most one tick after its code, and
\* its code went out.
LEMMA RowInserted ==
    ASSUME IInv, NEW h \in Process, NEW scene \in Scene,
           proc[h] \in Sending, proc[h].phase # "deliver", rows' = Inserted(h, scene)
    PROVE  /\ rows' \in Seq(Row) /\ RowsOK(rows', sends, clock)
           /\ \A g \in Process : RequestOK(proc[g], rows', events, sends, clock)
  <1> USE DEF IInv, Inv
  <1> DEFINE s == proc[h].send
             x == [phone |-> proc[h].phone, scene |-> scene, created |-> clock,
                   code |-> sends[s].code, consumed |-> FALSE, send |-> s, uses |-> 0]
  <1>1. SendOK(proc[h], rows, events, sends, clock) /\ proc[h].phone \in Phone
    BY DEF RequestOK, Sending
  <1>2. s \in 1 .. Len(sends) /\ s \in Nat /\ sends[s] \in Send /\ Len(sends) \in Nat
    <2>1. sends \in [1 .. Len(sends) -> Send] /\ Len(sends) \in Nat
      BY SeqDef, LenProperties
    <2> QED BY <1>1, <2>1 DEF SendOK
  <1>3. x \in Row /\ x.send = s /\ x.created = clock /\ ~x.consumed /\ x.uses = 0
    BY <1>1, <1>2 DEF Row, Send
  <1>4. rows' = Append(rows, x)
    BY DEF Inserted
  <1> HIDE DEF x
  <1>5. RowOK(x, sends, clock)
    BY <1>1, <1>2, <1>3 DEF SendOK, RowOK
  <1>6. rows' \in Seq(Row) /\ RowsOK(rows', sends, clock)
    BY <1>3, <1>4, <1>5, NewRowRows
  <1>7. ASSUME NEW g \in Process PROVE RequestOK(proc[g], Append(rows, x), events, sends, clock)
    <2>1. proc[g] \in Sending => proc[g].send # x.send \/ proc[g].phase # "deliver"
      BY <1>3 DEF OneOwner
    <2> QED BY <1>3, <2>1, NewRow
  <1> QED BY <1>4, <1>6, <1>7

\* IssueSMS and mirrorSMSCode write rows of a code that went out.
LEMMA InsertStep ==
    ASSUME IInv, NEW h \in Process, InsertRow(h) \/ MirrorSMS(h)
    PROVE  IInv'
  <1> USE DEF IInv, Inv
  <1>1. /\ proc[h].phase \in {"insert", "mirror"} /\ UNCHANGED <<clock, events, sends>>
        /\ proc[h] \in Request
    BY DEF InsertRow, MirrorSMS
  <1>2. proc[h] \in Sending /\ SendOK(proc[h], rows, events, sends, clock)
    BY <1>1, Phases DEF RequestOK
  <1>3. proc[h].scene \in Scene /\ proc[h].todo \in Seq(Scene)
    BY <1>2 DEF Sending
  <1>4. PICK scene \in Scene : rows' = Inserted(h, scene)
    <2>1. CASE InsertRow(h)
      BY <1>3, <2>1 DEF InsertRow
    <2>2. CASE MirrorSMS(h)
      <3>1. Head(proc[h].todo) \in Scene
        BY <1>2, <1>3, <2>2, HeadTailProperties DEF MirrorSMS, SendOK
      <3> QED BY <2>2, <3>1 DEF MirrorSMS
    <2> QED BY <2>1, <2>2
  <1> DEFINE rw == rows'
  <1>5. /\ rw \in Seq(Row) /\ RowsOK(rw, sends, clock)
        /\ \A g \in Process : RequestOK(proc[g], rw, events, sends, clock)
    BY <1>1, <1>2, <1>4, RowInserted
  <1>6. SendOK(proc[h], rw, events, sends, clock)
    BY <1>2, <1>5 DEF RequestOK
  <1> HIDE DEF rw
  <1>7. PICK n \in Request : /\ proc' = [proc EXCEPT ![h] = n]
                             /\ RequestOK(n, rw, events, sends, clock)
                             /\ n \in Sending => n.send = proc[h].send
    <2>1. CASE InsertRow(h)
      <3> DEFINE n == [proc[h] EXCEPT !.phase = "event"]
      <3>1. /\ n \in Sending /\ n.phase = "event" /\ n.phone = proc[h].phone
            /\ n.send = proc[h].send /\ n.begun = proc[h].begun
        BY <1>2, SendPhase
      <3>2. proc' = [proc EXCEPT ![h] = n] /\ proc[h].phase = "insert"
        BY <2>1 DEF InsertRow
      <3> HIDE DEF n
      <3>3. SendOK(n, rw, events, sends, clock)
        BY <1>6, <3>1, <3>2 DEF SendOK
      <3>4. n \in Request /\ n \notin Verifying
        BY <3>1, Phases DEF Request
      <3> QED BY <3>1, <3>2, <3>3, <3>4 DEF RequestOK
    <2>2. CASE MirrorSMS(h) /\ Len(proc[h].todo) = 1
      BY <2>2, IdleOK DEF MirrorSMS
    <2>3. CASE MirrorSMS(h) /\ Len(proc[h].todo) # 1
      <3> DEFINE n == [proc[h] EXCEPT !.todo = Tail(@)]
      <3>1. proc[h].phase = "mirror" /\ proc[h].todo # <<>>
        BY <1>6, <2>3 DEF MirrorSMS, SendOK
      <3>2. /\ n \in Sending /\ n.phase = "mirror" /\ n.phone = proc[h].phone
            /\ n.send = proc[h].send /\ n.begun = proc[h].begun /\ n.todo = Tail(proc[h].todo)
        BY <1>2, <3>1, SendTail
      <3>3. proc' = [proc EXCEPT ![h] = n]
        BY <2>3 DEF MirrorSMS
      <3>4. Tail(proc[h].todo) # <<>>
        BY <1>3, <2>3, <3>1, TailLeft
      <3> HIDE DEF n
      <3>5. SendOK(n, rw, events, sends, clock)
        BY <1>6, <3>1, <3>2, <3>4 DEF SendOK
      <3>6. n \in Request /\ n \notin Verifying
        BY <3>2, Phases DEF Request
      <3> QED BY <3>2, <3>3, <3>5, <3>6 DEF RequestOK
    <2> QED BY <2>1, <2>2, <2>3
  <1>8. proc \in [Process -> Request] /\ OneOwner(proc)
    OBVIOUS
  <1>9. /\ [proc EXCEPT ![h] = n] \in [Process -> Request]
        /\ OneOwner([proc EXCEPT ![h] = n])
        /\ \A g \in Process : RequestOK([proc EXCEPT ![h] = n][g], rw, events, sends, clock)
    BY <1>2, <1>5, <1>7, <1>8, Changed
  <1> QED BY <1>1, <1>5, <1>7, <1>9 DEF rw

\* The event carries the distance its request kept.
LEMMA RecordEventStep ==
    ASSUME IInv, NEW h \in Process, RecordEvent(h)
    PROVE  IInv'
  <1> USE DEF IInv, Inv
  <1>1. /\ proc[h].phase = "event" /\ UNCHANGED <<clock, rows, sends>>
        /\ proc[h] \in Request
    BY DEF RecordEvent
  <1>2. proc[h] \in Sending /\ SendOK(proc[h], rows, events, sends, clock)
    BY <1>1, Phases DEF RequestOK
  <1> DEFINE x == [phone |-> proc[h].phone, ip |-> proc[h].ip, at |-> clock, begun |-> proc[h].begun]
             ev == Append(events, x)
  <1>3. x \in Event /\ x.at = clock /\ x.begun = proc[h].begun /\ x.phone = proc[h].phone
    BY <1>2 DEF Sending, Event
  <1>4. events' = ev
    BY DEF RecordEvent
  <1> HIDE DEF x
  <1>5. ev \in Seq(Event) /\ EventsOK(ev, clock) /\ AllApart(ev)
    BY <1>2, <1>3, NewEventEvents DEF SendOK
  <1>6. \A g \in Process : RequestOK(proc[g], rows, ev, sends, clock)
    BY <1>3, NewEvent
  <1>7. SendOK(proc[h], rows, ev, sends, clock)
    BY <1>2, <1>6 DEF RequestOK
  <1> HIDE DEF ev
  <1>8. PICK n \in Request : /\ proc' = [proc EXCEPT ![h] = n]
                             /\ RequestOK(n, rows, ev, sends, clock)
                             /\ n \in Sending => n.send = proc[h].send
    <2>1. CASE proc[h].todo = <<>>
      BY <2>1, IdleOK DEF RecordEvent
    <2>2. CASE proc[h].todo # <<>>
      <3> DEFINE n == [proc[h] EXCEPT !.phase = "mirror"]
      <3>1. /\ n \in Sending /\ n.phase = "mirror" /\ n.phone = proc[h].phone
            /\ n.send = proc[h].send /\ n.begun = proc[h].begun /\ n.todo = proc[h].todo
        BY <1>2, SendPhase
      <3>2. proc' = [proc EXCEPT ![h] = n]
        BY <2>2 DEF RecordEvent
      <3> HIDE DEF n
      <3>3. SendOK(n, rows, ev, sends, clock)
        BY <1>1, <1>7, <2>2, <3>1 DEF SendOK
      <3>4. n \in Request /\ n \notin Verifying
        BY <3>1, Phases DEF Request
      <3> QED BY <3>1, <3>2, <3>3, <3>4 DEF RequestOK
    <2> QED BY <2>1, <2>2
  <1>9. proc \in [Process -> Request] /\ OneOwner(proc)
    OBVIOUS
  <1>10. /\ [proc EXCEPT ![h] = n] \in [Process -> Request]
         /\ OneOwner([proc EXCEPT ![h] = n])
         /\ \A g \in Process : RequestOK([proc EXCEPT ![h] = n][g], rows, ev, sends, clock)
    BY <1>2, <1>6, <1>8, <1>9, Changed
  <1> QED BY <1>1, <1>4, <1>5, <1>8, <1>10

-----------------------------------------------------------------------------
\* A verifying request goes on to the next scene, or ends.
LEMMA NextScene ==
    ASSUME IInv, NEW h \in Process, proc[h] \in Verifying, NEW rw, rw = rows \/ Len(rw) = Len(rows),
           NEW n, n = TryNextScene(h)
    PROVE  n \in Request /\ n \notin Sending /\ RequestOK(n, rw, events, sends, clock)
  <1> USE DEF IInv, Inv
  <1>1. VerifyOK(proc[h], rows, clock)
    BY DEF RequestOK
  <1>2. CASE Len(proc[h].todo) = 1
    BY <1>2, IdleOK DEF TryNextScene
  <1>3. CASE Len(proc[h].todo) # 1
    <2>1. proc[h].todo \in Seq(Scene) /\ proc[h].todo # <<>>
      BY <1>1 DEF Verifying, VerifyOK
    <2>2. n = [proc[h] EXCEPT !.phase = "find", !.todo = Tail(@), !.found = 0]
      BY <1>3 DEF TryNextScene
    <2>3. /\ n \in Verifying /\ n.phase = "find" /\ n.todo = Tail(proc[h].todo)
          /\ n.begun = proc[h].begun /\ n.known = proc[h].known
      BY <2>1, <2>2, VerifyNext
    <2>4. Tail(proc[h].todo) # <<>>
      BY <1>3, <2>1, TailLeft
    <2>5. VerifyOK(n, rw, clock)
      BY <1>1, <2>3, <2>4 DEF VerifyOK
    <2>6. n \in Request /\ n \notin Sending
      BY <2>3, Phases DEF Request
    <2> QED BY <2>5, <2>6 DEF RequestOK
  <1> QED BY <1>2, <1>3

LEMMA BeginVerifyStep ==
    ASSUME IInv, NEW h \in Process, NEW p \in Phone, NEW c \in Code, NEW list \in Accepts,
           BeginVerify(h, p, c, list)
    PROVE  IInv'
  <1> USE DEF IInv, Inv
  <1>1. PICK todo \in Distinct(list) :
          proc' = [proc EXCEPT ![h] =
                     [phase |-> "find", phone |-> p, code |-> c, todo |-> todo,
                      found |-> 0, begun |-> clock, known |-> Len(rows)]]
    BY DEF BeginVerify
  <1> DEFINE n == [phase |-> "find", phone |-> p, code |-> c, todo |-> todo,
                   found |-> 0, begun |-> clock, known |-> Len(rows)]
  <1>2. todo \in Seq(Scene) /\ todo # <<>>
    BY DistinctScenes
  <1>3. Len(rows) \in Nat
    BY LenProperties
  <1>4. n \in Verifying /\ n.phase = "find" /\ n.todo = todo /\ n.begun = clock /\ n.known = Len(rows)
    BY <1>2, <1>3 DEF Verifying
  <1> HIDE DEF n
  <1>5. VerifyOK(n, rows, clock)
    BY <1>2, <1>3, <1>4 DEF VerifyOK
  <1>6. n \in Request /\ n \notin Sending
    BY <1>4, Phases DEF Request
  <1>7. RequestOK(n, rows, events, sends, clock)
    BY <1>5, <1>6 DEF RequestOK
  <1>8. proc \in [Process -> Request] /\ OneOwner(proc)
    OBVIOUS
  <1>9. /\ [proc EXCEPT ![h] = n] \in [Process -> Request]
        /\ OneOwner([proc EXCEPT ![h] = n])
        /\ \A g \in Process : RequestOK([proc EXCEPT ![h] = n][g], rows, events, sends, clock)
    BY <1>6, <1>7, <1>8, Changed
  <1>10. proc' = [proc EXCEPT ![h] = n] /\ UNCHANGED <<clock, rows, events, sends>>
    BY <1>1 DEF BeginVerify, n
  <1> QED BY <1>9, <1>10

\* What the query finds is the newest row that is open, and not out of date.
LEMMA FindStep ==
    ASSUME IInv, NEW h \in Process, FindSMS(h)
    PROVE  IInv'
  <1> USE DEF IInv, Inv
  <1>1. proc[h].phase = "find" /\ proc[h] \in Request /\ UNCHANGED <<clock, rows, events, sends>>
    BY DEF FindSMS
  <1>2. proc[h] \in Verifying /\ VerifyOK(proc[h], rows, clock)
    BY <1>1, Phases DEF RequestOK
  <1>3. PICK n \in Request : /\ proc' = [proc EXCEPT ![h] = n] /\ n \notin Sending
                             /\ RequestOK(n, rows, events, sends, clock)
    <2>1. CASE proc' = [proc EXCEPT ![h] = TryNextScene(h)]
      BY <1>2, <2>1, NextScene
    <2>2. ASSUME NEW i \in Newest(proc[h].phone, Head(proc[h].todo)), Matches(i, proc[h].code),
                 proc' = [proc EXCEPT ![h] = [proc[h] EXCEPT !.phase = "consume", !.found = i]]
          PROVE  \E n \in Request : /\ proc' = [proc EXCEPT ![h] = n] /\ n \notin Sending
                                    /\ RequestOK(n, rows, events, sends, clock)
      <3> DEFINE n == [proc[h] EXCEPT !.phase = "consume", !.found = i]
      <3>1. i \in 1 .. Len(rows) /\ i \in Nat /\ Len(rows) \in Nat
        BY LenProperties DEF Newest, Open
      <3>2. /\ n \in Verifying /\ n.phase = "consume" /\ n.todo = proc[h].todo
            /\ n.begun = proc[h].begun /\ n.known = proc[h].known /\ n.found = i
        BY <1>2, <3>1, VerifyFound
      <3> HIDE DEF n
      <3>3. proc[h].begun <= rows[i].created + TTL
        <4>1. proc[h].begun \in Nat /\ proc[h].begun <= clock
          BY <1>2 DEF Verifying, VerifyOK
        <4>2. rows[i].created \in Nat
          <5>1. rows \in [1 .. Len(rows) -> Row]
            BY SeqDef, LenProperties
          <5> QED BY <3>1, <5>1 DEF Row
        <4>3. clock <= rows[i].created + TTL
          BY <2>2 DEF Matches
        <4> QED BY <4>1, <4>2, <4>3
      <3>4. NewestKnown(i, proc[h].known, rows)
        <4>1. \A j \in 1 .. Len(rows) : j \in DOMAIN rows
          BY LenProperties
        <4> QED BY <4>1 DEF NewestKnown, Newest, Open
      <3>5. VerifyOK(n, rows, clock)
        BY <1>2, <3>1, <3>2, <3>3, <3>4 DEF VerifyOK
      <3>6. n \in Request /\ n \notin Sending
        BY <3>2, Phases DEF Request
      <3> QED BY <2>2, <3>5, <3>6 DEF RequestOK, n
    <2> QED BY <2>1, <2>2 DEF FindSMS
  <1>4. proc \in [Process -> Request] /\ OneOwner(proc)
    OBVIOUS
  <1>5. /\ [proc EXCEPT ![h] = n] \in [Process -> Request]
        /\ OneOwner([proc EXCEPT ![h] = n])
        /\ \A g \in Process : RequestOK([proc EXCEPT ![h] = n][g], rows, events, sends, clock)
    BY <1>3, <1>4, Changed
  <1> QED BY <1>1, <1>3, <1>5

\* Only an unconsumed row is used, and then it is consumed.
LEMMA VerifyStep ==
    ASSUME IInv, NEW h \in Process, VerifySMS(h)
    PROVE  IInv'
  <1> USE DEF IInv, Inv
  <1>1. proc[h].phase = "consume" /\ proc[h] \in Request /\ UNCHANGED <<clock, events, sends>>
    BY DEF VerifySMS
  <1>2. proc[h] \in Verifying /\ VerifyOK(proc[h], rows, clock)
    BY <1>1, Phases DEF RequestOK
  <1>3. proc \in [Process -> Request] /\ OneOwner(proc)
    OBVIOUS
  <1> DEFINE i == proc[h].found
             rw == [rows EXCEPT ![i] = Consume(@)]
  <1>4. i \in 1 .. Len(rows)
    BY <1>1, <1>2 DEF VerifyOK
  <1>5. CASE Consumable(i)
    <2>1. rows' = rw /\ proc' = [proc EXCEPT ![h] = Idle]
      BY <1>5 DEF VerifySMS
    <2>2. \A g \in Process : RequestOK(proc[g], rw, events, sends, clock)
      BY <1>4, ConsumedRowRequests
    <2>3. /\ rw \in Seq(Row) /\ Len(rw) = Len(rows)
          /\ \A j \in 1 .. Len(rows) :
                /\ j # i => rw[j] = rows[j]
                /\ rw[j].created = rows[j].created /\ rw[j].send = rows[j].send
          /\ rw[i].consumed /\ rw[i].uses = rows[i].uses + 1
      BY <1>4, ConsumedRow
    <2> HIDE DEF rw
    <2>4. rows[i].uses = 0
      BY <1>4, <1>5 DEF Consumable, RowsOK, RowOK
    <2>5. RowsOK(rw, sends, clock)
      BY <2>3, <2>4 DEF RowsOK, RowOK
    <2>6. /\ [proc EXCEPT ![h] = Idle] \in [Process -> Request]
          /\ OneOwner([proc EXCEPT ![h] = Idle])
          /\ \A g \in Process : RequestOK([proc EXCEPT ![h] = Idle][g], rw, events, sends, clock)
      BY <1>3, <2>2, IdleOK, Changed
    <2> QED BY <1>1, <2>1, <2>3, <2>5, <2>6
  <1>6. CASE ~Consumable(i)
    <2>1. rows' = rows /\ proc' = [proc EXCEPT ![h] = TryNextScene(h)]
      BY <1>6 DEF VerifySMS
    <2> DEFINE n == TryNextScene(h)
    <2>2. n \notin Sending /\ RequestOK(n, rows, events, sends, clock)
      BY <1>2, NextScene
    <2> HIDE DEF n
    <2>3. /\ [proc EXCEPT ![h] = n] \in [Process -> Request]
          /\ OneOwner([proc EXCEPT ![h] = n])
          /\ \A g \in Process : RequestOK([proc EXCEPT ![h] = n][g], rows, events, sends, clock)
      BY <1>3, <2>2, Changed
    <2> QED BY <1>1, <2>1, <2>3 DEF n
  <1> QED BY <1>5, <1>6

\* A crash forgets the requests, and no request outlives two ticks.
LEMMA ProcessStep ==
    ASSUME IInv, Crash \/ Tick
    PROVE  IInv'
  <1> USE DEF IInv, Inv
  <1>1. CASE Crash
    <2>1. UNCHANGED <<clock, rows, events, sends>> /\ proc' = [h \in Process |-> Idle]
      BY <1>1 DEF Crash
    <2>2. proc' \in [Process -> Request] /\ OneOwner(proc')
      BY <2>1, IdleOK DEF OneOwner
    <2>3. \A h \in Process : RequestOK(proc'[h], rows, events, sends, clock)
      BY <2>1, IdleOK
    <2> QED BY <2>1, <2>2, <2>3
  <1>2. CASE Tick
    <2> DEFINE ck == clock + 1
    <2>1. UNCHANGED <<rows, events, proc, sends>> /\ clock' = ck /\ ck \in Nat
      BY <1>2 DEF Tick
    <2>2. RowsOK(rows, sends, ck)
      <3>1. \A i \in 1 .. Len(rows) : rows[i].created \in Nat
        <4>1. rows \in [1 .. Len(rows) -> Row]
          BY SeqDef, LenProperties
        <4> QED BY <4>1 DEF Row
      <3> QED BY <3>1 DEF RowsOK, RowOK
    <2>3. EventsOK(events, ck)
      <3>1. \A e \in 1 .. Len(events) : events[e].at \in Nat
        <4>1. events \in [1 .. Len(events) -> Event]
          BY SeqDef, LenProperties
        <4> QED BY <4>1 DEF Event
      <3> QED BY <3>1 DEF EventsOK
    <2>4. ASSUME NEW h \in Process PROVE RequestOK(proc[h], rows, events, sends, ck)
      <3>1. proc[h] \in Request /\ (proc[h] # Idle => proc[h].begun = clock)
        BY <1>2 DEF Tick
      <3>2. proc[h] \in Sending \/ proc[h] \in Verifying => proc[h].begun = clock
        BY <3>1, IdleOK, Phases
      <3> QED BY <3>1, <3>2 DEF RequestOK, SendOK, VerifyOK
    <2> QED BY <2>1, <2>2, <2>3, <2>4
  <1> QED BY <1>1, <1>2

-----------------------------------------------------------------------------
(* Theorems *)

\* The strengthened invariant holds throughout.
THEOREM Invariance == Spec => []IInv
  <1>1. IInv /\ [Next]_vars => IInv'
    <2> SUFFICES ASSUME IInv, [Next]_vars PROVE IInv'
      OBVIOUS
    <2>1. CASE Next
      BY <2>1, BeginSendStep, AnswerStep, InsertStep, RecordEventStep, BeginVerifyStep,
         FindStep, VerifyStep, ProcessStep DEF Next
    <2>2. CASE UNCHANGED vars
      BY <2>2 DEF vars, IInv, Inv
    <2> QED BY <2>1, <2>2
  <1> QED BY InitInv, <1>1, PTL DEF Spec

\* Every table and request keeps its type, and no row is dated in the future.
THEOREM CodesTyped == Spec => []TypeOK
  <1>1. IInv => TypeOK
    BY LenProperties DEF IInv, Inv, TypeOK, Request, RowsOK, RowOK
  <1> QED BY <1>1, Invariance, PTL

\* However many requests read the same row, it lets one of them through.
THEOREM UsedOnce == Spec => []RowUsedOnce
  <1>1. IInv => RowUsedOnce
    <2> SUFFICES ASSUME IInv, NEW i \in DOMAIN rows PROVE rows[i].uses <= 1
      BY DEF RowUsedOnce
    <2>1. i \in 1 .. Len(rows)
      BY LenProperties DEF IInv, Inv
    <2>2. RowOK(rows[i], sends, clock)
      BY <2>1 DEF IInv, Inv, RowsOK
    <2>3. rows[i].uses = IF rows[i].consumed THEN 1 ELSE 0
      BY <2>2 DEF RowOK
    <2>4. CASE rows[i].consumed
      BY <2>3, <2>4
    <2>5. CASE ~rows[i].consumed
      BY <2>3, <2>5
    <2> QED BY <2>4, <2>5
  <1> QED BY <1>1, Invariance, PTL

\* No row ever holds a code that did not go out.
THEOREM OnlyDelivered == Spec => []DeliveredOnly
  <1>1. IInv => DeliveredOnly
    BY LenProperties DEF IInv, Inv, DeliveredOnly, RowsOK, RowOK
  <1> QED BY <1>1, Invariance, PTL

\* Requests for one number that do not overlap are a window apart.
THEOREM Paces == Spec => []PacedApart
  <1>1. IInv => PacedApart
    <2> SUFFICES ASSUME IInv, NEW d \in DOMAIN events, NEW e \in DOMAIN events,
                        events[d].phone = events[e].phone, events[d].phone \in Paced,
                        events[d].at < events[e].begun
                 PROVE  events[d].at + Window < events[e].at
      BY DEF PacedApart
    <2>1. events \in [1 .. Len(events) -> Event] /\ DOMAIN events = 1 .. Len(events)
      BY SeqDef, LenProperties DEF IInv, Inv
    <2>2. events[d].at \in Nat /\ events[e].at \in Nat /\ events[e].begun \in Nat
      BY <2>1 DEF Event
    <2>3. events[d].at + Window < events[e].begun
      BY <2>1 DEF IInv, Inv, AllApart, Apart
    <2>4. events[e].begun <= events[e].at
      BY <2>1 DEF IInv, Inv, EventsOK
    <2> QED BY <2>2, <2>3, <2>4
  <1> QED BY <1>1, Invariance, PTL

\* A request that consumes a row left no newer one open that it could know.
THEOREM NewerWins == Spec => SupersededRefused
  <1> DEFINE Refused ==
        \A h \in Process :
          proc[h].phase = "consume" /\ rows'[proc[h].found].uses > rows[proc[h].found].uses
          => LET i == proc[h].found
             IN  ~\E j \in Open(rows[i].phone, rows[i].scene) :
                     rows[i].created < rows[j].created /\ j <= proc[h].known
  <1>1. IInv => Refused
    <2> SUFFICES ASSUME IInv, NEW h \in Process, proc[h].phase = "consume",
                        NEW j \in Open(rows[proc[h].found].phone, rows[proc[h].found].scene),
                        j <= proc[h].known
                 PROVE  ~(rows[proc[h].found].created < rows[j].created)
      OBVIOUS
    <2>1. proc[h] \in Request
      BY DEF IInv, Inv
    <2>2. VerifyOK(proc[h], rows, clock)
      BY <2>1, Phases DEF IInv, Inv, RequestOK
    <2>3. j \in 1 .. Len(rows) /\ rows \in [1 .. Len(rows) -> Row]
      BY SeqDef, LenProperties DEF IInv, Inv, Open
    <2>4. proc[h].found \in 1 .. Len(rows) /\ rows[j].created <= rows[proc[h].found].created
      BY <2>2, <2>3 DEF VerifyOK, NewestKnown, Open
    <2>5. rows[j].created \in Nat /\ rows[proc[h].found].created \in Nat
      BY <2>3, <2>4 DEF Row
    <2> QED BY <2>4, <2>5
  <1> QED BY <1>1, Invariance, PTL DEF SupersededRefused

\* Whatever scene a code was mirrored into, it ends with its lifetime.
THEOREM ExpiryHeeded == Spec => ExpiredRefused
  <1> DEFINE Heeded ==
        \A i \in DOMAIN rows : rows'[i].uses > rows[i].uses
          => clock <= sends[rows[i].send].at + TTL + 2
  <1>1. IInv /\ [Next]_vars => Heeded
    <2> SUFFICES ASSUME IInv, [Next]_vars, NEW i \in DOMAIN rows, rows'[i].uses > rows[i].uses
                 PROVE  clock <= sends[rows[i].send].at + TTL + 2
      OBVIOUS
    <2>1. /\ rows \in Seq(Row) /\ rows \in [1 .. Len(rows) -> Row] /\ DOMAIN rows = 1 .. Len(rows)
          /\ sends \in [1 .. Len(sends) -> Send] /\ clock \in Nat
      BY SeqDef, LenProperties DEF IInv, Inv
    <2>2. rows[i].uses \in Nat /\ rows'[i] # rows[i]
      BY <2>1 DEF Row
    <2>3. PICK h \in Process : VerifySMS(h)
      <3>1. ASSUME rows' = rows PROVE FALSE
        BY <2>2, <3>1
      <3>2. ASSUME NEW x, rows' = Append(rows, x) PROVE FALSE
        BY <2>1, <2>2, <3>2
      <3> QED BY <3>1, <3>2 DEF Next, vars, BeginSend, Deliver, DeliveryFails, InsertRow, RecordEvent,
                 MirrorSMS, Inserted, BeginVerify, FindSMS, Crash, Tick
    <2>4. proc[h].phase = "consume" /\ proc[h] \in Request
      BY <2>3 DEF VerifySMS, IInv, Inv
    <2>5. proc[h] \in Verifying /\ VerifyOK(proc[h], rows, clock)
      BY <2>4, Phases DEF IInv, Inv, RequestOK
    <2>6. i = proc[h].found
      BY <2>1, <2>2, <2>3 DEF VerifySMS
    <2>7. proc[h].begun \in Nat /\ clock <= proc[h].begun + 1 /\ proc[h].begun <= rows[i].created + TTL
      BY <2>4, <2>5, <2>6 DEF VerifyOK, Verifying
    <2>8. RowOK(rows[i], sends, clock)
      BY <2>1 DEF IInv, Inv, RowsOK
    <2>9. rows[i].send \in 1 .. Len(sends) /\ rows[i].created <= sends[rows[i].send].at + 1
      BY <2>8 DEF RowOK
    <2>10. rows[i].created \in Nat
      BY <2>1 DEF Row
    <2>11. sends[rows[i].send].at \in Nat
      BY <2>1, <2>9 DEF Send
    <2> DEFINE made == sends[rows[i].send].at
               dated == rows[i].created
    <2>12. made \in Nat /\ dated \in Nat /\ dated <= made + 1 /\ proc[h].begun <= dated + TTL
      BY <2>7, <2>9, <2>10, <2>11
    <2> HIDE DEF made, dated
    <2>13. clock <= made + TTL + 2
      BY <2>1, <2>7, <2>12
    <2> QED BY <2>13 DEF made
  <1> QED BY <1>1, Invariance, PTL DEF Spec, ExpiredRefused
=============================================================================
