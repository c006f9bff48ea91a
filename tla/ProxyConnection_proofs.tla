------------------------ MODULE ProxyConnection_proofs ------------------------
(***************************************************************************)
(* Proofs about ProxyConnection, for streams of any length: its types,     *)
(* that what is relayed is what was sent, and that an intercepted          *)
(* connection is not closed under a request.                               *)
(*                                                                         *)
(* The invariant follows a chunk: what has been taken from a reader has    *)
(* been delivered, but for the one chunk a copying goroutine holds, as     *)
(* long as somebody is there to read it (Stream); and it says which        *)
(* goroutines there are at each step of the handler (Course, Serving).     *)
(***************************************************************************)
EXTENDS ProxyConnection, TLAPS

Before == {"start", "dial", "hijack", "reply"}

\* The handler's step decides how the connection is served.
Course ==
    /\ hand \in {"hijack", "reply"} => kind \in {"tunnel", "mitm"}
    /\ hand \in {"dial", "wait"} => kind = "tunnel"
    /\ hand \in {"handshake", "http2", "serve", "accept", "closeListener"} => kind = "mitm"
    /\ conn # "none" => kind = "mitm"
    /\ kind # "tunnel" => \A e \in End : copy[e] = "none"
    /\ hand \in Before => \A e \in End : pos[e] = 0 /\ got[e] = <<>> /\ copy[e] = "none"

\* One direction: what was delivered, against what was taken from the reader.
Stream(e) ==
    /\ \A i \in 1 .. Len(got[e]) : got[e][i] = i
    /\ kind # "tunnel" => Len(got[e]) = pos[e]
    /\ far[Other(e)] # "gone" =>
        /\ copy[e] = "reading" \/ eof[e] => Len(got[e]) = pos[e]
        /\ copy[e] = "writing" => Len(got[e]) + 1 = pos[e]
    /\ copy[e] = "writing" => pos[e] > 0
    /\ eof[e] => /\ copy[e] \in {"sending", "ended"}
                 /\ far[e] # "open" /\ pos[e] = sent[e]

Active == {"reading", "handling", "websocket", "closing"}

\* The intercepted connection: its goroutine and the listener's channel.
Serving ==
    /\ hand \in {"reply", "wait", "handshake", "http2", "serve"} => sock[Client] = "open"
    /\ hand \in Before \cup {"wait", "handshake", "http2", "serve"} => conn = "none" /\ closes = 0
    /\ conn \in Active => sock[Client] = "open" /\ hand = "accept" /\ closes = 0

IInv == TypeOK /\ Course /\ (\A e \in End : Stream(e)) /\ Serving

USE MaxChunksAssumption DEF End, Client, Upstream

\* Appending the next number to 1, 2, ..., n.
LEMMA Appended ==
    ASSUME NEW s \in Seq(1 .. MaxChunks), NEW n \in 1 .. MaxChunks,
           \A i \in 1 .. Len(s) : s[i] = i, Len(s) + 1 = n
    PROVE  /\ Append(s, n) \in Seq(1 .. MaxChunks)
           /\ Len(Append(s, n)) = n
           /\ \A i \in 1 .. Len(Append(s, n)) : Append(s, n)[i] = i
  OBVIOUS

\* A chunk the proxy's own server reads is delivered at once.
LEMMA Consumed ==
    ASSUME IInv, kind # "tunnel", Consume
    PROVE  /\ pos' \in [End -> 0 .. MaxChunks] /\ got' \in [End -> Seq(1 .. MaxChunks)]
           /\ Len(got'[Client]) = pos'[Client]
           /\ \A i \in 1 .. Len(got'[Client]) : got'[Client][i] = i
           /\ pos'[Upstream] = pos[Upstream] /\ got'[Upstream] = got[Upstream]
           /\ sock[Client] = "open"
  <1> DEFINE n == pos[Client] + 1
  <1>1. n \in 1 .. MaxChunks /\ Len(got[Client]) + 1 = n /\ got[Client] \in Seq(1 .. MaxChunks)
    BY DEF IInv, TypeOK, Stream, Consume, Readable
  <1>2. pos' = [pos EXCEPT ![Client] = n] /\ pos'[Client] = n
    BY DEF IInv, TypeOK, Consume
  <1>3. got' = [got EXCEPT ![Client] = Append(got[Client], n)]
    BY <1>2 DEF Consume
  <1>4. \A i \in 1 .. Len(got[Client]) : got[Client][i] = i
    BY DEF IInv, Stream
  <1> HIDE DEF n
  <1>5. /\ Append(got[Client], n) \in Seq(1 .. MaxChunks) /\ Len(Append(got[Client], n)) = n
        /\ \A i \in 1 .. Len(Append(got[Client], n)) : Append(got[Client], n)[i] = i
    BY <1>1, <1>4, Appended
  <1> QED BY <1>1, <1>2, <1>3, <1>5 DEF IInv, TypeOK, Consume, Readable

\* Initially nothing has been sent, read or started.
LEMMA InitIInv == Init => IInv
  BY DEF Init, IInv, TypeOK, Course, Stream, Serving, Before, Active, Other,
         Kinds, Steps, CopySteps, ConnSteps

\* The far ends only send more, or leave: what was promised of a stream whose
\* end was reached stays true, since nothing is sent after it.
LEMMA FarEndStep ==
    ASSUME IInv, NEW e \in End, FarEnd(e)
    PROVE  IInv'
  <1> USE DEF IInv, streams, tunnel, listener
  <1>1. CASE SendChunk(e)
    <2>1. TypeOK'
      BY <1>1 DEF SendChunk, TypeOK
    <2>2. Course'
      BY <1>1 DEF SendChunk, TypeOK, Course, Before
    <2>3. ASSUME NEW d \in End PROVE Stream(d)'
      BY <1>1 DEF SendChunk, TypeOK, Course, Stream, Other, Before
    <2>4. Serving'
      BY <1>1 DEF SendChunk, TypeOK, Serving, Before, Active
    <2> QED BY <2>1, <2>2, <2>3, <2>4
  <1>2. CASE Finish(e)
    BY <1>2 DEF Finish, TypeOK, Course, Stream, Serving, Before, Active, Other
  <1>3. CASE Vanish(e)
    BY <1>3 DEF Vanish, TypeOK, Course, Stream, Serving, Before, Active, Other
  <1> QED BY <1>1, <1>2, <1>3 DEF FarEnd

\* The handler: only Handshake reads, and only Reply, CloseClient and
\* CloseUpstream touch what the goroutines use.
LEMMA HandlerStep ==
    ASSUME IInv, Handler
    PROVE  IInv'
  <1> USE DEF IInv, streams, tunnel, listener
  <1>1. ASSUME NEW host \in Host, NEW allowAll \in BOOLEAN, Connect(host, allowAll) PROVE IInv'
    BY <1>1 DEF Connect, Route, FirstStep, TypeOK, Course, Stream, Serving, Before, Active, Other, Kinds, Steps
  <1>2. CASE Dial
    BY <1>2 DEF Dial, TypeOK, Course, Stream, Serving, Before, Active, Other, Steps
  <1>3. CASE Hijack
    <2>1. TypeOK'
      BY <1>3 DEF Hijack, TypeOK, Steps
    <2>2. Course'
      BY <1>3 DEF Hijack, TypeOK, Course, Before
    <2>3. ASSUME NEW d \in End PROVE Stream(d)'
      BY <1>3 DEF Hijack, TypeOK, Course, Stream, Other, Before
    <2>4. Serving'
      BY <1>3 DEF Hijack, TypeOK, Serving, Before, Active
    <2> QED BY <2>1, <2>2, <2>3, <2>4
  <1>4. CASE Reply
    <2>1. TypeOK'
      BY <1>4 DEF Reply, FirstRead, TypeOK, Steps, CopySteps
    <2>2. Course'
      BY <1>4 DEF Reply, FirstRead, TypeOK, Course, Before
    <2>3. ASSUME NEW d \in End PROVE Stream(d)'
      BY <1>4 DEF Reply, FirstRead, TypeOK, Course, Stream, Other, Before
    <2>4. Serving'
      BY <1>4 DEF Reply, FirstRead, TypeOK, Serving, Before, Active
    <2> QED BY <2>1, <2>2, <2>3, <2>4
  <1>5. CASE Handshake
    <2>1. hand = "handshake" /\ kind # "tunnel"
      BY <1>5 DEF Handshake, Course
    <2>2. CASE Consume /\ hand' \in {"serve", "http2"}
      BY <1>5, <2>1, <2>2, Consumed DEF Handshake, TypeOK, Course, Stream, Serving, Before, Active, Other, Steps
    <2>3. CASE hand' = "closeClient" /\ UNCHANGED <<pos, got>>
      BY <1>5, <2>1, <2>3 DEF Handshake, TypeOK, Course, Stream, Serving, Before, Active, Other, Steps
    <2> QED BY <1>5, <2>2, <2>3 DEF Handshake
  <1>6. CASE ReceiveDone
    <2>1. TypeOK'
      BY <1>6 DEF ReceiveDone, TypeOK, Steps
    <2>2. Course'
      BY <1>6 DEF ReceiveDone, TypeOK, Course, Before
    <2>3. ASSUME NEW d \in End PROVE Stream(d)'
      BY <1>6 DEF ReceiveDone, TypeOK, Course, Stream, Other, Before
    <2>4. Serving'
      BY <1>6 DEF ReceiveDone, TypeOK, Serving, Before, Active
    <2> QED BY <2>1, <2>2, <2>3, <2>4
  <1>7. CASE AcceptFirst
    BY <1>7 DEF AcceptFirst, TypeOK, Course, Stream, Serving, Before, Active, Other, Steps, ConnSteps
  <1>8. CASE AcceptSecond
    <2>1. TypeOK'
      BY <1>8 DEF AcceptSecond, AcceptReturns, TypeOK, Steps
    <2>2. Course'
      BY <1>8 DEF AcceptSecond, AcceptReturns, TypeOK, Course, Before
    <2>3. ASSUME NEW d \in End PROVE Stream(d)'
      BY <1>8 DEF AcceptSecond, AcceptReturns, TypeOK, Course, Stream, Other, Before
    <2>4. Serving'
      BY <1>8 DEF AcceptSecond, AcceptReturns, Serving, Before, Active
    <2> QED BY <2>1, <2>2, <2>3, <2>4
  <1>9. CASE CloseListener
    <2>1. TypeOK'
      BY <1>9 DEF CloseListener, ClosesAfterSignal, TypeOK, Steps
    <2>2. Course'
      BY <1>9 DEF CloseListener, ClosesAfterSignal, TypeOK, Course, Before
    <2>3. ASSUME NEW d \in End PROVE Stream(d)'
      BY <1>9 DEF CloseListener, ClosesAfterSignal, TypeOK, Course, Stream, Other, Before
    <2>4. Serving'
      BY <1>9 DEF CloseListener, ClosesAfterSignal, TypeOK, Serving, Before, Active
    <2> QED BY <2>1, <2>2, <2>3, <2>4
  <1>10. CASE CloseClient
    BY <1>10 DEF CloseClient, TypeOK, Course, Stream, Serving, Before, Active, Other, Steps
  <1>11. CASE CloseUpstream
    BY <1>11 DEF CloseUpstream, TypeOK, Course, Stream, Serving, Before, Active, Other, Steps
  <1> QED BY <1>1, <1>2, <1>3, <1>4, <1>5, <1>6, <1>7, <1>8, <1>9, <1>10, <1>11 DEF Handler

\* A copying goroutine holds at most one chunk, and lets it go only by
\* delivering it or by giving up.
LEMMA TunnelStep ==
    ASSUME IInv, NEW e \in End, Copier(e) \/ Deliver(e)
    PROVE  IInv'
  <1> USE DEF IInv, streams, tunnel, listener
  <1>1. CASE Read(e)
    <2>1. TypeOK'
      <3>1. CASE Readable(e) /\ copy' = [copy EXCEPT ![e] = "writing"]
                 /\ pos' = [pos EXCEPT ![e] = @ + 1] /\ UNCHANGED eof
        <4>1. pos[e] + 1 \in 0 .. MaxChunks
          BY <3>1 DEF Readable, TypeOK
        <4> QED BY <1>1, <3>1, <4>1 DEF Read, TypeOK, CopySteps
      <3>2. CASE /\ UNCHANGED pos /\ copy' = [copy EXCEPT ![e] = "sending"]
                 /\ UNCHANGED eof \/ eof' = [eof EXCEPT ![e] = TRUE]
        BY <1>1, <3>2 DEF Read, TypeOK, CopySteps
      <3> QED BY <1>1, <3>1, <3>2 DEF Read
    <2>2. Course'
      BY <1>1 DEF Read, Readable, TypeOK, Course, Before
    <2>3. ASSUME NEW d \in End PROVE Stream(d)'
      BY <1>1 DEF Read, Readable, TypeOK, Course, Stream, Other, Before
    <2>4. Serving'
      BY <1>1 DEF Read, Readable, TypeOK, Serving, Before, Active
    <2> QED BY <2>1, <2>2, <2>3, <2>4
  <1>2. CASE WriteFails(e)
    <2>1. TypeOK'
      BY <1>2 DEF WriteFails, TypeOK, CopySteps
    <2>2. Course'
      BY <1>2 DEF WriteFails, TypeOK, Course, Before
    <2>3. ASSUME NEW d \in End PROVE Stream(d)'
      BY <1>2 DEF WriteFails, TypeOK, Course, Stream, Other, Before
    <2>4. Serving'
      BY <1>2 DEF WriteFails, TypeOK, Serving, Before, Active
    <2> QED BY <2>1, <2>2, <2>3, <2>4
  <1>3. CASE SendDone(e)
    <2>1. TypeOK'
      BY <1>3 DEF SendDone, DoneHasRoom, TypeOK, CopySteps
    <2>2. Course'
      BY <1>3 DEF SendDone, DoneHasRoom, TypeOK, Course, Before
    <2>3. ASSUME NEW d \in End PROVE Stream(d)'
      BY <1>3 DEF SendDone, DoneHasRoom, TypeOK, Course, Stream, Other, Before
    <2>4. Serving'
      BY <1>3 DEF SendDone, DoneHasRoom, TypeOK, Serving, Before, Active
    <2> QED BY <2>1, <2>2, <2>3, <2>4
  <1>4. CASE Deliver(e)
    <2> DEFINE longer == Append(got[e], pos[e])
    <2>1. /\ longer \in Seq(1 .. MaxChunks) /\ Len(longer) = pos[e]
          /\ \A i \in 1 .. Len(longer) : longer[i] = i
      <3>1. Len(got[e]) + 1 = pos[e] /\ pos[e] \in 1 .. MaxChunks
        BY <1>4 DEF Deliver, Stream, TypeOK
      <3>2. got[e] \in Seq(1 .. MaxChunks) /\ \A i \in 1 .. Len(got[e]) : got[e][i] = i
        BY DEF Stream, TypeOK
      <3> QED BY <3>1, <3>2, Appended
    <2>2. got' = [got EXCEPT ![e] = longer] /\ kind = "tunnel"
      BY <1>4 DEF Deliver, Course
    <2> HIDE DEF longer
    <2>3. got' \in [End -> Seq(1 .. MaxChunks)]
      BY <2>1, <2>2 DEF TypeOK
    <2>4. got'[e] = longer /\ \A d \in End : d # e => got'[d] = got[d]
      BY <2>2 DEF TypeOK
    <2>5. copy' = [copy EXCEPT ![e] = "reading"] /\ copy[e] = "writing"
      BY <1>4 DEF Deliver
    <2>6. TypeOK'
      BY <1>4, <2>3 DEF Deliver, TypeOK, CopySteps
    <2>7. Course'
      BY <1>4, <2>2 DEF Deliver, TypeOK, Course, Before
    <2>8. ASSUME NEW d \in End PROVE Stream(d)'
      <3>1. UNCHANGED <<kind, far, sent, pos, eof>> /\ eof \in [End -> BOOLEAN] /\ ~eof[e] /\ pos[e] > 0
        BY <1>4 DEF Deliver, Stream, TypeOK
      <3>2. copy'[e] = "reading" /\ \A x \in End : x # e => copy'[x] = copy[x]
        BY <2>5 DEF TypeOK
      <3>3. CASE d = e
        BY <2>1, <2>2, <2>4, <3>1, <3>2, <3>3 DEF Stream
      <3>4. CASE d # e
        BY <2>4, <3>1, <3>2, <3>4 DEF Stream
      <3> QED BY <3>3, <3>4
    <2>9. Serving'
      BY <1>4 DEF Deliver, TypeOK, Serving, Before, Active
    <2> QED BY <2>6, <2>7, <2>8, <2>9
  <1> QED BY <1>1, <1>2, <1>3, <1>4 DEF Copier

\* What the intercepting server reads counts as delivered.
LEMMA ServerStep ==
    ASSUME IInv, ReadFrame \/ EndHTTP2 \/ Connection \/ Respond \/ Message
    PROVE  IInv'
  <1> USE DEF IInv, streams, tunnel, listener
  <1>1. CASE ReadFrame
    BY <1>1, Consumed DEF ReadFrame, TypeOK, Course, Stream, Serving, Before, Active, Other
  <1>2. CASE EndHTTP2
    BY <1>2 DEF EndHTTP2, TypeOK, Course, Stream, Serving, Before, Active, Other, Steps
  <1>3. CASE ReadRequest
    <2>1. conn = "reading" /\ kind # "tunnel" /\ hand = "accept"
      BY <1>3 DEF ReadRequest, Course, Serving, Active
    <2>2. CASE Consume /\ conn' = "handling"
      BY <1>3, <2>1, <2>2, Consumed DEF ReadRequest, TypeOK, Course, Stream, Serving, Before, Active, Other, ConnSteps
    <2>3. CASE conn' = "closing" /\ UNCHANGED <<pos, got>>
      BY <1>3, <2>1, <2>3 DEF ReadRequest, TypeOK, Course, Stream, Serving, Before, Active, Other, ConnSteps
    <2> QED BY <1>3, <2>2, <2>3 DEF ReadRequest
  <1>4. CASE Interrupted
    BY <1>4 DEF Interrupted, TypeOK, Course, Stream, Serving, Before, Active, Other, ConnSteps
  <1>5. CASE CloseConn
    BY <1>5 DEF CloseConn, TypeOK, Course, Stream, Serving, Before, Active, Other, ConnSteps
  <1>6. CASE NotifyClosed
    BY <1>6 DEF NotifyClosed, ClosesAfterSignal, TypeOK, Course, Stream, Serving, Before, Active, Other, ConnSteps
  <1>7. CASE Respond
    BY <1>7 DEF Respond, TypeOK, Course, Stream, Serving, Before, Active, Other, ConnSteps
  <1>8. CASE Message
    BY <1>8, Consumed DEF Message, TypeOK, Course, Stream, Serving, Before, Active, Other
  <1> QED BY <1>1, <1>2, <1>3, <1>4, <1>5, <1>6, <1>7, <1>8 DEF Connection

\* The strengthened invariant holds throughout.
THEOREM Invariance == Spec => []IInv
  <1>1. IInv /\ [Next]_vars => IInv'
    <2> SUFFICES ASSUME IInv, [Next]_vars PROVE IInv'
      OBVIOUS
    <2>1. CASE Next
      BY <2>1, FarEndStep, HandlerStep, TunnelStep, ServerStep DEF Next
    <2>2. CASE UNCHANGED vars
      BY <2>2 DEF vars, IInv, TypeOK, Course, Stream, Serving, Before, Active, Other
    <2> QED BY <2>1, <2>2
  <1> QED BY InitIInv, <1>1, PTL DEF Spec

\* Types, for streams of any length: the listener's channel is closed once.
THEOREM ProxyTyped == Spec => []TypeOK
  <1>1. IInv => TypeOK
    BY DEF IInv
  <1> QED BY <1>1, Invariance, PTL

\* The tunnel and the intercepting server see what was sent, from the start,
\* in order, and a stream that ended whole was delivered whole.
THEOREM RelayedFaithfully == Spec => []Faithful
  <1>1. IInv => Faithful
    BY DEF IInv, Faithful, Stream
  <1> QED BY <1>1, Invariance, PTL

\* serveMITMConnect outlives every request of the connection it hijacked.
THEOREM ServedToTheEnd == Spec => []NotCutShort
  <1>1. IInv => NotCutShort
    BY DEF IInv, NotCutShort, Serving, Active
  <1> QED BY <1>1, Invariance, PTL
=============================================================================
