--------------------------- MODULE ProxyConnection ---------------------------
(***************************************************************************)
(* One CONNECT request of the interception proxy (internal/app/proxy.go,   *)
(* internal/app/proxy_forward.go), from the request to the last goroutine  *)
(* it leaves behind.  An ordinary host gets a tunnel: two goroutines copy  *)
(* a direction each, and the handler waits for the first of them.  A       *)
(* Papegames host is intercepted: after a TLS handshake the connection is  *)
(* served by net/http through a listener that hands out one connection.    *)
(*                                                                         *)
(* The two far ends are external.  They send numbered chunks, finish their *)
(* stream, or are gone, whenever they like; a chunk the client sends       *)
(* before it has its answer is read with the CONNECT request and sits in   *)
(* the hijacked reader.  Connections share only the certificate cache, a   *)
(* map under a lock, so one connection is modelled.                        *)
(***************************************************************************)
EXTENDS Naturals, Sequences

CONSTANT MaxChunks   \* bound of what either end sends, for TLC

ASSUME MaxChunksAssumption == MaxChunks \in Nat

VARIABLES
    kind,    \* how the request is served, once that is decided
    hand,    \* the goroutine of serveConnect
    sock,    \* the proxy's socket to each end
    far,     \* each end's own state
    sent,    \* how many chunks each end has sent
    early,   \* how many of the client's were read before the hijack
    pos,     \* how many chunks of each end have been taken from its reader
    copy,    \* the goroutine that copies from each end
    done,    \* ends of copying in the tunnel's channel
    conn,    \* net/http's goroutine for the listener's one connection
    closes,  \* how often the listener's channel was closed; twice panics
    got,     \* history: the chunks of each end that reached the other side
    eof      \* history: whose copying ended with the end of the stream

vars == <<kind, hand, sock, far, sent, early, pos, copy, done, conn, closes, got, eof>>

-----------------------------------------------------------------------------
(* Data *)

Client == "client"
Upstream == "upstream"
End == {Client, Upstream}

Other(e) == IF e = Client THEN Upstream ELSE Client

\* What the name in the request is to the proxy, and what becomes of it.
Host == {"gate", "direct", "papegames", "ip", "unknown"}

Route(host, allowAll) ==
    IF host \in {"gate", "direct"} THEN "tunnel"
    ELSE IF host = "papegames" THEN "mitm"
    ELSE IF allowAll THEN "tunnel"
    ELSE IF host = "ip" THEN "mitm" ELSE "rejected"

Init ==
    /\ kind = "undecided" /\ hand = "start"
    /\ sock = [e \in End |-> IF e = Client THEN "server" ELSE "none"]
    /\ far = [e \in End |-> "open"]
    /\ sent = [e \in End |-> 0]
    /\ early = 0
    /\ pos = [e \in End |-> 0]
    /\ copy = [e \in End |-> "none"]
    /\ done = 0
    /\ conn = "none"
    /\ closes = 0
    /\ got = [e \in End |-> <<>>]
    /\ eof = [e \in End |-> FALSE]

streams == <<far, sent>>
tunnel == <<copy, done, eof>>
listener == <<conn, closes>>

-----------------------------------------------------------------------------
(* The far ends.  They may do nothing, or stop at any time. *)

Connected(e) == e = Client \/ sock[e] # "none"

SendChunk(e) ==
    /\ Connected(e) /\ far[e] = "open" /\ sent[e] < MaxChunks
    /\ sent' = [sent EXCEPT ![e] = @ + 1]
    /\ UNCHANGED <<kind, hand, sock, far, early, pos, got, tunnel, listener>>

\* The end finishes its own stream and still reads the other one.
Finish(e) ==
    /\ Connected(e) /\ far[e] = "open"
    /\ far' = [far EXCEPT ![e] = "finished"]
    /\ UNCHANGED <<kind, hand, sock, sent, early, pos, got, tunnel, listener>>

Vanish(e) ==
    /\ Connected(e) /\ far[e] # "gone"
    /\ far' = [far EXCEPT ![e] = "gone"]
    /\ UNCHANGED <<kind, hand, sock, sent, early, pos, got, tunnel, listener>>

-----------------------------------------------------------------------------
(* The handler up to the point where the connection is served *)

FirstStep(route) ==
    IF route = "tunnel" THEN "dial" ELSE IF route = "mitm" THEN "hijack" ELSE "returned"

\* serveConnect; a rejected request is answered with 403 by the outer server
Connect(host, allowAll) ==
    /\ hand = "start"
    /\ kind' = Route(host, allowAll)
    /\ hand' = FirstStep(Route(host, allowAll))
    /\ UNCHANGED <<sock, early, pos, got, streams, tunnel, listener>>

\* net.DialTimeout; without an answer the client gets 502
Dial ==
    /\ hand = "dial"
    /\ \/ hand' = "hijack" /\ sock' = [sock EXCEPT ![Upstream] = "open"]
       \/ hand' = "returned" /\ UNCHANGED sock
    /\ UNCHANGED <<kind, early, pos, got, streams, tunnel, listener>>

\* The hijacked connection comes with what was already read from it.
Hijack ==
    /\ hand = "hijack"
    /\ \/ /\ hand' = "reply"
          /\ sock' = [sock EXCEPT ![Client] = "open"]
          /\ early' \in 0 .. sent[Client]
       \/ /\ hand' = IF kind = "tunnel" THEN "closeUpstream" ELSE "returned"
          /\ UNCHANGED <<sock, early>>
    /\ UNCHANGED <<kind, pos, got, streams, tunnel, listener>>

\* mutant: the socket is read although something sits in the hijacked reader
FirstReadRaw == early

\* clientReader, readerConn: the chunk the reader gives first is the one after
\* these.  The socket itself goes on behind what was read early.
FirstRead == IF early > 0 THEN 0 ELSE early

\* the answer to the CONNECT request; the tunnel's goroutines are started
Reply ==
    /\ hand = "reply"
    /\ \/ /\ hand' = IF kind = "tunnel" THEN "wait" ELSE "handshake"
          /\ copy' = [e \in End |-> IF kind = "tunnel" THEN "reading" ELSE "none"]
          /\ pos' = [pos EXCEPT ![Client] = FirstRead]
       \/ hand' = "closeClient" /\ UNCHANGED <<copy, pos>>
    /\ UNCHANGED <<kind, sock, early, got, done, eof, streams, listener>>

\* The next chunk of an end is there to be read from the proxy's socket.
Readable(e) == sock[e] = "open" /\ pos[e] < sent[e]

\* The chunk is read and reaches the proxy's own server.
Consume ==
    /\ Readable(Client)
    /\ pos' = [pos EXCEPT ![Client] = @ + 1]
    /\ got' = [got EXCEPT ![Client] = Append(@, pos'[Client])]

\* HandshakeContext reads the client's greeting, refuses it (GetCertificate,
\* versions) or gives up: the client is gone or 15 seconds are over.
Handshake ==
    /\ hand = "handshake"
    /\ \/ Consume /\ hand' \in {"serve", "http2"}
       \/ hand' = "closeClient" /\ UNCHANGED <<pos, got>>
    /\ UNCHANGED <<kind, sock, early, streams, tunnel, listener>>

-----------------------------------------------------------------------------
(* The tunnel *)

\* io.Copy's read: a chunk, an error, or the end of the stream
Read(e) ==
    /\ copy[e] = "reading"
    /\ \/ Readable(e) /\ copy' = [copy EXCEPT ![e] = "writing"]
            /\ pos' = [pos EXCEPT ![e] = @ + 1] /\ UNCHANGED eof
       \/ (sock[e] = "closed" \/ far[e] = "gone") /\ copy' = [copy EXCEPT ![e] = "sending"]
            /\ UNCHANGED <<pos, eof>>
       \/ sock[e] = "open" /\ far[e] = "finished" /\ pos[e] = sent[e]
            /\ copy' = [copy EXCEPT ![e] = "sending"]
            /\ eof' = [eof EXCEPT ![e] = TRUE] /\ UNCHANGED pos
    /\ UNCHANGED <<kind, hand, sock, early, done, got, streams, listener>>

\* io.Copy's write, when the other end takes the chunk
Deliver(e) ==
    /\ copy[e] = "writing" /\ sock[Other(e)] = "open" /\ far[Other(e)] # "gone"
    /\ copy' = [copy EXCEPT ![e] = "reading"]
    /\ got' = [got EXCEPT ![e] = Append(@, pos[e])]
    /\ UNCHANGED <<kind, hand, sock, early, pos, done, eof, streams, listener>>

\* ... and when it fails, or the kernel takes what nobody will read
WriteFails(e) ==
    /\ copy[e] = "writing"
    /\ \/ sock[Other(e)] = "closed" /\ copy' = [copy EXCEPT ![e] = "sending"]
       \/ far[Other(e)] = "gone" /\ \E pc \in {"reading", "sending"} : copy' = [copy EXCEPT ![e] = pc]
    /\ UNCHANGED <<kind, hand, sock, early, pos, done, got, eof, streams, listener>>

\* mutant: an unbuffered channel, which only a waiting handler receives from
DoneTaken == hand = "wait"

\* make(chan struct{}, 2)
DoneHasRoom == done < 2

SendDone(e) ==
    /\ copy[e] = "sending" /\ DoneHasRoom
    /\ copy' = [copy EXCEPT ![e] = "ended"]
    /\ done' = done + 1
    /\ UNCHANGED <<kind, hand, sock, early, pos, got, eof, streams, listener>>

\* serveTunnel's only receive
ReceiveDone ==
    /\ hand = "wait" /\ done > 0
    /\ hand' = "closeClient"
    /\ done' = done - 1
    /\ UNCHANGED <<kind, sock, early, pos, got, copy, eof, streams, listener>>

-----------------------------------------------------------------------------
(* The intercepted connection *)

\* http2's ServeConn works in the handler's goroutine and closes what it served.
ReadFrame ==
    /\ hand = "http2" /\ Consume
    /\ UNCHANGED <<kind, hand, sock, early, streams, tunnel, listener>>

EndHTTP2 ==
    /\ hand = "http2"
    /\ hand' = "closeClient"
    /\ sock' = [sock EXCEPT ![Client] = "closed"]
    /\ UNCHANGED <<kind, early, pos, got, streams, tunnel, listener>>

\* Serve's first Accept hands the connection out and starts its goroutine.
AcceptFirst ==
    /\ hand = "serve"
    /\ hand' = "accept" /\ conn' = "reading"
    /\ UNCHANGED <<kind, sock, early, pos, got, closes, streams, tunnel>>

\* mutant: the second Accept returns its error at once
AcceptAtOnce == TRUE

\* The second Accept waits for the channel.
AcceptReturns == closes > 0

\* net.ErrClosed ends Serve, which closes its listener on the way out.
AcceptSecond ==
    /\ hand = "accept" /\ AcceptReturns
    /\ hand' = "closeListener"
    /\ UNCHANGED <<kind, sock, early, pos, got, streams, tunnel, listener>>

\* mutant: no Once
ClosesAgain == closes + 1

\* signalClosed: close(l.done) in a sync.Once
ClosesAfterSignal == IF closes = 0 THEN 1 ELSE closes

CloseListener ==
    /\ hand = "closeListener"
    /\ closes' = ClosesAfterSignal
    /\ hand' = "closeClient"
    /\ UNCHANGED <<kind, sock, early, pos, got, conn, streams, tunnel>>

\* net/http reads a request, or ends the connection: an error, the end of the
\* stream, 15 seconds without a header or 90 without a request.
ReadRequest ==
    /\ conn = "reading"
    /\ \/ Consume /\ conn' = "handling"
       \/ conn' = "closing" /\ UNCHANGED <<pos, got>>
    /\ UNCHANGED <<kind, hand, sock, early, closes, streams, tunnel>>

\* serveInternal answers and the connection goes on or not, or it is upgraded:
\* the websocket handler reads until there is no more.
Respond ==
    /\ conn = "handling"
    /\ conn' \in {"reading", "closing", "websocket"}
    /\ UNCHANGED <<kind, hand, sock, early, pos, got, closes, streams, tunnel>>

Message ==
    /\ conn = "websocket" /\ Consume
    /\ UNCHANGED <<kind, hand, sock, early, closes, conn, streams, tunnel>>

\* A handler whose client is gone fails to read its request or to answer it;
\* a websocket also ends with a close message, the end of the client's stream.
Interrupted ==
    /\ \/ conn \in {"handling", "websocket"} /\ far[Client] = "gone"
       \/ conn = "websocket" /\ far[Client] = "finished" /\ pos[Client] = sent[Client]
    /\ conn' = "closing"
    /\ UNCHANGED <<kind, hand, sock, early, pos, got, closes, streams, tunnel>>

\* closeNotifyConn.Close: the connection first, the channel then
CloseConn ==
    /\ conn = "closing"
    /\ sock' = [sock EXCEPT ![Client] = "closed"]
    /\ conn' = "signal"
    /\ UNCHANGED <<kind, hand, early, pos, got, closes, streams, tunnel>>

NotifyClosed ==
    /\ conn = "signal"
    /\ closes' = ClosesAfterSignal
    /\ conn' = "ended"
    /\ UNCHANGED <<kind, hand, sock, early, pos, got, streams, tunnel>>

-----------------------------------------------------------------------------
(* The handler's deferred calls, last first *)

CloseClient ==
    /\ hand = "closeClient"
    /\ sock' = [sock EXCEPT ![Client] = "closed"]
    /\ hand' = IF kind = "tunnel" THEN "closeUpstream" ELSE "returned"
    /\ UNCHANGED <<kind, early, pos, got, streams, tunnel, listener>>

CloseUpstream ==
    /\ hand = "closeUpstream"
    /\ sock' = [sock EXCEPT ![Upstream] = "closed"]
    /\ hand' = "returned"
    /\ UNCHANGED <<kind, early, pos, got, streams, tunnel, listener>>

-----------------------------------------------------------------------------
FarEnd(e) == SendChunk(e) \/ Finish(e) \/ Vanish(e)

Handler ==
    \/ \E host \in Host, allowAll \in BOOLEAN : Connect(host, allowAll)
    \/ Dial \/ Hijack \/ Reply \/ Handshake
    \/ ReceiveDone \/ AcceptFirst \/ AcceptSecond \/ CloseListener
    \/ CloseClient \/ CloseUpstream

\* A copying goroutine does not depend on the other end except to deliver.
Copier(e) == Read(e) \/ WriteFails(e) \/ SendDone(e)

\* net/http's goroutine, except for what a handler does in its own time
Connection == ReadRequest \/ Interrupted \/ CloseConn \/ NotifyClosed

Next ==
    \/ \E e \in End : FarEnd(e) \/ Copier(e) \/ Deliver(e)
    \/ Handler \/ ReadFrame \/ EndHTTP2 \/ Connection \/ Respond \/ Message

Spec == Init /\ [][Next]_vars

\* The scheduler runs every goroutine that is not blocked, dialling, answering
\* and the handshake are over in time, and a connection that is gone is given
\* up.  Nothing is asked of the far ends or of the handlers' own pace.
Fairness ==
    /\ WF_vars(Handler)
    /\ WF_vars(far[Client] = "gone" /\ EndHTTP2)
    /\ \A e \in End : WF_vars(Copier(e))
    /\ WF_vars(Connection)

FairSpec == Spec /\ Fairness

-----------------------------------------------------------------------------
(* Properties *)

Kinds == {"undecided", "rejected", "tunnel", "mitm"}
Steps == {"start", "dial", "hijack", "reply", "wait", "handshake", "http2", "serve", "accept",
          "closeListener", "closeClient", "closeUpstream", "returned"}
CopySteps == {"none", "reading", "writing", "sending", "ended"}
ConnSteps == {"none", "reading", "handling", "websocket", "closing", "signal", "ended"}

\* Every variable has its type; in particular the channel of the one-connection
\* listener, which both the connection's goroutine and Serve want closed, is
\* never closed a second time (a panic that would end the whole process), and
\* the tunnel's channel never holds more than its two places.
TypeOK ==
    /\ kind \in Kinds /\ hand \in Steps
    /\ sock \in [End -> {"none", "server", "open", "closed"}]
    /\ far \in [End -> {"open", "finished", "gone"}]
    /\ sent \in [End -> 0 .. MaxChunks]
    /\ early \in 0 .. MaxChunks
    /\ pos \in [End -> 0 .. MaxChunks]
    /\ copy \in [End -> CopySteps]
    /\ done \in 0 .. 2
    /\ conn \in ConnSteps
    /\ closes \in 0 .. 1
    /\ got \in [End -> Seq(1 .. MaxChunks)]
    /\ eof \in [End -> BOOLEAN]

\* What reaches the other side is what was sent, from the first chunk on and in
\* order, the chunks included that the client sent before the proxy answered;
\* and a direction whose copying ended with the end of its stream was delivered
\* whole to an end that is still there (serveTunnel, clientReader, readerConn).
Faithful ==
    \A e \in End :
        /\ \A i \in 1 .. Len(got[e]) : got[e][i] = i
        /\ eof[e] /\ far[Other(e)] # "gone" => Len(got[e]) = sent[e]

\* The handler does not close an intercepted connection under a request: until
\* the connection's own goroutine has closed it, it stays open
\* (singleConnListener.Accept keeps Serve, and with it serveMITMConnect, waiting).
NotCutShort ==
    conn \in {"reading", "handling", "websocket", "closing"} =>
        sock[Client] = "open" /\ hand = "accept"

\* Nothing is left: the handler has returned, no goroutine lives, every socket
\* the proxy owns is closed.
AllReleased ==
    /\ hand = "returned"
    /\ \A e \in End : copy[e] \in {"none", "ended"} /\ sock[e] # "open"
    /\ conn \in {"none", "ended"}

\* One direction of the tunnel is over, the intercepted client is gone, or
\* both ends are.
Over ==
    \/ \E e \in End : copy[e] \in {"sending", "ended"}
    \/ kind = "mitm" /\ far[Client] = "gone"
    \/ \A e \in End : far[e] = "gone"

\* As soon as a connection is over, all of it is given back, whatever the other
\* goroutine is blocked in (serveTunnel, serveMITMConnect, closeNotifyConn).
Released == Over ~> AllReleased
=============================================================================
