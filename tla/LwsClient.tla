------------------------------ MODULE LwsClient ------------------------------
(***************************************************************************)
(* Client connections of a libwebsocket_context (lib/client-handshake.c,   *)
(* lib/client.c): from libwebsocket_client_connect over the proxy, SSL and *)
(* the HTTP handshake to an established websocket, or to its end.          *)
(*                                                                         *)
(* Handlers take a connection's record and return every outcome: the       *)
(* record and what the context's one service_buffer then begins with,      *)
(* which is all that the test of a proxy's answer looks at.  The sweep of  *)
(* the timeouts is in LwsServer; here an expired connection is closed.  No *)
(* extension of this tree routes connections, so WAITING_EXTENSION_CONNECT *)
(* is left out.                                                            *)
(***************************************************************************)
EXTENDS Integers

CONSTANTS Conns,     \* attempts to connect
          Await      \* AWAITING_TIMEOUT in seconds

ASSUME AwaitAssumption == Await \in Nat

VARIABLES
    wsi,      \* struct libwebsocket of each attempt
    proxy,    \* context->http_proxy_port is set
    peer,     \* its socket, as the proxy or the server makes it
    buffer    \* what service_buffer begins with: "200" or "other"

vars == <<wsi, proxy, peer, buffer>>

NewWsi ==
    [mode |-> "none", pending |-> FALSE, limit |-> 0, polled |-> FALSE, pollout |-> FALSE,
     use_ssl |-> FALSE, exts |-> 0, error |-> 0, established |-> 0, closed |-> 0,
     said |-> FALSE, failed |-> FALSE]

Init ==
    /\ wsi = [c \in Conns |-> NewWsi]
    /\ peer = [c \in Conns |-> [net |-> "new", input |-> "none"]]
    /\ proxy \in BOOLEAN /\ buffer = "other"

Out(r, b)           == [r |-> r, buffer |-> b]
SetTimeout(r, secs) == [r EXCEPT !.pending = TRUE, !.limit = secs]
NoTimeout(r)        == [r EXCEPT !.pending = FALSE, !.limit = 0]

-----------------------------------------------------------------------------
(* Closing *)

ReportsErrorAgain(r) ==
    r.mode \in {"WAITING_CONNECT", "ISSUE_HANDSHAKE", "WAITING_SERVER_REPLY"}

\* libwebsocket_close_and_free_session without a status; the application hears
\* of an attempt that ends in these two modes only, and of the end of a
\* connection that was established.
ReportsError(r) == r.mode \in {"WAITING_CONNECT", "ISSUE_HANDSHAKE"}

Close(r) ==
    [NewWsi EXCEPT
        !.mode = "DEAD", !.use_ssl = r.use_ssl, !.established = r.established, !.said = r.said, !.failed = r.failed,
        !.error = r.error + IF ReportsError(r) THEN 1 ELSE 0,
        !.closed = r.closed + IF r.mode \in {"WS_CLIENT", "CLOSE_ACK"} THEN 1 ELSE 0]

-----------------------------------------------------------------------------
(* libwebsocket_client_connect_2, entered again each time the socket may   *)
(* have become connected.                                                  *)

\* oom4: the wsi is freed but not taken out of the poll table.
Oom4(r) == [r EXCEPT !.mode = "freed"]

OpenSocketUntimed(r) == [r EXCEPT !.mode = "WAITING_CONNECT", !.polled = TRUE]

\* A new socket is polled from now on, under a timeout.
OpenSocket(r) ==
    SetTimeout([r EXCEPT !.mode = "WAITING_CONNECT", !.polled = TRUE], Await)

Refused(r) == Close(r)

\* A connect in progress ends with POLLOUT.
Connecting(r) == [r EXCEPT !.pollout = TRUE]

\* Connected to the proxy: ask it to connect.
AskProxy(r) ==
    {Out(SetTimeout([r EXCEPT !.mode = "WAITING_PROXY_REPLY"], Await), "other"),
     Out(Close(r), "other")}

\* libwebsockets_generate_client_handshake, for the record r: a random key and
\* what the application adds.  Without random bytes the wsi is closed.
GenerateHandshake(r) == {r, Close(r)}

\* ISSUE_HANDSHAKE2: the request, put into the service buffer, is written, or
\* the socket fails, or cannot take it now; then it is not sent again, and the
\* code waits for the answer all the same.
Written(r) ==
    LET sent == SetTimeout([r EXCEPT !.mode = "WAITING_SERVER_REPLY"], Await)
    IN  {sent, [sent EXCEPT !.pollout = TRUE], Close(r)}

Handshake2(r) ==
    LET issued == [r EXCEPT !.mode = "ISSUE_HANDSHAKE2"]
    IN  {Out(w, "other") : w \in
            UNION {IF g.mode = "DEAD" THEN {g} ELSE Written(g) : g \in GenerateHandshake(issued)}}

\* What SSL_connect comes to: done, to be tried again when writeable, an error
\* that is only logged, or one that leaves no error code and passes for done,
\* after which writing the request fails.
SslRetry(r, b) == Out([r EXCEPT !.mode = "WAITING_SSL", !.pollout = TRUE], b)
SslError(r)    == Out(r, "other")

\* SSL_get_verify_result: a certificate that is not accepted closes.
Verified(r, b) == Handshake2(r) \cup {Out(Close(r), b)}

SslConnect(r, b) == {SslRetry(r, b), SslError(r)} \cup Verified(r, b)

\* ISSUE_HANDSHAKE: POLLOUT was for the connect.
IssueHandshake(r, b) ==
    LET quiet == [r EXCEPT !.pollout = FALSE]
    IN  IF r.use_ssl THEN SslConnect(quiet, b) ELSE Handshake2(quiet)

\* Connected to the server: the handshake is issued at once.
Connected(r, b) ==
    IF proxy THEN AskProxy(r)
    ELSE IssueHandshake(SetTimeout([r EXCEPT !.mode = "ISSUE_HANDSHAKE"], Await), b)

\* The name is resolved each time, and the CONNECT line put into the buffer.
Connect2(r, net, b) ==
    LET line == IF proxy THEN "other" ELSE b
        open == IF r.polled THEN r ELSE OpenSocket(r)
    IN  {Out(Oom4(r), line)} \cup
        CASE net = "refused" -> {Out(Refused(open), line)}
          [] net = "up"      -> Connected(open, line)
          [] OTHER           -> {Out(Connecting(open), line)}

-----------------------------------------------------------------------------
(* lws_client_socket_service by mode *)

AnswersUnread(input, b) == {"200"}

\* WAITING_PROXY_REPLY: the answer is what the buffer begins with, which after
\* an end of file is still somebody else's.  A good one clears the timeout and
\* falls through to ISSUE_HANDSHAKE.  POLLOUT, left on from the connect, finds
\* nothing to read (EAGAIN).
Answers(input, b) == IF input = "eof" THEN {b} ELSE {"200", "other"}

ProxyReply(r, input, b) ==
    {Out(Close(r), b)} \cup
    IF input = "none" THEN {Out(r, b)}
    ELSE UNION {IF a = "200"
                THEN IssueHandshake(NoTimeout([r EXCEPT !.said = input # "eof"]), a)
                ELSE {Out(Close(r), a)} : a \in Answers(input, b)}

\* WAITING_SSL goes on with SSL_connect.
WaitingSsl(r, b) == SslConnect(r, b)

\* Headers the server must have sent; their lack is an error without a close
\* status.
Replies == {"noHeader", "badProtocol", "unknownProtocol", "badExtension", "badAccept",
            "noMemory", "noSockopt", "good"}

\* bail2 and bail3 of lws_client_interpret_server_handshake: the application
\* is told, unless the server chose a protocol that the context has not.
Bailed(r, told) == Close([r EXCEPT !.error = IF told THEN 1 ELSE 0])

\* Extensions are instantiated as they are met in the answer.
Instantiated(r) == [r EXCEPT !.exts = 1]

\* The wsi becomes a websocket; its buffers may still fail, when the mode has
\* already changed, so that a close (with a status in the first case) follows.
Upgraded(r) == NoTimeout([r EXCEPT !.mode = "WS_CLIENT"])

Interpret(r, reply) ==
    CASE reply \in {"noHeader", "badProtocol"} -> Bailed(r, TRUE)
      [] reply = "unknownProtocol" -> Bailed(r, FALSE)
      [] reply \in {"badExtension", "badAccept"} -> Bailed(Instantiated(r), TRUE)
      [] reply = "noMemory"  -> SetTimeout([Upgraded(r) EXCEPT !.mode = "CLOSE_ACK",
                                                !.error = 1, !.failed = TRUE], 1)
      [] reply = "noSockopt" -> Close([Upgraded(r) EXCEPT !.error = 1, !.failed = TRUE])
      [] OTHER -> [Upgraded(Instantiated(r)) EXCEPT !.established = 1]

\* WAITING_SERVER_REPLY: a hangup or a bad header closes in silence; input is
\* taken byte by byte until the headers are complete.
ServerReply(r, input) ==
    IF input = "none" THEN {r}
    ELSE {Close(r)} \cup
         IF input = "eof" THEN {} ELSE {r} \cup {Interpret(r, reply) : reply \in Replies}

\* A websocket: end of file, or the application's refusal, closes.
ClientRead(r, input) == IF input = "eof" THEN {Close(r)} ELSE {r, Close(r)}

Handlers(r, p, b) ==
    CASE r.mode = "WAITING_CONNECT"      -> Connect2(r, p.net, b)
      [] r.mode = "WAITING_PROXY_REPLY"  -> ProxyReply(r, p.input, b)
      [] r.mode = "ISSUE_HANDSHAKE"      -> IssueHandshake(r, b)
      [] r.mode = "WAITING_SSL"          -> WaitingSsl(r, b)
      [] r.mode = "WAITING_SERVER_REPLY" -> {Out(s, b) : s \in ServerReply(r, p.input)}
      [] OTHER                           -> {Out(s, b) : s \in ClientRead(r, p.input)}

-----------------------------------------------------------------------------
(* Actions *)

Live(c) == wsi[c].mode \notin {"none", "DEAD", "freed"}

\* libwebsocket_client_connect; whatever it cannot allocate or resolve, it
\* returns NULL before anything is polled.
ClientConnect(c) ==
    /\ wsi[c].mode = "none"
    /\ \E s \in BOOLEAN : \E o \in Connect2([NewWsi EXCEPT !.use_ssl = s], peer[c].net, buffer) :
          wsi' = [wsi EXCEPT ![c] = o.r] /\ buffer' = o.buffer
    /\ UNCHANGED <<peer, proxy>>

\* Input, or POLLOUT where the mode asked for it.
Ready(c) ==
    \/ peer[c].input # "none"
    \/ wsi[c].pollout /\ peer[c].net # "slow"

\* libwebsocket_service_fd for a client's socket.
Service(c) ==
    /\ Live(c) /\ wsi[c].polled /\ Ready(c)
    /\ \E o \in Handlers(wsi[c], peer[c], buffer) :
          wsi' = [wsi EXCEPT ![c] = o.r] /\ buffer' = o.buffer
    /\ peer' = [peer EXCEPT ![c].input = IF @ = "data" /\ wsi[c].mode # "WAITING_CONNECT"
                                         THEN "none" ELSE @]
    /\ UNCHANGED proxy

Expired(c) == Live(c) /\ wsi[c].pending /\ wsi[c].limit < 0

TimeoutCheck(c) ==
    /\ Expired(c) /\ wsi' = [wsi EXCEPT ![c] = Close(@)] /\ UNCHANGED <<peer, proxy, buffer>>

Tick ==
    /\ \E c \in Conns : Live(c) /\ wsi[c].pending /\ wsi[c].limit >= 0
    /\ wsi' = [c \in Conns |-> IF wsi[c].pending /\ wsi[c].limit >= 0
                               THEN [wsi[c] EXCEPT !.limit = @ - 1] ELSE wsi[c]]
    /\ UNCHANGED <<peer, proxy, buffer>>

\* The network and the other side.
NetConnect(c) ==
    /\ peer[c].net \in {"new", "slow"}
    /\ \E s \in {"slow", "up", "refused"} \ {peer[c].net} : peer' = [peer EXCEPT ![c].net = s]
    /\ UNCHANGED <<wsi, proxy, buffer>>

PeerSend(c) ==
    /\ Live(c) /\ peer[c].net = "up" /\ peer[c].input = "none"
    /\ \E i \in {"data", "eof"} : peer' = [peer EXCEPT ![c].input = i]
    /\ UNCHANGED <<wsi, proxy, buffer>>

Next ==
    \/ Tick
    \/ \E c \in Conns : \/ ClientConnect(c) \/ Service(c) \/ TimeoutCheck(c)
                        \/ NetConnect(c) \/ PeerSend(c)

\* The context is serviced and time passes; nothing is asked of the other side.
Fairness == WF_vars(Tick) /\ \A c \in Conns : WF_vars(TimeoutCheck(c)) /\ WF_vars(Service(c))

Spec == Init /\ [][Next]_vars /\ Fairness

-----------------------------------------------------------------------------
(* Properties *)

\* The application never hears of an error and of a close for the same
\* attempt, except when buffers failed after the upgrade; never of a close
\* without having been told one of both before; and an established connection
\* that is dead was reported closed.
CallbacksConsistent ==
    \A c \in Conns :
        LET r == wsi[c] IN
        /\ r.error + r.established <= 1 /\ r.closed <= r.error + r.established
        /\ r.error = 1 /\ r.closed = 1 => r.failed
        /\ r.mode = "DEAD" /\ r.established = 1 => r.closed = 1

\* Talking to the server through a proxy starts after the proxy said 200 on
\* this connection, or hung up while the answer it gave another one was still
\* in the service buffer.
ProxyAgreed ==
    proxy => \A c \in Conns :
        wsi[c].mode \in {"WAITING_SSL", "WAITING_SERVER_REPLY", "WS_CLIENT"} =>
            wsi[c].said \/ (\E d \in Conns \ {c} : wsi[d].said)

\* Every attempt ends, established or closed, however the other side stalls:
\* a timeout covers each wait, but for an SSL connection through a proxy, and
\* for one freed when its name was resolved again.
EveryAttemptEnds ==
    \A c \in Conns : Live(c) ~> (~Live(c) \/ wsi[c].established = 1 \/ (proxy /\ wsi[c].use_ssl))
=============================================================================
