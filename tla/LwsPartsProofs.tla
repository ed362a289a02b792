--------------------------- MODULE LwsPartsProofs ---------------------------
(***************************************************************************)
(* The client connections of libwebsockets, for any number of attempts     *)
(* that share one service buffer and any timeout: what the application is  *)
(* told fits together, a proxy was asked before its server, and no attempt *)
(* waits without a timeout.                                                *)
(*                                                                         *)
(* And, for PartsProofs, the inductive invariants of three of the          *)
(* sequential parts: HTTP/2, which answers settings in their order and     *)
(* forgets no stream that waits to write, the test programs with their     *)
(* counts, and the request parser with its table of fragments.             *)
(***************************************************************************)
EXTENDS LwsClient, Http2, TestPrograms, HeaderParser, FiniteSetTheorems, SequenceTheorems,
        WellFoundedInduction, TLAPS

-----------------------------------------------------------------------------
(* Client connections: the inductive invariant.                             *)

\* Modes before the connection is a websocket, and modes in which the socket
\* of an attempt is or was used to talk to the server, which no attempt leaves
\* for others.
Early   == {"none", "WAITING_CONNECT", "WAITING_PROXY_REPLY", "ISSUE_HANDSHAKE", "WAITING_SSL",
            "WAITING_SERVER_REPLY"}
Talking == {"WAITING_SSL", "WAITING_SERVER_REPLY", "WS_CLIENT"}
Beyond  == Talking \cup {"CLOSE_ACK", "DEAD"}
Modes   == Early \cup Beyond \cup {"ISSUE_HANDSHAKE2", "freed"}

\* struct libwebsocket of a client.
Wsi == [mode : Modes, pending : BOOLEAN, limit : Int, polled : BOOLEAN, pollout : BOOLEAN,
        use_ssl : BOOLEAN, exts : 0 .. 1, error : 0 .. 1, established : 0 .. 1, closed : 0 .. 1,
        said : BOOLEAN, failed : BOOLEAN]

\* Nothing was told of the attempt yet.
Untold(r) == r.error = 0 /\ r.established = 0 /\ r.closed = 0

\* What was told of a connection in each of its modes.
Told(r) ==
    /\ r.mode # "ISSUE_HANDSHAKE2"
    /\ r.mode \in Early \cup {"freed"} => Untold(r)
    /\ r.mode = "WS_CLIENT" => r.established = 1 /\ r.error = 0 /\ r.closed = 0
    /\ r.mode = "CLOSE_ACK" => r.established = 0 /\ r.error = 1 /\ r.closed = 0 /\ r.failed
    /\ r.mode = "DEAD" => /\ r.error + r.established <= 1 /\ r.closed <= r.error + r.established
                          /\ r.error = 1 /\ r.closed = 1 => r.failed
                          /\ r.established = 1 => r.closed = 1

\* A wait is under a timeout.
Timed(r) ==
    r.mode \notin {"none", "DEAD", "freed"} /\ r.established = 0 => r.pending \/ (proxy /\ r.use_ssl)

\* A connection between two steps.
Sound(r) == /\ r \in Wsi /\ Told(r) /\ Timed(r)
            /\ r.mode = "WAITING_SSL" => r.use_ssl
            /\ IF proxy THEN r.mode # "ISSUE_HANDSHAKE" ELSE r.mode # "WAITING_PROXY_REPLY"

\* The proxy has agreed on this connection, for good.
Firm(r) == r.said /\ r.mode \in Beyond

\* An agreement in the buffer, and one that a connection relies on, was given to
\* a connection that will not ask the proxy again.
Agreed ==
    proxy => /\ buffer = "200" => \E d \in Conns : Firm(wsi[d])
             /\ \A c \in Conns : wsi[c].mode \in Talking =>
                    wsi[c].said \/ \E d \in Conns \ {c} : Firm(wsi[d])

\* The context, and the sockets as the network makes them.
Typed == proxy \in BOOLEAN /\ buffer \in {"200", "other"} /\ wsi = [c \in Conns |-> wsi[c]]
Peered == peer \in [Conns -> [net : {"new", "slow", "up", "refused"}, input : {"none", "data", "eof"}]]

\* The inductive invariant of all attempts.
ClientInv == Typed /\ (\A c \in Conns : Sound(wsi[c])) /\ Agreed

-----------------------------------------------------------------------------
(* Handlers.                                                                *)

\* What a handler may make of a connection r with b in the buffer.
Proper(r, b, o) ==
    /\ Sound(o.r) /\ o.buffer \in {"200", "other"}
    /\ proxy => /\ r.mode \in Beyond => o.r.mode \in Beyond /\ o.r.said = r.said
                /\ o.r.mode \in Talking => \/ r.mode \in Talking \/ o.r.said
                                           \/ b = "200" /\ r.mode \notin Beyond
                /\ o.buffer = "200" => b = "200" \/ Firm(o.r)

\* The connection that a close leaves.
LEMMA Closing ==
    ASSUME NEW r \in Wsi, r.error + (IF ReportsError(r) THEN 1 ELSE 0) \in 0 .. 1,
           r.closed + (IF r.mode \in {"WS_CLIENT", "CLOSE_ACK"} THEN 1 ELSE 0) \in 0 .. 1
    PROVE  /\ Close(r) \in Wsi /\ Close(r).mode = "DEAD"
           /\ Close(r).use_ssl = r.use_ssl /\ Close(r).said = r.said /\ Close(r).failed = r.failed
           /\ Close(r).established = r.established
           /\ Close(r).error = r.error + (IF ReportsError(r) THEN 1 ELSE 0)
           /\ Close(r).closed = r.closed + (IF r.mode \in {"WS_CLIENT", "CLOSE_ACK"} THEN 1 ELSE 0)
<1> DEFINE e == r.error + (IF ReportsError(r) THEN 1 ELSE 0)
           k == r.closed + (IF r.mode \in {"WS_CLIENT", "CLOSE_ACK"} THEN 1 ELSE 0)
<1>1. e \in 0 .. 1 /\ k \in 0 .. 1
  OBVIOUS
<1>2. Close(r) = [NewWsi EXCEPT !.mode = "DEAD", !.use_ssl = r.use_ssl, !.established = r.established,
                                !.said = r.said, !.failed = r.failed, !.error = e, !.closed = k]
  BY DEF Close
<1>3. "DEAD" \in Modes
  BY DEF Modes, Beyond
<1>4. NewWsi \in Wsi
  BY DEF NewWsi, Wsi, Modes, Early
<1> HIDE DEF e, k
<1>5. /\ Close(r) \in Wsi /\ Close(r).mode = "DEAD"
      /\ Close(r).use_ssl = r.use_ssl /\ Close(r).said = r.said /\ Close(r).failed = r.failed
      /\ Close(r).established = r.established /\ Close(r).error = e /\ Close(r).closed = k
  BY <1>1, <1>2, <1>3, <1>4 DEF Wsi
<1> QED BY <1>5 DEF e, k

\* Closing an attempt of which nothing was told.
LEMMA ClosingEarly ==
    ASSUME NEW r \in Wsi, Untold(r), r.mode \notin {"WS_CLIENT", "CLOSE_ACK"}
    PROVE  Sound(Close(r)) /\ Close(r).mode = "DEAD" /\ Close(r).said = r.said
<1>1. /\ Close(r) \in Wsi /\ Close(r).mode = "DEAD" /\ Close(r).said = r.said
      /\ Close(r).established = 0 /\ Close(r).closed = 0 /\ Close(r).error \in 0 .. 1
  BY Closing DEF Untold
<1> QED BY <1>1 DEF Sound, Told, Timed, Early

\* Closing a connection between two steps.
LEMMA ClosingSound ==
    ASSUME NEW r, Sound(r), r.mode \notin {"DEAD", "freed"}
    PROVE  Sound(Close(r)) /\ Close(r).mode = "DEAD" /\ Close(r).said = r.said
<1>1. r \in Wsi /\ Told(r)
  BY DEF Sound
<1>2. CASE r.mode \in Early
  BY <1>1, <1>2, ClosingEarly DEF Told, Early
<1>3. CASE r.mode = "WS_CLIENT"
  <2>1. /\ Close(r) \in Wsi /\ Close(r).mode = "DEAD" /\ Close(r).said = r.said
        /\ Close(r).established = 1 /\ Close(r).closed = 1 /\ Close(r).error = 0
    BY <1>1, <1>3, Closing DEF Told, ReportsError
  <2> QED BY <2>1 DEF Sound, Told, Timed, Early
<1>4. CASE r.mode = "CLOSE_ACK"
  <2>1. /\ Close(r) \in Wsi /\ Close(r).mode = "DEAD" /\ Close(r).said = r.said /\ Close(r).failed
        /\ Close(r).established = 0 /\ Close(r).closed = 1 /\ Close(r).error = 1
    BY <1>1, <1>4, Closing DEF Told, ReportsError
  <2> QED BY <2>1 DEF Sound, Told, Timed, Early
<1>5. r.mode \in Modes
  BY <1>1 DEF Wsi
<1> QED BY <1>1, <1>2, <1>3, <1>4, <1>5 DEF Told, Modes, Beyond, Talking, Early

\* The close of a connection between two steps is a proper outcome.
LEMMA ClosingProper ==
    ASSUME NEW r, Sound(r), r.mode \notin {"DEAD", "freed"}, NEW b \in {"200", "other"}
    PROVE  Proper(r, b, Out(Close(r), b)) /\ Proper(r, b, Out(Close(r), "other"))
<1>1. Sound(Close(r)) /\ Close(r).mode = "DEAD" /\ Close(r).said = r.said
  BY ClosingSound
<1> QED BY <1>1 DEF Proper, Out, Beyond, Talking

\* What setting and clearing a timeout leaves as it was.
SameTold(r, s) ==
    /\ s.mode = r.mode /\ s.error = r.error /\ s.established = r.established /\ s.closed = r.closed
    /\ s.said = r.said /\ s.use_ssl = r.use_ssl /\ s.failed = r.failed

\* libwebsocket_set_timeout.
LEMMA Timeouts ==
    ASSUME NEW r \in Wsi
    PROVE  /\ NoTimeout(r) \in Wsi /\ SameTold(r, NoTimeout(r))
           /\ \A secs \in Nat : /\ SetTimeout(r, secs) \in Wsi /\ SameTold(r, SetTimeout(r, secs))
                                /\ SetTimeout(r, secs).pending
<1>0. 0 \in Int /\ \A secs \in Nat : secs \in Int
  OBVIOUS
<1>1. ASSUME NEW l \in Int, NEW p \in BOOLEAN
      PROVE  LET s == [r EXCEPT !.pending = p, !.limit = l]
             IN  s \in Wsi /\ SameTold(r, s) /\ s.pending = p
  <2> DEFINE t == [r EXCEPT !.pending = p]
             s == [t EXCEPT !.limit = l]
  <2>1. t \in Wsi /\ SameTold(r, t) /\ t.pending = p
    BY DEF Wsi, SameTold
  <2> HIDE DEF t
  <2>2. s \in Wsi /\ SameTold(t, s) /\ s.pending = t.pending
    BY <2>1 DEF Wsi, SameTold
  <2>3. SameTold(r, s) /\ s.pending = p
    BY <2>1, <2>2 DEF SameTold
  <2> QED BY <2>2, <2>3 DEF t
<1>2. NoTimeout(r) \in Wsi /\ SameTold(r, NoTimeout(r))
  BY <1>0, <1>1 DEF NoTimeout
<1>3. ASSUME NEW secs \in Nat
      PROVE  /\ SetTimeout(r, secs) \in Wsi /\ SameTold(r, SetTimeout(r, secs))
             /\ SetTimeout(r, secs).pending
  BY <1>0, <1>1 DEF SetTimeout
<1> QED BY <1>2, <1>3

\* Going on with SSL and the request, from a connection of which nothing was
\* told.
Issued(r, b, o) ==
    /\ o.r \in Wsi /\ Told(o.r) /\ o.r.said = r.said /\ o.r.use_ssl = r.use_ssl
    /\ o.buffer \in {b, "other"}
    /\ \/ o.r.mode = "DEAD"
       \/ o.r.mode = "WAITING_SERVER_REPLY" /\ o.r.pending
       \/ o.r.mode = "WAITING_SSL" /\ r.use_ssl /\ o.r.pending = r.pending
       \/ o.r.mode = r.mode /\ r.use_ssl /\ o.r.pending = r.pending /\ o.buffer = "other"

\* ISSUE_HANDSHAKE2 leaves the attempt waiting for the answer, or closed.
LEMMA Handshake2Outcome ==
    ASSUME NEW r \in Wsi, Untold(r), r.mode \notin {"WS_CLIENT", "CLOSE_ACK"}, NEW b,
           NEW o \in Handshake2(r)
    PROVE  Issued(r, b, o)
<1> DEFINE g == [r EXCEPT !.mode = "ISSUE_HANDSHAKE2"]
           s == [g EXCEPT !.mode = "WAITING_SERVER_REPLY", !.pending = TRUE, !.limit = Await]
<1>1. g \in Wsi /\ Untold(g) /\ g.mode = "ISSUE_HANDSHAKE2" /\ g.said = r.said /\ g.use_ssl = r.use_ssl
  BY DEF Wsi, Untold, Modes
<1>2. /\ Close(g) \in Wsi /\ Told(Close(g)) /\ Close(g).mode = "DEAD"
      /\ Close(g).said = r.said /\ Close(g).use_ssl = r.use_ssl
  <2>1. Close(g).use_ssl = g.use_ssl
    BY DEF Close, NewWsi
  <2> QED BY <1>1, <2>1, ClosingEarly DEF Sound
<1> HIDE DEF g
<1>3. ASSUME NEW t \in {s, [s EXCEPT !.pollout = TRUE]}
      PROVE  /\ t \in Wsi /\ Told(t) /\ t.mode = "WAITING_SERVER_REPLY" /\ t.pending
             /\ t.said = r.said /\ t.use_ssl = r.use_ssl
  <2>1. /\ s \in Wsi /\ Untold(s) /\ s.mode = "WAITING_SERVER_REPLY" /\ s.pending
        /\ s.said = r.said /\ s.use_ssl = r.use_ssl
    <3>1. "WAITING_SERVER_REPLY" \in Modes /\ Await \in Int
      BY AwaitAssumption DEF Modes, Early
    <3>2. s \in Wsi
      BY <1>1, <3>1 DEF Wsi
    <3>3. /\ s.mode = "WAITING_SERVER_REPLY" /\ s.pending /\ s.said = g.said /\ s.use_ssl = g.use_ssl
          /\ s.error = g.error /\ s.established = g.established /\ s.closed = g.closed
      BY <1>1 DEF Wsi
    <3> QED BY <1>1, <3>2, <3>3 DEF Untold
  <2> HIDE DEF s
  <2>2. /\ t \in Wsi /\ Untold(t) /\ t.mode = "WAITING_SERVER_REPLY" /\ t.pending
        /\ t.said = r.said /\ t.use_ssl = r.use_ssl
    BY <1>3, <2>1, ZenonT(30) DEF Wsi, Untold
  <2> QED BY <2>2 DEF Told
<1>4. PICK w \in {s, [s EXCEPT !.pollout = TRUE], Close(g)} : o = Out(w, "other")
  <2>2. PICK h \in GenerateHandshake(g) :
            \E w \in IF h.mode = "DEAD" THEN {h} ELSE Written(h) : o = Out(w, "other")
    BY DEF Handshake2, g
  <2>3. CASE h = g
    BY <1>1, <2>2, <2>3 DEF Written, SetTimeout
  <2>4. CASE h = Close(g)
    BY <1>2, <2>2, <2>4
  <2> QED BY <2>2, <2>3, <2>4 DEF GenerateHandshake
<1> QED BY <1>2, <1>3, <1>4 DEF Issued, Out

\* SSL_connect leaves it as it was, to be tried again, or past ISSUE_HANDSHAKE2.
LEMMA SslConnectOutcome ==
    ASSUME NEW r \in Wsi, Untold(r), r.mode \in {"WAITING_PROXY_REPLY", "ISSUE_HANDSHAKE", "WAITING_SSL"},
           r.use_ssl, NEW b, NEW o \in SslConnect(r, b)
    PROVE  Issued(r, b, o)
<1>1. CASE o = SslRetry(r, b)
  <2> DEFINE s == [r EXCEPT !.mode = "WAITING_SSL", !.pollout = TRUE]
  <2>1. /\ s \in Wsi /\ Untold(s) /\ s.mode = "WAITING_SSL" /\ s.pending = r.pending
        /\ s.said = r.said /\ s.use_ssl = r.use_ssl
    BY DEF Wsi, Untold, Modes, Early
  <2>2. o = [r |-> s, buffer |-> b]
    BY <1>1 DEF SslRetry, Out
  <2> HIDE DEF s
  <2> QED BY <2>1, <2>2 DEF Issued, Told
<1>2. CASE o = SslError(r)
  BY <1>2 DEF SslError, Out, Issued, Told, Untold, Early
<1>3. CASE o \in Handshake2(r)
  BY <1>3, Handshake2Outcome
<1>4. CASE o = Out(Close(r), b)
  <2>1. Close(r).use_ssl = r.use_ssl
    BY DEF Close, NewWsi
  <2>2. Close(r) \in Wsi /\ Told(Close(r)) /\ Close(r).mode = "DEAD" /\ Close(r).said = r.said
    BY ClosingEarly DEF Sound
  <2> QED BY <1>4, <2>1, <2>2 DEF Issued, Out
<1> QED BY <1>1, <1>2, <1>3, <1>4 DEF SslConnect, Verified

\* So does ISSUE_HANDSHAKE.
LEMMA IssueHandshakeOutcome ==
    ASSUME NEW r \in Wsi, Untold(r), r.mode \in {"WAITING_PROXY_REPLY", "ISSUE_HANDSHAKE"},
           NEW b, NEW o \in IssueHandshake(r, b)
    PROVE  Issued(r, b, o)
<1> DEFINE q == [r EXCEPT !.pollout = FALSE]
<1>1. /\ q \in Wsi /\ Untold(q) /\ q.mode = r.mode /\ q.pending = r.pending
      /\ q.said = r.said /\ q.use_ssl = r.use_ssl
  BY DEF Wsi, Untold
<1>2. IF r.use_ssl THEN o \in SslConnect(q, b) ELSE o \in Handshake2(q)
  BY DEF IssueHandshake
<1> HIDE DEF q
<1>3. Issued(q, b, o)
  BY <1>1, <1>2, SslConnectOutcome, Handshake2Outcome
<1> QED BY <1>1, <1>3 DEF Issued

\* WAITING_PROXY_REPLY: the request goes out only after a 200 that was read here,
\* or is another's.
LEMMA ProxyReplyProper ==
    ASSUME NEW r, Sound(r), r.mode = "WAITING_PROXY_REPLY", NEW b \in {"200", "other"},
           NEW input \in {"none", "data", "eof"}, NEW o \in ProxyReply(r, input, b)
    PROVE  Proper(r, b, o)
<1>1. r \in Wsi /\ Untold(r) /\ proxy
  BY DEF Sound, Told, Early
<1>2. CASE o = Out(r, b)
  BY <1>2 DEF Proper, Out, Beyond, Talking
<1>3. ASSUME NEW a \in {"200", "other"}, a = "200" => b = "200" , o = Out(Close(r), a) PROVE Proper(r, b, o)
  BY <1>3, ClosingProper
<1>4. ASSUME input # "none", NEW a \in Answers(input, b), a = "200",
             o \in IssueHandshake(NoTimeout([r EXCEPT !.said = input # "eof"]), a)
      PROVE  Proper(r, b, o)
  <2> DEFINE s == NoTimeout([r EXCEPT !.said = input # "eof"])
  <2>1. s \in Wsi /\ Untold(s) /\ s.mode = "WAITING_PROXY_REPLY" /\ (s.said <=> input # "eof")
    <3> DEFINE b0 == input # "eof"
    <3>1. b0 \in BOOLEAN
      OBVIOUS
    <3> HIDE DEF b0
    <3> DEFINE t == [r EXCEPT !.said = b0]
    <3>2. t \in Wsi /\ Untold(t) /\ t.mode = "WAITING_PROXY_REPLY" /\ t.said = b0
      BY <1>1, <3>1 DEF Wsi, Untold
    <3> HIDE DEF t
    <3>3. s = NoTimeout(t)
      BY DEF t, b0
    <3>4. s \in Wsi /\ SameTold(t, s)
      BY <3>2, <3>3, Timeouts
    <3> QED BY <3>2, <3>4 DEF b0, Untold, SameTold
  <2> HIDE DEF s
  <2>2. Issued(s, a, o)
    BY <1>4, <2>1, IssueHandshakeOutcome DEF s
  <2>3. s.said \/ b = "200"
    BY <1>4, <2>1 DEF Answers
  <2>4. Sound(o.r) /\ o.buffer \in {"200", "other"}
    BY <1>1, <1>4, <2>1, <2>2 DEF Issued, Sound, Timed
  <2>5. o.r.mode \in Beyond \/ o.buffer = "other"
    BY <2>2 DEF Issued, Beyond, Talking
  <2>6. o.r.said = s.said
    BY <2>2 DEF Issued
  <2> QED BY <2>3, <2>4, <2>5, <2>6 DEF Proper, Firm, Beyond, Talking
<1>5. Answers(input, b) \subseteq {"200", "other"}
  BY DEF Answers
<1> QED BY <1>2, <1>3, <1>4, <1>5 DEF ProxyReply

\* WAITING_SSL goes on as ISSUE_HANDSHAKE does.
LEMMA WaitingSslProper ==
    ASSUME NEW r, Sound(r), r.mode = "WAITING_SSL", NEW b \in {"200", "other"}, NEW o \in WaitingSsl(r, b)
    PROVE  Proper(r, b, o)
<1>1. r \in Wsi /\ Untold(r) /\ r.use_ssl /\ Timed(r)
  BY DEF Sound, Told, Early
<1>2. Issued(r, b, o)
  BY <1>1, SslConnectOutcome DEF WaitingSsl
<1>3. Sound(o.r) /\ o.buffer \in {b, "other"}
  <2>1. o.r \in Wsi /\ Told(o.r) /\ o.r.use_ssl = r.use_ssl
    BY <1>2 DEF Issued
  <2>2. r.established = 0
    BY <1>1 DEF Untold
  <2> QED BY <1>1, <1>2, <2>1, <2>2 DEF Issued, Sound, Timed
<1> QED BY <1>2, <1>3 DEF Issued, Proper, Firm, Beyond, Talking

\* ISSUE_HANDSHAKE is left without a proxy only.
LEMMA IssueHandshakeProper ==
    ASSUME NEW r, Sound(r), r.mode = "ISSUE_HANDSHAKE", NEW b \in {"200", "other"},
           NEW o \in IssueHandshake(r, b)
    PROVE  Proper(r, b, o)
<1>1. r \in Wsi /\ Untold(r) /\ r.pending /\ ~proxy
  BY DEF Sound, Told, Early, Timed, Untold
<1>2. Issued(r, b, o)
  BY <1>1, IssueHandshakeOutcome
<1> QED BY <1>1, <1>2 DEF Issued, Sound, Timed, Proper

\* The connection in another mode.
LEMMA InMode ==
    ASSUME NEW r \in Wsi, NEW m \in Modes
    PROVE  LET s == [r EXCEPT !.mode = m]
           IN  /\ s \in Wsi /\ s.mode = m /\ s.pending = r.pending
               /\ s.error = r.error /\ s.established = r.established /\ s.closed = r.closed
               /\ s.said = r.said /\ s.use_ssl = r.use_ssl /\ s.failed = r.failed
BY DEF Wsi

\* libwebsocket_client_connect_2 leaves the attempt connecting, asking the proxy,
\* issuing its handshake, closed or freed.
LEMMA Connect2Proper ==
    ASSUME NEW r, Sound(r), r.mode = "WAITING_CONNECT" \/ (r.mode = "none" /\ ~r.polled),
           NEW net, NEW b \in {"200", "other"}, NEW o \in Connect2(r, net, b)
    PROVE  Proper(r, b, o)
<1> DEFINE line == IF proxy THEN "other" ELSE b
           open == IF r.polled THEN r ELSE OpenSocket(r)
<1>1. r \in Wsi /\ Untold(r)
  BY DEF Sound, Told, Early
<1>2. line \in {"200", "other"} /\ (proxy => line = "other")
  OBVIOUS
<1>3. Sound(open) /\ Untold(open) /\ open.mode = "WAITING_CONNECT"
  <2>1. CASE r.polled
    BY <1>1, <2>1
  <2>2. CASE ~r.polled
    <3> DEFINE s == [r EXCEPT !.mode = "WAITING_CONNECT", !.polled = TRUE]
    <3>1. s \in Wsi /\ Untold(s) /\ s.mode = "WAITING_CONNECT"
      BY <1>1 DEF Wsi, Untold, Modes, Early
    <3>2. open = SetTimeout(s, Await)
      BY <2>2 DEF OpenSocket
    <3> HIDE DEF s, open
    <3>3. open \in Wsi /\ SameTold(s, open) /\ open.pending
      BY <3>1, <3>2, Timeouts, AwaitAssumption
    <3> QED BY <3>1, <3>3 DEF Sound, Told, Timed, SameTold, Untold
  <2> QED BY <2>1, <2>2
<1>4. \/ o = Out(Oom4(r), line) \/ o = Out(Refused(open), line) \/ o = Out(Connecting(open), line)
      \/ o \in Connected(open, line)
  BY DEF Connect2
<1> HIDE DEF line, open
<1>5. ASSUME NEW s, Sound(s), s.mode \notin Talking, NEW l \in {line, "other"}, o = Out(s, l)
      PROVE  Proper(r, b, o)
  BY <1>2, <1>5 DEF Proper, Out, Beyond, Talking
<1>6. CASE o = Out(Oom4(r), line)
  <2>1. Sound(Oom4(r)) /\ Oom4(r).mode = "freed"
    BY <1>1, InMode, "freed" \in Modes, ZenonT(30) DEF Oom4, Sound, Told, Timed, Untold, Early, Beyond, Talking, Modes
  <2> QED BY <1>5, <1>6, <2>1 DEF Talking
<1>7. Sound(Close(open)) /\ Close(open).mode = "DEAD"
  BY <1>3, ClosingSound
<1>8. CASE o = Out(Refused(open), line)
  BY <1>5, <1>7, <1>8 DEF Refused, Talking
<1>9. CASE o = Out(Connecting(open), line)
  <2>1. Sound(Connecting(open)) /\ Connecting(open).mode = "WAITING_CONNECT"
    BY <1>3 DEF Connecting, Sound, Wsi, Told, Timed, Untold
  <2> QED BY <1>5, <1>9, <2>1 DEF Talking
<1>10. CASE o \in Connected(open, line) /\ proxy
  <2> DEFINE s == [open EXCEPT !.mode = "WAITING_PROXY_REPLY"]
  <2>1. s \in Wsi /\ Untold(s) /\ s.mode = "WAITING_PROXY_REPLY"
    BY <1>3, InMode DEF Sound, Modes, Early, Untold
  <2>2. o = Out(SetTimeout(s, Await), "other") \/ o = Out(Close(open), "other")
    BY <1>10 DEF Connected, AskProxy
  <2> HIDE DEF s
  <2>3. SetTimeout(s, Await) \in Wsi /\ SameTold(s, SetTimeout(s, Await)) /\ SetTimeout(s, Await).pending
    BY <2>1, Timeouts, AwaitAssumption
  <2>4. Sound(SetTimeout(s, Await)) /\ SetTimeout(s, Await).mode = "WAITING_PROXY_REPLY"
    BY <1>10, <2>1, <2>3 DEF Sound, Told, Timed, SameTold, Untold
  <2> QED BY <1>5, <1>7, <2>2, <2>4 DEF Talking
<1>11. CASE o \in Connected(open, line) /\ ~proxy
  <2> DEFINE s == [open EXCEPT !.mode = "ISSUE_HANDSHAKE"]
             t == SetTimeout(s, Await)
  <2>1. s \in Wsi /\ Untold(s) /\ s.mode = "ISSUE_HANDSHAKE"
    BY <1>3, InMode DEF Sound, Modes, Early, Untold
  <2> HIDE DEF s
  <2>2. t \in Wsi /\ SameTold(s, t) /\ t.pending
    BY <2>1, Timeouts, AwaitAssumption
  <2> HIDE DEF t
  <2>3. Sound(t) /\ t.mode = "ISSUE_HANDSHAKE"
    BY <1>11, <2>1, <2>2 DEF Sound, Told, Timed, SameTold, Untold
  <2>4. o \in IssueHandshake(t, line)
    BY <1>11 DEF Connected, s, t
  <2>5. Proper(t, line, o)
    BY <1>2, <2>3, <2>4, IssueHandshakeProper
  <2> QED BY <1>11, <2>5 DEF Proper
<1> QED BY <1>4, <1>6, <1>8, <1>9, <1>10, <1>11

\* lws_client_interpret_server_handshake makes a websocket, or ends the attempt
\* with an error told at most once.
LEMMA InterpretSound ==
    ASSUME NEW r, Sound(r), r.mode = "WAITING_SERVER_REPLY", NEW reply \in Replies
    PROVE  LET s == Interpret(r, reply)
           IN  Sound(s) /\ s.said = r.said /\ s.mode \in {"WS_CLIENT", "CLOSE_ACK", "DEAD"}
<1> DEFINE s == Interpret(r, reply)
           Goal == Sound(s) /\ s.said = r.said /\ s.mode \in {"WS_CLIENT", "CLOSE_ACK", "DEAD"}
           i == [r EXCEPT !.exts = 1]
<1> SUFFICES Goal
  OBVIOUS
<1>1. r \in Wsi /\ Untold(r)
  BY DEF Sound, Told, Early
<1>2. i \in Wsi /\ SameTold(r, i)
  BY <1>1 DEF Wsi, SameTold
<1> HIDE DEF i
<1>3. ASSUME NEW q \in Wsi, SameTold(r, q), NEW e \in 0 .. 1, s = Close([q EXCEPT !.error = e]) PROVE Goal
  <2> DEFINE t == [q EXCEPT !.error = e]
  <2>1. /\ t \in Wsi /\ t.mode = "WAITING_SERVER_REPLY" /\ t.error = e /\ t.closed = 0
        /\ t.established = 0 /\ t.said = r.said
    BY <1>1, <1>3 DEF Wsi, SameTold, Untold
  <2> HIDE DEF t
  <2>2. /\ Close(t) \in Wsi /\ Close(t).mode = "DEAD" /\ Close(t).said = r.said
        /\ Close(t).established = 0 /\ Close(t).error = e /\ Close(t).closed = 0
    BY <2>1, Closing DEF ReportsError
  <2> HIDE DEF s
  <2>3. s = Close(t)
    BY <1>3 DEF t
  <2> QED BY <2>2, <2>3 DEF Sound, Told, Timed, Early
<1>4. ASSUME NEW q \in Wsi, SameTold(r, q)
      PROVE  LET u == Upgraded(q)
             IN  /\ u \in Wsi /\ u.mode = "WS_CLIENT" /\ Untold(u) /\ u.said = r.said
  <2> DEFINE t == [q EXCEPT !.mode = "WS_CLIENT"]
  <2>1. t \in Wsi /\ t.mode = "WS_CLIENT" /\ Untold(t) /\ t.said = r.said
    BY <1>1, <1>4, InMode DEF Modes, Beyond, Talking, SameTold, Untold
  <2> HIDE DEF t
  <2>2. NoTimeout(t) \in Wsi /\ SameTold(t, NoTimeout(t))
    BY <2>1, Timeouts
  <2>3. Upgraded(q) = NoTimeout(t)
    BY DEF Upgraded, t
  <2> QED BY <2>1, <2>2, <2>3 DEF SameTold, Untold
<1>5. SameTold(r, r)
  BY DEF SameTold
<1>6. CASE reply \in {"noHeader", "badProtocol"}
  <2>1. s = Close([r EXCEPT !.error = 1])
    BY <1>6 DEF Interpret, Bailed
  <2>2. 1 \in 0 .. 1
    OBVIOUS
  <2> HIDE DEF s, Goal
  <2> QED BY <1>1, <1>3, <1>5, <2>1, <2>2
<1>7. CASE reply = "unknownProtocol"
  <2>1. s = Close([r EXCEPT !.error = 0])
    BY <1>7 DEF Interpret, Bailed
  <2>2. 0 \in 0 .. 1
    OBVIOUS
  <2> HIDE DEF s, Goal
  <2> QED BY <1>1, <1>3, <1>5, <2>1, <2>2
<1>8. CASE reply \in {"badExtension", "badAccept"}
  <2>1. s = Close([i EXCEPT !.error = 1])
    BY <1>8 DEF Interpret, Bailed, Instantiated, i
  <2>2. 1 \in 0 .. 1
    OBVIOUS
  <2> HIDE DEF s, Goal
  <2> QED BY <1>2, <1>3, <2>1, <2>2
<1>9. CASE reply = "noMemory"
  <2> DEFINE u == Upgraded(r)
             t == [u EXCEPT !.mode = "CLOSE_ACK", !.error = 1, !.failed = TRUE]
  <2>1. u \in Wsi /\ Untold(u) /\ u.said = r.said
    BY <1>1, <1>4, <1>5
  <2> HIDE DEF u
  <2>2. "CLOSE_ACK" \in Modes /\ 1 \in 0 .. 1
    BY DEF Modes, Beyond
  <2>3. t \in Wsi
    BY <2>1, <2>2 DEF Wsi
  <2>4. /\ t.mode = "CLOSE_ACK" /\ t.error = 1 /\ t.failed /\ t.established = u.established
        /\ t.closed = u.closed /\ t.said = u.said
    BY <2>1 DEF Wsi
  <2> HIDE DEF t, s
  <2>5. SetTimeout(t, 1) \in Wsi /\ SameTold(t, SetTimeout(t, 1)) /\ SetTimeout(t, 1).pending
    BY <2>3, Timeouts
  <2>6. s = SetTimeout(t, 1)
    BY <1>9 DEF Interpret, s, t, u
  <2>7. /\ s \in Wsi /\ s.mode = "CLOSE_ACK" /\ s.error = 1 /\ s.failed /\ s.established = 0
        /\ s.closed = 0 /\ s.said = r.said /\ s.pending
    BY <2>1, <2>4, <2>5, <2>6 DEF SameTold, Untold
  <2>8. Sound(s)
    BY <2>7 DEF Sound, Told, Timed, Early
  <2> QED BY <2>7, <2>8
<1>10. CASE reply = "noSockopt"
  <2> DEFINE u == Upgraded(r)
             t == [u EXCEPT !.error = 1, !.failed = TRUE]
  <2>1. u \in Wsi /\ u.mode = "WS_CLIENT" /\ Untold(u) /\ u.said = r.said
    BY <1>1, <1>4, <1>5
  <2> HIDE DEF u
  <2>2. 1 \in 0 .. 1
    OBVIOUS
  <2>3. t \in Wsi
    BY <2>1, <2>2 DEF Wsi
  <2>4. /\ t.mode = "WS_CLIENT" /\ t.error = 1 /\ t.failed /\ t.established = 0
        /\ t.closed = 0 /\ t.said = r.said
    BY <2>1 DEF Wsi, Untold
  <2> HIDE DEF t, s
  <2>5. /\ Close(t) \in Wsi /\ Close(t).mode = "DEAD" /\ Close(t).said = r.said /\ Close(t).failed
        /\ Close(t).established = 0 /\ Close(t).error = 1 /\ Close(t).closed = 1
    BY <2>3, <2>4, Closing DEF ReportsError
  <2>6. s = Close(t)
    BY <1>10 DEF Interpret, s, t, u
  <2>7. Sound(s)
    BY <2>5, <2>6 DEF Sound, Told, Timed, Early
  <2> QED BY <2>5, <2>6, <2>7
<1>11. CASE reply = "good"
  <2> DEFINE u == Upgraded(i)
  <2>1. u \in Wsi /\ u.mode = "WS_CLIENT" /\ Untold(u) /\ u.said = r.said
    BY <1>2, <1>4
  <2>2. s = [u EXCEPT !.established = 1]
    BY <1>11 DEF Interpret, Instantiated, i
  <2> HIDE DEF u, s
  <2>3. /\ s \in Wsi /\ s.mode = "WS_CLIENT" /\ s.established = 1 /\ s.error = 0
        /\ s.closed = 0 /\ s.said = r.said
    BY <2>1, <2>2 DEF Wsi, Untold
  <2>4. Sound(s)
    BY <2>3 DEF Sound, Told, Timed, Early
  <2> QED BY <2>3, <2>4
<1> QED BY <1>6, <1>7, <1>8, <1>9, <1>10, <1>11 DEF Replies

\* WAITING_SERVER_REPLY goes on waiting, closes, or interprets the answer.
LEMMA ServerReplyProper ==
    ASSUME NEW r, Sound(r), r.mode = "WAITING_SERVER_REPLY", NEW input, NEW b \in {"200", "other"},
           NEW s \in ServerReply(r, input)
    PROVE  Proper(r, b, Out(s, b))
<1>1. CASE s = r
  BY <1>1 DEF Proper, Out, Beyond, Talking
<1>2. CASE s = Close(r)
  BY <1>2, ClosingProper
<1>3. ASSUME NEW reply \in Replies, s = Interpret(r, reply) PROVE Proper(r, b, Out(s, b))
  <2>1. Sound(s) /\ s.said = r.said /\ s.mode \in {"WS_CLIENT", "CLOSE_ACK", "DEAD"}
    BY <1>3, InterpretSound
  <2> QED BY <2>1 DEF Proper, Out, Beyond, Talking
<1> QED BY <1>1, <1>2, <1>3 DEF ServerReply

\* libwebsocket_service_fd for whatever mode the connection is in.
LEMMA HandlersProper ==
    ASSUME NEW r, Sound(r), r.mode \notin {"none", "DEAD", "freed"}, NEW p, p.input \in {"none", "data", "eof"},
           NEW b \in {"200", "other"}, NEW o \in Handlers(r, p, b)
    PROVE  Proper(r, b, o)
<1>1. CASE r.mode = "WAITING_CONNECT"
  BY <1>1, Connect2Proper DEF Handlers
<1>2. CASE r.mode = "WAITING_PROXY_REPLY"
  BY <1>2, ProxyReplyProper DEF Handlers
<1>3. CASE r.mode = "ISSUE_HANDSHAKE"
  BY <1>3, IssueHandshakeProper DEF Handlers
<1>4. CASE r.mode = "WAITING_SSL"
  BY <1>4, WaitingSslProper DEF Handlers
<1>5. CASE r.mode = "WAITING_SERVER_REPLY"
  BY <1>5, ServerReplyProper DEF Handlers
<1>6. CASE r.mode \in {"WS_CLIENT", "CLOSE_ACK"}
  <2>1. o = Out(r, b) \/ o = Out(Close(r), b)
    BY <1>6 DEF Handlers, ClientRead
  <2>2. Proper(r, b, Out(r, b))
    BY <1>6 DEF Proper, Out, Beyond, Talking
  <2> QED BY <2>1, <2>2, ClosingProper
<1>7. r.mode \in Modes /\ r.mode # "ISSUE_HANDSHAKE2"
  BY DEF Sound, Wsi, Told
<1> QED BY <1>1, <1>2, <1>3, <1>4, <1>5, <1>6, <1>7 DEF Modes, Early, Beyond, Talking

-----------------------------------------------------------------------------
(* Steps.                                                                   *)

\* One connection goes on as a handler may let it.
LEMMA Goes ==
    ASSUME ClientInv, NEW c \in Conns, NEW o, Proper(wsi[c], buffer, o),
           wsi' = [wsi EXCEPT ![c] = o.r], buffer' = o.buffer, UNCHANGED proxy
    PROVE  ClientInv'
<1>1. wsi'[c] = o.r /\ \A d \in Conns \ {c} : wsi'[d] = wsi[d]
  BY DEF ClientInv, Typed
<1>2. Typed'
  BY DEF ClientInv, Typed, Proper
<1>4. \A d \in Conns : Sound(wsi[d])'
  BY <1>1 DEF ClientInv, Sound, Told, Timed, Proper
<1>5. ASSUME proxy PROVE Agreed'
  <2>1. \A d \in Conns : Firm(wsi[d]) => Firm(wsi'[d])
    BY <1>1, <1>5 DEF Firm, Proper
  <2>2. buffer' = "200" => \E d \in Conns : Firm(wsi'[d])
    BY <1>1, <1>5, <2>1 DEF ClientInv, Agreed, Proper
  <2>3. ASSUME NEW e \in Conns, wsi'[e].mode \in Talking
        PROVE  wsi'[e].said \/ \E d \in Conns \ {e} : Firm(wsi'[d])
    <3>1. CASE e # c
      BY <1>1, <1>5, <2>1, <2>3, <3>1 DEF ClientInv, Agreed
    <3>2. CASE e = c /\ wsi[c].mode \in Talking
      <4>1. wsi'[c].said = wsi[c].said
        BY <1>1, <1>5, <3>2 DEF Proper, Beyond
      <4> QED BY <1>5, <2>1, <3>2, <4>1 DEF ClientInv, Agreed
    <3>3. CASE e = c /\ buffer = "200" /\ wsi[c].mode \notin Beyond
      <4>1. PICK d \in Conns : Firm(wsi[d])
        BY <1>5, <3>3 DEF ClientInv, Agreed
      <4>2. d # c
        BY <3>3, <4>1 DEF Firm
      <4> QED BY <2>1, <3>3, <4>1, <4>2
    <3>4. CASE e = c /\ wsi'[c].said
      BY <3>4
    <3> QED BY <1>1, <1>5, <2>3, <3>1, <3>2, <3>3, <3>4 DEF Proper
  <2> QED BY <2>2, <2>3 DEF Agreed, Firm
<1>6. Agreed'
  BY <1>5 DEF Agreed
<1> QED BY <1>2, <1>4, <1>6 DEF ClientInv

\* A fresh attempt.
LEMMA NewSound == Sound(NewWsi) /\ \A x \in BOOLEAN : Sound([NewWsi EXCEPT !.use_ssl = x])
<1> DEFINE New(x) == [NewWsi EXCEPT !.use_ssl = x]
<1>1. NewWsi \in Wsi /\ NewWsi.mode = "none" /\ Untold(NewWsi)
  BY DEF NewWsi, Wsi, Modes, Early, Untold
<1>2. ASSUME NEW x \in BOOLEAN PROVE New(x) \in Wsi /\ New(x).mode = "none" /\ Untold(New(x))
  BY <1>1 DEF Wsi, Untold
<1> HIDE DEF New
<1>3. ASSUME NEW r \in Wsi, r.mode = "none", Untold(r) PROVE Sound(r)
  BY <1>3 DEF Sound, Told, Timed
<1>4. \A x \in BOOLEAN : Sound(New(x))
  BY <1>2, <1>3
<1> QED BY <1>1, <1>3, <1>4 DEF New

\* Every attempt is fresh at first, and nothing is in the buffer.
LEMMA ClientStarts == Init => ClientInv /\ Peered
<1> SUFFICES ASSUME Init PROVE ClientInv /\ Peered
  OBVIOUS
<1>1. Typed /\ Peered
  BY DEF Init, Typed, Peered
<1>2. \A c \in Conns : wsi[c] = NewWsi
  BY DEF Init
<1>3. \A c \in Conns : Sound(wsi[c])
  BY <1>2, NewSound
<1>4. NewWsi.mode = "none"
  BY DEF NewWsi
<1>5. Agreed
  BY <1>2, <1>4 DEF Init, Agreed, Talking
<1> QED BY <1>1, <1>3, <1>5 DEF ClientInv

\* The sockets stay what they are.
LEMMA PeeredStep == Peered /\ [Next]_vars => Peered'
<1> SUFFICES ASSUME Peered, [Next]_vars PROVE Peered'
  OBVIOUS
<1>1. ASSUME NEW c \in Conns, Service(c) PROVE Peered'
  BY <1>1 DEF Peered, Service
<1>2. ASSUME NEW c \in Conns, NetConnect(c) PROVE Peered'
  BY <1>2 DEF Peered, NetConnect
<1>3. ASSUME NEW c \in Conns, PeerSend(c) PROVE Peered'
  BY <1>3 DEF Peered, PeerSend
<1>4. CASE UNCHANGED peer
  BY <1>4 DEF Peered
<1> QED BY <1>1, <1>2, <1>3, <1>4 DEF Next, vars, Tick, ClientConnect, TimeoutCheck

\* A second passes for every connection under a timeout.
LEMMA Ticks == ASSUME ClientInv, Tick PROVE ClientInv'
<1> DEFINE Older(r) == IF r.pending /\ r.limit >= 0 THEN [r EXCEPT !.limit = @ - 1] ELSE r
<1>1. ASSUME NEW r, Sound(r)
      PROVE  Sound(Older(r)) /\ Older(r).mode = r.mode /\ Older(r).said = r.said
  <2>1. CASE r.pending /\ r.limit >= 0
    <3> DEFINE s == [r EXCEPT !.limit = @ - 1]
    <3>1. r \in Wsi
      BY <1>1 DEF Sound
    <3>2. s \in Wsi /\ SameTold(r, s) /\ s.pending = r.pending
      BY <3>1 DEF Wsi, SameTold
    <3> HIDE DEF s
    <3>3. Sound(s)
      BY <1>1, <3>2 DEF Sound, Told, Timed, Untold, SameTold
    <3>4. Older(r) = s
      BY <2>1 DEF s
    <3> QED BY <3>2, <3>3, <3>4 DEF SameTold
  <2> QED BY <1>1, <2>1
<1>2. UNCHANGED <<proxy, buffer>> /\ wsi' = [c \in Conns |-> Older(wsi[c])]
  BY DEF Tick
<1> HIDE DEF Older
<1>3. \A c \in Conns : /\ wsi'[c] = Older(wsi[c]) /\ Sound(wsi'[c])
                       /\ wsi'[c].mode = wsi[c].mode /\ wsi'[c].said = wsi[c].said
  BY <1>1, <1>2 DEF ClientInv
<1>4. Typed'
  BY <1>2 DEF ClientInv, Typed
<1>5. \A c \in Conns : Sound(wsi[c])'
  BY <1>2, <1>3 DEF Sound, Told, Timed, Untold
<1>6. Agreed'
  BY <1>2, <1>3 DEF ClientInv, Agreed, Firm
<1> QED BY <1>4, <1>5, <1>6 DEF ClientInv

\* Every step keeps the invariant.
LEMMA ClientStep == ClientInv /\ Peered /\ [Next]_vars => ClientInv'
<1> SUFFICES ASSUME ClientInv, Peered, [Next]_vars PROVE ClientInv'
  OBVIOUS
<1>1. buffer \in {"200", "other"} /\ \A c \in Conns : Sound(wsi[c])
  BY DEF ClientInv, Typed
<1>2. ASSUME NEW c \in Conns, ClientConnect(c) PROVE ClientInv'
  <2>1. PICK x \in BOOLEAN : \E o \in Connect2([NewWsi EXCEPT !.use_ssl = x], peer[c].net, buffer) :
            wsi' = [wsi EXCEPT ![c] = o.r] /\ buffer' = o.buffer
    BY <1>2 DEF ClientConnect
  <2> DEFINE r == [NewWsi EXCEPT !.use_ssl = x]
  <2>2. PICK o \in Connect2(r, peer[c].net, buffer) : wsi' = [wsi EXCEPT ![c] = o.r] /\ buffer' = o.buffer
    BY <2>1
  <2>3. Sound(r) /\ r.mode = "none" /\ ~r.polled
    BY NewSound DEF NewWsi
  <2> HIDE DEF r
  <2>4. Proper(r, buffer, o)
    BY <1>1, <2>2, <2>3, Connect2Proper
  <2>5. wsi[c].mode = "none" /\ UNCHANGED proxy
    BY <1>2 DEF ClientConnect
  <2>6. Proper(wsi[c], buffer, o)
    BY <2>3, <2>4, <2>5 DEF Proper, Beyond, Talking
  <2> QED BY <2>2, <2>5, <2>6, Goes
<1>3. ASSUME NEW c \in Conns, Service(c) PROVE ClientInv'
  <2>1. PICK o \in Handlers(wsi[c], peer[c], buffer) : wsi' = [wsi EXCEPT ![c] = o.r] /\ buffer' = o.buffer
    BY <1>3 DEF Service
  <2>2. wsi[c].mode \notin {"none", "DEAD", "freed"} /\ UNCHANGED proxy
    BY <1>3 DEF Service, Live
  <2>3. Proper(wsi[c], buffer, o)
    BY <1>1, <2>1, <2>2, HandlersProper DEF Peered
  <2> QED BY <2>1, <2>2, <2>3, Goes
<1>4. ASSUME NEW c \in Conns, TimeoutCheck(c) PROVE ClientInv'
  <2> DEFINE o == Out(Close(wsi[c]), buffer)
  <2>1. wsi[c].mode \notin {"none", "DEAD", "freed"} /\ UNCHANGED <<proxy, buffer>>
    BY <1>4 DEF TimeoutCheck, Expired, Live
  <2>2. Proper(wsi[c], buffer, o)
    BY <1>1, <2>1, ClosingProper
  <2>3. wsi' = [wsi EXCEPT ![c] = o.r] /\ buffer' = o.buffer
    BY <1>4, <2>1 DEF TimeoutCheck, Out
  <2> HIDE DEF o
  <2> QED BY <2>1, <2>2, <2>3, Goes
<1>5. CASE UNCHANGED <<wsi, proxy, buffer>>
  BY <1>5 DEF ClientInv, Typed, Sound, Told, Timed, Untold, Agreed, Firm
<1> QED BY <1>2, <1>3, <1>4, <1>5, Ticks DEF Next, vars, NetConnect, PeerSend

\* The invariant of the client.
LEMMA ClientInvariant == Spec => [](ClientInv /\ Peered)
BY ClientStarts, ClientStep, PeeredStep, PTL DEF Spec

-----------------------------------------------------------------------------
(* Client connections: theorems.                                            *)

\* Whichever way an attempt ends (libwebsocket_close_and_free_session, bail2 and
\* bail3 of lws_client_interpret_server_handshake), the application hears of one
\* error, or of an established connection and its close, and never of a close
\* of nothing.
THEOREM ToldConsistently == Spec => []CallbacksConsistent
<1>1. ASSUME NEW r, Sound(r)
      PROVE  /\ r.error + r.established <= 1 /\ r.closed <= r.error + r.established
             /\ r.error = 1 /\ r.closed = 1 => r.failed
             /\ r.mode = "DEAD" /\ r.established = 1 => r.closed = 1
  <2>1. r.error \in 0 .. 1 /\ r.established \in 0 .. 1 /\ r.closed \in 0 .. 1 /\ r.mode \in Modes
    BY <1>1 DEF Sound, Wsi
  <2>2. Told(r)
    BY <1>1 DEF Sound
  <2> QED BY <2>1, <2>2 DEF Told, Untold, Modes, Early, Beyond, Talking
<1>2. ClientInv => CallbacksConsistent
  BY <1>1 DEF ClientInv, CallbacksConsistent
<1> QED BY <1>2, ClientInvariant, PTL

\* However many attempts share service_buffer, a request goes through a proxy
\* only after the proxy agreed on this connection or, if it hung up, on another
\* (WAITING_PROXY_REPLY of lws_client_socket_service).
THEOREM ProxyAgreesFirst == Spec => []ProxyAgreed
<1>1. ClientInv => ProxyAgreed
  BY DEF ClientInv, Agreed, ProxyAgreed, Talking, Firm
<1> QED BY <1>1, ClientInvariant, PTL

\* No attempt waits without a timeout, whichever way it came to wait, but for
\* an SSL connection through a proxy, whose timeout the proxy's answer clears.
WaitsAreTimed ==
    \A c \in Conns : Live(c) /\ wsi[c].established = 0 => wsi[c].pending \/ (proxy /\ wsi[c].use_ssl)

\* Every wait of an attempt that libwebsocket_set_timeout should bound is bounded,
\* except of SSL through a proxy.
THEOREM AttemptsAreTimed == Spec => []WaitsAreTimed
<1>1. ClientInv => WaitsAreTimed
  BY DEF ClientInv, Sound, Timed, WaitsAreTimed, Live
<1> QED BY <1>1, ClientInvariant, PTL

-----------------------------------------------------------------------------
(* HTTP/2: types.                                                           *)

\* Tokens of header names, the dynamic table's slots, and neither.
Index == {"t1", "t2", "d1", "d2", "none", "?"}

\* A stream of the connection, the connection, and what the client sends.
Kid == [sid : {1, 3}, want : BOOLEAN, live : BOOLEAN, index : Index]

Net == [st : {"preface", "pre", "est", "closed"}, ssl : BOOLEAN, pps : {"none", "my", "ack"},
        rx : BOOLEAN, req : BOOLEAN, pollout : BOOLEAN, init : BOOLEAN, kids : Seq(Kid),
        cur : Nat, serving : BOOLEAN, hpack : {"TYPE", "STRING"}, value : BOOLEAN,
        incr : BOOLEAN, dyn : Seq(Index), seen : Nat, cut : BOOLEAN, frames : Nat]

FieldArg == [kind : {"indexed", "named", "size", "literal"}, i : Index, incr : BOOLEAN]
Nothing == {""}
Items == [k : {"preface", "settings", "payload", "ack", "end"}, arg : Nothing]
         \cup [k : {"headers"}, arg : {1, 3}]
         \cup [k : {"string"}, arg : BOOLEAN]
         \cup [k : {"field"}, arg : FieldArg]

\* A stream that waits has POLLOUT asked for, or its turn was cut.
Armed(h) == Wanting(h) # {} => h.pollout \/ h.cut

\* There is a stream that header fields are for.
Bound(h) == h.st # "closed" => h.cur \in DOMAIN h.kids

\* What the parser and the user do to the connection short of an exchange of
\* settings: nothing that concerns settings, and no stream waits unarmed; with
\* the exception of a few, they leave the frame its stream.
Mild(h, r) ==
    /\ r \in Net
    /\ r.st \in {h.st, "closed"} /\ r.pps = h.pps /\ r.rx = h.rx /\ r.seen = h.seen
    /\ r.serving = h.serving
    /\ r.req = r.pollout
    /\ Armed(h) /\ h.st # "closed" => r.st = "closed" \/ Armed(r)

Quiet(h, r) == Mild(h, r) /\ (Bound(h) => Bound(r))

Calm(h) == h \in Net /\ h.req = h.pollout

-----------------------------------------------------------------------------
(* HTTP/2: the operators are quiet.                                         *)

\* A quiet change may be no change.
LEMMA QuietSame == ASSUME NEW h, Calm(h) PROVE Quiet(h, h)
BY DEF Calm, Quiet, Mild

\* One quiet change after another is quiet.
LEMMA QuietThen ==
    ASSUME NEW h, NEW q, NEW r, Quiet(h, q), Quiet(q, r)
    PROVE  Quiet(h, r)
BY DEF Quiet, Mild, Bound

\* After a quiet change the connection is as calm as before.
LEMMA QuietIsCalm == ASSUME NEW h, NEW r, Quiet(h, r) PROVE Calm(r)
BY DEF Quiet, Mild, Calm

\* lws_close_free_wsi of the network connection forgets nothing that was
\* owed.
LEMMA QuietClosed == ASSUME NEW h, Calm(h) PROVE Quiet(h, Closed(h))
BY DEF Calm, Quiet, Mild, Closed, Net, Bound

\* Arming: POLLOUT is asked for in any case.
LEMMA QuietArm ==
    ASSUME NEW h, Calm(h)
    PROVE  Quiet(h, Arm(h)) /\ Arm(h).pollout /\ Arm(h).kids = h.kids /\ Arm(h).cur = h.cur
           /\ Arm(h).st = h.st
<1>1. CASE h.req
  <2>1. Arm(h) = h BY <1>1 DEF Arm
  <2>2. h.pollout BY <1>1 DEF Calm
  <2> QED BY <2>1, <2>2, QuietSame
<1>2. CASE ~h.req
  <2> DEFINE r == [h EXCEPT !.req = TRUE, !.pollout = TRUE]
  <2>1. Arm(h) = r BY <1>2 DEF Arm
  <2>2. r \in Net BY DEF Calm, Net
  <2>3. /\ r.st = h.st /\ r.pps = h.pps /\ r.rx = h.rx /\ r.seen = h.seen /\ r.serving = h.serving
        /\ r.req /\ r.pollout /\ r.kids = h.kids /\ r.cur = h.cur
    BY DEF Calm, Net
  <2>4. r.req = r.pollout BY <2>3
  <2> HIDE DEF r
  <2> QED BY <2>1, <2>2, <2>3, <2>4 DEF Quiet, Mild, Armed, Bound
<1> QED BY <1>1, <1>2 DEF Calm, Net

\* A connection with other streams.
WithKids(h, k) == [h EXCEPT !.kids = k]

\* What WithKids changes: the list of streams, and no other part.
LEMMA StreamsReplaced ==
    ASSUME NEW h \in Net, NEW k \in Seq(Kid)
    PROVE  LET r == WithKids(h, k)
           IN  /\ r \in Net /\ r.kids = k
               /\ r.st = h.st /\ r.pps = h.pps /\ r.rx = h.rx /\ r.seen = h.seen
               /\ r.req = h.req /\ r.pollout = h.pollout /\ r.serving = h.serving
               /\ r.cut = h.cut /\ r.cur = h.cur
BY DEF Net, WithKids

\* A stream's fields, one at a time.
LEMMA StreamChanged ==
    ASSUME NEW k \in Seq(Kid), NEW n \in DOMAIN k, NEW e \in Kid
    PROVE  /\ [k EXCEPT ![n] = e] \in Seq(Kid)
           /\ DOMAIN [k EXCEPT ![n] = e] = DOMAIN k
           /\ \A m \in DOMAIN k : [k EXCEPT ![n] = e][m] = IF m = n THEN e ELSE k[m]
OBVIOUS

\* lws_callback_on_writable on a stream asks for POLLOUT on its connection.
LEMMA QuietOnWritable ==
    ASSUME NEW h, Calm(h), NEW n \in DOMAIN h.kids
    PROVE  Quiet(h, OnWritable(h, n))
<1>1. CASE h.kids[n].want
  BY <1>1, QuietSame DEF OnWritable
<1>2. CASE ~h.kids[n].want
  <2> DEFINE a == Arm(h)
             e == [a.kids[n] EXCEPT !.want = TRUE]
             k == [a.kids EXCEPT ![n] = e]
             r == WithKids(a, k)
  <2>1. Quiet(h, a) /\ a.pollout /\ a.kids = h.kids /\ a.cur = h.cur /\ a.st = h.st
    BY QuietArm
  <2>2. a \in Net /\ a.req = a.pollout BY <2>1 DEF Quiet, Mild
  <2>3. OnWritable(h, n) = r
    BY <1>2 DEF OnWritable, WithKids
  <2> HIDE DEF a
  <2>4. a.kids \in Seq(Kid) /\ n \in DOMAIN a.kids BY <2>1, <2>2 DEF Net
  <2>5. e \in Kid
    <3>1. a.kids[n] \in Kid BY <2>4
    <3> QED BY <3>1 DEF Kid
  <2> HIDE DEF e
  <2>6. k \in Seq(Kid) /\ DOMAIN k = DOMAIN a.kids BY <2>4, <2>5, StreamChanged
  <2> HIDE DEF k
  <2>7. /\ r \in Net /\ r.kids = k
        /\ r.st = a.st /\ r.pps = a.pps /\ r.rx = a.rx /\ r.seen = a.seen
        /\ r.req = a.req /\ r.pollout = a.pollout /\ r.serving = a.serving /\ r.cur = a.cur
    BY <2>2, <2>6, StreamsReplaced
  <2> HIDE DEF r
  <2>8. Quiet(a, r)
    BY <2>1, <2>2, <2>6, <2>7 DEF Quiet, Mild, Armed, Bound
  <2> QED BY <2>1, <2>3, <2>8, QuietThen
<1> QED BY <1>1, <1>2

\* A new stream does not wait.
LEMMA QuietCreate ==
    ASSUME NEW h, Calm(h), NEW sid \in {1, 3}
    PROVE  LET r == Create(h, sid)
           IN  Quiet(h, r) /\ (r.st # "closed" => r.cur = 1 /\ 1 \in DOMAIN r.kids)
<1>1. CASE Len(h.kids) + 1 = MaxStreams
  <2>1. Create(h, sid) = Closed(h) BY <1>1 DEF Create
  <2>2. Closed(h).st = "closed" BY DEF Closed, Calm, Net
  <2> QED BY <2>1, <2>2, QuietClosed
<1>2. CASE Len(h.kids) + 1 # MaxStreams
  <2> DEFINE e == [sid |-> sid, want |-> FALSE, live |-> TRUE, index |-> "none"]
             k == <<e>> \o h.kids
             q == WithKids(h, k)
             r == [q EXCEPT !.cur = 1]
  <2>1. Create(h, sid) = r BY <1>2 DEF Create, WithKids
  <2>2. h \in Net /\ h.kids \in Seq(Kid) /\ h.req = h.pollout BY DEF Calm, Net
  <2>3. e \in Kid BY DEF Kid, Index
  <2>0. ~e.want OBVIOUS
  <2> HIDE DEF e
  <2>4. /\ k \in Seq(Kid) /\ DOMAIN k = 1 .. Len(h.kids) + 1 /\ k[1] = e
        /\ \A m \in 2 .. Len(h.kids) + 1 : k[m] = h.kids[m - 1]
    BY <2>2, <2>3
  <2> HIDE DEF k
  <2>5. /\ q \in Net /\ q.kids = k
        /\ q.st = h.st /\ q.pps = h.pps /\ q.rx = h.rx /\ q.seen = h.seen
        /\ q.req = h.req /\ q.pollout = h.pollout /\ q.serving = h.serving /\ q.cut = h.cut
    BY <2>2, <2>4, StreamsReplaced
  <2> HIDE DEF q
  <2>6. /\ r \in Net /\ r.kids = k /\ r.cur = 1
        /\ r.st = h.st /\ r.pps = h.pps /\ r.rx = h.rx /\ r.seen = h.seen
        /\ r.req = h.req /\ r.pollout = h.pollout /\ r.serving = h.serving /\ r.cut = h.cut
    BY <2>5 DEF Net
  <2> HIDE DEF r
  <2>7. 1 \in DOMAIN r.kids BY <2>2, <2>4, <2>6
  <2>8. Armed(h) => Armed(r)
    <3> SUFFICES ASSUME Armed(h), NEW m \in DOMAIN r.kids, r.kids[m].want
                 PROVE  r.pollout \/ r.cut
      BY DEF Armed, Wanting
    <3>1. m # 1 BY <2>0, <2>4, <2>6
    <3>2. m - 1 \in DOMAIN h.kids /\ h.kids[m - 1].want BY <3>1, <2>2, <2>4, <2>6
    <3> QED BY <3>2, <2>6 DEF Armed, Wanting
  <2> QED BY <2>1, <2>2, <2>6, <2>7, <2>8 DEF Quiet, Mild, Bound
<1> QED BY <1>1, <1>2

\* A set of naturals has a first element.
LEMMA FirstOf ==
    ASSUME NEW Nats, Nats \subseteq Nat, Nats # {}
    PROVE  \E n \in Nats : \A m \in Nats : n <= m
<1>1. PICK x \in Nats : \A y \in Nats : ~(<<y, x>> \in OpToRel(<, Nat))
  BY NatLessThanWellFounded, WFMin
<1>2. ASSUME NEW y \in Nats PROVE x <= y
  <2>1. x \in Nat /\ y \in Nat OBVIOUS
  <2>2. ~(y < x) BY <1>1, <2>1 DEF OpToRel
  <2> QED BY <2>1, <2>2
<1> QED BY <1>2

\* lws_http2_wsi_from_id and what follows: the frame has a stream.
LEMMA QuietStreamOf ==
    ASSUME NEW h, Calm(h), NEW sid \in {1, 3}
    PROVE  Quiet(h, StreamOf(h, sid)) /\ Bound(StreamOf(h, sid))
<1>1. CASE WithId(h, sid) = {}
  BY <1>1, QuietCreate DEF StreamOf, Bound
<1>2. CASE WithId(h, sid) # {}
  <2> DEFINE c == CHOOSE n \in WithId(h, sid) : \A m \in WithId(h, sid) : n <= m
             r == [h EXCEPT !.cur = c]
  <2>1. StreamOf(h, sid) = r BY <1>2 DEF StreamOf
  <2>2. c \in DOMAIN h.kids /\ c \in Nat
    <3>1. WithId(h, sid) \subseteq Nat /\ WithId(h, sid) \subseteq DOMAIN h.kids
      BY DEF Calm, Net, WithId
    <3>2. \E n \in WithId(h, sid) : \A m \in WithId(h, sid) : n <= m
      BY <1>2, <3>1, FirstOf
    <3> QED BY <3>1, <3>2
  <2> HIDE DEF c
  <2>3. /\ r \in Net /\ r.kids = h.kids /\ r.cur = c
        /\ r.st = h.st /\ r.pps = h.pps /\ r.rx = h.rx /\ r.seen = h.seen
        /\ r.req = h.req /\ r.pollout = h.pollout /\ r.serving = h.serving /\ r.cut = h.cut
    BY <2>2 DEF Calm, Net
  <2> HIDE DEF r
  <2> QED BY <2>1, <2>2, <2>3 DEF Quiet, Mild, Bound, Armed, Wanting, Calm
<1> QED BY <1>1, <1>2

\* The HTTP action on a stream's request is quiet.
LEMMA QuietAction ==
    ASSUME NEW h, Calm(h), NEW n \in DOMAIN h.kids, NEW r \in HttpAction(h, n)
    PROVE  Quiet(h, r)
BY QuietSame, QuietOnWritable DEF HttpAction

-----------------------------------------------------------------------------
(* HTTP/2: header fields are quiet.                                         *)

\* What only the parser of header fields looks at.
LEMMA QuietParser ==
    ASSUME NEW h, Calm(h), NEW r \in Net,
           r.st = h.st, r.pps = h.pps, r.rx = h.rx, r.seen = h.seen, r.serving = h.serving,
           r.req = h.req, r.pollout = h.pollout, r.kids = h.kids, r.cur = h.cur, r.cut = h.cut
    PROVE  Quiet(h, r)
BY DEF Calm, Quiet, Mild, Armed, Bound, Wanting

\* Looking a header up by its index is quiet.
LEMMA QuietNamed ==
    ASSUME NEW h, Calm(h), h.cur \in DOMAIN h.kids, NEW i \in Index
    PROVE  Quiet(h, Named(h, i))
<1> DEFINE e == [h.kids[h.cur] EXCEPT !.index = i]
           k == [h.kids EXCEPT ![h.cur] = e]
           r == WithKids(h, k)
<1>1. Named(h, i) = r BY DEF Named, WithKids
<1>2. h \in Net /\ h.kids \in Seq(Kid) /\ h.req = h.pollout BY DEF Calm, Net
<1>3. h.kids[h.cur] \in Kid BY <1>2
<1>4. e \in Kid /\ e.want = h.kids[h.cur].want BY <1>3 DEF Kid
<1> HIDE DEF e
<1>5. /\ k \in Seq(Kid) /\ DOMAIN k = DOMAIN h.kids
      /\ \A m \in DOMAIN h.kids : k[m] = IF m = h.cur THEN e ELSE h.kids[m]
  BY <1>2, <1>4, StreamChanged
<1> HIDE DEF k
<1>6. /\ r \in Net /\ r.kids = k
      /\ r.st = h.st /\ r.pps = h.pps /\ r.rx = h.rx /\ r.seen = h.seen
      /\ r.req = h.req /\ r.pollout = h.pollout /\ r.serving = h.serving
      /\ r.cut = h.cut /\ r.cur = h.cur
  BY <1>2, <1>5, StreamsReplaced
<1> HIDE DEF r
<1>7. Wanting(r) = Wanting(h)
  BY <1>4, <1>5, <1>6 DEF Wanting
<1> QED BY <1>1, <1>2, <1>5, <1>6, <1>7 DEF Quiet, Mild, Armed, Bound

\* Receiving a literal name or value is quiet.
LEMMA QuietStrings ==
    ASSUME NEW h, Calm(h), NEW value \in BOOLEAN, NEW incr \in BOOLEAN
    PROVE  Quiet(h, Strings(h, value, incr))
<1> DEFINE r == Strings(h, value, incr)
<1>1. r \in Net BY DEF Calm, Net, Strings
<1>2. /\ r.st = h.st /\ r.pps = h.pps /\ r.rx = h.rx /\ r.seen = h.seen /\ r.serving = h.serving
      /\ r.req = h.req /\ r.pollout = h.pollout /\ r.kids = h.kids /\ r.cur = h.cur /\ r.cut = h.cut
  BY DEF Calm, Net, Strings
<1> HIDE DEF r
<1> QED BY <1>1, <1>2, QuietParser DEF r

\* lws_token_from_index
LEMMA TokenTyped ==
    ASSUME NEW h \in Net, NEW i \in Index
    PROVE  TokenFromIndex(h, i) \in Index
<1>1. h.dyn \in Seq(Index) BY DEF Net
<1>2. Static \subseteq Index BY DEF Static, Index
<1>3. h.dyn # <<>> => 1 \in DOMAIN h.dyn BY <1>1
<1>4. Len(h.dyn) > 1 => 2 \in DOMAIN h.dyn BY <1>1
<1>5. h.dyn # <<>> => h.dyn[1] \in Index BY <1>1, <1>3
<1>6. Len(h.dyn) > 1 => h.dyn[2] \in Index BY <1>1, <1>4
<1>7. "?" \in Index /\ "none" \in Index BY DEF Index
<1> QED BY <1>2, <1>5, <1>6, <1>7 DEF TokenFromIndex

\* Adding an entry to the dynamic table is quiet.
LEMMA QuietAdded ==
    ASSUME NEW h, Calm(h), NEW t \in Index
    PROVE  Quiet(h, Added(h, t))
<1>1. CASE ~h.incr
  BY <1>1, QuietSame DEF Added
<1>2. CASE h.incr /\ Len(h.dyn) = DynSize
  BY <1>2, QuietClosed DEF Added
<1>3. CASE h.incr /\ Len(h.dyn) # DynSize
  <2> DEFINE d == Append(h.dyn, t)
             r == [h EXCEPT !.dyn = d]
  <2>1. Added(h, t) = r BY <1>3 DEF Added
  <2>2. h \in Net /\ h.dyn \in Seq(Index) BY DEF Calm, Net
  <2>3. d \in Seq(Index) BY <2>2
  <2> HIDE DEF d
  <2>4. r \in Net BY <2>2, <2>3 DEF Net
  <2>5. /\ r.st = h.st /\ r.pps = h.pps /\ r.rx = h.rx /\ r.seen = h.seen /\ r.serving = h.serving
        /\ r.req = h.req /\ r.pollout = h.pollout /\ r.kids = h.kids /\ r.cur = h.cur /\ r.cut = h.cut
    BY <2>2 DEF Net
  <2> HIDE DEF r
  <2> QED BY <2>1, <2>4, <2>5, QuietParser
<1> QED BY <1>1, <1>2, <1>3 DEF Calm, Net

\* The strings of a field: HPKS_HLEN, HPKS_DATA.
LEMMA QuietStr ==
    ASSUME NEW h, Calm(h), h.cur \in DOMAIN h.kids, NEW known \in BOOLEAN
    PROVE  Quiet(h, Str(h, known))
<1> DEFINE t == TokenFromIndex(h, h.kids[h.cur].index)
           a == Added(h, t)
           u == [a EXCEPT !.value = known]
           w == [a EXCEPT !.hpack = "TYPE"]
<1>1. Str(h, known) \in {u, w, Closed(h)} BY DEF Str
<1>2. h \in Net /\ h.kids[h.cur] \in Kid BY DEF Calm, Net
<1>3. h.kids[h.cur].index \in Index BY <1>2 DEF Kid
<1>4. t \in Index BY <1>2, <1>3, TokenTyped
<1> HIDE DEF t
<1>5. Quiet(h, a) BY <1>4, QuietAdded
<1>6. Calm(a) BY <1>5, QuietIsCalm
<1> HIDE DEF a
<1>7. Quiet(a, u)
  <2>1. u \in Net BY <1>6 DEF Calm, Net
  <2>2. /\ u.st = a.st /\ u.pps = a.pps /\ u.rx = a.rx /\ u.seen = a.seen /\ u.serving = a.serving
        /\ u.req = a.req /\ u.pollout = a.pollout /\ u.kids = a.kids /\ u.cur = a.cur /\ u.cut = a.cut
    BY <1>6 DEF Calm, Net
  <2> HIDE DEF u
  <2> QED BY <1>6, <2>1, <2>2, QuietParser
<1>8. Quiet(a, w)
  <2>1. w \in Net BY <1>6 DEF Calm, Net
  <2>2. /\ w.st = a.st /\ w.pps = a.pps /\ w.rx = a.rx /\ w.seen = a.seen /\ w.serving = a.serving
        /\ w.req = a.req /\ w.pollout = a.pollout /\ w.kids = a.kids /\ w.cur = a.cur /\ w.cut = a.cut
    BY <1>6 DEF Calm, Net
  <2> HIDE DEF w
  <2> QED BY <1>6, <2>1, <2>2, QuietParser
<1> HIDE DEF u, w
<1> QED BY <1>1, <1>5, <1>7, <1>8, QuietThen, QuietClosed

\* The byte that begins a field.
LEMMA QuietField ==
    ASSUME NEW h, Calm(h), h.cur \in DOMAIN h.kids, NEW f \in FieldArg
    PROVE  Quiet(h, BeginField(h, f))
<1>1. f.i \in Index /\ f.incr \in BOOLEAN /\ "none" \in Index BY DEF FieldArg, Index
<1>2. ASSUME NEW i \in Index, NEW value \in BOOLEAN, NEW incr \in BOOLEAN
      PROVE  Quiet(h, Strings(Named(h, i), value, incr))
  <2>1. Quiet(h, Named(h, i)) BY <1>2, QuietNamed
  <2> DEFINE q == Named(h, i)
  <2> HIDE DEF q
  <2>2. Calm(q) BY <2>1, QuietIsCalm DEF q
  <2>3. Quiet(q, Strings(q, value, incr)) BY <1>2, <2>2, QuietStrings
  <2> QED BY <2>1, <2>3, QuietThen DEF q
<1>3. CASE f.kind = "indexed"
  BY <1>1, <1>3, QuietClosed, QuietNamed DEF BeginField
<1>4. CASE f.kind = "named"
  BY <1>1, <1>2, <1>4 DEF BeginField
<1>5. CASE f.kind = "size"
  BY <1>1, <1>2, <1>5 DEF BeginField
<1>6. CASE f.kind = "literal"
  BY <1>1, <1>2, <1>6, QuietStrings DEF BeginField
<1> QED BY <1>3, <1>4, <1>5, <1>6 DEF FieldArg

-----------------------------------------------------------------------------
(* HTTP/2: the inductive invariant.                                         *)

\* Items within a header block, and items that another of the block follows.
InBlock == {"field", "string", "end"}
Opens   == {"headers", "field", "string"}

\* What the client sent is whole frames, but for a first one that the parser
\* is in the middle of, with a stream to give its fields to.
Framed(h, q) ==
    /\ \A i \in 1 .. Len(q) - 1 : q[i + 1].k \in InBlock => q[i].k \in Opens
    /\ q # <<>> => q[Len(q)].k \notin Opens
    /\ q # <<>> /\ q[1].k \in InBlock => Bound(h)

\* The preface comes first, and once.
PrefaceFirst(h, q, s) ==
    /\ \A i \in 2 .. Len(q) : q[i].k # "preface"
    /\ h.st = "preface" => /\ q # <<>> /\ q[1].k = "preface" /\ s = <<>>
                           /\ h.pps = "none" /\ h.seen = 0
    /\ h.st \in {"pre", "est"} /\ q # <<>> => q[1].k # "preface"

\* Reading stops exactly while a packet waits to be sent; the request to be
\* called back and the polled event go together.
Gates(h) == (h.rx <=> h.pps = "none") /\ h.req = h.pollout

\* SettingsInOrder and StreamIsArmed, of any connection.
Tally(s, what) == Cardinality({i \in DOMAIN s : s[i] = what})
Wait(h, what)  == IF h.pps = what THEN 1 ELSE 0
InOrder(h, s) ==
    /\ s # <<>> => s[1] = "my"
    /\ h.st \in {"pre", "est"} =>
           Tally(s, "my") + Wait(h, "my") = 1 /\ Tally(s, "ack") + Wait(h, "ack") = h.seen
IsArmed(h) == h.st # "closed" /\ ~h.serving => Armed(h)

HttpTyped(h, q, s) == h \in Net /\ q \in Seq(Items) /\ s \in Seq({"my", "ack"})

HttpInv(h, q, s) ==
    /\ HttpTyped(h, q, s) /\ Framed(h, q) /\ PrefaceFirst(h, q, s)
    /\ Gates(h) /\ InOrder(h, s) /\ IsArmed(h)

-----------------------------------------------------------------------------
(* HTTP/2: the parser.                                                      *)

\* lws_set_protocol_write_pending, when nothing is pending.
LEMMA PendingSets ==
    ASSUME NEW h, Calm(h), NEW p \in {"my", "ack"}
    PROVE  LET r == Pending(h, p)
           IN  /\ r \in Net /\ r.pps = p /\ ~r.rx /\ r.pollout /\ r.req = r.pollout
               /\ r.st = h.st /\ r.seen = h.seen /\ r.serving = h.serving
<1> DEFINE q == [h EXCEPT !.pps = p, !.rx = FALSE]
<1>1. Pending(h, p) = Arm(q) BY DEF Pending
<1>2. q \in Net BY DEF Calm, Net
<1>3. /\ q.pps = p /\ ~q.rx /\ q.st = h.st /\ q.seen = h.seen /\ q.serving = h.serving
      /\ q.req = h.req /\ q.pollout = h.pollout
  BY DEF Calm, Net
<1> HIDE DEF q
<1>4. Calm(q) BY <1>2, <1>3 DEF Calm
<1>5. Quiet(q, Arm(q)) /\ Arm(q).pollout /\ Arm(q).st = q.st BY <1>4, QuietArm
<1> QED BY <1>1, <1>3, <1>5 DEF Quiet, Mild

\* What the parser makes of an item.
Exchange(h, i, r) ==
    CASE i.k = "preface" -> r.st = "pre" /\ r.pps = "my" /\ r.seen = h.seen
      [] OTHER           -> r.st = h.st /\ r.pps = "ack" /\ r.seen = h.seen + 1

Received(h, i, r) ==
    /\ r \in Net /\ r.req = r.pollout /\ r.serving = h.serving
    /\ i.k \in Opens => Bound(r)
    /\ IF i.k \in {"preface", "settings"}
       THEN ~r.rx /\ r.pollout /\ Exchange(h, i, r)
       ELSE Mild(h, r)

\* The client's preface asks for the server's own settings, and for nothing
\* else.
LEMMA PrefaceReceived ==
    ASSUME NEW h, Calm(h), NEW i \in Items, i.k = "preface", NEW r \in Parsed(h, i)
    PROVE  Received(h, i, r)
<1> DEFINE q == [h EXCEPT !.st = "pre"]
<1>1. r = Pending(q, "my") BY DEF Parsed
<1>2. q \in Net BY DEF Calm, Net
<1>3. q.st = "pre" /\ q.seen = h.seen /\ q.serving = h.serving /\ q.req = h.req /\ q.pollout = h.pollout
  BY DEF Calm, Net
<1> HIDE DEF q
<1>4. Calm(q) BY <1>2, <1>3 DEF Calm
<1>5. /\ r \in Net /\ r.pps = "my" /\ ~r.rx /\ r.pollout /\ r.req = r.pollout
      /\ r.st = q.st /\ r.seen = q.seen /\ r.serving = q.serving
  BY <1>1, <1>4, PendingSets
<1> QED BY <1>3, <1>5 DEF Received, Exchange, Opens

\* A settings frame asks for one acknowledgement.
LEMMA SettingsReceived ==
    ASSUME NEW h, Calm(h), NEW i \in Items, i.k = "settings", NEW r \in Parsed(h, i)
    PROVE  Received(h, i, r)
<1> DEFINE n == h.seen + 1
           c == [h EXCEPT !.cur = 0]
           q == [c EXCEPT !.seen = n]
<1>1. r = Pending(q, "ack") BY DEF Parsed, FrameHeader
<1>2. h \in Net /\ n \in Nat BY DEF Calm, Net
<1> HIDE DEF n
<1>3. c \in Net BY <1>2 DEF Net
<1>4. c.st = h.st /\ c.serving = h.serving /\ c.req = h.req /\ c.pollout = h.pollout
  BY <1>2 DEF Net
<1> HIDE DEF c
<1>5. q \in Net BY <1>2, <1>3 DEF Net
<1>6. q.st = c.st /\ q.seen = n /\ q.serving = c.serving /\ q.req = c.req /\ q.pollout = c.pollout
  BY <1>2, <1>3 DEF Net
<1> HIDE DEF q
<1>7. Calm(q) BY <1>4, <1>5, <1>6 DEF Calm
<1>8. /\ r \in Net /\ r.pps = "ack" /\ ~r.rx /\ r.pollout /\ r.req = r.pollout
      /\ r.st = q.st /\ r.seen = q.seen /\ r.serving = q.serving
  BY <1>1, <1>7, PendingSets
<1> QED BY <1>4, <1>6, <1>8 DEF Received, Exchange, Opens, n

\* No other item asks for settings or an acknowledgement.
LEMMA OtherReceived ==
    ASSUME NEW h, Calm(h), NEW i \in Items, i.k \in {"ack", "payload", "headers"},
           NEW r \in Parsed(h, i)
    PROVE  Received(h, i, r)
<1> h \in Net /\ h.req = h.pollout BY DEF Calm
<1>1. CASE i.k = "ack"
  <2>1. r = [h EXCEPT !.cur = 0] BY <1>1 DEF Parsed, FrameHeader
  <2>2. r \in Net BY <2>1 DEF Net
  <2>3. /\ r.st = h.st /\ r.pps = h.pps /\ r.rx = h.rx /\ r.seen = h.seen /\ r.serving = h.serving
        /\ r.req = h.req /\ r.pollout = h.pollout /\ r.kids = h.kids /\ r.cut = h.cut
    BY <2>1 DEF Net
  <2> QED BY <1>1, <2>2, <2>3 DEF Received, Opens, Mild, Armed, Wanting
<1>2. CASE i.k = "payload"
  <2>1. r = [h EXCEPT !.init = TRUE] BY <1>2 DEF Parsed
  <2>2. r \in Net BY <2>1 DEF Net
  <2>3. /\ r.st = h.st /\ r.pps = h.pps /\ r.rx = h.rx /\ r.seen = h.seen /\ r.serving = h.serving
        /\ r.req = h.req /\ r.pollout = h.pollout /\ r.kids = h.kids /\ r.cut = h.cut
    BY <2>1 DEF Net
  <2> QED BY <1>2, <2>2, <2>3 DEF Received, Opens, Mild, Armed, Wanting
<1>3. CASE i.k = "headers"
  <2> DEFINE q == StreamOf(h, i.arg)
  <2>1. r = [q EXCEPT !.hpack = "TYPE"] BY <1>3 DEF Parsed, FrameHeader
  <2>2. i.arg \in {1, 3} BY <1>3 DEF Items
  <2>3. Quiet(h, q) /\ Bound(q) BY <2>2, QuietStreamOf
  <2>4. Calm(q) BY <2>3, QuietIsCalm
  <2> HIDE DEF q
  <2>5. r \in Net BY <2>1, <2>4 DEF Calm, Net
  <2>6. /\ r.st = q.st /\ r.pps = q.pps /\ r.rx = q.rx /\ r.seen = q.seen /\ r.serving = q.serving
        /\ r.req = q.req /\ r.pollout = q.pollout /\ r.kids = q.kids /\ r.cur = q.cur /\ r.cut = q.cut
    BY <2>1, <2>4 DEF Calm, Net
  <2>7. Quiet(q, r) BY <2>4, <2>5, <2>6, QuietParser
  <2>8. Quiet(h, r) BY <2>3, <2>7, QuietThen
  <2>9. Bound(r) BY <2>3, <2>7 DEF Quiet
  <2> QED BY <1>3, <2>8, <2>9 DEF Received, Quiet, Mild
<1> QED BY <1>1, <1>2, <1>3

\* Within a header block there is a stream.
LEMMA BlockReceived ==
    ASSUME NEW h, Calm(h), h.cur \in DOMAIN h.kids, NEW i \in Items, i.k \in InBlock,
           NEW r \in Parsed(h, i)
    PROVE  Received(h, i, r)
<1>0. Bound(h) BY DEF Bound
<1>1. SUFFICES Quiet(h, r)
  BY <1>0, <1>1 DEF Received, Quiet, Mild, InBlock
<1>2. CASE i.k = "field"
  <2>1. i.arg \in FieldArg BY <1>2 DEF Items
  <2> QED BY <1>2, <2>1, QuietField, QuietClosed DEF Parsed
<1>3. CASE i.k = "string"
  <2>1. i.arg \in BOOLEAN BY <1>3 DEF Items
  <2>2. r \in {Str(h, i.arg), Closed(h)} BY <1>3 DEF Parsed
  <2> QED BY <2>1, <2>2, QuietStr, QuietClosed
<1>4. CASE i.k = "end"
  <2> DEFINE q == [h EXCEPT !.init = TRUE]
  <2>1. r \in HttpAction(q, h.cur) BY <1>4 DEF Parsed
  <2>2. q \in Net BY DEF Calm, Net
  <2>3. /\ q.st = h.st /\ q.pps = h.pps /\ q.rx = h.rx /\ q.seen = h.seen /\ q.serving = h.serving
        /\ q.req = h.req /\ q.pollout = h.pollout /\ q.kids = h.kids /\ q.cur = h.cur /\ q.cut = h.cut
    BY DEF Calm, Net
  <2> HIDE DEF q
  <2>4. Quiet(h, q) BY <2>2, <2>3, QuietParser
  <2>5. Calm(q) BY <2>4, QuietIsCalm
  <2>6. Quiet(q, r) BY <2>1, <2>3, <2>5, QuietAction
  <2> QED BY <2>4, <2>6, QuietThen
<1> QED BY <1>2, <1>3, <1>4 DEF InBlock

-----------------------------------------------------------------------------
(* HTTP/2: the actions keep the invariant.                                  *)

\* Sending one frame more counts it once.
LEMMA TallyAppend ==
    ASSUME NEW s \in Seq({"my", "ack"}), NEW x \in {"my", "ack"}, NEW what \in {"my", "ack"}
    PROVE  /\ Tally(s, what) \in Nat
           /\ Tally(Append(s, x), what) = Tally(s, what) + (IF x = what THEN 1 ELSE 0)
<1> DEFINE Old == {i \in DOMAIN s : s[i] = what}
           New == {i \in DOMAIN Append(s, x) : Append(s, x)[i] = what}
           n == Len(s) + 1
<1>1. IsFiniteSet(Old)
  <2>1. DOMAIN s = 1 .. Len(s) /\ Len(s) \in Nat OBVIOUS
  <2>2. IsFiniteSet(DOMAIN s) BY <2>1, FS_Interval
  <2> QED BY <2>2, FS_Subset
<1>2. Cardinality(Old) \in Nat BY <1>1, FS_CardinalityType
<1>3. n \notin Old OBVIOUS
<1>4. New = IF x = what THEN Old \cup {n} ELSE Old
  <2>1. DOMAIN Append(s, x) = DOMAIN s \cup {n} OBVIOUS
  <2>2. Append(s, x)[n] = x /\ \A i \in DOMAIN s : Append(s, x)[i] = s[i] OBVIOUS
  <2> QED BY <2>1, <2>2
<1> HIDE DEF Old, New, n
<1>5. Cardinality(Old \cup {n}) = Cardinality(Old) + 1
  BY <1>1, <1>3, FS_AddElement
<1>6. Cardinality(New) = Cardinality(Old) + (IF x = what THEN 1 ELSE 0)
  BY <1>2, <1>4, <1>5
<1> QED BY <1>2, <1>6 DEF Tally, Old, New

\* At first nothing was sent.
LEMMA TallyEmpty == ASSUME NEW what PROVE Tally(<<>>, what) = 0
<1>1. {i \in DOMAIN << >> : << >>[i] = what} = {} OBVIOUS
<1> QED BY <1>1, FS_EmptySet DEF Tally

\* A frame's end is the next one's beginning.
LEMMA FramedTail ==
    ASSUME NEW h \in Net, NEW q \in Seq(Items), q # <<>>, NEW r, NEW s, NEW t,
           Framed(h, q), PrefaceFirst(h, q, s),
           q[1].k \in Opens => Bound(r), r.st # "preface"
    PROVE  Tail(q) \in Seq(Items) /\ Framed(r, Tail(q)) /\ PrefaceFirst(r, Tail(q), t)
<1> DEFINE u == Tail(q)
<1>1. u \in Seq(Items) /\ Len(u) = Len(q) - 1 /\ \A i \in 1 .. Len(u) : u[i] = q[i + 1]
  OBVIOUS
<1> HIDE DEF u
<1>2. Len(q) \in Nat /\ Len(q) >= 1 /\ Len(u) \in Nat BY <1>1
<1>3. Framed(r, u)
  <2>1. ASSUME NEW i \in 1 .. Len(u) - 1 PROVE u[i + 1].k \in InBlock => u[i].k \in Opens
    <3>1. u[i] = q[i + 1] /\ u[i + 1] = q[i + 2] /\ i + 1 \in 1 .. Len(q) - 1
      BY <1>1, <1>2
    <3> QED BY <3>1 DEF Framed
  <2>2. u # <<>> => u[Len(u)] = q[Len(q)] BY <1>1, <1>2
  <2>3. u # <<>> => u[1] = q[2] /\ 1 \in 1 .. Len(q) - 1 BY <1>1, <1>2
  <2> QED BY <2>1, <2>2, <2>3 DEF Framed
<1>4. PrefaceFirst(r, u, t)
  <2>1. ASSUME NEW i \in 1 .. Len(u) PROVE u[i].k # "preface"
    <3>1. u[i] = q[i + 1] /\ i + 1 \in 2 .. Len(q) BY <1>1, <1>2
    <3> QED BY <3>1 DEF PrefaceFirst
  <2>2. u # <<>> => 1 \in 1 .. Len(u) BY <1>1, <1>2
  <2>3. \A i \in 2 .. Len(u) : i \in 1 .. Len(u) BY <1>2
  <2> QED BY <2>1, <2>2, <2>3 DEF PrefaceFirst
<1> QED BY <1>1, <1>3, <1>4 DEF u

\* Reading the next item keeps the invariant.
LEMMA ReceiveKeeps ==
    ASSUME NEW h, NEW q, NEW s, HttpInv(h, q, s), h.st # "closed", ~h.serving, h.rx, q # <<>>,
           NEW r \in Parsed(h, Head(q))
    PROVE  HttpInv(r, Tail(q), s)
<1> DEFINE i == q[1]
<1>1. /\ h \in Net /\ q \in Seq(Items) /\ s \in Seq({"my", "ack"}) /\ Calm(h)
      /\ Framed(h, q) /\ PrefaceFirst(h, q, s) /\ Armed(h) /\ h.pps = "none"
  BY DEF HttpInv, HttpTyped, Gates, Calm, IsArmed
<1>2. Head(q) = i /\ i \in Items BY <1>1
<1>3. Received(h, i, r)
  <2>1. i.k \in InBlock => h.cur \in DOMAIN h.kids BY <1>1 DEF Framed, Bound
  <2>2. i.k \in {"preface", "settings", "ack", "payload", "headers"} \cup InBlock
    BY <1>2 DEF Items, InBlock
  <2> HIDE DEF i
  <2> QED BY <1>1, <1>2, <2>1, <2>2, PrefaceReceived, SettingsReceived, OtherReceived, BlockReceived
<1>4. i.k = "preface" <=> h.st = "preface"
  BY <1>1 DEF PrefaceFirst, Net
<1> HIDE DEF i
<1>5. r.st # "preface"
  BY <1>1, <1>3, <1>4 DEF Received, Exchange, Mild
<1>6. Tail(q) \in Seq(Items) /\ Framed(r, Tail(q)) /\ PrefaceFirst(r, Tail(q), s)
  BY <1>1, <1>3, <1>5, FramedTail DEF Received, i
<1>7. HttpTyped(r, Tail(q), s) BY <1>1, <1>3, <1>6 DEF HttpTyped, Received
<1>8. Gates(r) /\ IsArmed(r)
  <2>1. CASE i.k \in {"preface", "settings"}
    BY <2>1, <1>3 DEF Received, Exchange, Gates, IsArmed, Armed
  <2>2. CASE i.k \notin {"preface", "settings"}
    BY <2>2, <1>1, <1>3 DEF Received, Mild, Gates, IsArmed, HttpInv
  <2> QED BY <2>1, <2>2
<1>9. InOrder(r, s)
  <2>1. CASE i.k = "preface"
    <3>1. s = <<>> /\ h.seen = 0 BY <2>1, <1>1, <1>4 DEF PrefaceFirst
    <3>2. r.pps = "my" /\ r.seen = 0 BY <2>1, <3>1, <1>3 DEF Received, Exchange
    <3> QED BY <3>1, <3>2, TallyEmpty DEF InOrder, Wait
  <2>2. CASE i.k = "settings"
    <3>1. r.st = h.st /\ r.pps = "ack" /\ r.seen = h.seen + 1 /\ h.st \in {"pre", "est"}
      BY <2>2, <1>1, <1>3, <1>4 DEF Received, Exchange, Net
    <3>2. Tally(s, "my") = 1 /\ Tally(s, "ack") = h.seen
      <4>1. Tally(s, "my") \in Nat /\ Tally(s, "ack") \in Nat BY <1>1, TallyAppend
      <4> QED BY <4>1, <3>1, <1>1 DEF HttpInv, InOrder, Wait
    <3>3. h.seen \in Nat BY <1>1 DEF Net
    <3> QED BY <3>1, <3>2, <3>3 DEF HttpInv, InOrder, Wait
  <2>3. CASE i.k \notin {"preface", "settings"}
    BY <2>3, <1>1, <1>3 DEF Received, Mild, HttpInv, InOrder, Wait
  <2> QED BY <2>1, <2>2, <2>3
<1> QED BY <1>6, <1>7, <1>8, <1>9 DEF HttpInv

\* What is quiet keeps the invariant.
LEMMA QuietKeeps ==
    ASSUME NEW h, NEW q, NEW s, NEW r, HttpInv(h, q, s), Quiet(h, r)
    PROVE  HttpInv(r, q, s)
<1>1. HttpTyped(r, q, s) BY DEF HttpInv, HttpTyped, Quiet, Mild
<1>2. Framed(r, q) BY DEF HttpInv, Framed, Quiet
<1>3. PrefaceFirst(r, q, s) BY DEF HttpInv, PrefaceFirst, Quiet, Mild
<1>4. Gates(r) BY DEF HttpInv, Gates, Quiet, Mild
<1>5. InOrder(r, s)
  <2>1. r.st \in {"pre", "est"} => h.st \in {"pre", "est"} BY DEF Quiet, Mild
  <2> QED BY <2>1 DEF HttpInv, InOrder, Wait, Quiet, Mild
<1>6. IsArmed(r) BY DEF HttpInv, IsArmed, Quiet, Mild
<1> QED BY <1>1, <1>2, <1>3, <1>4, <1>5, <1>6 DEF HttpInv

\* lws_http2_do_pps_send
LEMMA AfterAckEases ==
    ASSUME NEW h, Calm(h), h.st \in {"pre", "est"}, ~h.serving, Armed(h), NEW g \in AfterAck(h)
    PROVE  /\ g \in Net /\ g.st # "preface" /\ g.pps = h.pps /\ g.seen = h.seen
           /\ ~g.serving /\ g.req = g.pollout /\ (g.st = "closed" \/ Armed(g))
           /\ Bound(h) => Bound(g)
<1> DEFINE e == [h EXCEPT !.st = "est"]
           c == Create(e, 1)
<1>1. g = h \/ g = e \/ g = c \/ (c.st # "closed" /\ g \in HttpAction(c, 1))
  BY DEF AfterAck
<1>2. h \in Net /\ h.req = h.pollout BY DEF Calm
<1>3. e \in Net BY <1>2 DEF Net
<1>4. /\ e.st = "est" /\ e.pps = h.pps /\ e.seen = h.seen /\ e.serving = h.serving
      /\ e.req = h.req /\ e.pollout = h.pollout /\ e.kids = h.kids /\ e.cur = h.cur /\ e.cut = h.cut
  BY <1>2 DEF Net
<1> HIDE DEF e
<1>5. Calm(e) /\ Armed(e) /\ (Bound(h) => Bound(e))
  BY <1>2, <1>3, <1>4 DEF Calm, Armed, Bound, Wanting
<1>6. Quiet(e, c) /\ (c.st # "closed" => 1 \in DOMAIN c.kids) BY <1>5, QuietCreate
<1> HIDE DEF c
<1>7. Calm(c) BY <1>6, QuietIsCalm
<1>8. g = h \/ Quiet(e, g)
  BY <1>1, <1>5, <1>6, <1>7, QuietSame, QuietAction, QuietThen
<1>9. CASE g = h BY <1>9, <1>2
<1>10. CASE Quiet(e, g) BY <1>10, <1>4, <1>5 DEF Quiet, Mild
<1> QED BY <1>8, <1>9, <1>10

Relieved(g) == [g EXCEPT !.pps = "none", !.rx = TRUE]

\* Sending what is pending on POLLOUT keeps the invariant.
LEMMA PolloutPpsKeeps ==
    ASSUME NEW h, NEW q, NEW s, HttpInv(h, q, s), h.st \in {"pre", "est"}, ~h.serving,
           h.pps # "none", NEW g, IF h.pps = "ack" THEN g \in AfterAck(h) ELSE g = h
    PROVE  HttpInv(Relieved(g), q, Append(s, h.pps))
<1> DEFINE r == Relieved(g)
           t == Append(s, h.pps)
<1>1. /\ h \in Net /\ q \in Seq(Items) /\ s \in Seq({"my", "ack"}) /\ Calm(h)
      /\ Framed(h, q) /\ PrefaceFirst(h, q, s) /\ Armed(h) /\ h.pps \in {"my", "ack"}
  BY DEF HttpInv, HttpTyped, Gates, Calm, IsArmed, Net
<1>2. /\ g \in Net /\ g.st # "preface" /\ g.seen = h.seen
      /\ ~g.serving /\ g.req = g.pollout /\ (g.st = "closed" \/ Armed(g))
      /\ Bound(h) => Bound(g)
  <2>1. CASE h.pps = "ack" BY <2>1, <1>1, AfterAckEases
  <2>2. CASE h.pps # "ack" BY <2>2, <1>1 DEF Calm
  <2> QED BY <2>1, <2>2
<1>3. r \in Net BY <1>2 DEF Net, Relieved
<1>4. /\ r.pps = "none" /\ r.rx /\ r.st = g.st /\ r.seen = g.seen /\ r.serving = g.serving
      /\ r.req = g.req /\ r.pollout = g.pollout /\ r.kids = g.kids /\ r.cur = g.cur /\ r.cut = g.cut
  BY <1>2 DEF Net, Relieved
<1> HIDE DEF r
<1>5. t \in Seq({"my", "ack"}) /\ t[1] = IF s = <<>> THEN h.pps ELSE s[1] BY <1>1
<1> HIDE DEF t
<1>6. HttpTyped(r, q, t) BY <1>1, <1>3, <1>5 DEF HttpTyped
<1>7. Framed(r, q) BY <1>1, <1>2, <1>4 DEF Framed, Bound
<1>8. PrefaceFirst(r, q, t) BY <1>1, <1>2, <1>4 DEF PrefaceFirst
<1>9. Gates(r) /\ IsArmed(r) BY <1>2, <1>4 DEF Gates, IsArmed, Armed, Wanting
<1>10. InOrder(r, t)
  <2>1. /\ Tally(s, "my") + Wait(h, "my") = 1 /\ Tally(s, "ack") + Wait(h, "ack") = h.seen
        /\ s # <<>> => s[1] = "my"
    BY DEF HttpInv, InOrder
  <2>2. /\ Tally(s, "my") \in Nat /\ Tally(s, "ack") \in Nat
        /\ Tally(t, "my") = Tally(s, "my") + (IF h.pps = "my" THEN 1 ELSE 0)
        /\ Tally(t, "ack") = Tally(s, "ack") + (IF h.pps = "ack" THEN 1 ELSE 0)
    BY <1>1, TallyAppend DEF t
  <2>3. Tally(t, "my") = 1 /\ Tally(t, "ack") = h.seen BY <2>1, <2>2 DEF Wait
  <2>4. t[1] = "my"
    <3>1. CASE s = <<>>
      <4>1. Tally(s, "my") = 0 BY <3>1, TallyEmpty
      <4> QED BY <4>1, <2>1, <1>5, <3>1 DEF Wait
    <3>2. CASE s # <<>> BY <3>2, <2>1, <1>5
    <3> QED BY <3>1, <3>2
  <2>5. Tally(t, "my") + 0 = 1 /\ Tally(t, "ack") + 0 = h.seen BY <2>2, <2>3, <1>1 DEF Net
  <2> QED BY <2>4, <2>5, <1>2, <1>4 DEF InOrder, Wait
<1> QED BY <1>6, <1>7, <1>8, <1>9, <1>10 DEF HttpInv, r, t

\* A connection that differs only in what is polled and whom the loop serves.
LEMMA RoundKeeps ==
    ASSUME NEW h, NEW q, NEW s, HttpInv(h, q, s), NEW r \in Net,
           r.st = h.st, r.pps = h.pps, r.rx = h.rx, r.seen = h.seen, r.kids = h.kids,
           r.cur = h.cur, r.req = r.pollout, IsArmed(r)
    PROVE  HttpInv(r, q, s)
BY DEF HttpInv, HttpTyped, Framed, PrefaceFirst, Bound, Gates, InOrder, Wait

\* Starting the round over the streams on POLLOUT keeps the invariant.
LEMMA NotifyKeeps ==
    ASSUME NEW h, NEW q, NEW s, HttpInv(h, q, s)
    PROVE  HttpInv([Notify(h) EXCEPT !.serving = h.init,
                                       !.cut = @ \/ (~h.init /\ Wanting(h) # {})], q, s)
<1> DEFINE a == Notify(h)
           c == a.cut \/ (~h.init /\ Wanting(h) # {})
           b == [a EXCEPT !.serving = h.init]
           r == [b EXCEPT !.cut = c]
<1>1. h \in Net /\ h.init \in BOOLEAN BY DEF HttpInv, HttpTyped, Net
<1>2. a \in Net BY <1>1 DEF Notify, Net
<1>3. /\ a.st = h.st /\ a.pps = h.pps /\ a.rx = h.rx /\ a.seen = h.seen /\ a.kids = h.kids
      /\ a.cur = h.cur /\ a.req = FALSE /\ a.pollout = FALSE
  BY <1>1 DEF Notify, Net
<1>4. HttpInv(r, q, s) = HttpInv([Notify(h) EXCEPT !.serving = h.init,
                                       !.cut = @ \/ (~h.init /\ Wanting(h) # {})], q, s)
  OBVIOUS
<1> HIDE DEF a
<1>5. c \in BOOLEAN OBVIOUS
<1>6. b \in Net BY <1>1, <1>2 DEF Net
<1>7. /\ b.st = a.st /\ b.pps = a.pps /\ b.rx = a.rx /\ b.seen = a.seen /\ b.kids = a.kids
      /\ b.cur = a.cur /\ b.req = a.req /\ b.pollout = a.pollout /\ b.serving = h.init
  BY <1>1, <1>2 DEF Net
<1> HIDE DEF b
<1>8. ~h.init /\ Wanting(h) # {} => c OBVIOUS
<1> HIDE DEF c
<1>9. r \in Net BY <1>5, <1>6 DEF Net
<1>10. /\ r.st = b.st /\ r.pps = b.pps /\ r.rx = b.rx /\ r.seen = b.seen /\ r.kids = b.kids
       /\ r.cur = b.cur /\ r.req = b.req /\ r.pollout = b.pollout /\ r.serving = b.serving /\ r.cut = c
  BY <1>5, <1>6 DEF Net
<1> HIDE DEF r
<1>11. IsArmed(r) BY <1>3, <1>7, <1>8, <1>10 DEF IsArmed, Armed, Wanting
<1>12. HttpInv(r, q, s) BY <1>3, <1>7, <1>9, <1>10, <1>11, RoundKeeps
<1> QED BY <1>12, <1>4

\* A callback of the loop over the streams, whatever the user does in it.
Called(h, n) ==
    LET called == [h EXCEPT !.kids[n].want = FALSE]
    IN  {called, OnWritable(called, n), [called EXCEPT !.kids[n].live = FALSE]}

\* The callback of one stream in the round is quiet.
LEMMA CalledKeeps ==
    ASSUME NEW h, Calm(h), NEW n \in Wanting(h), NEW g \in Called(h, n)
    PROVE  Quiet(h, g)
<1> DEFINE e == [h.kids[n] EXCEPT !.want = FALSE]
           k == [h.kids EXCEPT ![n] = e]
           c == WithKids(h, k)
           f == [c.kids[n] EXCEPT !.live = FALSE]
           l == [c.kids EXCEPT ![n] = f]
           d == WithKids(c, l)
<1>1. g \in {c, OnWritable(c, n), d} BY DEF WithKids, Called
<1>2. h \in Net /\ h.kids \in Seq(Kid) /\ n \in DOMAIN h.kids /\ h.kids[n] \in Kid /\ h.req = h.pollout
  BY DEF Calm, Net, Wanting
<1>3. e \in Kid /\ ~e.want BY <1>2 DEF Kid
<1> HIDE DEF e
<1>4. /\ k \in Seq(Kid) /\ DOMAIN k = DOMAIN h.kids
      /\ \A m \in DOMAIN h.kids : k[m] = IF m = n THEN e ELSE h.kids[m]
  BY <1>2, <1>3, StreamChanged
<1> HIDE DEF k
<1>5. /\ c \in Net /\ c.kids = k
      /\ c.st = h.st /\ c.pps = h.pps /\ c.rx = h.rx /\ c.seen = h.seen
      /\ c.req = h.req /\ c.pollout = h.pollout /\ c.serving = h.serving
      /\ c.cut = h.cut /\ c.cur = h.cur
  BY <1>2, <1>4, StreamsReplaced
<1> HIDE DEF c
<1>6. Quiet(h, c)
  <2>1. Wanting(c) \subseteq Wanting(h) BY <1>3, <1>4, <1>5 DEF Wanting
  <2> QED BY <2>1, <1>2, <1>4, <1>5 DEF Quiet, Mild, Armed, Bound
<1>7. Calm(c) /\ n \in DOMAIN c.kids BY <1>2, <1>4, <1>5 DEF Calm
<1>8. Quiet(c, d)
  <2>1. c.kids \in Seq(Kid) /\ c.kids[n] \in Kid BY <1>2, <1>4, <1>5
  <2>2. f \in Kid /\ f.want = c.kids[n].want BY <2>1 DEF Kid
  <2> HIDE DEF f
  <2>3. /\ l \in Seq(Kid) /\ DOMAIN l = DOMAIN c.kids
        /\ \A m \in DOMAIN c.kids : l[m] = IF m = n THEN f ELSE c.kids[m]
    BY <1>7, <2>1, <2>2, StreamChanged
  <2> HIDE DEF l
  <2>4. /\ d \in Net /\ d.kids = l
        /\ d.st = c.st /\ d.pps = c.pps /\ d.rx = c.rx /\ d.seen = c.seen
        /\ d.req = c.req /\ d.pollout = c.pollout /\ d.serving = c.serving
        /\ d.cut = c.cut /\ d.cur = c.cur
    BY <1>5, <2>3, StreamsReplaced
  <2> HIDE DEF d
  <2>5. Wanting(d) = Wanting(c) BY <2>2, <2>3, <2>4 DEF Wanting
  <2> QED BY <1>7, <2>3, <2>4, <2>5 DEF Quiet, Mild, Armed, Bound, Calm
<1> HIDE DEF d
<1> QED BY <1>1, <1>6, <1>7, <1>8, QuietOnWritable, QuietThen

\* One step of the round, choked or not, keeps the invariant.
LEMMA ServeKeeps ==
    ASSUME NEW h, NEW q, NEW s, HttpInv(h, q, s), NEW g, Quiet(h, g), NEW choked \in BOOLEAN
    PROVE  HttpInv([g EXCEPT !.serving = ~choked,
                             !.cut = @ \/ (choked /\ ~g.pollout /\ Wanting(g) # {})], q, s)
<1> DEFINE c == g.cut \/ (choked /\ ~g.pollout /\ Wanting(g) # {})
           v == ~choked
           b == [g EXCEPT !.serving = v]
           r == [b EXCEPT !.cut = c]
<1>1. HttpInv(g, q, s) BY QuietKeeps
<1>2. g \in Net /\ v \in BOOLEAN /\ c \in BOOLEAN BY <1>1 DEF HttpInv, HttpTyped
<1>3. HttpInv(r, q, s) = HttpInv([g EXCEPT !.serving = ~choked,
                             !.cut = @ \/ (choked /\ ~g.pollout /\ Wanting(g) # {})], q, s)
  OBVIOUS
<1>4. ~v /\ ~g.pollout /\ Wanting(g) # {} => c OBVIOUS
<1> HIDE DEF c, v
<1>5. b \in Net BY <1>2 DEF Net
<1>6. /\ b.st = g.st /\ b.pps = g.pps /\ b.rx = g.rx /\ b.seen = g.seen /\ b.kids = g.kids
      /\ b.cur = g.cur /\ b.req = g.req /\ b.pollout = g.pollout /\ b.serving = v
  BY <1>2 DEF Net
<1> HIDE DEF b
<1>7. r \in Net BY <1>2, <1>5 DEF Net
<1>8. /\ r.st = b.st /\ r.pps = b.pps /\ r.rx = b.rx /\ r.seen = b.seen /\ r.kids = b.kids
      /\ r.cur = b.cur /\ r.req = b.req /\ r.pollout = b.pollout /\ r.serving = b.serving /\ r.cut = c
  BY <1>2, <1>5 DEF Net
<1> HIDE DEF r
<1>9. IsArmed(r) BY <1>4, <1>6, <1>8 DEF IsArmed, Armed, Wanting
<1>10. g.req = g.pollout BY DEF Quiet, Mild
<1>11. HttpInv(r, q, s) BY <1>1, <1>6, <1>7, <1>8, <1>9, <1>10, RoundKeeps
<1> QED BY <1>11, <1>3

\* The loop's end, with nobody left to serve.
LEMMA ServedKeeps ==
    ASSUME NEW h, NEW q, NEW s, HttpInv(h, q, s), Wanting(h) = {}
    PROVE  HttpInv([h EXCEPT !.serving = FALSE], q, s)
<1> DEFINE r == [h EXCEPT !.serving = FALSE]
<1>1. h \in Net /\ h.req = h.pollout BY DEF HttpInv, HttpTyped, Gates
<1>2. r \in Net BY <1>1 DEF Net
<1>3. /\ r.st = h.st /\ r.pps = h.pps /\ r.rx = h.rx /\ r.seen = h.seen /\ r.kids = h.kids
      /\ r.cur = h.cur /\ r.req = h.req /\ r.pollout = h.pollout
  BY <1>1 DEF Net
<1> HIDE DEF r
<1>4. IsArmed(r) BY <1>3 DEF IsArmed, Armed, Wanting
<1>5. HttpInv(r, q, s) BY <1>1, <1>2, <1>3, <1>4, RoundKeeps
<1> QED BY <1>5 DEF r

-----------------------------------------------------------------------------
(* HTTP/2: the client sends whole frames.                                   *)

Frame(f) ==
    /\ f \in Seq(Items) /\ f # <<>> /\ f[1].k \notin InBlock /\ f[Len(f)].k \notin Opens
    /\ \A i \in 1 .. Len(f) : f[i].k # "preface"
    /\ \A i \in 1 .. Len(f) - 1 : f[i + 1].k \in InBlock => f[i].k \in Opens

\* The header fields of a request are items of the queue.
LEMMA FieldsTyped ==
    ASSUME NEW x \in Fields
    PROVE  x \in Seq(Items) /\ \A i \in 1 .. Len(x) : x[i].k \in {"field", "string"}
<1>1. ASSUME NEW kind \in {"indexed", "named", "size", "literal"}, NEW i \in Index, NEW incr \in BOOLEAN
      PROVE  Field(kind, i, incr) \in Items /\ Field(kind, i, incr).k = "field"
  BY <1>1 DEF Field, Item, Items, FieldArg
<1>2. ASSUME NEW known \in BOOLEAN
      PROVE  Item("string", known) \in Items /\ Item("string", known).k = "string"
  BY <1>2 DEF Item, Items
<1>3. {"t1", "t2", "d1", "d2", "none"} \subseteq Index BY DEF Index
<1>4. \/ \E a \in {Field("indexed", "t1", FALSE), Field("indexed", "d1", FALSE)} : x = <<a>>
      \/ \E a \in {Field("named", "t2", TRUE), Field("named", "d2", FALSE),
                   Field("size", "none", FALSE)} : x = <<a, Item("string", TRUE)>>
      \/ \E known \in BOOLEAN : x = <<Field("literal", "none", ~known), Item("string", known),
                                      Item("string", TRUE)>>
  BY DEF Fields
<1>5. CASE \E a \in {Field("indexed", "t1", FALSE), Field("indexed", "d1", FALSE)} : x = <<a>>
  <2>1. PICK a \in {Field("indexed", "t1", FALSE), Field("indexed", "d1", FALSE)} : x = <<a>>
    BY <1>5
  <2>2. a \in Items /\ a.k = "field" BY <1>1, <1>3
  <2> QED BY <2>1, <2>2
<1>6. CASE \E a \in {Field("named", "t2", TRUE), Field("named", "d2", FALSE),
                   Field("size", "none", FALSE)} : x = <<a, Item("string", TRUE)>>
  <2>1. PICK a \in {Field("named", "t2", TRUE), Field("named", "d2", FALSE),
                   Field("size", "none", FALSE)} : x = <<a, Item("string", TRUE)>>
    BY <1>6
  <2>2. a \in Items /\ a.k = "field" BY <1>1, <1>3
  <2> DEFINE b == Item("string", TRUE)
  <2>3. b \in Items /\ b.k = "string" BY <1>2
  <2> HIDE DEF b
  <2>4. x = <<a, b>> BY <2>1 DEF b
  <2> QED BY <2>2, <2>3, <2>4
<1>7. CASE \E known \in BOOLEAN : x = <<Field("literal", "none", ~known), Item("string", known),
                                      Item("string", TRUE)>>
  <2>1. PICK known \in BOOLEAN : x = <<Field("literal", "none", ~known), Item("string", known),
                                      Item("string", TRUE)>>
    BY <1>7
  <2> DEFINE a == Field("literal", "none", ~known)
             b == Item("string", known)
             c == Item("string", TRUE)
  <2>2. (~known) \in BOOLEAN OBVIOUS
  <2>3. a \in Items /\ a.k = "field" BY <1>1, <1>3, <2>2
  <2>4. b \in Items /\ b.k = "string" BY <1>2
  <2>5. c \in Items /\ c.k = "string" BY <1>2
  <2> HIDE DEF a, b, c
  <2>6. x = <<a, b, c>> BY <2>1 DEF a, b, c
  <2> QED BY <2>3, <2>4, <2>5, <2>6
<1> QED BY <1>4, <1>5, <1>6, <1>7

\* The frames of Client, with e for the argument of items that have none.
Short(e) == {<<Item("settings", e)>>, <<Item("settings", e), Item("payload", e)>>, <<Item("ack", e)>>}
Request(e, sid, x) == <<Item("headers", sid)>> \o x \o <<Item("end", e)>>

\* The frames of the client are frames.
LEMMA FramesAreWhole ==
    ASSUME NEW e \in Nothing
    PROVE  /\ \A f \in Short(e) : Frame(f)
           /\ \A sid \in {1, 3}, x \in Fields : Frame(Request(e, sid, x))
<1>1. ASSUME NEW k \in {"settings", "payload", "ack", "end"}
      PROVE  Item(k, e) \in Items /\ Item(k, e).k = k
  BY <1>1 DEF Item, Items
<1>2. ASSUME NEW k \in {"settings", "ack"} PROVE Frame(<<Item(k, e)>>)
  <2> DEFINE a == Item(k, e)
  <2>1. a \in Items /\ a.k = k BY <1>1, <1>2
  <2> HIDE DEF a
  <2>2. Frame(<<a>>) BY <2>1, <1>2 DEF Frame, InBlock, Opens
  <2> QED BY <2>2 DEF a
<1>3. Frame(<<Item("settings", e), Item("payload", e)>>)
  <2> DEFINE a == Item("settings", e)
             b == Item("payload", e)
  <2>1. a \in Items /\ a.k = "settings" BY <1>1
  <2>2. b \in Items /\ b.k = "payload" BY <1>1
  <2> HIDE DEF a, b
  <2>3. Frame(<<a, b>>) BY <2>1, <2>2 DEF Frame, InBlock, Opens
  <2> QED BY <2>3 DEF a, b
<1>4. ASSUME NEW sid \in {1, 3}, NEW x \in Fields
      PROVE  Frame(<<Item("headers", sid)>> \o x \o <<Item("end", e)>>)
  <2> DEFINE a == Item("headers", sid)
             b == Item("end", e)
             g == <<a>> \o x \o <<b>>
  <2>1. a \in Items /\ a.k = "headers" BY <1>4 DEF Item, Items
  <2>2. b \in Items /\ b.k = "end" BY <1>1
  <2>3. x \in Seq(Items) /\ \A i \in 1 .. Len(x) : x[i].k \in {"field", "string"} BY <1>4, FieldsTyped
  <2> HIDE DEF a, b
  <2>4. /\ g \in Seq(Items) /\ Len(g) = Len(x) + 2 /\ Len(x) \in Nat
        /\ g[1] = a /\ g[Len(x) + 2] = b /\ \A i \in 2 .. Len(x) + 1 : g[i] = x[i - 1]
    BY <2>1, <2>2, <2>3
  <2> HIDE DEF g
  <2>5. \A i \in 2 .. Len(x) + 1 : g[i].k \in {"field", "string"}
    <3> SUFFICES ASSUME NEW i \in 2 .. Len(x) + 1 PROVE g[i].k \in {"field", "string"} OBVIOUS
    <3>1. i - 1 \in 1 .. Len(x) /\ g[i] = x[i - 1] BY <2>4
    <3> QED BY <3>1, <2>3
  <2>6. \A i \in 1 .. Len(g) - 1 : g[i].k \in Opens
    <3> SUFFICES ASSUME NEW i \in 1 .. Len(g) - 1 PROVE g[i].k \in Opens OBVIOUS
    <3>1. i = 1 \/ i \in 2 .. Len(x) + 1 BY <2>4
    <3> QED BY <3>1, <2>1, <2>4, <2>5 DEF Opens
  <2>7. \A i \in 1 .. Len(g) : g[i].k # "preface"
    <3> SUFFICES ASSUME NEW i \in 1 .. Len(g) PROVE g[i].k # "preface" OBVIOUS
    <3>1. i = 1 \/ i \in 2 .. Len(x) + 1 \/ i = Len(x) + 2 BY <2>4
    <3> QED BY <3>1, <2>1, <2>2, <2>4, <2>5
  <2>8. g # <<>> /\ g[1].k \notin InBlock /\ g[Len(g)].k \notin Opens
    BY <2>1, <2>2, <2>4 DEF InBlock, Opens
  <2>9. Frame(g) BY <2>4, <2>6, <2>7, <2>8 DEF Frame
  <2> QED BY <2>9 DEF g, a, b
<1> QED BY <1>2, <1>3, <1>4 DEF Short, Request

\* The client may send any frame.
LEMMA ClientKeeps ==
    ASSUME NEW h, NEW q, NEW s, HttpInv(h, q, s), NEW f, Frame(f)
    PROVE  HttpInv([h EXCEPT !.frames = h.frames + 1], q \o f, s)
<1> DEFINE m == h.frames + 1
           r == [h EXCEPT !.frames = m]
           u == q \o f
<1>1. /\ h \in Net /\ m \in Nat /\ q \in Seq(Items) /\ s \in Seq({"my", "ack"}) /\ h.req = h.pollout
      /\ Framed(h, q) /\ PrefaceFirst(h, q, s)
  BY DEF HttpInv, HttpTyped, Net, Gates
<1> HIDE DEF m
<1>2. r \in Net BY <1>1 DEF Net
<1>3. /\ r.st = h.st /\ r.pps = h.pps /\ r.rx = h.rx /\ r.seen = h.seen /\ r.serving = h.serving
      /\ r.req = h.req /\ r.pollout = h.pollout /\ r.kids = h.kids /\ r.cur = h.cur /\ r.cut = h.cut
  BY <1>1 DEF Net
<1> HIDE DEF r
<1>4. Calm(h) BY <1>1 DEF Calm
<1>5. HttpInv(r, q, s) BY <1>2, <1>3, <1>4, QuietParser, QuietKeeps
<1>6. /\ u \in Seq(Items) /\ Len(u) = Len(q) + Len(f) /\ Len(q) \in Nat /\ Len(f) \in Nat /\ Len(f) >= 1
      /\ \A i \in 1 .. Len(u) : u[i] = IF i <= Len(q) THEN q[i] ELSE f[i - Len(q)]
  BY <1>1 DEF Frame
<1> HIDE DEF u
<1>7. Framed(r, u)
  <2>1. ASSUME NEW i \in 1 .. Len(u) - 1, u[i + 1].k \in InBlock PROVE u[i].k \in Opens
    <3>1. CASE i + 1 <= Len(q)
      <4>1. i \in 1 .. Len(q) - 1 /\ u[i] = q[i] /\ u[i + 1] = q[i + 1] BY <3>1, <1>6
      <4> QED BY <4>1, <2>1, <1>1 DEF Framed
    <3>2. CASE i = Len(q)
      <4>1. u[i + 1] = f[1] BY <3>2, <1>6
      <4> QED BY <4>1, <2>1 DEF Frame
    <3>3. CASE i > Len(q)
      <4>1. i - Len(q) \in 1 .. Len(f) - 1 /\ u[i] = f[i - Len(q)] /\ u[i + 1] = f[i - Len(q) + 1]
        BY <3>3, <1>6
      <4> QED BY <4>1, <2>1 DEF Frame
    <3> QED BY <3>1, <3>2, <3>3, <1>6
  <2>2. u[Len(u)].k \notin Opens
    <3>1. u[Len(u)] = f[Len(f)] BY <1>6
    <3> QED BY <3>1 DEF Frame
  <2>3. u[1].k \in InBlock => Bound(r)
    <3>1. u[1] = IF q = <<>> THEN f[1] ELSE q[1] BY <1>1, <1>6
    <3> QED BY <3>1, <1>5 DEF HttpInv, Framed, Frame
  <2> QED BY <2>1, <2>2, <2>3 DEF Framed
<1>8. PrefaceFirst(r, u, s)
  <2>1. ASSUME NEW i \in 2 .. Len(u) PROVE u[i].k # "preface"
    <3>1. CASE i <= Len(q)
      BY <3>1, <1>1, <1>6 DEF PrefaceFirst
    <3>2. CASE i > Len(q)
      <4>1. i - Len(q) \in 1 .. Len(f) /\ u[i] = f[i - Len(q)] BY <3>2, <1>6
      <4> QED BY <4>1 DEF Frame
    <3> QED BY <3>1, <3>2, <1>6
  <2>2. u # <<>> /\ u[1] = IF q = <<>> THEN f[1] ELSE q[1] BY <1>1, <1>6
  <2>3. f[1].k # "preface"
    <3>1. 1 \in 1 .. Len(f) BY <1>6
    <3> QED BY <3>1 DEF Frame
  <2> QED BY <2>1, <2>2, <2>3, <1>1, <1>3 DEF PrefaceFirst
<1>9. HttpTyped(r, u, s) BY <1>1, <1>2, <1>6 DEF HttpTyped
<1>10. HttpInv(r, u, s) BY <1>5, <1>7, <1>8, <1>9 DEF HttpInv
<1> QED BY <1>10 DEF r, u, m

-----------------------------------------------------------------------------
(* HTTP/2: the specification.                                               *)

\* The invariant holds at the start.
LEMMA HttpInitial == H2Init => HttpInv(h2, rxq, sent)
<1> SUFFICES ASSUME H2Init PROVE HttpInv(h2, rxq, sent) OBVIOUS
<1> DEFINE i == Item("preface", "")
<1>1. i \in Items /\ i.k = "preface"
  <2>1. "" \in Nothing BY Zenon DEF Nothing
  <2>2. ASSUME NEW e \in Nothing PROVE Item("preface", e) \in Items /\ Item("preface", e).k = "preface"
    BY <2>2 DEF Item, Items
  <2> QED BY <2>1, <2>2, Zenon
<1>2. rxq = <<i>> /\ sent = <<>> BY Zenon DEF H2Init
<1> DEFINE e == <<>>
<1>3. h2 \in [st : {"preface"}, ssl : BOOLEAN, pps : {"none"}, rx : {TRUE}, req : {FALSE},
             pollout : {FALSE}, init : {FALSE}, kids : {e}, cur : {0}, serving : {FALSE},
             hpack : {"TYPE"}, value : {TRUE}, incr : {FALSE}, dyn : {e}, seen : {0}, cut : {FALSE},
             frames : {0}]
  BY Zenon DEF H2Init
<1>a. e \in Seq(Kid) /\ e \in Seq(Index) /\ DOMAIN e = {} OBVIOUS
<1> HIDE DEF i, e
<1>4. /\ h2.st = "preface" /\ h2.pps = "none" /\ h2.rx /\ ~h2.req /\ ~h2.pollout
      /\ h2.kids = e /\ h2.seen = 0
  BY <1>3
<1>5. h2 \in Net
  <2>1. h2 = [st |-> h2.st, ssl |-> h2.ssl, pps |-> h2.pps, rx |-> h2.rx, req |-> h2.req,
              pollout |-> h2.pollout, init |-> h2.init, kids |-> h2.kids, cur |-> h2.cur,
              serving |-> h2.serving, hpack |-> h2.hpack, value |-> h2.value, incr |-> h2.incr,
              dyn |-> h2.dyn, seen |-> h2.seen, cut |-> h2.cut, frames |-> h2.frames]
    BY <1>3
  <2>2. h2.kids \in Seq(Kid) /\ h2.dyn \in Seq(Index)
    <3>1. h2.kids = e /\ h2.dyn = e BY <1>3
    <3> QED BY <3>1, <1>a
  <2>5. h2.cur \in Nat /\ h2.seen \in Nat /\ h2.frames \in Nat
    <3>1. h2.cur = 0 /\ h2.seen = 0 /\ h2.frames = 0 BY <1>3
    <3> QED BY <3>1
  <2>3. /\ h2.ssl \in BOOLEAN /\ h2.init \in BOOLEAN /\ h2.serving \in BOOLEAN /\ h2.value \in BOOLEAN
        /\ h2.incr \in BOOLEAN /\ h2.cut \in BOOLEAN /\ h2.rx \in BOOLEAN /\ h2.req \in BOOLEAN
        /\ h2.pollout \in BOOLEAN
    BY <1>3
  <2>4. h2.hpack \in {"TYPE", "STRING"} BY <1>3
  <2> QED BY <2>1, <2>2, <2>3, <2>4, <2>5, <1>4 DEF Net
<1>6. HttpTyped(h2, rxq, sent) BY <1>1, <1>2, <1>5 DEF HttpTyped
<1>7. Framed(h2, rxq) BY <1>1, <1>2 DEF Framed, Opens, InBlock
<1>8. PrefaceFirst(h2, rxq, sent) BY <1>1, <1>2, <1>4 DEF PrefaceFirst
<1>9. Gates(h2) /\ IsArmed(h2) BY <1>4, <1>5, <1>a DEF Net, Gates, IsArmed, Armed, Wanting
<1>10. InOrder(h2, sent) BY <1>2, <1>4 DEF InOrder
<1> QED BY <1>6, <1>7, <1>8, <1>9, <1>10 DEF HttpInv

\* Each step of an HTTP/2 connection keeps the invariant.
LEMMA HttpStep == HttpInv(h2, rxq, sent) /\ H2Next => HttpInv(h2', rxq', sent')
<1> SUFFICES ASSUME HttpInv(h2, rxq, sent), H2Next PROVE HttpInv(h2', rxq', sent') OBVIOUS
<1>0. Calm(h2) BY DEF HttpInv, HttpTyped, Gates, Calm
<1>1. CASE Receive
  BY <1>1, ReceiveKeeps DEF Receive
<1>2. CASE PolloutPps
  <2>1. PICK g : /\ IF h2.pps = "ack" THEN g \in AfterAck(h2) ELSE g = h2
                 /\ h2' = Relieved(g)
    BY <1>2 DEF PolloutPps, Relieved
  <2>2. /\ h2.st \in {"pre", "est"} /\ ~h2.serving /\ h2.pps # "none"
        /\ rxq' = rxq /\ sent' = Append(sent, h2.pps)
    BY <1>2 DEF PolloutPps
  <2> QED BY <2>1, <2>2, PolloutPpsKeeps
<1>3. CASE PolloutNotify
  BY <1>3, NotifyKeeps DEF PolloutNotify
<1>4. CASE Serve
  <2>1. CASE Wanting(h2) = {}
    BY <1>4, <2>1, ServedKeeps DEF Serve
  <2>2. CASE Wanting(h2) # {}
    <3> DEFINE n == CHOOSE n \in Wanting(h2) : \A m \in Wanting(h2) : n <= m
    <3>1. PICK g \in Called(h2, n), choked \in BOOLEAN :
               h2' = [g EXCEPT !.serving = ~choked,
                               !.cut = @ \/ (choked /\ ~g.pollout /\ Wanting(g) # {})]
      BY <1>4, <2>2, Zenon DEF Serve, Called
    <3>2. n \in Wanting(h2)
      <4>1. Wanting(h2) \subseteq Nat BY <1>0 DEF Calm, Net, Wanting
      <4>2. \E k \in Wanting(h2) : \A m \in Wanting(h2) : k <= m BY <2>2, <4>1, FirstOf
      <4> QED BY <4>2
    <3> HIDE DEF n
    <3>3. Quiet(h2, g) BY <1>0, <3>2, CalledKeeps
    <3>4. rxq' = rxq /\ sent' = sent BY <1>4 DEF Serve
    <3> QED BY <3>1, <3>3, <3>4, ServeKeeps
  <2> QED BY <2>1, <2>2
<1>5. CASE Ask
  <2>1. PICK n \in DOMAIN h2.kids : h2' = OnWritable(h2, n) BY <1>5 DEF Ask
  <2>2. rxq' = rxq /\ sent' = sent BY <1>5 DEF Ask
  <2>3. Quiet(h2, h2') BY <1>0, <2>1, QuietOnWritable
  <2> QED BY <2>2, <2>3, QuietKeeps
<1>6. CASE Client
  <2> DEFINE e == ""
  <2>1. h2' = [h2 EXCEPT !.frames = h2.frames + 1] /\ sent' = sent
    BY <1>6, Zenon DEF Client
  <2>2. \/ \E f \in Short(e) : rxq' = rxq \o f
        \/ \E sid \in {1, 3}, x \in Fields : rxq' = rxq \o Request(e, sid, x)
    BY <1>6, Zenon DEF Client, Short, Request
  <2>3. e \in Nothing BY Zenon DEF Nothing
  <2> HIDE DEF e
  <2>4. PICK f : Frame(f) /\ rxq' = rxq \o f BY <2>2, <2>3, FramesAreWhole
  <2> QED BY <2>1, <2>4, ClientKeeps
<1> QED BY <1>1, <1>2, <1>3, <1>4, <1>5, <1>6 DEF H2Next

-----------------------------------------------------------------------------
(* Remainders of numbers that are not far from the divisor.                 *)

\* Below the modulus, x % q is x.
LEMMA SmallMod == ASSUME NEW q \in Nat \ {0}, NEW x \in 0 .. q - 1 PROVE x % q = x
OBVIOUS

\* The modulus itself wraps to 0.
LEMMA WholeMod == ASSUME NEW q \in Nat \ {0} PROVE q % q = 0
OBVIOUS

\* TLA+'s remainder of a small negative number is one modulus above it.
LEMMA NegativeMod == ASSUME NEW q \in Nat \ {0}, NEW x \in Int, x < 0, x >= -q PROVE x % q = x + q
OBVIOUS

\* A remainder is below its modulus.
LEMMA ModRange == ASSUME NEW q \in Nat \ {0}, NEW x \in Int PROVE x % q \in 0 .. q - 1
OBVIOUS

-----------------------------------------------------------------------------
(* test-echo: the server has something new to send when it asked for a      *)
(* callback; its client comes round before the microseconds do.             *)

Echo == [prog : {"echo"}, open : BOOLEAN, buf : Nat, rcvd : Nat, last : Nat, asked : BOOLEAN,
         pollout : BOOLEAN, ping : BOOLEAN, stored : BOOLEAN, repeated : BOOLEAN]

EchoInv(s) ==
    /\ s \in Echo
    /\ s.last <= s.buf /\ s.buf <= s.rcvd
    /\ s.asked => s.last < s.buf
    /\ ~s.repeated

\* Sending the echo that is due keeps the invariant of callback_echo.
LEMMA EchoSentKeeps == ASSUME NEW s, EchoInv(s) PROVE EchoInv(EchoSent(s))
<1> DEFINE p == [s EXCEPT !.pollout = FALSE, !.asked = FALSE]
           q == [p EXCEPT !.last = s.buf]
           again == s.repeated \/ (s.asked /\ s.buf = s.last)
           r == [q EXCEPT !.repeated = again]
<1>1. s \in Echo BY DEF EchoInv
<1>2. p \in Echo /\ ~p.asked /\ p.buf = s.buf /\ p.rcvd = s.rcvd /\ p.repeated = s.repeated BY <1>1 DEF Echo
<1>3. s.buf \in Nat /\ s.last \in Nat BY <1>1 DEF Echo
<1>4. again \in BOOLEAN /\ ~again BY <1>1, <1>3 DEF EchoInv, Echo
<1>5. EchoSent(s) = r BY <1>1 DEF EchoSent, Echo
<1> HIDE DEF p
<1>6. q \in Echo /\ ~q.asked /\ q.buf = s.buf /\ q.rcvd = s.rcvd /\ q.last = s.buf BY <1>2, <1>3 DEF Echo
<1> HIDE DEF q, again
<1>7. r \in Echo /\ ~r.asked /\ r.buf = s.buf /\ r.rcvd = s.rcvd /\ r.last = s.buf /\ ~r.repeated
  BY <1>4, <1>6 DEF Echo
<1> HIDE DEF r
<1> QED BY <1>3, <1>5, <1>7 DEF EchoInv

\* Each callback of test-echo keeps its invariant.
LEMMA EchoSteps ==
    ASSUME EchoInv(st), EchoReceive \/ EchoPing \/ EchoPollout
    PROVE  EchoInv(st')
<1>0. st \in Echo /\ st.rcvd \in Nat BY DEF EchoInv, Echo
<1>1. CASE EchoReceive
  <2>1. CASE st' = [st EXCEPT !.open = FALSE]
    BY <1>0, <2>1 DEF EchoInv, Echo
  <2>2. CASE st' = [st EXCEPT !.rcvd = st.rcvd + 1, !.buf = st.rcvd + 1, !.pollout = TRUE, !.asked = TRUE]
    <3> DEFINE n == st.rcvd + 1
    <3>1. n \in Nat /\ st.last < n /\ ~st.repeated BY <1>0 DEF EchoInv, Echo
    <3> HIDE DEF n
    <3>2. st' = [st EXCEPT !.rcvd = n, !.buf = n, !.pollout = TRUE, !.asked = TRUE] BY <2>2 DEF n
    <3>3. /\ st' \in Echo /\ st'.rcvd = n /\ st'.buf = n /\ st'.last = st.last
          /\ st'.repeated = st.repeated
      BY <1>0, <3>1, <3>2 DEF Echo
    <3>4. st.last \in Nat BY <1>0 DEF Echo
    <3> QED BY <3>1, <3>3, <3>4 DEF EchoInv
  <2> QED BY <1>1, <2>1, <2>2 DEF EchoReceive
<1>2. CASE EchoPing
  <2> DEFINE n == st.rcvd + 1
  <2>1. n \in Nat /\ st.rcvd <= n BY <1>0
  <2>2. st' = [st EXCEPT !.ping = TRUE, !.pollout = TRUE, !.rcvd = n] BY <1>2 DEF EchoPing
  <2> HIDE DEF n
  <2>3. /\ st' \in Echo /\ st'.rcvd = n /\ st'.buf = st.buf /\ st'.last = st.last
        /\ st'.asked = st.asked /\ st'.repeated = st.repeated
    BY <1>0, <2>1, <2>2 DEF Echo
  <2>4. st.last \in Nat /\ st.buf \in Nat BY <1>0 DEF Echo
  <2> QED BY <1>0, <2>1, <2>3, <2>4 DEF EchoInv
<1>3. CASE EchoPollout
  <2> DEFINE e == EchoSent(st)
  <2>1. \/ st' = [st EXCEPT !.stored = FALSE] \/ st' = [st EXCEPT !.ping = FALSE]
        \/ st' = e \/ st' = [e EXCEPT !.stored = TRUE, !.pollout = TRUE]
        \/ st' = [st EXCEPT !.open = FALSE]
    BY <1>0, <1>3 DEF EchoPollout, Echo
  <2>2. EchoInv(e) BY EchoSentKeeps
  <2> HIDE DEF e
  <2>3. st' = [st EXCEPT !.stored = FALSE] => EchoInv(st') BY <1>0 DEF EchoInv, Echo
  <2>4. st' = [st EXCEPT !.ping = FALSE] => EchoInv(st') BY <1>0 DEF EchoInv, Echo
  <2>5. st' = [st EXCEPT !.open = FALSE] => EchoInv(st') BY <1>0 DEF EchoInv, Echo
  <2>6. st' = [e EXCEPT !.stored = TRUE, !.pollout = TRUE] => EchoInv(st') BY <2>2 DEF EchoInv, Echo
  <2> QED BY <2>1, <2>2, <2>3, <2>4, <2>5, <2>6
<1> QED BY <1>1, <1>2, <1>3

Rate == [prog : {"rate"}, us : Nat, oldus : Nat, since : Nat, rate : Nat]

RateInv(s) ==
    /\ s \in Rate
    /\ s.us < Second /\ s.rate < Second - 1
    /\ s.oldus <= s.us /\ s.since = s.us - s.oldus /\ s.since <= s.rate

\* Each turn of the rate-limited loop of test-echo's client keeps its
\* invariant.
LEMMA RateStep == ASSUME RateInv(st), RateLoop PROVE RateInv(st')
<1> DEFINE u == (st.us + 1) % Second
           t == IF st.since > 2 * Second THEN st.since ELSE st.since + 1
           now == [st EXCEPT !.us = u, !.since = t]
<1>1. /\ st \in Rate /\ st.us \in Nat /\ st.oldus \in Nat /\ st.since \in Nat /\ st.rate \in Nat
      /\ st.us < Second /\ st.rate < Second - 1 /\ st.oldus <= st.us /\ st.since = st.us - st.oldus
      /\ st.since <= st.rate /\ Second \in Nat
  BY ProgramsAssumption DEF RateInv, Rate
<1>2. st' = IF Due(now) THEN [now EXCEPT !.oldus = now.us, !.since = 0] ELSE now
  BY DEF RateLoop
<1>3. u = IF st.us + 1 = Second THEN 0 ELSE st.us + 1
  BY <1>1, SmallMod, WholeMod
<1>4. t = st.since + 1 BY <1>1
<1>5. u \in Nat /\ t \in Nat BY <1>1, <1>3, <1>4
<1> HIDE DEF u, t
<1>6. now \in Rate /\ now.us = u /\ now.oldus = st.oldus /\ now.since = t /\ now.rate = st.rate
  BY <1>1, <1>5 DEF Rate
<1> HIDE DEF now
<1>7. CASE Due(now)
  <2>1. st' = [now EXCEPT !.oldus = u, !.since = 0] BY <1>2, <1>6, <1>7
  <2>2. st' \in Rate /\ st'.us = u /\ st'.oldus = u /\ st'.since = 0 /\ st'.rate = st.rate
    BY <1>5, <1>6, <2>1 DEF Rate
  <2> QED BY <1>1, <1>3, <2>2 DEF RateInv
<1>8. CASE ~Due(now)
  <2>1. st' = now BY <1>2, <1>8
  <2>2. u >= st.oldus /\ u - st.oldus <= st.rate BY <1>1, <1>5, <1>6, <1>8 DEF Due
  <2>3. u = st.us + 1 BY <1>1, <1>3, <2>2
  <2>4. u < Second BY <1>1, <1>3, <2>3
  <2>5. t = u - st.oldus /\ t <= st.rate BY <1>1, <1>4, <2>2, <2>3
  <2> QED BY <1>1, <1>6, <2>1, <2>2, <2>4, <2>5 DEF RateInv
<1> QED BY <1>7, <1>8

-----------------------------------------------------------------------------
(* test-client: the pointer to the mirror connection.                       *)

Attempt == {"trying", "none", "up", "silent"}
Tester == [prog : {"client"}, dumb : Attempt, mirror : Attempt, wsi_mirror : BOOLEAN,
           was_closed : BOOLEAN, running : BOOLEAN, opened : Nat]

TesterInv(s) ==
    /\ s \in Tester
    /\ s.running /\ ~s.was_closed /\ s.wsi_mirror => s.mirror \in {"trying", "up", "silent"}

\* Each turn and each callback of test-client keeps its invariant.
LEMMA TesterSteps ==
    ASSUME TesterInv(st),
           \/ ClientLoop
           \/ \E who \in {"dumb", "mirror"} :
                 \/ ClientConnectionError(who) \/ ClientSilentEnd(who)
                 \/ ClientEstablished(who) \/ ClientClosed(who)
    PROVE  TesterInv(st')
<1>0. st \in Tester BY DEF TesterInv
<1>1. CASE ClientLoop
  <2>1. CASE st' = [st EXCEPT !.running = FALSE]
    BY <1>0, <2>1 DEF TesterInv, Tester
  <2>2. CASE st' = [st EXCEPT !.wsi_mirror = TRUE, !.mirror = "trying", !.opened = st.opened + 1]
    <3> DEFINE n == st.opened + 1
    <3>1. n \in Nat BY <1>0 DEF Tester
    <3> HIDE DEF n
    <3>2. st' = [st EXCEPT !.wsi_mirror = TRUE, !.mirror = "trying", !.opened = n] BY <2>2 DEF n
    <3> QED BY <1>0, <3>1, <3>2 DEF TesterInv, Tester, Attempt
  <2> QED BY <1>1, <2>1, <2>2 DEF ClientLoop
<1>2. ASSUME NEW who \in {"dumb", "mirror"},
             \/ ClientConnectionError(who) \/ ClientSilentEnd(who)
             \/ ClientEstablished(who) \/ ClientClosed(who)
      PROVE  TesterInv(st')
  <2>1. CASE who = "dumb"
    <3>1. \/ st' = [st EXCEPT !.dumb = "none", !.was_closed = TRUE]
          \/ st' = [st EXCEPT !.dumb = "silent"]
          \/ st' = [st EXCEPT !.dumb = "up"]
      BY <1>2, <2>1 DEF ClientConnectionError, ClientSilentEnd, ClientEstablished, ClientClosed
    <3> QED BY <1>0, <3>1 DEF TesterInv, Tester, Attempt
  <2>2. CASE who = "mirror"
    <3>1. \/ st' = [st EXCEPT !.mirror = "none", !.was_closed = TRUE]
          \/ st' = [st EXCEPT !.mirror = "silent"]
          \/ st' = [st EXCEPT !.mirror = "up"]
          \/ st' = [st EXCEPT !.mirror = "none", !.wsi_mirror = FALSE]
      BY <1>2, <2>2 DEF ClientConnectionError, ClientSilentEnd, ClientEstablished, ClientClosed,
                        MirrorClosed
    <3> QED BY <1>0, <3>1 DEF TesterInv, Tester, Attempt
  <2> QED BY <1>2, <2>1, <2>2
<1> QED BY <1>1, <1>2

-----------------------------------------------------------------------------
(* test-fraggle: what the client added up and what is on the wire make the  *)
(* server's sum.                                                            *)

Piece == [kind : {"data", "sum"}, n : Nat, fin : BOOLEAN]
Phase == {"START", "RANDOM", "SUM"}
Fraggle == [prog : {"fraggle"}, srv : Phase, left : Int, sum : Nat, sent : Nat, long : BOOLEAN,
            wire : Seq(Piece), cli : Phase, csum : Nat, wrong : BOOLEAN]

\* What the client has of the message that it is in.
AddedUp(s) == IF s.cli = "START" THEN 0 ELSE s.csum

\* Nothing on the wire: both are at the same place.
Between(s) ==
    /\ s.wire = <<>> /\ s.cli = s.srv
    /\ s.srv # "START" => s.csum = s.sum

\* The sum on the wire.
Summed(s) ==
    /\ Len(s.wire) = 1 /\ s.wire[1].kind = "sum" /\ s.wire[1].n = s.sum
    /\ s.srv = "START" /\ s.cli = "SUM" /\ s.csum = s.sum

\* A fragment on the wire, whole or its last piece.
OnePiece(s) ==
    /\ Len(s.wire) = 1 /\ (s.wire[1].fin <=> s.srv = "SUM") /\ s.srv # "START" /\ s.cli # "SUM"
    /\ AddedUp(s) + s.wire[1].n = s.sum

\* A fragment that is not the last of its message, in two pieces.
TwoPieces(s) ==
    /\ Len(s.wire) = 2 /\ ~s.wire[1].fin /\ ~s.wire[2].fin /\ s.srv = "RANDOM" /\ s.cli # "SUM"
    /\ AddedUp(s) + s.wire[1].n + s.wire[2].n = s.sum

FraggleInv(s) ==
    /\ s \in Fraggle
    /\ s.long \/ (~s.wrong /\ (Between(s) \/ Summed(s) \/ OnePiece(s) \/ TwoPieces(s)))

\* A message is received in one piece when it fits into the buffer, and in
\* two when it is one byte longer.
LEMMA PiecesMake ==
    ASSUME NEW n \in 1 .. RxBuffer + 1, NEW fin \in BOOLEAN
    PROVE  LET w == Pieces(n, fin)
           IN  /\ w \in Seq(Piece)
               /\ \/ n <= RxBuffer /\ Len(w) = 1 /\ w[1].n = n /\ w[1].fin = fin
                  \/ /\ n > RxBuffer /\ Len(w) = 2 /\ w[1].n + w[2].n = n
                     /\ w[1].fin = fin /\ w[2].fin = fin
<1> DEFINE whole == (n - 1) \div RxBuffer
           e(i) == [kind |-> "data", n |-> IF i <= whole THEN RxBuffer ELSE n - whole * RxBuffer,
                    fin |-> fin]
           w == [i \in 1 .. whole + 1 |-> e(i)]
<1>0. RxBuffer \in Nat /\ RxBuffer >= 1 BY ProgramsAssumption
<1>1. Pieces(n, fin) = w BY DEF Pieces
<1>2. whole = IF n <= RxBuffer THEN 0 ELSE 1
  <2>1. n <= RxBuffer => (n - 1) \div RxBuffer = 0 BY <1>0
  <2>2. n > RxBuffer => n - 1 = RxBuffer BY <1>0
  <2>3. RxBuffer \div RxBuffer = 1 BY <1>0
  <2>4. n > RxBuffer => whole = 1 BY <2>2, <2>3
  <2> QED BY <1>0, <2>1, <2>4
<1> HIDE DEF whole
<1>3. whole \in Nat BY <1>2
<1>4. \A i \in 1 .. whole + 1 :
         /\ e(i) \in Piece /\ e(i).fin = fin
         /\ e(i).n = IF i <= whole THEN RxBuffer ELSE n - whole * RxBuffer
  <2> SUFFICES ASSUME NEW i \in 1 .. whole + 1
               PROVE  /\ e(i) \in Piece /\ e(i).fin = fin
                      /\ e(i).n = IF i <= whole THEN RxBuffer ELSE n - whole * RxBuffer
    OBVIOUS
  <2> DEFINE m == IF i <= whole THEN RxBuffer ELSE n - whole * RxBuffer
  <2>1. m \in Nat BY <1>0, <1>2
  <2> HIDE DEF m
  <2> QED BY <2>1 DEF Piece, m
<1> HIDE DEF e
<1>5. w \in Seq(Piece) /\ Len(w) = whole + 1 /\ \A i \in 1 .. whole + 1 : w[i] = e(i)
  BY <1>3, <1>4
<1> HIDE DEF w
<1>6. CASE n <= RxBuffer
  <2>1. whole = 0 /\ w[1] = e(1) /\ Len(w) = 1 BY <1>2, <1>5, <1>6
  <2>2. e(1).n = n /\ e(1).fin = fin
    <3>1. e(1).n = n - whole * RxBuffer /\ e(1).fin = fin BY <1>4, <2>1
    <3> QED BY <3>1, <2>1, <1>0
  <2> QED BY <1>1, <1>5, <1>6, <2>1, <2>2
<1>7. CASE n > RxBuffer
  <2>1. whole = 1 /\ w[1] = e(1) /\ w[2] = e(2) /\ Len(w) = 2 BY <1>0, <1>2, <1>5, <1>7
  <2>2. e(1).n = RxBuffer /\ e(1).fin = fin BY <1>4, <2>1
  <2>3. e(2).n = n - RxBuffer /\ e(2).fin = fin
    <3>1. e(2).n = n - whole * RxBuffer /\ e(2).fin = fin BY <1>4, <2>1
    <3> QED BY <3>1, <2>1, <1>0
  <2>4. w[1].n + w[2].n = n BY <1>0, <2>1, <2>2, <2>3
  <2> QED BY <1>1, <1>5, <1>7, <2>1, <2>2, <2>3, <2>4
<1> QED BY <1>0, <1>6, <1>7

\* The writeable callback of test-fraggle's sender keeps its invariant.
LEMMA FraggleWrites == ASSUME FraggleInv(st), FraggleWriteable PROVE FraggleInv(st')
<1>1. /\ st \in Fraggle /\ st.sum \in Nat /\ st.sent \in Nat /\ st.left \in Int /\ st.srv \in Phase
      /\ st.cli \in Phase /\ st.csum \in Nat /\ st.long \in BOOLEAN /\ st.wire = <<>>
  BY DEF FraggleInv, Fraggle, FraggleWriteable
<1>2. ~st.long => ~st.wrong /\ Between(st)
  BY <1>1 DEF FraggleInv, Summed, OnePiece, TwoPieces
<1>3. CASE st.srv = "SUM"
  <2> DEFINE e == [kind |-> "sum", n |-> st.sum, fin |-> TRUE]
             w == <<e>>
  <2>1. st' = [st EXCEPT !.srv = "START", !.wire = w]
    BY <1>3 DEF FraggleWriteable
  <2>2. e \in Piece /\ e.kind = "sum" /\ e.n = st.sum BY <1>1 DEF Piece
  <2> HIDE DEF e
  <2>3. w \in Seq(Piece) /\ Len(w) = 1 /\ w[1] = e BY <2>2
  <2> HIDE DEF w
  <2>4. /\ st' \in Fraggle /\ st'.srv = "START" /\ st'.wire = w /\ st'.cli = st.cli
        /\ st'.csum = st.csum /\ st'.sum = st.sum /\ st'.long = st.long /\ st'.wrong = st.wrong
    BY <1>1, <2>1, <2>3 DEF Fraggle, Phase
  <2>5. ~st.long => Summed(st')
    BY <1>2, <1>3, <2>2, <2>3, <2>4 DEF Between, Summed
  <2> QED BY <1>2, <2>4, <2>5 DEF FraggleInv
<1>4. CASE st.srv # "SUM"
  <2>1. PICK packets \in 1 .. 2, chunk \in 1 .. RxBuffer + 1 :
          LET left == (IF st.srv = "START" THEN packets ELSE st.left) - 1
          IN  st' = [st EXCEPT !.sent = st.sent + 1, !.left = left,
                        !.srv = IF left = 0 THEN "SUM" ELSE "RANDOM",
                        !.sum = (IF st.srv = "START" THEN 0 ELSE st.sum) + chunk,
                        !.long = st.long \/ (left = 0 /\ chunk > RxBuffer),
                        !.wire = Pieces(chunk, left = 0)]
    BY <1>4 DEF FraggleWriteable
  <2> DEFINE left == (IF st.srv = "START" THEN packets ELSE st.left) - 1
             fin == left = 0
             count == st.sent + 1
             srv == IF left = 0 THEN "SUM" ELSE "RANDOM"
             had == IF st.srv = "START" THEN 0 ELSE st.sum
             sum == had + chunk
             long == st.long \/ (left = 0 /\ chunk > RxBuffer)
             w == Pieces(chunk, fin)
             q == [st EXCEPT !.sent = count, !.left = left, !.srv = srv]
             r == [q EXCEPT !.sum = sum, !.long = long, !.wire = w]
  <2>0. RxBuffer \in Nat BY ProgramsAssumption
  <2>2. /\ left \in Int /\ fin \in BOOLEAN /\ count \in Nat /\ srv \in {"SUM", "RANDOM"} /\ had \in Nat
        /\ sum \in Nat /\ chunk \in Nat
    BY <1>1, <2>0
  <2>3. /\ w \in Seq(Piece)
        /\ \/ chunk <= RxBuffer /\ Len(w) = 1 /\ w[1].n = chunk /\ w[1].fin = fin
           \/ /\ chunk > RxBuffer /\ Len(w) = 2 /\ w[1].n + w[2].n = chunk
              /\ w[1].fin = fin /\ w[2].fin = fin
    BY <2>2, PiecesMake
  <2>4. long \in BOOLEAN /\ (~long => ~st.long /\ (fin => chunk <= RxBuffer))
    BY <1>1, <2>0, <2>2
  <2>5. (fin <=> srv = "SUM") /\ (~fin => srv = "RANDOM") OBVIOUS
  <2>6. sum = had + chunk OBVIOUS
  <2>7. st' = r BY <2>1
  <2>8. ~st.long => st.cli # "SUM" /\ AddedUp(st) = had
    BY <1>2, <1>4 DEF Between, AddedUp
  <2> HIDE DEF left, count, srv, had, sum, long, fin, w
  <2>9. /\ q \in Fraggle /\ q.srv = srv /\ q.cli = st.cli /\ q.csum = st.csum /\ q.wrong = st.wrong
    BY <1>1, <2>2 DEF Fraggle, Phase
  <2> HIDE DEF q
  <2>10. /\ r \in Fraggle /\ r.srv = srv /\ r.cli = st.cli /\ r.csum = st.csum /\ r.wrong = st.wrong
         /\ r.sum = sum /\ r.long = long /\ r.wire = w
    BY <2>2, <2>3, <2>4, <2>9 DEF Fraggle
  <2> HIDE DEF r
  <2>11. CASE long
    BY <2>7, <2>10, <2>11 DEF FraggleInv
  <2>12. CASE ~long
    <3>1. ~st.wrong /\ st.cli # "SUM" /\ AddedUp(r) = had
      BY <1>2, <2>4, <2>8, <2>10, <2>12 DEF AddedUp
    <3>2. CASE chunk <= RxBuffer
      <4>1. Len(w) = 1 /\ w[1].n = chunk /\ w[1].fin = fin BY <2>0, <2>2, <2>3, <3>2
      <4>2. OnePiece(r) BY <4>1, <3>1, <2>2, <2>5, <2>6, <2>10 DEF OnePiece
      <4> QED BY <4>2, <3>1, <2>7, <2>10 DEF FraggleInv
    <3>3. CASE ~(chunk <= RxBuffer)
      <4>1. Len(w) = 2 /\ w[1].n + w[2].n = chunk /\ w[1].fin = fin /\ w[2].fin = fin /\ ~fin
        BY <2>3, <2>4, <2>12, <3>3
      <4>2. w[1] \in Piece /\ w[2] \in Piece
        <5>1. w \in Seq(Piece) /\ Len(w) = 2 BY <2>3, <4>1
        <5> QED BY <5>1
      <4>3. w[1].n \in Nat /\ w[2].n \in Nat BY <4>2 DEF Piece
      <4> DEFINE a == w[1].n
                 b == w[2].n
      <4>4. had + a + b = sum
        <5>1. a \in Nat /\ b \in Nat /\ a + b = chunk BY <4>1, <4>3
        <5> HIDE DEF a, b
        <5> QED BY <2>2, <2>6, <5>1
      <4>5. TwoPieces(r) BY <4>1, <4>4, <3>1, <2>5, <2>10 DEF TwoPieces
      <4> QED BY <4>5, <3>1, <2>7, <2>10 DEF FraggleInv
    <3> QED BY <3>2, <3>3
  <2> QED BY <2>4, <2>11, <2>12
<1> QED BY <1>3, <1>4

\* The receive callback of test-fraggle keeps its invariant.
LEMMA FraggleReads == ASSUME FraggleInv(st), FraggleReceive PROVE FraggleInv(st')
<1> DEFINE piece == Head(st.wire)
           tail == Tail(st.wire)
           rest == [st EXCEPT !.wire = tail]
<1>1. /\ st \in Fraggle /\ st.sum \in Nat /\ st.csum \in Nat /\ st.long \in BOOLEAN
      /\ st.wrong \in BOOLEAN /\ st.wire \in Seq(Piece) /\ st.wire # <<>>
      /\ st.cli \in Phase /\ st.srv \in Phase
  BY DEF FraggleInv, Fraggle, FraggleReceive
<1>2. piece \in Piece /\ tail \in Seq(Piece) /\ piece = st.wire[1] /\ Len(tail) = Len(st.wire) - 1
      /\ \A i \in 1 .. Len(tail) : tail[i] = st.wire[i + 1]
  BY <1>1
<1>3. piece.n \in Nat /\ piece.fin \in BOOLEAN BY <1>2 DEF Piece
<1>4. st' = IF st.cli = "SUM"
            THEN [rest EXCEPT !.cli = "START", !.wrong = st.wrong \/ piece.kind # "sum" \/ piece.n # st.csum]
            ELSE [rest EXCEPT !.csum = (IF st.cli = "START" THEN 0 ELSE st.csum) + piece.n,
                              !.cli = IF piece.fin THEN "SUM" ELSE "RANDOM"]
  BY <1>1 DEF FraggleReceive, Final, Fraggle
<1> HIDE DEF piece, tail
<1>5. /\ rest \in Fraggle /\ rest.srv = st.srv /\ rest.cli = st.cli /\ rest.csum = st.csum
      /\ rest.sum = st.sum /\ rest.long = st.long /\ rest.wrong = st.wrong /\ rest.wire = tail
  BY <1>1, <1>2 DEF Fraggle
<1> HIDE DEF rest
<1>6. CASE st.cli = "SUM"
  <2> DEFINE bad == st.wrong \/ piece.kind # "sum" \/ piece.n # st.csum
  <2>1. st' = [rest EXCEPT !.cli = "START", !.wrong = bad] BY <1>4, <1>6
  <2>2. bad \in BOOLEAN BY <1>1
  <2>3. ~st.long => ~bad /\ st.srv = "START" /\ Len(st.wire) = 1
    BY <1>1, <1>2, <1>6 DEF FraggleInv, Between, Summed, OnePiece, TwoPieces
  <2> HIDE DEF bad
  <2>4. /\ st' \in Fraggle /\ st'.srv = st.srv /\ st'.cli = "START" /\ st'.long = st.long
        /\ st'.wrong = bad /\ st'.wire = tail
    BY <1>5, <2>1, <2>2 DEF Fraggle, Phase
  <2>5. ~st.long => tail = <<>> BY <1>2, <2>3
  <2>6. ~st.long => Between(st') BY <2>3, <2>4, <2>5 DEF Between
  <2> QED BY <2>3, <2>4, <2>6 DEF FraggleInv
<1>7. CASE st.cli # "SUM"
  <2> DEFINE c == AddedUp(st) + piece.n
             x == IF piece.fin THEN "SUM" ELSE "RANDOM"
  <2>1. st' = [rest EXCEPT !.csum = c, !.cli = x] BY <1>4, <1>7 DEF AddedUp
  <2>2. c \in Nat /\ x \in Phase /\ x # "START" BY <1>1, <1>3 DEF AddedUp, Phase
  <2>a. AddedUp(st) \in Nat BY <1>1 DEF AddedUp
  <2>3. c = AddedUp(st) + piece.n /\ (piece.fin => x = "SUM") /\ (~piece.fin => x = "RANDOM") OBVIOUS
  <2> HIDE DEF c, x
  <2>4. /\ st' \in Fraggle /\ st'.srv = st.srv /\ st'.cli = x /\ st'.long = st.long /\ st'.csum = c
        /\ st'.sum = st.sum /\ st'.wrong = st.wrong /\ st'.wire = tail
    BY <1>5, <2>1, <2>2 DEF Fraggle
  <2>5. AddedUp(st') = c BY <2>2, <2>4 DEF AddedUp
  <2>6. CASE st.long
    BY <2>4, <2>6 DEF FraggleInv
  <2>7. CASE OnePiece(st) /\ ~st.wrong
    <3>1. tail = <<>> BY <1>2, <2>7 DEF OnePiece
    <3>2. c = st.sum /\ x = st.srv BY <1>1, <1>2, <2>3, <2>7 DEF OnePiece, Phase
    <3>3. Between(st') BY <3>1, <3>2, <2>4 DEF Between
    <3> QED BY <3>3, <2>4, <2>7 DEF FraggleInv
  <2>8. CASE TwoPieces(st) /\ ~st.wrong
    <3>1. Len(tail) = 1 /\ tail[1] = st.wire[2] BY <1>2, <2>8 DEF TwoPieces
    <3>2. ~piece.fin /\ ~tail[1].fin /\ x = "RANDOM" /\ st.srv = "RANDOM"
      BY <1>2, <2>3, <2>8, <3>1 DEF TwoPieces
    <3>3. tail[1].n \in Nat
      <4>1. tail \in Seq(Piece) BY <1>2
      <4>2. 1 \in 1 .. Len(tail)
        <5>1. 1 \in 1 .. 1 OBVIOUS
        <5> QED BY <3>1, <5>1, Zenon
      <4>3. tail[1] \in Piece BY <4>1, <4>2
      <4> QED BY <4>3 DEF Piece
    <3>4. c + tail[1].n = st.sum BY <1>2, <1>3, <2>a, <2>3, <2>8, <3>1, <3>3 DEF TwoPieces
    <3>5. st'.wire[1].fin <=> st'.srv = "SUM" BY <2>4, <3>2
    <3>6. AddedUp(st') + st'.wire[1].n = st'.sum BY <2>4, <2>5, <3>4
    <3>7. Len(st'.wire) = 1 /\ st'.srv # "START" /\ st'.cli # "SUM" BY <2>4, <3>1, <3>2
    <3>8. OnePiece(st') BY <3>5, <3>6, <3>7 DEF OnePiece
    <3> QED BY <3>8, <2>4, <2>8 DEF FraggleInv
  <2>9. st.long \/ (~st.wrong /\ (OnePiece(st) \/ TwoPieces(st)))
    BY <1>1, <1>7 DEF FraggleInv, Between, Summed
  <2> QED BY <2>6, <2>7, <2>8, <2>9
<1> QED BY <1>6, <1>7

-----------------------------------------------------------------------------
(* test-ping: the ring holds the last pings, newest behind the head.        *)

Slots == 0 .. PingRing - 1
Pings == [prog : {"ping"}, ring : [Slots -> Nat], head : Slots, tail : Slots, index : Nat,
          missed : BOOLEAN, list : Seq({"a", "b", "c"}), gone : SUBSET {"a", "b", "c"}]

\* The slot written d pings before the last one.
Back(h, d) == IF h - 1 - d >= 0 THEN h - 1 - d ELSE h - 1 - d + PingRing

\* head and tail after k pings: the tail moves once the ring is full.
Ends(s, k) == IF k < PingRing THEN s.head = k /\ s.tail = 0 ELSE s.tail = Succ(s.head)

Holds(s, k) == \A d \in Slots : s.ring[Back(s.head, d)] = IF d < k THEN k - d ELSE 0

\* Each connection that was not closed is on the list, once.
Listed(list, gone) ==
    /\ \A i, j \in DOMAIN list : list[i] = list[j] => i = j
    /\ \A x \in {"a", "b", "c"} : x \notin gone <=> \E i \in DOMAIN list : list[i] = x

PingInv(s) ==
    /\ s \in Pings /\ s.index >= 1 /\ ~s.missed
    /\ Ends(s, s.index - 1) /\ Holds(s, s.index - 1) /\ Listed(s.list, s.gone)

\* A slot back from a slot of the ring is one of its slots.
LEMMA BackInSlots == ASSUME NEW h \in Slots, NEW d \in Slots PROVE Back(h, d) \in Slots
BY ProgramsAssumption DEF Back, Slots

\* Every slot of the ring lies some way back from any other.
LEMMA BackCovers ==
    ASSUME NEW h \in Slots, NEW n \in Slots
    PROVE  \E d \in Slots : Back(h, d) = n
<1> DEFINE d == IF n < h THEN h - 1 - n ELSE h - 1 - n + PingRing
<1>1. PingRing \in Nat /\ h \in Int /\ n \in Int BY ProgramsAssumption DEF Slots
<1>2. d \in Slots BY <1>1 DEF Slots
<1>3. Back(h, d) = n BY <1>1 DEF Slots, Back
<1> QED BY <1>2, <1>3

\* The slot after a slot is one.
LEMMA SuccInSlots == ASSUME NEW h \in Slots PROVE Succ(h) \in Slots
BY ProgramsAssumption DEF Succ, Slots

\* Behind the next head: the slot that was written now, then the others.
LEMMA BackOfSucc ==
    ASSUME NEW h \in Slots, NEW d \in Slots
    PROVE  /\ d = 0 => Back(Succ(h), d) = h
           /\ d > 0 => d - 1 \in Slots /\ Back(Succ(h), d) = Back(h, d - 1) /\ Back(h, d - 1) # h
BY ProgramsAssumption DEF Succ, Slots, Back

\* Sending a ping, with its slot of the ring taken anew, keeps the invariant.
LEMMA PingWrites == ASSUME PingInv(st), PingWriteable PROVE PingInv(st')
<1> DEFINE k == st.index - 1
           h == st.head
           ring == [st.ring EXCEPT ![h] = st.index]
           n == st.index + 1
           g == Succ(h)
           q == [st EXCEPT !.ring = ring, !.index = n, !.head = g]
           t == IF st.tail = g THEN Succ(st.tail) ELSE st.tail
           r == [q EXCEPT !.tail = t]
<1>1. /\ st \in Pings /\ h \in Slots /\ st.tail \in Slots /\ st.index \in Nat /\ st.ring \in [Slots -> Nat]
      /\ st.index >= 1 /\ ~st.missed /\ Ends(st, k) /\ Holds(st, k) /\ Listed(st.list, st.gone) /\ PingRing \in Nat
      /\ PingRing >= 1
  BY ProgramsAssumption DEF PingInv, Pings
<1>2. /\ ring \in [Slots -> Nat] /\ n \in Nat /\ g \in Slots /\ t \in Slots
  BY <1>1, SuccInSlots
<1>3. ring[h] = st.index /\ \A m \in Slots : m # h => ring[m] = st.ring[m]
  BY <1>1
<1>4. st' = Snip(q)
  BY DEF PingWriteable
<1>a. k \in Nat /\ k + 1 = st.index /\ n - 1 = st.index BY <1>1
<1>b. g = Succ(h) /\ h = st.head OBVIOUS
<1> HIDE DEF ring, n, g, h
<1>5. /\ q \in Pings /\ q.ring = ring /\ q.index = n /\ q.head = g /\ q.tail = st.tail
      /\ q.missed = st.missed /\ q.list = st.list /\ q.gone = st.gone
  BY <1>1, <1>2 DEF Pings
<1> HIDE DEF q
<1>6. st' = r
  <2>1. CASE q.tail = q.head
    BY <1>4, <1>5, <2>1 DEF Snip
  <2>2. CASE q.tail # q.head
    <3>1. st' = q BY <1>4, <2>2 DEF Snip
    <3>2. r = [q EXCEPT !.tail = q.tail] BY <1>5, <2>2
    <3> QED BY <3>1, <3>2, <1>5 DEF Pings
  <2> QED BY <2>1, <2>2
<1>c. t = IF st.tail = g THEN Succ(st.tail) ELSE st.tail OBVIOUS
<1> HIDE DEF t, k
<1>7. /\ r \in Pings /\ r.ring = ring /\ r.index = n /\ r.head = g /\ r.tail = t
      /\ r.missed = st.missed /\ r.list = st.list /\ r.gone = st.gone
  BY <1>2, <1>5 DEF Pings
<1> HIDE DEF r
<1>8. Ends(r, k + 1)
  <2>1. CASE k < PingRing
    <3>1. st.head = k /\ st.tail = 0 BY <1>1, <2>1 DEF Ends
    <3> QED BY <1>1, <1>7, <1>a, <1>b, <1>c, <2>1, <3>1 DEF Ends, Succ, Slots
  <2>2. CASE ~(k < PingRing)
    <3>1. st.tail = Succ(st.head) BY <1>1, <2>2 DEF Ends
    <3>2. t = Succ(g) BY <3>1, <1>b, <1>c
    <3>3. ~(k + 1 < PingRing) BY <1>1, <1>a, <2>2
    <3> QED BY <1>7, <3>2, <3>3 DEF Ends
  <2> QED BY <2>1, <2>2
<1>9. Holds(r, k + 1)
  <2> SUFFICES ASSUME NEW d \in Slots
               PROVE  ring[Back(g, d)] = IF d < k + 1 THEN k + 1 - d ELSE 0
    BY <1>1, <1>7, <1>a DEF Holds, Slots
  <2>1. CASE d = 0
    <3>1. ring[Back(g, d)] = st.index BY <1>1, <1>3, <1>b, <2>1, BackOfSucc
    <3> QED BY <3>1, <1>a, <2>1
  <2>2. CASE d # 0
    <3>0. d > 0 /\ d \in Nat BY <1>1, <2>2 DEF Slots
    <3>1. d - 1 \in Slots /\ Back(g, d) = Back(h, d - 1) /\ Back(h, d - 1) # h
      BY <1>1, <1>b, <3>0, BackOfSucc, ZenonT(30)
    <3>2. ring[Back(g, d)] = st.ring[Back(st.head, d - 1)] BY <1>1, <1>3, <1>b, <3>1, BackInSlots
    <3>3. st.ring[Back(st.head, d - 1)] = IF d - 1 < k THEN k - (d - 1) ELSE 0
      BY <1>1, <3>1 DEF Holds
    <3> QED BY <1>a, <3>0, <3>2, <3>3
  <2> QED BY <2>1, <2>2
<1>10. Listed(r.list, r.gone) BY <1>1, <1>7
<1>11. r.index - 1 = k + 1 /\ r.index >= 1 BY <1>1, <1>2, <1>7, <1>a
<1> QED BY <1>1, <1>6, <1>7, <1>8, <1>9, <1>10, <1>11 DEF PingInv

\* The slots searched are slots, and the newest pings are among them.
LEMMA SearchFinds ==
    ASSUME NEW s \in Pings, NEW k \in Nat, Ends(s, k)
    PROVE  /\ Searched(s) \subseteq Slots
           /\ \A d \in Slots : d < k /\ d < PingRing - 1 => Back(s.head, d) \in Searched(s)
<1> DEFINE back == (s.head - s.tail) % PingRing
           h == s.head
<1>1. PingRing \in Nat \ {0} /\ h \in Slots /\ s.tail \in Slots BY ProgramsAssumption DEF Pings
<1>2. Searched(s) = {(h - i) % PingRing : i \in 0 .. back} BY DEF Searched
<1>3. back \in Slots
  <2>1. s.head - s.tail \in Int BY <1>1 DEF Slots
  <2> QED BY <2>1, <1>1, ModRange DEF Slots
<1>4. \A d \in Slots : d < k /\ d < PingRing - 1 => d + 1 <= back
  <2>1. CASE k < PingRing
    <3>1. s.head = k /\ s.tail = 0 BY <2>1 DEF Ends
    <3>2. back = k BY <1>1, <2>1, <3>1, SmallMod DEF Slots
    <3> QED BY <3>2, <1>1 DEF Slots
  <2>2. CASE ~(k < PingRing)
    <3>1. s.tail = Succ(h) BY <2>2 DEF Ends
    <3>2. back = PingRing - 1
      <4>1. CASE h = PingRing - 1
        <5>1. s.head - s.tail = PingRing - 1 BY <1>1, <3>1, <4>1 DEF Succ
        <5> QED BY <5>1, <1>1, SmallMod
      <4>2. CASE h # PingRing - 1
        <5>1. s.head - s.tail = -1 BY <1>1, <3>1, <4>2 DEF Succ, Slots
        <5>2. (-1) % PingRing = -1 + PingRing BY <1>1, NegativeMod
        <5> QED BY <5>1, <5>2, <1>1
      <4> QED BY <4>1, <4>2
    <3> QED BY <3>2, <1>1 DEF Slots
  <2> QED BY <2>1, <2>2
<1>a. h = s.head OBVIOUS
<1> HIDE DEF back, h
<1>5. Searched(s) \subseteq Slots
  <2> SUFFICES ASSUME NEW i \in 0 .. back PROVE (h - i) % PingRing \in Slots BY <1>2
  <2>1. h - i \in Int BY <1>1, <1>3 DEF Slots
  <2> QED BY <2>1, <1>1, ModRange DEF Slots
<1>6. ASSUME NEW d \in Slots, d < k, d < PingRing - 1 PROVE Back(h, d) \in Searched(s)
  <2>1. d + 1 \in 0 .. back BY <1>1, <1>3, <1>4, <1>6 DEF Slots
  <2>2. (h - (d + 1)) % PingRing = Back(h, d)
    <3> DEFINE x == h - (d + 1)
    <3>1. /\ x \in Int /\ x >= -PingRing /\ x < PingRing
          /\ x = h - 1 - d
      BY <1>1 DEF Slots
    <3> HIDE DEF x
    <3>2. CASE x >= 0
      <4>1. x % PingRing = x BY <1>1, <3>1, <3>2, SmallMod
      <4> QED BY <4>1, <3>1, <3>2 DEF Back, x
    <3>3. CASE x < 0
      <4>1. x % PingRing = x + PingRing BY <1>1, <3>1, <3>3, NegativeMod
      <4> QED BY <4>1, <3>1, <3>3 DEF Back, x
    <3> QED BY <3>1, <3>2, <3>3
  <2> QED BY <1>2, <2>1, <2>2
<1> QED BY <1>5, <1>6, <1>a

\* A recent ping is found in the ring; one that was overwritten is not.
LEMMA PongFound ==
    ASSUME NEW s, PingInv(s), NEW l \in 1 .. s.index - 1
    PROVE  LET found == \E n \in Searched(s) : s.ring[n] = l
           IN  /\ l >= s.index - (PingRing - 1) => found
               /\ found => ~(l < s.index - PingRing)
<1> DEFINE k == s.index - 1
<1>1. /\ s \in Pings /\ k \in Nat /\ s.index = k + 1 /\ Ends(s, k) /\ Holds(s, k) /\ s.head \in Slots
      /\ PingRing \in Nat /\ PingRing >= 1
  BY ProgramsAssumption DEF PingInv, Pings
<1>2. l \in Nat /\ l >= 1 /\ l <= k BY <1>1
<1> HIDE DEF k
<1>3. /\ Searched(s) \subseteq Slots
      /\ \A d \in Slots : d < k /\ d < PingRing - 1 => Back(s.head, d) \in Searched(s)
  BY <1>1, SearchFinds
<1>4. ASSUME l >= s.index - (PingRing - 1) PROVE \E n \in Searched(s) : s.ring[n] = l
  <2> DEFINE d == k - l
  <2>1. d \in Slots /\ d < k /\ d < PingRing - 1 /\ k - d = l BY <1>1, <1>2, <1>4 DEF Slots
  <2> HIDE DEF d
  <2>2. Back(s.head, d) \in Searched(s) BY <1>3, <2>1
  <2>3. s.ring[Back(s.head, d)] = l BY <1>1, <2>1 DEF Holds
  <2> QED BY <2>2, <2>3
<1>5. ASSUME NEW n \in Searched(s), s.ring[n] = l PROVE ~(l < s.index - PingRing)
  <2>1. n \in Slots BY <1>3
  <2>2. PICK d \in Slots : Back(s.head, d) = n BY <1>1, <2>1, BackCovers
  <2>3. l = IF d < k THEN k - d ELSE 0 BY <1>1, <1>5, <2>2 DEF Holds
  <2> QED BY <1>1, <1>2, <2>3 DEF Slots
<1> QED BY <1>4, <1>5

\* Receiving a pong keeps the invariant: the search finds the ping when it
\* should.
LEMMA PingReads == ASSUME PingInv(st), PongReceive PROVE PingInv(st')
<1> DEFINE found(l) == \E n \in Searched(st) : st.ring[n] = l
<1>1. PICK l \in 1 .. st.index - 1 :
         st' = [st EXCEPT !.missed = st.missed \/ (~found(l) /\ l >= st.index - (PingRing - 1))
                                     \/ (found(l) /\ l < st.index - PingRing)]
  BY DEF PongReceive
<1>2. /\ l >= st.index - (PingRing - 1) => found(l)
      /\ found(l) => ~(l < st.index - PingRing)
  BY PongFound
<1> HIDE DEF found
<1> DEFINE m == st.missed \/ (~found(l) /\ l >= st.index - (PingRing - 1))
                \/ (found(l) /\ l < st.index - PingRing)
<1>3. ~m BY <1>2 DEF PingInv
<1>4. m \in BOOLEAN BY DEF PingInv, Pings
<1>5. st' = [st EXCEPT !.missed = m] BY <1>1
<1> HIDE DEF m
<1>6. st \in Pings BY DEF PingInv
<1>7. /\ st' \in Pings /\ st'.missed = m /\ st'.ring = st.ring /\ st'.head = st.head
      /\ st'.tail = st.tail /\ st'.index = st.index /\ st'.list = st.list /\ st'.gone = st.gone
  BY <1>4, <1>5, <1>6 DEF Pings
<1> QED BY <1>3, <1>7 DEF PingInv, Ends, Holds

\* Where an element is found behind a gap.
LEMMA PlaceAfter ==
    ASSUME NEW l \in Nat, NEW n \in 1 .. l, NEW i \in 1 .. l - 1, ~(i < n)
    PROVE  i - (n - 1) \in 1 .. l - n /\ n + (i - (n - 1)) = i + 1
OBVIOUS

\* Removing a connection from the list takes this one out, and no other.
LEMMA ListCloses ==
    ASSUME NEW list \in Seq({"a", "b", "c"}), NEW gone, NEW n \in DOMAIN list, Listed(list, gone)
    PROVE  /\ RemoveAt(list, n) \in Seq({"a", "b", "c"})
           /\ Listed(RemoveAt(list, n), gone \cup {list[n]})
<1> DEFINE l == RemoveAt(list, n)
           g == gone \cup {list[n]}
<1>1. l = SubSeq(list, 1, n - 1) \o SubSeq(list, n + 1, Len(list)) BY DEF RemoveAt
<1>2. /\ l \in Seq({"a", "b", "c"}) /\ Len(list) \in Nat /\ Len(l) = Len(list) - 1 /\ n \in 1 .. Len(list)
      /\ DOMAIN list = 1 .. Len(list) /\ DOMAIN l = 1 .. Len(list) - 1
      /\ \A i \in 1 .. Len(list) - 1 : l[i] = IF i < n THEN list[i] ELSE list[i + 1]
  <2> DEFINE S == {"a", "b", "c"}
             u == SubSeq(list, 1, n - 1)
             w == SubSeq(list, n + 1, Len(list))
  <2>0. list \in Seq(S) OBVIOUS
  <2> HIDE DEF S
  <2>1. Len(list) \in Nat /\ DOMAIN list = 1 .. Len(list) /\ n \in 1 .. Len(list) BY <2>0
  <2>2. /\ u \in Seq(S) /\ Len(u) = n - 1 /\ \A i \in 1 .. n - 1 : u[i] = list[i]
    BY <2>0, <2>1
  <2>3. /\ w \in Seq(S) /\ Len(w) = Len(list) - n /\ \A i \in 1 .. Len(list) - n : w[i] = list[n + i]
    BY <2>0, <2>1
  <2> HIDE DEF u, w, l
  <2>4. l = u \o w BY <1>1 DEF u, w
  <2>5. l \in Seq(S) /\ Len(l) = Len(list) - 1 /\ DOMAIN l = 1 .. Len(list) - 1
    <3>0. u \in Seq(S) /\ w \in Seq(S) BY <2>2, <2>3
    <3>1. l \in Seq(S) /\ Len(l) = Len(u) + Len(w) BY <3>0, <2>4
    <3>2. Len(l) = Len(list) - 1 BY <3>1, <2>1, <2>2, <2>3
    <3> QED BY <3>1, <3>2
  <2>6. ASSUME NEW i \in 1 .. Len(list) - 1 PROVE l[i] = IF i < n THEN list[i] ELSE list[i + 1]
    <3>1. CASE i < n
      <4>1. i \in 1 .. n - 1 BY <2>1, <3>1
      <4>2. l[i] = u[i] BY <2>1, <2>2, <2>3, <2>4, <4>1
      <4> QED BY <2>2, <3>1, <4>1, <4>2
    <3>2. CASE ~(i < n)
      <4>1. i - (n - 1) \in 1 .. Len(list) - n /\ n + (i - (n - 1)) = i + 1
        <5>1. Len(list) \in Nat /\ n \in 1 .. Len(list) BY <2>1
        <5> QED BY <5>1, <3>2, PlaceAfter
      <4>2. l[i] = w[i - (n - 1)]
        <5>1. i \in 1 .. Len(u) + Len(w) /\ ~(i <= Len(u)) BY <2>1, <2>2, <2>3, <3>2
        <5>2. l[i] = w[i - Len(u)] BY <5>1, <2>2, <2>3, <2>4, ConcatProperties
        <5> QED BY <5>2, <2>2
      <4> QED BY <2>3, <3>2, <4>1, <4>2
    <3> QED BY <3>1, <3>2
  <2> QED BY <2>1, <2>5, <2>6 DEF S
<1> HIDE DEF l
<1>3. ASSUME NEW i \in DOMAIN l, NEW j \in DOMAIN l, l[i] = l[j] PROVE i = j
  <2> DEFINE a == IF i < n THEN i ELSE i + 1
             b == IF j < n THEN j ELSE j + 1
  <2>1. a \in DOMAIN list /\ b \in DOMAIN list /\ l[i] = list[a] /\ l[j] = list[b] BY <1>2
  <2>2. a = b BY <1>3, <2>1 DEF Listed
  <2> QED BY <1>2, <2>2
<1>4. ASSUME NEW x \in {"a", "b", "c"}, x \notin g PROVE \E i \in DOMAIN l : l[i] = x
  <2>1. PICK i \in DOMAIN list : list[i] = x BY <1>4 DEF Listed
  <2>2. i # n BY <1>4, <2>1
  <2> DEFINE j == IF i < n THEN i ELSE i - 1
  <2>3. j \in DOMAIN l /\ l[j] = list[i] BY <1>2, <2>2
  <2> QED BY <2>1, <2>3
<1>5. ASSUME NEW i \in DOMAIN l PROVE l[i] \notin g /\ l[i] \in {"a", "b", "c"}
  <2> DEFINE a == IF i < n THEN i ELSE i + 1
  <2>1. a \in DOMAIN list /\ a # n /\ l[i] = list[a] BY <1>2
  <2> HIDE DEF a
  <2>2. list[a] # list[n] BY <2>1 DEF Listed
  <2>3. list[a] \in {"a", "b", "c"} BY <2>1
  <2>4. list[a] \notin gone BY <2>1, <2>3 DEF Listed
  <2> QED BY <2>1, <2>2, <2>3, <2>4
<1>6. Listed(l, g)
  <2> HIDE DEF g
  <2> QED BY <1>3, <1>4, <1>5 DEF Listed
<1> QED BY <1>2, <1>6 DEF l

\* A connection that closes is taken from the list, as the invariant says.
LEMMA PingCloses == ASSUME PingInv(st), PingClosed PROVE PingInv(st')
<1>1. PICK n \in DOMAIN st.list :
         st' = [st EXCEPT !.list = RemoveAt(st.list, n), !.gone = st.gone \cup {st.list[n]}]
  BY DEF PingClosed
<1>2. st \in Pings /\ st.list \in Seq({"a", "b", "c"}) /\ st.gone \in SUBSET {"a", "b", "c"}
  BY DEF PingInv, Pings
<1> DEFINE l == RemoveAt(st.list, n)
           g == st.gone \cup {st.list[n]}
<1>3. l \in Seq({"a", "b", "c"}) /\ Listed(l, g) BY <1>2, ListCloses DEF PingInv
<1>4. g \in SUBSET {"a", "b", "c"} BY <1>2
<1>5. st' = [st EXCEPT !.list = l, !.gone = g] BY <1>1
<1> HIDE DEF l, g
<1>6. /\ st' \in Pings /\ st'.missed = st.missed /\ st'.ring = st.ring /\ st'.head = st.head
      /\ st'.tail = st.tail /\ st'.index = st.index /\ st'.list = l /\ st'.gone = g
  BY <1>2, <1>3, <1>4, <1>5 DEF Pings
<1> QED BY <1>3, <1>6 DEF PingInv, Ends, Holds

-----------------------------------------------------------------------------
(* The test programs: the specification.                                    *)

ProgramInv(s) == EchoInv(s) \/ RateInv(s) \/ FraggleInv(s) \/ PingInv(s) \/ TesterInv(s)

\* Each program starts in its invariant.
LEMMA ProgramsInitial == ProgramsInit => ProgramInv(st)
<1> SUFFICES ASSUME ProgramsInit PROVE ProgramInv(st) OBVIOUS
<1>1. CASE st = EchoInit
  BY <1>1 DEF EchoInit, EchoInv, Echo, ProgramInv
<1>2. CASE st = FraggleInit
  <2> DEFINE e == <<>>
  <2>1. e \in Seq(Piece) OBVIOUS
  <2>2. st = [prog |-> "fraggle", srv |-> "START", left |-> 0, sum |-> 0, sent |-> 0, long |-> FALSE,
              wire |-> e, cli |-> "START", csum |-> 0, wrong |-> FALSE]
    BY <1>2 DEF FraggleInit
  <2>3. e = <<>> OBVIOUS
  <2> HIDE DEF e
  <2>4. st \in Fraggle /\ ~st.wrong /\ st.wire = e /\ st.srv = "START" /\ st.cli = "START"
    BY <2>1, <2>2 DEF Fraggle, Phase
  <2> QED BY <2>3, <2>4 DEF FraggleInv, Between, ProgramInv
<1>3. CASE st = PingInit
  <2> DEFINE ring == [i \in 0 .. PingRing - 1 |-> 0]
             list == <<"a", "b", "c">>
  <2>1. st = [prog |-> "ping", ring |-> ring, head |-> 0, tail |-> 0, index |-> 1,
              missed |-> FALSE, list |-> list, gone |-> {}]
    BY <1>3 DEF PingInit
  <2>2. PingRing \in Nat /\ PingRing >= 1 BY ProgramsAssumption
  <2>3. 0 \in Slots BY <2>2 DEF Slots
  <2>4. ring \in [Slots -> Nat] /\ \A i \in Slots : ring[i] = 0 BY DEF Slots
  <2>5. list \in Seq({"a", "b", "c"}) /\ Listed(list, {}) BY DEF Listed
  <2> HIDE DEF ring, list
  <2>6. /\ st \in Pings /\ st.ring = ring /\ st.head = 0 /\ st.tail = 0 /\ st.index = 1 /\ ~st.missed
        /\ st.list = list /\ st.gone = {}
    BY <2>1, <2>3, <2>4, <2>5 DEF Pings
  <2>7. Ends(st, 0) BY <2>2, <2>6 DEF Ends
  <2>8. Holds(st, 0)
    <3> SUFFICES ASSUME NEW d \in Slots PROVE ring[Back(0, d)] = IF d < 0 THEN 0 - d ELSE 0
      BY <2>6 DEF Holds
    <3>1. ring[Back(0, d)] = 0 BY <2>3, <2>4, BackInSlots
    <3> QED BY <3>1, <2>2 DEF Slots
  <2>9. st.index - 1 = 0 BY <2>6
  <2> QED BY <2>5, <2>6, <2>7, <2>8, <2>9 DEF PingInv, ProgramInv
<1>4. CASE st = ClientInit
  BY <1>4 DEF ClientInit, TesterInv, Tester, Attempt, ProgramInv
<1>5. CASE \E r \in 1 .. Second - 2 : st = [RateInit EXCEPT !.rate = r]
  <2>1. PICK r \in 1 .. Second - 2 : st = [RateInit EXCEPT !.rate = r] BY <1>5
  <2>2. Second \in Nat /\ r \in Nat /\ r < Second - 1 /\ Second > 0 BY ProgramsAssumption
  <2>3. st = [prog |-> "rate", us |-> 0, oldus |-> 0, since |-> 0, rate |-> r]
    BY <2>1 DEF RateInit
  <2> QED BY <2>2, <2>3 DEF RateInv, Rate, ProgramInv
<1> QED BY <1>1, <1>2, <1>3, <1>4, <1>5 DEF ProgramsInit

\* Each step of a test program keeps its invariant.
LEMMA ProgramsStep == ProgramInv(st) /\ ProgramsNext => ProgramInv(st')
<1> SUFFICES ASSUME ProgramInv(st), ProgramsNext PROVE ProgramInv(st') OBVIOUS
<1>1. /\ st.prog = "echo" => EchoInv(st)
      /\ st.prog = "rate" => RateInv(st)
      /\ st.prog = "fraggle" => FraggleInv(st)
      /\ st.prog = "ping" => PingInv(st)
      /\ st.prog = "client" => TesterInv(st)
  BY DEF ProgramInv, EchoInv, RateInv, FraggleInv, PingInv, TesterInv, Echo, Rate, Fraggle, Pings, Tester
<1>2. CASE EchoReceive \/ EchoPing \/ EchoPollout
  BY <1>1, <1>2, EchoSteps DEF EchoReceive, EchoPing, EchoPollout, ProgramInv
<1>3. CASE RateLoop
  BY <1>1, <1>3, RateStep DEF RateLoop, ProgramInv
<1>4. CASE FraggleWriteable
  BY <1>1, <1>4, FraggleWrites DEF FraggleWriteable, ProgramInv
<1>5. CASE FraggleReceive
  BY <1>1, <1>5, FraggleReads DEF FraggleReceive, ProgramInv
<1>6. CASE PingWriteable
  BY <1>1, <1>6, PingWrites DEF PingWriteable, ProgramInv
<1>7. CASE PongReceive
  BY <1>1, <1>7, PingReads DEF PongReceive, ProgramInv
<1>8. CASE PingClosed
  BY <1>1, <1>8, PingCloses DEF PingClosed, ProgramInv
<1>9. CASE \/ ClientLoop
           \/ \E who \in {"dumb", "mirror"} :
                 \/ ClientConnectionError(who) \/ ClientSilentEnd(who)
                 \/ ClientEstablished(who) \/ ClientClosed(who)
  <2>1. st.prog = "client"
    BY <1>9 DEF ClientLoop, ClientConnectionError, ClientSilentEnd, ClientEstablished, ClientClosed
  <2> QED BY <1>1, <1>9, <2>1, TesterSteps DEF ProgramInv
<1> QED BY <1>2, <1>3, <1>4, <1>5, <1>6, <1>7, <1>8, <1>9 DEF ProgramsNext

-----------------------------------------------------------------------------
(* The request parser: the inductive invariant.                             *)

Chars  == {"x", "/", ".", "%", "?", " ", "cr", "lf", "nul"}
Frag   == [off : Nat, len : Nat, next : Nat, token : Tokens]
Taking == {"GET", "HTTP", "h1", "h2"}
ParseStates  == {"NAME", "SKIPPING", "SAW_CR", "COMPLETE"} \cup Taking
EscapeStates == {"IDLE", "PERCENT", "H1"}
PathStates   == {"IDLE", "SLASH", "SLASH_DOT", "SLASH_DOT_DOT", "ARGUMENTS"}
Stashes      == Hex \cup {"x"}
Results      == 0 .. 2
HeaderTable ==
    [ps : ParseStates, ues : EscapeStates, ups : PathStates, stash : Stashes, ret : Results, left : Int,
     data : Seq(Chars), frags : Seq(Frag), index : [Tokens -> Nat]]

\* Where a fragment ends, that it holds no terminator, and that it has one.
End(f)      == f.off + f.len
Clean(d, f) == \A i \in f.off + 1 .. End(f) : d[i] # "nul"
Sealed(d, f) == End(f) < Len(d) /\ d[End(f) + 1] = "nul"

\* The fragments lie in the data one behind the other; each ends with a
\* terminator before the next one; the last one is still open, or sealed too.
Behind(d, fs) ==
    /\ \A n \in 1 .. Len(fs) : End(fs[n]) <= Len(d)
    /\ \A m \in 1 .. Len(fs), n \in 1 .. Len(fs) : m < n => End(fs[m]) <= fs[n].off
Parted(d, fs) ==
    /\ \A n \in 1 .. Len(fs) : Clean(d, fs[n])
    /\ \A m \in 1 .. Len(fs), n \in 1 .. Len(fs) : m < n => End(fs[m]) < fs[n].off /\ d[End(fs[m]) + 1] = "nul"
Opened(d, fs) == Len(fs) > 0 /\ End(fs[Len(fs)]) = Len(d)
Shut(d, fs)  == Len(fs) > 0 => Sealed(d, fs[Len(fs)])

\* The path is plain, and ends in a way that the parser's state knows.
PlainPath(d, f) ==
    \A i \in f.off + 1 .. End(f) - 1 :
        d[i] = "/" => d[i + 1] # "/" /\ (d[i + 1] = "." /\ i + 2 <= End(f) => d[i + 2] \notin {".", "/"})
NoSlash(d, f)    == f.len > 0 => d[End(f)] # "/"
NoSlashDot(d, f) == f.len > 1 => ~(d[End(f) - 1] = "/" /\ d[End(f)] = ".")
Ending(d, f, ups) == NoSlashDot(d, f) /\ (ups = "IDLE" => NoSlash(d, f))

Over(p)   == Len(p.data) > DataSize
Get(p)    == p.index["GET"]
InPath(p) == p.ps = "GET" /\ p.ups # "ARGUMENTS"

\* What the parser keeps of data, fragments and the number of the path's
\* fragment, however it goes on.
Laid(d, fs, g) ==
    /\ Behind(d, fs)
    /\ g \in 0 .. Len(fs)
    /\ g # 0 => PlainPath(d, fs[g])

\* What holds of a table however it ends, and while it is being filled.
Safe(p) ==
    /\ p \in HeaderTable
    /\ Laid(p.data, p.frags, Get(p))
    /\ Get(p) = 0 => p.ups = "IDLE"
Filling(p) ==
    /\ p.ps = "GET" => Get(p) # 0
    /\ InPath(p) => Get(p) = Len(p.frags) /\ Ending(p.data, p.frags[Get(p)], p.ups)
    /\ (p.ps \in Taking /\ ~InPath(p)) \/ Over(p) => Get(p) < Len(p.frags)
    /\ Over(p) => p.ups = "ARGUMENTS"
    /\ ~Over(p) => Parted(p.data, p.frags) /\ IF p.ps \in Taking THEN Opened(p.data, p.frags) ELSE Shut(p.data, p.frags)
HeaderInv(p) == Safe(p) /\ (p.ret # 2 => Filling(p)) /\ (p.ps = "COMPLETE" => p.ret # 2)

\* The last fragment grows by k.
Longer(fs, k) == [fs EXCEPT ![Len(fs)].len = @ + k]

\* Only the length of the last fragment changes.
LEMMA LongerFacts ==
  ASSUME NEW fs \in Seq(Frag), fs # <<>>, NEW k \in Int, fs[Len(fs)].len + k \in Nat
  PROVE  /\ Longer(fs, k) \in Seq(Frag) /\ Len(Longer(fs, k)) = Len(fs)
         /\ \A n \in 1 .. Len(fs) - 1 : Longer(fs, k)[n] = fs[n]
         /\ Longer(fs, k)[Len(fs)].off = fs[Len(fs)].off
         /\ Longer(fs, k)[Len(fs)].len = fs[Len(fs)].len + k
<1>1. Len(fs) \in 1 .. Len(fs) /\ DOMAIN fs = 1 .. Len(fs) BY EmptySeq
<1> DEFINE f == fs[Len(fs)]  g == [f EXCEPT !.len = @ + k]
<1>2. f \in Frag BY <1>1
<1>3. g \in Frag /\ g.off = f.off /\ g.len = f.len + k BY <1>2 DEF Frag
<1>4. Longer(fs, k) = [fs EXCEPT ![Len(fs)] = g] BY DEF Longer
<1> HIDE DEF f, g
<1> DEFINE gs == [fs EXCEPT ![Len(fs)] = g]
<1>5. gs \in Seq(Frag) /\ Len(gs) = Len(fs) /\ (\A n \in 1 .. Len(fs) : gs[n] = IF n = Len(fs) THEN g ELSE fs[n])
  BY <1>1, <1>3, ExceptSeq
<1> HIDE DEF gs
<1>6. gs[Len(fs)] = g BY <1>1, <1>5
<1>7. ASSUME NEW n \in 1 .. Len(fs) - 1 PROVE gs[n] = fs[n]
  <2>1. Len(fs) \in Nat OBVIOUS
  <2>2. n \in 1 .. Len(fs) /\ n # Len(fs) BY <2>1
  <2> QED BY <2>2, <1>5
<1>8. Longer(fs, k) = gs BY <1>4 DEF gs
<1> QED BY <1>3, <1>5, <1>6, <1>7, <1>8 DEF f

\* One more character in the data disturbs nothing.
LEMMA AppendFacts ==
  ASSUME NEW d \in Seq(Chars), NEW c \in Chars
  PROVE  /\ Append(d, c) \in Seq(Chars) /\ Len(Append(d, c)) = Len(d) + 1
         /\ \A i \in 1 .. Len(d) : Append(d, c)[i] = d[i]
         /\ Append(d, c)[Len(d) + 1] = c
OBVIOUS

\* A path is what it was where the data is what it was.
LEMMA PathSame ==
  ASSUME NEW d, NEW e, NEW f \in Frag, NEW g \in Frag, f.off = g.off, f.len = g.len, PlainPath(d, f),
         \A i \in f.off + 1 .. End(f) : e[i] = d[i]
  PROVE  PlainPath(e, g)
<1>1. f.off \in Nat /\ f.len \in Nat BY DEF Frag
<1> QED BY <1>1 DEF PlainPath, End

\* Laid, Parted, Opened and Shut look at where fragments are, not at what they
\* are linked to.
LEMMA LinkedLaid ==
  ASSUME NEW d \in Seq(Chars), NEW fs \in Seq(Frag), NEW gs \in Seq(Frag), Len(gs) = Len(fs),
         \A n \in 1 .. Len(fs) : gs[n].off = fs[n].off /\ gs[n].len = fs[n].len, NEW g
  PROVE  /\ Laid(d, fs, g) => Laid(d, gs, g)
         /\ Parted(d, fs) => Parted(d, gs)
         /\ Opened(d, fs) => Opened(d, gs)
<1>1. \A n \in 1 .. Len(fs) : End(gs[n]) = End(fs[n]) BY DEF End
<1>2. ASSUME Laid(d, fs, g) PROVE Laid(d, gs, g)
  <2>1. Behind(d, gs) BY <1>1, <1>2 DEF Laid, Behind
  <2>2. ASSUME g # 0 PROVE PlainPath(d, gs[g])
    <3>1. g \in 1 .. Len(fs) /\ PlainPath(d, fs[g]) BY <1>2, <2>2 DEF Laid
    <3>2. fs[g] \in Frag /\ gs[g] \in Frag BY <3>1
    <3> QED BY <3>1, <3>2, PathSame
  <2> QED BY <1>2, <2>1, <2>2 DEF Laid
<1>3. Parted(d, fs) => Parted(d, gs) BY <1>1 DEF Parted, Clean
<1>4. Opened(d, fs) => Opened(d, gs) BY <1>1 DEF Opened
<1> QED BY <1>2, <1>3, <1>4

\* A character is stored, and the last fragment does not grow: a terminator.
LEMMA SealLaid ==
  ASSUME NEW d \in Seq(Chars), NEW fs \in Seq(Frag), NEW c \in Chars, NEW g
  PROVE  /\ Laid(d, fs, g) => Laid(Append(d, c), fs, g)
         /\ Laid(d, fs, g) /\ Parted(d, fs) => Parted(Append(d, c), fs)
         /\ c = "nul" /\ Opened(d, fs) => Shut(Append(d, c), fs)
<1> DEFINE e == Append(d, c)
<1>1. e \in Seq(Chars) /\ Len(e) = Len(d) + 1 /\ (\A i \in 1 .. Len(d) : e[i] = d[i]) /\ e[Len(d) + 1] = c
  BY AppendFacts
<1>2. \A n \in 1 .. Len(fs) : fs[n] \in Frag OBVIOUS
<1>3. \A n \in 1 .. Len(fs) : fs[n].off \in Nat /\ fs[n].len \in Nat BY <1>2 DEF Frag
<1>30. \A n \in 1 .. Len(fs) : End(fs[n]) \in Nat /\ End(fs[n]) >= fs[n].off BY <1>3 DEF End
<1> HIDE DEF e
<1>4. ASSUME Laid(d, fs, g) PROVE Laid(e, fs, g)
  <2>1. Behind(e, fs) BY <1>1, <1>3, <1>4 DEF Laid, Behind, End
  <2>2. ASSUME g # 0 PROVE PlainPath(e, fs[g])
    <3>1. g \in 1 .. Len(fs) /\ PlainPath(d, fs[g]) /\ End(fs[g]) <= Len(d) BY <1>4, <2>2 DEF Laid, Behind
    <3>2. \A i \in fs[g].off + 1 .. End(fs[g]) : e[i] = d[i]
      <4>1. \A i \in fs[g].off + 1 .. End(fs[g]) : i \in 1 .. Len(d) BY <1>3, <1>30, <3>1
      <4> QED BY <4>1, <1>1
    <3> QED BY <1>2, <3>1, <3>2, PathSame
  <2> QED BY <1>4, <2>1, <2>2 DEF Laid
<1>5. ASSUME Laid(d, fs, g), Parted(d, fs) PROVE Parted(e, fs)
  <2>1. \A n \in 1 .. Len(fs) : End(fs[n]) <= Len(d) BY <1>5 DEF Laid, Behind
  <2>2. ASSUME NEW n \in 1 .. Len(fs) PROVE Clean(e, fs[n])
    <3>1. \A i \in fs[n].off + 1 .. End(fs[n]) : i \in 1 .. Len(d) BY <1>3, <1>30, <2>1
    <3>2. Clean(d, fs[n]) BY <1>5 DEF Parted
    <3> QED BY <3>1, <3>2, <1>1 DEF Clean
  <2>3. ASSUME NEW m \in 1 .. Len(fs), NEW n \in 1 .. Len(fs), m < n
        PROVE  End(fs[m]) < fs[n].off /\ e[End(fs[m]) + 1] = "nul"
    <3>1. End(fs[m]) < fs[n].off /\ d[End(fs[m]) + 1] = "nul" BY <1>5, <2>3 DEF Parted
    <3>2. End(fs[m]) + 1 \in 1 .. Len(d) 
      <4>1. End(fs[m]) \in Nat /\ fs[n].off \in Nat /\ End(fs[n]) \in Nat /\ fs[n].off <= End(fs[n]) BY <1>3, <1>30
      <4> QED BY <4>1, <3>1, <2>1
    <3> QED BY <1>1, <3>1, <3>2
  <2> QED BY <2>2, <2>3 DEF Parted
<1>6. c = "nul" /\ Opened(d, fs) => Shut(e, fs) BY <1>1 DEF Opened, Shut, Sealed
<1> QED BY <1>4, <1>5, <1>6 DEF e

\* A character is stored in the last fragment, which is not the path's.
LEMMA GrowLaid ==
  ASSUME NEW d \in Seq(Chars), NEW fs \in Seq(Frag), fs # <<>>, NEW c \in Chars, NEW g
  PROVE  /\ Laid(d, fs, g) /\ g < Len(fs) => Laid(Append(d, c), Longer(fs, 1), g)
         /\ Laid(d, fs, g) /\ Opened(d, fs) => /\ Behind(Append(d, c), Longer(fs, 1))
                                               /\ Opened(Append(d, c), Longer(fs, 1))
         /\ Laid(d, fs, g) /\ Opened(d, fs) /\ Parted(d, fs) /\ c # "nul" => Parted(Append(d, c), Longer(fs, 1))
<1> DEFINE e == Append(d, c)  gs == Longer(fs, 1)
<1>1. e \in Seq(Chars) /\ Len(e) = Len(d) + 1 /\ (\A i \in 1 .. Len(d) : e[i] = d[i]) /\ e[Len(d) + 1] = c
  BY AppendFacts
<1>2. \A n \in 1 .. Len(fs) : fs[n] \in Frag OBVIOUS
<1>3. \A n \in 1 .. Len(fs) : fs[n].off \in Nat /\ fs[n].len \in Nat BY <1>2 DEF Frag
<1>4. Len(fs) \in 1 .. Len(fs) /\ Len(fs) \in Nat BY EmptySeq
<1>5. gs \in Seq(Frag) /\ Len(gs) = Len(fs) /\ (\A n \in 1 .. Len(fs) - 1 : gs[n] = fs[n])
      /\ gs[Len(fs)].off = fs[Len(fs)].off /\ gs[Len(fs)].len = fs[Len(fs)].len + 1
  <2>1. fs[Len(fs)].len + 1 \in Nat BY <1>3, <1>4
  <2> QED BY <2>1, LongerFacts
<1>6. (\A n \in 1 .. Len(fs) - 1 : End(gs[n]) = End(fs[n])) /\ End(gs[Len(fs)]) = End(fs[Len(fs)]) + 1
  BY <1>3, <1>4, <1>5 DEF End
<1>7. \A n \in 1 .. Len(fs) : gs[n].off = fs[n].off BY <1>4, <1>5
<1> HIDE DEF e, gs
<1>8. \A n \in 1 .. Len(fs) : End(fs[n]) \in Nat /\ End(fs[n]) >= fs[n].off BY <1>3 DEF End
<1>9. ASSUME Laid(d, fs, g) PROVE Behind(e, gs)
  <2>1. \A n \in 1 .. Len(fs) : End(fs[n]) <= Len(d) BY <1>9 DEF Laid, Behind
  <2>2. \A n \in 1 .. Len(gs) : End(gs[n]) <= Len(e)
    <3> TAKE n \in 1 .. Len(gs)
    <3>1. CASE n = Len(fs) BY <3>1, <1>1, <1>4, <1>5, <1>6, <1>8, <2>1
    <3>2. CASE n # Len(fs)
      <4>1. n \in 1 .. Len(fs) - 1 /\ n \in 1 .. Len(fs) BY <3>2, <1>4, <1>5
      <4> QED BY <4>1, <1>1, <1>6, <1>8, <2>1
    <3> QED BY <3>1, <3>2
  <2>3. ASSUME NEW m \in 1 .. Len(fs), NEW n \in 1 .. Len(fs), m < n PROVE End(gs[m]) <= gs[n].off
    <3>1. End(fs[m]) <= fs[n].off BY <1>9, <2>3 DEF Laid, Behind
    <3>2. m \in 1 .. Len(fs) - 1 BY <2>3, <1>4
    <3> QED BY <3>1, <3>2, <1>6, <1>7
  <2> QED BY <2>2, <2>3, <1>5 DEF Behind
<1>10. ASSUME Laid(d, fs, g), g < Len(fs) PROVE Laid(e, gs, g)
  <2>1. ASSUME g # 0 PROVE PlainPath(e, gs[g])
    <3>1. g \in 1 .. Len(fs) - 1 /\ g \in 1 .. Len(fs) BY <1>10, <2>1, <1>4 DEF Laid
    <3>2. PlainPath(d, fs[g]) /\ End(fs[g]) <= Len(d) /\ gs[g] = fs[g]
      BY <1>5, <1>10, <2>1, <3>1 DEF Laid, Behind
    <3>3. \A i \in fs[g].off + 1 .. End(fs[g]) : e[i] = d[i] BY <1>1, <1>3, <1>8, <3>1, <3>2
    <3> QED BY <1>2, <3>1, <3>2, <3>3, PathSame
  <2> QED BY <1>9, <1>10, <1>5, <2>1 DEF Laid
<1>11. ASSUME Opened(d, fs) PROVE Opened(e, gs)
  BY <1>11, <1>1, <1>4, <1>5, <1>6, <1>8 DEF Opened
<1>12. ASSUME Laid(d, fs, g), Opened(d, fs), Parted(d, fs), c # "nul" PROVE Parted(e, gs)
  <2>1. \A n \in 1 .. Len(fs) : End(fs[n]) <= Len(d) BY <1>12 DEF Laid, Behind
  <2>2. \A n \in 1 .. Len(fs) : Clean(d, fs[n]) BY <1>12 DEF Parted
  <2>3. ASSUME NEW n \in 1 .. Len(fs) PROVE Clean(e, gs[n])
    <3>1. CASE n = Len(fs)
      <4>1. End(gs[n]) = Len(d) + 1 BY <3>1, <1>6, <1>12 DEF Opened
      <4>2. ASSUME NEW i \in gs[n].off + 1 .. Len(d) + 1 PROVE e[i] # "nul"
        <5>1. CASE i = Len(d) + 1 BY <5>1, <1>1, <1>12
        <5>2. CASE i # Len(d) + 1
          <6>1. i \in fs[n].off + 1 .. End(fs[n]) /\ i \in 1 .. Len(d)
            BY <5>2, <3>1, <1>3, <1>7, <1>12 DEF Opened
          <6> QED BY <6>1, <1>1, <2>2 DEF Clean
        <5> QED BY <5>1, <5>2
      <4> QED BY <4>1, <4>2 DEF Clean
    <3>2. CASE n # Len(fs)
      <4>1. n \in 1 .. Len(fs) - 1 BY <3>2, <1>4
      <4>2. gs[n] = fs[n] /\ Clean(d, fs[n]) /\ End(fs[n]) <= Len(d) BY <4>1, <1>5, <2>1, <2>2
      <4>3. \A i \in fs[n].off + 1 .. End(fs[n]) : i \in 1 .. Len(d) BY <4>2, <1>3, <1>8
      <4> QED BY <4>2, <4>3, <1>1 DEF Clean
    <3> QED BY <3>1, <3>2
  <2>4. ASSUME NEW m \in 1 .. Len(fs), NEW n \in 1 .. Len(fs), m < n
        PROVE  End(gs[m]) < gs[n].off /\ e[End(gs[m]) + 1] = "nul"
    <3>1. End(fs[m]) < fs[n].off /\ d[End(fs[m]) + 1] = "nul" BY <1>12, <2>4 DEF Parted
    <3>2. End(fs[m]) + 1 \in 1 .. Len(d) BY <1>8, <1>3, <2>1, <3>1
    <3>3. m \in 1 .. Len(fs) - 1 BY <2>4, <1>4
    <3> QED BY <1>1, <1>6, <1>7, <3>1, <3>2, <3>3
  <2> QED BY <2>3, <2>4, <1>5 DEF Parted
<1> QED BY <1>9, <1>10, <1>11, <1>12 DEF e, gs

\* A fragment begins behind all the others.
LEMMA FreshLaid ==
  ASSUME NEW d \in Seq(Chars), NEW fs \in Seq(Frag), NEW t \in Tokens, NEW g, Laid(d, fs, g)
  PROVE  /\ Append(fs, Fragment(Len(d), 0, t)) \in Seq(Frag)
         /\ Len(Append(fs, Fragment(Len(d), 0, t))) = Len(fs) + 1
         /\ Laid(d, Append(fs, Fragment(Len(d), 0, t)), g)
         /\ Laid(d, Append(fs, Fragment(Len(d), 0, t)), Len(fs) + 1)
         /\ Opened(d, Append(fs, Fragment(Len(d), 0, t)))
         /\ Parted(d, fs) /\ Shut(d, fs) => Parted(d, Append(fs, Fragment(Len(d), 0, t)))
<1> DEFINE f == Fragment(Len(d), 0, t)  gs == Append(fs, f)
<1>1. f \in Frag /\ f.off = Len(d) /\ f.len = 0 /\ End(f) = Len(d) BY DEF Fragment, Frag, End
<1> HIDE DEF f
<1>2. gs \in Seq(Frag) /\ Len(gs) = Len(fs) + 1 /\ (\A n \in 1 .. Len(fs) : gs[n] = fs[n]) /\ gs[Len(fs) + 1] = f
  BY <1>1
<1> HIDE DEF gs
<1>3. \A n \in 1 .. Len(fs) : fs[n] \in Frag OBVIOUS
<1>4. \A n \in 1 .. Len(fs) : fs[n].off \in Nat /\ fs[n].len \in Nat BY <1>3 DEF Frag
<1>5. \A n \in 1 .. Len(fs) : End(fs[n]) <= Len(d) /\ End(fs[n]) \in Nat BY <1>4 DEF Laid, Behind, End
<1>6. \A n \in 1 .. Len(gs) : n \in 1 .. Len(fs) \/ n = Len(fs) + 1 BY <1>2
<1>7. Behind(d, gs)
  <2>1. \A n \in 1 .. Len(gs) : End(gs[n]) <= Len(d) BY <1>1, <1>2, <1>5, <1>6
  <2>2. ASSUME NEW m \in 1 .. Len(gs), NEW n \in 1 .. Len(gs), m < n PROVE End(gs[m]) <= gs[n].off
    <3>1. m \in 1 .. Len(fs) BY <1>2, <2>2
    <3>2. CASE n = Len(fs) + 1 BY <3>1, <3>2, <1>1, <1>2, <1>5
    <3>3. CASE n \in 1 .. Len(fs) BY <3>1, <3>3, <2>2, <1>2 DEF Laid, Behind
    <3> QED BY <3>2, <3>3, <1>6
  <2> QED BY <2>1, <2>2 DEF Behind
<1>8. ASSUME g # 0 PROVE PlainPath(d, gs[g])
  <2>1. g \in 1 .. Len(fs) /\ PlainPath(d, fs[g]) BY <1>8 DEF Laid
  <2> QED BY <2>1, <1>2
<1>9. PlainPath(d, f) BY <1>1 DEF PlainPath
<1>10. Laid(d, gs, g) /\ Laid(d, gs, Len(fs) + 1)
  <2>1. g \in 0 .. Len(gs) BY <1>2 DEF Laid
  <2>2. Len(fs) + 1 \in 0 .. Len(gs) BY <1>2
  <2> QED BY <2>1, <2>2, <1>2, <1>7, <1>8, <1>9 DEF Laid
<1>11. Opened(d, gs) BY <1>1, <1>2 DEF Opened
<1>12. ASSUME Parted(d, fs), Shut(d, fs) PROVE Parted(d, gs)
  <2>1. \A n \in 1 .. Len(fs) : Clean(d, fs[n]) BY <1>12 DEF Parted
  <2>2. Clean(d, f) BY <1>1 DEF Clean
  <2>3. \A n \in 1 .. Len(gs) : Clean(d, gs[n]) BY <1>2, <1>6, <2>1, <2>2
  <2>4. ASSUME NEW m \in 1 .. Len(gs), NEW n \in 1 .. Len(gs), m < n
        PROVE  End(gs[m]) < gs[n].off /\ d[End(gs[m]) + 1] = "nul"
    <3>1. m \in 1 .. Len(fs) /\ gs[m] = fs[m] BY <1>2, <2>4
    <3>2. CASE n \in 1 .. Len(fs) BY <3>1, <3>2, <2>4, <1>2, <1>12 DEF Parted
    <3>3. CASE n = Len(fs) + 1
      <4>1. gs[n].off = Len(d) BY <3>3, <1>1, <1>2
      <4>2. CASE m = Len(fs)
        <5>1. Sealed(d, fs[m]) BY <4>2, <3>1, <1>12 DEF Shut
        <5> QED BY <5>1, <4>1, <3>1 DEF Sealed
      <4>3. CASE m # Len(fs)
        <5> DEFINE l == Len(fs)
        <5>1. l \in 1 .. Len(fs) /\ m < l BY <4>3, <3>1
        <5>2. End(fs[m]) < fs[l].off /\ d[End(fs[m]) + 1] = "nul" BY <5>1, <3>1, <1>12 DEF Parted
        <5>4. fs[l].off \in Nat /\ fs[l].len \in Nat /\ End(fs[m]) \in Nat BY <5>1, <3>1, <1>4, <1>5
        <5>3. fs[l].off <= Len(d)
          <6>1. fs[l].off + fs[l].len <= Len(d) BY <5>1, <1>5 DEF End
          <6> QED BY <6>1, <5>4
        <5> QED BY <5>2, <5>3, <5>4, <4>1, <3>1
      <4> QED BY <4>2, <4>3
    <3> QED BY <3>2, <3>3, <1>6
  <2> QED BY <2>3, <2>4 DEF Parted
<1> QED BY <1>2, <1>10, <1>11, <1>12 DEF gs, f

\* The path grows by a character that may follow how it ended.
LEMMA PathGrows ==
  ASSUME NEW d \in Seq(Chars), NEW fs \in Seq(Frag), fs # <<>>, NEW c \in Chars,
         Laid(d, fs, Len(fs)), Opened(d, fs),
         c = "/" => NoSlash(d, fs[Len(fs)]), c \in {"/", "."} => NoSlashDot(d, fs[Len(fs)])
  PROVE  /\ Laid(Append(d, c), Longer(fs, 1), Len(fs))
         /\ c # "/" => NoSlash(Append(d, c), Longer(fs, 1)[Len(fs)])
         /\ c # "." \/ NoSlash(d, fs[Len(fs)]) => NoSlashDot(Append(d, c), Longer(fs, 1)[Len(fs)])
<1> DEFINE e == Append(d, c)  gs == Longer(fs, 1)  f == fs[Len(fs)]  h == gs[Len(fs)]
<1>1. e \in Seq(Chars) /\ Len(e) = Len(d) + 1 /\ (\A i \in 1 .. Len(d) : e[i] = d[i]) /\ e[Len(d) + 1] = c
  BY AppendFacts
<1>2. Len(fs) \in 1 .. Len(fs) BY EmptySeq
<1>3. f \in Frag BY <1>2
<1>4. f.off \in Nat /\ f.len \in Nat /\ f.off + f.len = Len(d) /\ End(f) = Len(d)
  BY <1>3 DEF Frag, Opened, End
<1>5. gs \in Seq(Frag) /\ Len(gs) = Len(fs) /\ h.off = f.off /\ h.len = f.len + 1
  BY <1>4, LongerFacts
<1>7. Behind(e, gs) BY GrowLaid
<1>8. PlainPath(d, f) BY <1>2 DEF Laid
<1>9. c = "/" => NoSlash(d, f) BY DEF f
<1>10. c \in {"/", "."} => NoSlashDot(d, f) BY DEF f
<1>11. Len(d) \in Nat OBVIOUS
<1> SUFFICES PlainPath(e, h) /\ (c # "/" => NoSlash(e, h)) /\ (c # "." \/ NoSlash(d, f) => NoSlashDot(e, h))
  BY <1>2, <1>5, <1>7 DEF Laid
<1> HIDE DEF e, gs, f, h
<1>6. End(h) = Len(d) + 1
  <2>1. h.off + h.len = Len(d) + 1 BY <1>4, <1>5, <1>11
  <2> QED BY <2>1 DEF End
<1>12. ASSUME NEW i \in h.off + 1 .. End(h) - 1, e[i] = "/"
       PROVE  e[i + 1] # "/" /\ (e[i + 1] = "." /\ i + 2 <= End(h) => e[i + 2] \notin {".", "/"})
  <2>1. i \in f.off + 1 .. Len(d) /\ i \in 1 .. Len(d) /\ d[i] = "/" BY <1>1, <1>4, <1>5, <1>6, <1>12
  <2>2. CASE i = Len(d)
    <3>1. e[i + 1] = c /\ ~(i + 2 <= End(h)) BY <2>2, <1>1, <1>6
    <3>2. ~NoSlash(d, f) BY <2>1, <2>2, <1>4 DEF NoSlash
    <3> QED BY <3>1, <3>2, <1>9
  <2>3. CASE i = Len(d) - 1
    <3>1. e[i + 1] = d[i + 1] /\ e[i + 2] = c BY <2>1, <2>3, <1>1
    <3>2. d[i + 1] # "/" BY <2>1, <2>3, <1>4, <1>8 DEF PlainPath
    <3>3. ASSUME d[i + 1] = "." PROVE ~NoSlashDot(d, f)
      <4>1. d[End(f) - 1] = "/" /\ d[End(f)] = "." /\ f.len > 1 BY <3>3, <2>1, <2>3, <1>4
      <4> QED BY <4>1 DEF NoSlashDot
    <3> QED BY <3>1, <3>2, <3>3, <1>10
  <2>4. CASE i < Len(d) - 1
    <3>1. e[i + 1] = d[i + 1] /\ e[i + 2] = d[i + 2] BY <2>1, <2>4, <1>1, SMTT(30)
    <3>2. i \in f.off + 1 .. End(f) - 1 /\ i + 2 <= End(f) BY <2>1, <2>4, <1>4
    <3> QED BY <3>1, <3>2, <2>1, <1>8 DEF PlainPath
  <2> QED BY <2>1, <2>2, <2>3, <2>4
<1>13. c # "/" => NoSlash(e, h) BY <1>1, <1>6 DEF NoSlash
<1>14. ASSUME c # "." \/ NoSlash(d, f) PROVE NoSlashDot(e, h)
  <2>1. CASE c # "." BY <2>1, <1>1, <1>6 DEF NoSlashDot
  <2>2. CASE NoSlash(d, f)
    <3> SUFFICES ASSUME h.len > 1 PROVE e[End(h) - 1] # "/" BY DEF NoSlashDot
    <3>1. f.len > 0 /\ Len(d) \in 1 .. Len(d) BY <1>4, <1>5
    <3>2. e[End(h) - 1] = d[Len(d)]
      <4>1. End(h) - 1 = Len(d) BY <1>6, <1>11
      <4> QED BY <4>1, <3>1, <1>1
    <3> QED BY <3>1, <3>2, <2>2, <1>4 DEF NoSlash
  <2> QED BY <1>14, <2>1, <2>2
<1>15. PlainPath(e, h) BY <1>12 DEF PlainPath
<1> QED BY <1>13, <1>14, <1>15

\* The first part of the data holds the same characters.
LEMMA FirstPart ==
  ASSUME NEW d \in Seq(Chars), NEW l \in 1 .. Len(d)
  PROVE  /\ SubSeq(d, 1, l) \in Seq(Chars) /\ Len(SubSeq(d, 1, l)) = l
         /\ \A i \in 1 .. l : SubSeq(d, 1, l)[i] = d[i]
OBVIOUS

\* Where the data ends when a fragment keeps k of its characters.
LEMMA CutLength ==
  ASSUME NEW n \in Nat, NEW a \in Nat, NEW b \in Nat, a + b = n, NEW k \in 1 .. b - 1
  PROVE  n - (b - k) = a + k /\ n - (b - k) \in 1 .. n - 1 /\ n - (b - k) \in Nat
OBVIOUS

\* What ends before a fragment begins lies before a cut in it.
LEMMA BeforeCut ==
  ASSUME NEW a \in Nat, NEW o \in Nat, a < o, NEW k \in Nat, k >= 1, NEW l, l = o + k
  PROVE  a + 1 <= l /\ a + 1 \in 1 .. l
OBVIOUS

\* The end of the path is taken off.
Cut(d, fs, k) == SubSeq(d, 1, Len(d) - (fs[Len(fs)].len - k))

\* Taking the end of the path off keeps the fragments in their places; what
\* stays does not end in "/." when it was cut before a slash.
LEMMA CutLaid ==
  ASSUME NEW d \in Seq(Chars), NEW fs \in Seq(Frag), fs # <<>>, Laid(d, fs, Len(fs)), Opened(d, fs), Parted(d, fs),
         NEW k \in 1 .. fs[Len(fs)].len - 1, NEW e, e = Cut(d, fs, k),
         NEW gs, gs = Longer(fs, k - fs[Len(fs)].len)
  PROVE  /\ e \in Seq(Chars) /\ gs \in Seq(Frag) /\ Len(gs) = Len(fs) /\ Len(e) <= Len(d)
         /\ Laid(e, gs, Len(fs)) /\ Opened(e, gs) /\ Parted(e, gs)
         /\ k = 1 \/ d[fs[Len(fs)].off + k + 1] = "/" => NoSlashDot(e, gs[Len(fs)])
<1> DEFINE f == fs[Len(fs)]  h == gs[Len(fs)]  l == Len(d) - (f.len - k)
<1>1. Len(fs) \in 1 .. Len(fs) /\ Len(fs) \in Nat BY EmptySeq
<1>2. f \in Frag BY <1>1
<1>3. f.off \in Nat /\ f.len \in Nat /\ f.off + f.len = Len(d) /\ End(f) = Len(d) /\ k \in Nat
  BY <1>2 DEF Frag, Opened, End
<1>15. Len(d) \in Nat /\ k \in 1 .. f.len - 1 OBVIOUS
<1> HIDE DEF f
<1>4. l = f.off + k /\ l \in 1 .. Len(d) - 1 /\ l \in Nat 
  <2>1. Len(d) - (f.len - k) = f.off + k /\ Len(d) - (f.len - k) \in 1 .. Len(d) - 1 /\ Len(d) - (f.len - k) \in Nat
    BY <1>3, <1>15, CutLength
  <2> QED BY <2>1, Zenon DEF l
<1> USE DEF f
<1>5. e \in Seq(Chars) /\ Len(e) = l /\ \A i \in 1 .. l : e[i] = d[i]
  <2> HIDE DEF f
  <2>2. e = SubSeq(d, 1, l) BY DEF f, Cut
  <2> HIDE DEF l
  <2>1. l \in 1 .. Len(d) BY <1>4, <1>15
  <2> QED BY <2>1, <2>2, FirstPart
<1>6. gs \in Seq(Frag) /\ Len(gs) = Len(fs) /\ (\A n \in 1 .. Len(fs) - 1 : gs[n] = fs[n])
      /\ h.off = f.off /\ h.len = k
  <2>1. f.len + (k - f.len) = k BY <1>3
  <2>2. f.len + (k - f.len) \in Nat /\ k - f.len \in Int BY <1>3
  <2> QED BY <2>1, <2>2, LongerFacts
<1>7. End(h) = l BY <1>4, <1>6 DEF End
<1>8. \A n \in 1 .. Len(fs) : fs[n] \in Frag OBVIOUS
<1>9. \A n \in 1 .. Len(fs) : fs[n].off \in Nat /\ fs[n].len \in Nat BY <1>8 DEF Frag
<1>10. \A n \in 1 .. Len(fs) : End(fs[n]) \in Nat /\ End(fs[n]) >= fs[n].off BY <1>9 DEF End
<1>11. PlainPath(d, f) BY <1>1 DEF Laid
<1>12. \A n \in 1 .. Len(fs) - 1 : End(fs[n]) < f.off /\ d[End(fs[n]) + 1] = "nul" BY <1>1 DEF Parted
<1>13. \A n \in 1 .. Len(fs) : Clean(d, fs[n]) BY DEF Parted
<1>14. \A m \in 1 .. Len(fs), n \in 1 .. Len(fs) : m < n => End(fs[m]) <= fs[n].off BY DEF Laid, Behind
<1>16. \A n \in 1 .. Len(fs) : gs[n].off = fs[n].off BY <1>1, <1>6
<1> DEFINE slash == d[f.off + k + 1] = "/"
<1>17. \A n \in 1 .. Len(fs) : n = Len(fs) \/ n \in 1 .. Len(fs) - 1 BY <1>1
<1>18. \A m \in 1 .. Len(fs), n \in 1 .. Len(fs) : m < n => m \in 1 .. Len(fs) - 1 BY <1>1
<1>19. \A m \in 1 .. Len(fs), n \in 1 .. Len(fs) : m < n => End(fs[m]) < fs[n].off /\ d[End(fs[m]) + 1] = "nul"
  BY DEF Parted
<1> HIDE DEF f, h, l, slash
<1>20. \A n \in 1 .. Len(fs) - 1 : n \in 1 .. Len(fs) BY <1>1
<1>27. h.off \in Nat /\ h.off = f.off /\ h.len = k BY <1>3, <1>6
<1>28. f.off + f.len = End(f) /\ End(f) \in Nat /\ l < End(f) /\ End(h) = l BY <1>3, <1>4, <1>7, <1>15
<1>29. \A n \in 1 .. Len(fs) - 1 : End(fs[n]) + 1 <= l /\ End(fs[n]) + 1 \in 1 .. l
  <2> TAKE n \in 1 .. Len(fs) - 1
  <2>1. End(fs[n]) \in Nat BY <1>10, <1>20
  <2>2. End(fs[n]) < f.off BY <1>12
  <2>3. f.off \in Nat /\ k \in Nat /\ k >= 1 /\ l = f.off + k BY <1>3, <1>4, <1>15
  <2> QED BY <2>1, <2>2, <2>3, BeforeCut
<1>21. Behind(e, gs)
  <2>1. \A n \in 1 .. Len(gs) : End(gs[n]) <= Len(e)
    <3> TAKE n \in 1 .. Len(gs)
    <3>1. CASE n = Len(fs) BY <3>1, <1>4, <1>5, <1>7 DEF h
    <3>2. CASE n \in 1 .. Len(fs) - 1 
      <4>1. End(fs[n]) + 1 <= l /\ End(fs[n]) \in Nat BY <3>2, <1>10, <1>20, <1>29
      <4> QED BY <4>1, <3>2, <1>4, <1>5, <1>6
    <3> QED BY <3>1, <3>2, <1>6, <1>17
  <2>2. ASSUME NEW m \in 1 .. Len(gs), NEW n \in 1 .. Len(gs), m < n PROVE End(gs[m]) <= gs[n].off
    <3>1. m \in 1 .. Len(fs) - 1 /\ gs[m] = fs[m] BY <2>2, <1>6, <1>18
    <3> QED BY <3>1, <2>2, <1>6, <1>14, <1>16
  <2> QED BY <2>1, <2>2 DEF Behind
<1>22. PlainPath(e, h)
  <2> SUFFICES ASSUME NEW i \in h.off + 1 .. End(h) - 1, e[i] = "/"
               PROVE  e[i + 1] # "/" /\ (e[i + 1] = "." /\ i + 2 <= End(h) => e[i + 2] \notin {".", "/"})
    BY DEF PlainPath
  <2>1. i \in f.off + 1 .. End(f) - 1 /\ i \in 1 .. l - 1 /\ i + 1 \in 1 .. l /\ i \in 1 .. l
    BY <1>3, <1>4, <1>27, <1>28, SMTT(30)
  <2>3. d[i] = "/" /\ e[i + 1] = d[i + 1] BY <2>1, <1>5
  <2>2. i + 2 <= End(h) => e[i + 2] = d[i + 2] /\ i + 2 <= End(f) 
    <3> SUFFICES ASSUME i + 2 <= End(h) PROVE e[i + 2] = d[i + 2] /\ i + 2 <= End(f) OBVIOUS
    <3>1. i + 2 \in 1 .. l /\ i + 2 <= End(f) BY <2>1, <1>4, <1>28
    <3> QED BY <3>1, <1>5
  <2> QED BY <2>1, <2>2, <2>3, <1>11 DEF PlainPath
<1>23. Laid(e, gs, Len(fs)) BY <1>1, <1>6, <1>21, <1>22 DEF Laid, h
<1>24. Opened(e, gs) BY <1>1, <1>5, <1>6, <1>7 DEF Opened, h
<1>25. Parted(e, gs)
  <2>1. ASSUME NEW n \in 1 .. Len(fs) PROVE Clean(e, gs[n])
    <3>1. CASE n = Len(fs)
      <4>1. Clean(d, f) BY <1>1, <1>13 DEF f
      <4>2. \A i \in h.off + 1 .. End(h) : i \in 1 .. l /\ i \in f.off + 1 .. End(f) BY <1>3, <1>4, <1>6, <1>7
      <4>3. Clean(e, h) BY <4>1, <4>2, <1>5 DEF Clean
      <4> QED BY <3>1, <4>3 DEF h
    <3>2. CASE n \in 1 .. Len(fs) - 1
      <4>1. gs[n] = fs[n] /\ Clean(d, fs[n]) BY <3>2, <1>6, <1>13
      <4>2. \A i \in fs[n].off + 1 .. End(fs[n]) : i \in 1 .. l 
        <5>1. End(fs[n]) + 1 <= l /\ End(fs[n]) \in Nat /\ fs[n].off \in Nat BY <3>2, <1>9, <1>10, <1>20, <1>29
        <5> QED BY <5>1, <1>4
      <4> QED BY <4>1, <4>2, <1>5 DEF Clean
    <3> QED BY <3>1, <3>2, <1>17
  <2>2. ASSUME NEW m \in 1 .. Len(fs), NEW n \in 1 .. Len(fs), m < n
        PROVE  End(gs[m]) < gs[n].off /\ e[End(gs[m]) + 1] = "nul"
    <3>1. m \in 1 .. Len(fs) - 1 /\ gs[m] = fs[m] BY <2>2, <1>6, <1>18
    <3>2. End(fs[m]) < fs[n].off /\ d[End(fs[m]) + 1] = "nul" BY <2>2, <1>19
    <3>3. End(fs[m]) + 1 \in 1 .. l BY <3>1, <1>29
    <3> QED BY <3>1, <3>2, <3>3, <1>5, <1>16
  <2> QED BY <2>1, <2>2, <1>6 DEF Parted
<1>26. ASSUME k = 1 \/ slash PROVE NoSlashDot(e, h)
  <2> SUFFICES ASSUME h.len > 1, e[l - 1] = "/", e[l] = "." PROVE FALSE BY <1>7 DEF NoSlashDot
  <2>1. slash /\ k > 1 BY <1>3, <1>6, <1>26
  <2>5. l - 1 \in 1 .. l /\ l \in 1 .. l BY <2>1, <1>3, <1>4
  <2>2. d[l - 1] = "/" /\ d[l] = "." BY <2>5, <1>5
  <2>3. d[l + 1] = "/" BY <2>1, <1>4 DEF slash
  <2>4. l - 1 \in f.off + 1 .. End(f) - 1 /\ (l - 1) + 2 <= End(f) /\ (l - 1) + 1 = l /\ (l - 1) + 2 = l + 1
    <3>1. f.off \in Nat /\ End(f) \in Nat /\ l \in Nat /\ l < End(f) BY <1>3, <1>4, <1>28
    <3>2. l = f.off + k /\ k \in Nat /\ k > 1 BY <2>1, <1>3, <1>4
    <3>3. l - 1 >= f.off + 1 BY <3>1, <3>2
    <3> QED BY <3>1, <3>3
  <2> QED BY <2>2, <2>3, <2>4, <1>11 DEF PlainPath
<1> QED BY <1>4, <1>5, <1>6, <1>15, <1>23, <1>24, <1>25, <1>26 DEF f, h, slash

-----------------------------------------------------------------------------
(* The request parser: its steps.                                           *)

Letters == Uri \cup Values

\* How a letter is stored keeps slashes, dots and terminators apart.
LEMMA PlainFacts ==
  ASSUME NEW c \in Letters \cup {"nul"}
  PROVE  /\ Plain(c) \in Chars /\ (Plain(c) = "/" <=> c = "/") /\ (Plain(c) = "." <=> c = ".")
         /\ (Plain(c) = "nul" <=> c = "nul")
BY DEF Plain, Chars, Letters, Uri, Values, Hex

\* The fragment that grows is the last one.
LEMMA CurrentFacts ==
  ASSUME NEW p, p \in HeaderTable, p.frags # <<>>
  PROVE  /\ p.frags \in Seq(Frag) /\ Len(p.frags) \in 1 .. Len(p.frags) /\ Current(p) = p.frags[Len(p.frags)]
         /\ Current(p) \in Frag /\ Current(p).off \in Nat /\ Current(p).len \in Nat
<1>1. p.frags \in Seq(Frag) BY DEF HeaderTable
<1>2. Len(p.frags) \in 1 .. Len(p.frags) BY <1>1, EmptySeq
<1>3. Current(p) = p.frags[Len(p.frags)] /\ Current(p) \in Frag BY <1>1, <1>2 DEF Current
<1>4. Current(p).off \in Nat /\ Current(p).len \in Nat BY <1>3 DEF Frag
<1> QED BY <1>1, <1>2, <1>3, <1>4

\* A table with other data, fragments and result; nothing else changes.
Refilled(p, q) ==
    /\ q \in HeaderTable
    /\ q.ps = p.ps /\ q.ues = p.ues /\ q.ups = p.ups /\ q.stash = p.stash /\ q.left = p.left /\ q.index = p.index

\* Setting the result changes neither data nor fragments.
LEMMA RefillReturns ==
  ASSUME NEW p, p \in HeaderTable, NEW r \in Results, NEW q, q = [p EXCEPT !.ret = r]
  PROVE  Refilled(p, q) /\ q.ret = r /\ q.data = p.data /\ q.frags = p.frags
BY DEF HeaderTable, Refilled

\* Setting the fragments changes nothing else.
LEMMA RefillFrags ==
  ASSUME NEW p, p \in HeaderTable, NEW fs \in Seq(Frag), NEW q, q = [p EXCEPT !.frags = fs]
  PROVE  Refilled(p, q) /\ q.ret = p.ret /\ q.data = p.data /\ q.frags = fs
BY DEF HeaderTable, Refilled

\* Two changes of data, fragments and result are one.
LEMMA RefilledTwice == ASSUME NEW p, NEW q, NEW r, Refilled(p, q), Refilled(q, r) PROVE Refilled(p, r)
BY DEF Refilled

\* What Lengthened changes: the length of the last fragment.
LEMMA LengthenedFacts ==
  ASSUME NEW p, p \in HeaderTable, p.frags # <<>>, NEW k \in Int, Current(p).len + k \in Nat
  PROVE  /\ Refilled(p, Lengthened(p, k)) /\ Lengthened(p, k).ret = p.ret /\ Lengthened(p, k).data = p.data
         /\ Lengthened(p, k).frags = Longer(p.frags, k)
<1>1. Lengthened(p, k) = [p EXCEPT !.frags = Longer(p.frags, k)] BY DEF Lengthened, Longer, HeaderTable
<1>2. Longer(p.frags, k) \in Seq(Frag) BY CurrentFacts, LongerFacts
<1> QED BY <1>1, <1>2, RefillFrags

\* The outcomes of issue_char: no room, a fragment too long, or stored.
LEMMA IssueFacts ==
  ASSUME NEW p, p \in HeaderTable, p.frags # <<>>, NEW c \in Letters \cup {"nul"}, NEW q, q = IssueChar(p, c)
  PROVE  /\ Refilled(p, q)
         /\ \/ Len(p.data) = DataSize /\ q.ret = 2 /\ q.data = p.data /\ q.frags = p.frags
            \/ /\ Len(p.data) # DataSize /\ Current(p).len >= DataSize
               /\ q.ret = 1 /\ q.data = p.data /\ q.frags = p.frags
            \/ /\ Len(p.data) # DataSize
               /\ q.ret = 0 /\ q.data = Append(p.data, Plain(c))
               /\ q.frags = IF c = "nul" THEN p.frags ELSE Longer(p.frags, 1)
<1>0. 0 \in Results /\ 1 \in Results /\ 2 \in Results BY DEF Results
<1>1. CASE Len(p.data) = DataSize
  <2>1. q = [p EXCEPT !.ret = 2] BY <1>1 DEF IssueChar, Dead
  <2> QED BY <2>1, <1>0, <1>1, RefillReturns
<1>2. CASE Len(p.data) # DataSize /\ Current(p).len >= DataSize
  <2>1. q = [p EXCEPT !.ret = 1] BY <1>2 DEF IssueChar
  <2> QED BY <2>1, <1>0, <1>2, RefillReturns
<1>3. CASE Len(p.data) # DataSize /\ ~(Current(p).len >= DataSize)
  <2> DEFINE d == Append(p.data, Plain(c))  r == [p EXCEPT !.data = d, !.ret = 0]
  <2>1. d \in Seq(Chars) BY PlainFacts DEF HeaderTable
  <2>2. Refilled(p, r) /\ r.ret = 0 /\ r.data = d /\ r.frags = p.frags
    <3> HIDE DEF d
    <3>1. r = [p EXCEPT !.data = d, !.ret = 0] OBVIOUS
    <3> HIDE DEF r
    <3> QED BY <3>1, <2>1, <1>0 DEF HeaderTable, Refilled
  <2>4. q = IF c = "nul" THEN r ELSE Lengthened(r, 1) BY <1>3 DEF IssueChar
  <2> HIDE DEF d, r
  <2>7. CASE c = "nul"
    <3>1. q = r BY <2>7, <2>4
    <3> QED BY <3>1, <2>7, <2>2, <1>3 DEF d
  <2>8. CASE c # "nul"
    <3>1. q = Lengthened(r, 1) BY <2>8, <2>4
    <3>2. r \in HeaderTable BY <2>2 DEF Refilled
    <3>3. Current(r).len + 1 \in Nat BY <3>2, <2>2, CurrentFacts
    <3>4. Refilled(r, q) /\ q.ret = 0 /\ q.data = d /\ q.frags = Longer(p.frags, 1)
      BY <3>1, <3>2, <3>3, <2>2, LengthenedFacts
    <3>5. Refilled(p, q) BY <3>4, <2>2, RefilledTwice
    <3> QED BY <3>4, <3>5, <2>8, <1>3 DEF d
  <2> QED BY <2>7, <2>8
<1> QED BY <1>1, <1>2, <1>3

\* A character can be stored in the path, or in a later fragment, or the last
\* fragment is closed.
OnPath(p)  == Safe(p) /\ p.frags # <<>> /\ Get(p) = Len(p.frags) /\ ~Over(p) /\ Opened(p.data, p.frags) /\ Parted(p.data, p.frags)
OffPath(p) ==
    /\ Safe(p) /\ Get(p) < Len(p.frags)
    /\ Over(p) => p.ups = "ARGUMENTS"
    /\ ~Over(p) => Opened(p.data, p.frags) /\ Parted(p.data, p.frags)
AllShut(p) ==
    /\ Safe(p)
    /\ Over(p) => p.ups = "ARGUMENTS" /\ Get(p) < Len(p.frags)
    /\ ~Over(p) => Parted(p.data, p.frags) /\ Shut(p.data, p.frags)
EndsPlain(p, ups) == Ending(p.data, Current(p), ups)

\* What Safe says of the table's parts.
LEMMA SafeFacts ==
  ASSUME NEW p, Safe(p)
  PROVE  /\ p \in HeaderTable /\ p.data \in Seq(Chars) /\ p.frags \in Seq(Frag) /\ Len(p.data) \in Nat
         /\ Len(p.frags) \in Nat /\ Get(p) \in 0 .. Len(p.frags) /\ Laid(p.data, p.frags, Get(p))
<1>1. p \in HeaderTable /\ Laid(p.data, p.frags, Get(p)) BY DEF Safe
<1>2. p.data \in Seq(Chars) /\ p.frags \in Seq(Frag) BY <1>1 DEF HeaderTable
<1>3. Get(p) \in 0 .. Len(p.frags) BY <1>1 DEF Laid
<1> QED BY <1>1, <1>2, <1>3

\* The limit is only reached when more was stored than there is room for.
LEMMA CurrentOver ==
  ASSUME NEW p, Safe(p), p.frags # <<>>, Len(p.data) # DataSize, Current(p).len >= DataSize
  PROVE  Over(p)
<1>1. p \in HeaderTable /\ Len(p.data) \in Nat /\ Behind(p.data, p.frags) BY SafeFacts DEF Laid
<1>2. Current(p).off \in Nat /\ Current(p).len \in Nat BY <1>1, CurrentFacts
<1>3. Current(p).off + Current(p).len <= Len(p.data) BY <1>1, CurrentFacts DEF Behind, End
<1> QED BY <1>1, <1>2, <1>3, HeaderAssumption DEF Over

\* issue_char of a letter of the path keeps it plain.
LEMMA IssueOnPath ==
  ASSUME NEW p, OnPath(p), NEW c \in Letters, NEW q, q = IssueChar(p, c),
         c = "/" => NoSlash(p.data, Current(p)), c \in {"/", "."} => NoSlashDot(p.data, Current(p))
  PROVE  /\ Refilled(p, q) /\ OnPath(q)
         /\ \/ q.ret = 2 /\ Len(p.data) = DataSize /\ q.data = p.data /\ q.frags = p.frags
            \/ /\ q.ret = 0
               /\ c # "/" => NoSlash(q.data, Current(q))
               /\ c # "." \/ NoSlash(p.data, Current(p)) => NoSlashDot(q.data, Current(q))
<1>1. /\ p \in HeaderTable /\ p.frags # <<>> /\ Get(p) = Len(p.frags) /\ Opened(p.data, p.frags) /\ Parted(p.data, p.frags)
      /\ Laid(p.data, p.frags, Len(p.frags)) /\ ~(Len(p.data) > DataSize) /\ (Get(p) = 0 => p.ups = "IDLE")
  BY DEF OnPath, Safe, Over
<1>2. p.data \in Seq(Chars) /\ p.frags \in Seq(Frag) /\ Len(p.data) \in Nat BY SafeFacts DEF OnPath
<1>3. c \in Letters \cup {"nul"} /\ c # "nul" BY DEF Letters, Uri, Hex, Values
<1>4. Refilled(p, q) BY <1>1, <1>3, IssueFacts
<1>5. q \in HeaderTable /\ Get(q) = Get(p) /\ q.ups = p.ups BY <1>4 DEF Refilled, Get
<1>6. CASE q.ret = 2 /\ Len(p.data) = DataSize /\ q.data = p.data /\ q.frags = p.frags
  <2>1. OnPath(q) BY <1>1, <1>5, <1>6 DEF OnPath, Safe, Over
  <2> QED BY <2>1, <1>4, <1>6
<1>7. CASE /\ Len(p.data) # DataSize /\ q.ret = 0 /\ q.data = Append(p.data, Plain(c))
           /\ q.frags = Longer(p.frags, 1)
  <2> DEFINE x == Plain(c)
  <2>1. x \in Chars /\ (x = "/" <=> c = "/") /\ (x = "." <=> c = ".") /\ x # "nul" BY <1>3, PlainFacts
  <2>2. Current(p) = p.frags[Len(p.frags)] /\ Current(p).len \in Nat BY <1>1, CurrentFacts
  <2> HIDE DEF x
  <2>3. /\ Laid(q.data, q.frags, Len(p.frags)) 
        /\ x # "/" => NoSlash(q.data, q.frags[Len(p.frags)])
        /\ x # "." \/ NoSlash(p.data, p.frags[Len(p.frags)]) => NoSlashDot(q.data, q.frags[Len(p.frags)])
    <3>1. q.data = Append(p.data, x) BY <1>7 DEF x
    <3>2. x = "/" => NoSlash(p.data, p.frags[Len(p.frags)]) BY <2>1, <2>2
    <3>3. x \in {"/", "."} => NoSlashDot(p.data, p.frags[Len(p.frags)]) BY <2>1, <2>2
    <3> QED BY <3>1, <3>2, <3>3, <2>1, <1>1, <1>2, <1>7, PathGrows
  <2>4. Opened(q.data, q.frags) /\ Parted(q.data, q.frags)
    <3>1. q.data = Append(p.data, x) BY <1>7 DEF x
    <3> QED BY <3>1, <2>1, <1>1, <1>2, <1>7, GrowLaid
  <2>5. Len(q.frags) = Len(p.frags) /\ q.frags # <<>>
    <3>1. Current(p).len + 1 \in Nat BY <2>2
    <3>2. q.frags \in Seq(Frag) /\ Len(q.frags) = Len(p.frags) BY <3>1, <2>2, <1>1, <1>2, <1>7, LongerFacts
    <3> QED BY <3>2, <1>1, <1>2, EmptySeq
  <2>6. Len(q.data) = Len(p.data) + 1 BY <1>2, <1>7, <2>1, AppendFacts DEF x
  <2>7. ~Over(q) BY <2>6, <1>1, <1>2, <1>7, HeaderAssumption DEF Over
  <2>8. OnPath(q) BY <2>3, <2>4, <2>5, <2>7, <1>1, <1>5 DEF OnPath, Safe
  <2>9. Current(q) = q.frags[Len(p.frags)] BY <2>5 DEF Current
  <2> QED BY <1>4, <1>7, <2>1, <2>2, <2>3, <2>8, <2>9
<1>8. ~(Len(p.data) # DataSize /\ Current(p).len >= DataSize)
  BY CurrentOver DEF OnPath
<1> QED BY <1>1, <1>3, <1>6, <1>7, <1>8, IssueFacts

\* issue_char of a letter elsewhere keeps the path as it is.
LEMMA IssueOffPath ==
  ASSUME NEW p, OffPath(p), NEW c \in Letters, NEW q, q = IssueChar(p, c)
  PROVE  Refilled(p, q) /\ OffPath(q) /\ q.ret \in {0, 1, 2} /\ (Over(p) => Over(q)) /\ (q.ret = 1 => Over(q))
<1>1. /\ p \in HeaderTable /\ Laid(p.data, p.frags, Get(p)) /\ Get(p) < Len(p.frags)
      /\ (Get(p) = 0 => p.ups = "IDLE") /\ (Over(p) => p.ups = "ARGUMENTS")
      /\ (~Over(p) => Opened(p.data, p.frags) /\ Parted(p.data, p.frags))
  BY DEF OffPath, Safe
<1>2. p.data \in Seq(Chars) /\ p.frags \in Seq(Frag) /\ Len(p.data) \in Nat /\ Get(p) \in 0 .. Len(p.frags)
  BY SafeFacts DEF OffPath
<1>3. c \in Letters \cup {"nul"} /\ c # "nul" BY DEF Letters, Uri, Hex, Values
<1>4. p.frags # <<>> BY <1>1, <1>2, EmptySeq
<1>5. Refilled(p, q) BY <1>1, <1>3, <1>4, IssueFacts
<1>6. q \in HeaderTable /\ Get(q) = Get(p) /\ q.ups = p.ups BY <1>5 DEF Refilled, Get
<1>7. CASE q.data = p.data /\ q.frags = p.frags
  <2> QED BY <1>7, <1>1, <1>5, <1>6, <1>3, <1>4, IssueFacts, CurrentOver DEF OffPath, Safe, Over
<1>8. CASE /\ Len(p.data) # DataSize /\ q.ret = 0 /\ q.data = Append(p.data, Plain(c))
           /\ q.frags = Longer(p.frags, 1)
  <2> DEFINE x == Plain(c)
  <2>1. x \in Chars /\ x # "nul" BY <1>3, PlainFacts
  <2> HIDE DEF x
  <2>2. q.data = Append(p.data, x) BY <1>8 DEF x
  <2>3. Current(p) = p.frags[Len(p.frags)] /\ Current(p).len \in Nat BY <1>1, <1>4, CurrentFacts
  <2>4. Len(q.frags) = Len(p.frags)
    <3>1. Current(p).len + 1 \in Nat BY <2>3
    <3> QED BY <3>1, <2>3, <1>2, <1>4, <1>8, LongerFacts
  <2>5. Len(q.data) = Len(p.data) + 1 BY <1>2, <2>1, <2>2, AppendFacts
  <2>6. (Over(p) => Over(q)) /\ (Over(q) => Over(p)) BY <2>5, <1>2, <1>8, HeaderAssumption DEF Over
  <2>7. Laid(q.data, q.frags, Get(p)) BY <2>1, <2>2, <1>1, <1>2, <1>4, <1>8, GrowLaid
  <2>8. ~Over(p) => Opened(q.data, q.frags) /\ Parted(q.data, q.frags)
    BY <2>1, <2>2, <1>1, <1>2, <1>4, <1>8, GrowLaid
  <2>9. OffPath(q) BY <2>4, <2>6, <2>7, <2>8, <1>1, <1>6 DEF OffPath, Safe
  <2> QED BY <2>6, <2>9, <1>5, <1>8
<1> QED BY <1>1, <1>3, <1>4, <1>7, <1>8, IssueFacts

\* issue_char of a terminator seals the last fragment.
LEMMA IssueNul ==
  ASSUME NEW p, OnPath(p) \/ OffPath(p), NEW q, q = IssueChar(p, "nul")
  PROVE  Refilled(p, q) /\ Safe(q) /\ q.ret \in {0, 1, 2} /\ (q.ret # 2 => AllShut(q))
<1>1. /\ p \in HeaderTable /\ Laid(p.data, p.frags, Get(p)) /\ (Get(p) = 0 => p.ups = "IDLE")
      /\ (Over(p) => p.ups = "ARGUMENTS" /\ Get(p) < Len(p.frags))
      /\ (~Over(p) => Opened(p.data, p.frags) /\ Parted(p.data, p.frags))
  BY DEF OnPath, OffPath, Safe
<1>2. p.data \in Seq(Chars) /\ p.frags \in Seq(Frag) /\ Len(p.data) \in Nat /\ Get(p) \in 0 .. Len(p.frags)
  BY SafeFacts DEF OnPath, OffPath
<1>3. p.frags # <<>> BY <1>2, EmptySeq DEF OnPath, OffPath
<1>4. Refilled(p, q) BY <1>1, <1>3, IssueFacts
<1>5. q \in HeaderTable /\ Get(q) = Get(p) /\ q.ups = p.ups BY <1>4 DEF Refilled, Get
<1>6. CASE q.ret = 2 /\ q.data = p.data /\ q.frags = p.frags
  BY <1>1, <1>4, <1>5, <1>6 DEF Safe
<1>7. CASE Len(p.data) # DataSize /\ Current(p).len >= DataSize /\ q.ret = 1 /\ q.data = p.data /\ q.frags = p.frags
  <2>1. Over(p) BY <1>3, <1>7, CurrentOver DEF OnPath, OffPath
  <2>2. AllShut(q) BY <2>1, <1>1, <1>5, <1>7 DEF AllShut, Safe, Over
  <2> QED BY <2>2, <1>4, <1>7 DEF AllShut
<1>8. CASE Len(p.data) # DataSize /\ q.ret = 0 /\ q.data = Append(p.data, "nul") /\ q.frags = p.frags
  <2>1. "nul" \in Chars BY DEF Chars
  <2>2. Len(q.data) = Len(p.data) + 1 BY <2>1, <1>2, <1>8, AppendFacts
  <2>3. Over(q) => Over(p) BY <2>2, <1>2, <1>8, HeaderAssumption DEF Over
  <2>4. Laid(q.data, q.frags, Get(p)) BY <2>1, <1>1, <1>2, <1>8, SealLaid
  <2>5. ~Over(p) => Parted(q.data, q.frags) /\ Shut(q.data, q.frags) BY <2>1, <1>1, <1>2, <1>8, SealLaid
  <2>6. ~Over(q) => ~Over(p) \/ Over(p) OBVIOUS
  <2>7. Over(p) => Over(q) BY <2>2, <1>2, <1>8, HeaderAssumption DEF Over
  <2>8. Safe(q) BY <2>4, <1>1, <1>5 DEF Safe
  <2>9. AllShut(q) BY <2>3, <2>5, <2>7, <2>8, <1>1, <1>5, <1>8 DEF AllShut
  <2> QED BY <2>8, <2>9, <1>4, <1>8
<1>9. Plain("nul") = "nul" BY DEF Plain, Hex
<1> QED BY <1>1, <1>3, <1>6, <1>7, <1>8, <1>9, IssueFacts

\* How these make up the invariant.
LEMMA BetweenInv ==
  ASSUME NEW p, AllShut(p), p.ps \notin Taking, p.ret # 2
  PROVE  HeaderInv(p)
BY DEF AllShut, HeaderInv, Filling, InPath, Taking

\* A parser that gave up needs to be safe only.
LEMMA DeadInv == ASSUME NEW p, Safe(p), p.ret = 2, p.ps # "COMPLETE" PROVE HeaderInv(p)
BY DEF HeaderInv

\* The invariant, while the path is being stored.
LEMMA OnPathInv ==
  ASSUME NEW p, OnPath(p), p.ps = "GET", EndsPlain(p, p.ups)
  PROVE  HeaderInv(p) \/ p.ups = "ARGUMENTS"
<1> SUFFICES ASSUME p.ups # "ARGUMENTS" PROVE HeaderInv(p) OBVIOUS
<1>1. Get(p) # 0 BY EmptySeq, SafeFacts DEF OnPath
<1> QED BY <1>1 DEF OnPath, HeaderInv, Filling, InPath, Taking, EndsPlain, Current

\* The invariant, while another value is being stored.
LEMMA OffPathInv ==
  ASSUME NEW p, OffPath(p), p.ps # "COMPLETE", InPath(p) => FALSE, p.ps = "GET" => Get(p) # 0, p.ps \in Taking \/ Over(p)
  PROVE  HeaderInv(p)
BY DEF OffPath, HeaderInv, Filling

\* What the invariant says in each state of the parser.
LEMMA Cases ==
  ASSUME NEW p, HeaderInv(p), p.ret # 2
  PROVE  /\ p.ps = "GET" => \/ p.ups # "ARGUMENTS" /\ OnPath(p) /\ EndsPlain(p, p.ups)
                            \/ p.ups = "ARGUMENTS" /\ OffPath(p) /\ Get(p) # 0
         /\ p.ps \in Taking \ {"GET"} => OffPath(p)
         /\ p.ps = "SKIPPING" /\ Over(p) => p.ups = "ARGUMENTS" /\ OffPath(p) /\ Get(p) # 0
         /\ p.ps \notin Taking => AllShut(p)
<1>1. Safe(p) /\ Filling(p) BY DEF HeaderInv
<1>2. p.frags \in Seq(Frag) /\ Get(p) \in 0 .. Len(p.frags) BY <1>1, SafeFacts
<1>3. ASSUME InPath(p) PROVE OnPath(p) /\ EndsPlain(p, p.ups)
  <2>1. Get(p) # 0 /\ p.frags # <<>> BY <1>1, <1>2, <1>3, EmptySeq DEF Filling, InPath
  <2> QED BY <2>1, <1>1, <1>3 DEF Filling, InPath, OnPath, EndsPlain, Current, Taking
<1>4. ASSUME p.ps \in Taking, ~InPath(p) PROVE OffPath(p)
  BY <1>1, <1>4 DEF Filling, OffPath
<1>5. ASSUME Over(p) PROVE OffPath(p) /\ p.ups = "ARGUMENTS" /\ Get(p) # 0
  BY <1>1, <1>5 DEF Filling, OffPath, Safe
<1>6. ASSUME p.ps \notin Taking PROVE AllShut(p)
  BY <1>1, <1>6 DEF Filling, AllShut
<1> QED BY <1>1, <1>3, <1>4, <1>5, <1>6 DEF InPath, Filling, Taking

\* The same data, fragments and index.
Alike(p, q) == q \in HeaderTable /\ q.data = p.data /\ q.frags = p.frags /\ q.index = p.index

\* Tables that differ in the states of the parser only.
LEMMA AlikeFacts ==
  ASSUME NEW p, NEW q, Alike(p, q), q.ups = p.ups \/ p.index["GET"] # 0
  PROVE  /\ Get(q) = Get(p) /\ Current(q) = Current(p) /\ (Over(p) <=> Over(q))
         /\ (Safe(p) => Safe(q)) /\ (OnPath(p) => OnPath(q))
         /\ q.ups = p.ups => (OffPath(p) => OffPath(q)) /\ (AllShut(p) => AllShut(q))
         /\ \A u : EndsPlain(p, u) <=> EndsPlain(q, u)
<1>1. Get(q) = Get(p) /\ Current(q) = Current(p) /\ (Over(p) <=> Over(q)) BY DEF Alike, Get, Current, Over
<1>2. Safe(p) => Safe(q) BY <1>1 DEF Alike, Safe, Get
<1>3. OnPath(p) => OnPath(q) BY <1>1, <1>2 DEF Alike, OnPath
<1>4. q.ups = p.ups => (OffPath(p) => OffPath(q)) /\ (AllShut(p) => AllShut(q)) BY <1>1, <1>2 DEF Alike, OffPath, AllShut
<1>5. \A u : EndsPlain(p, u) <=> EndsPlain(q, u) BY <1>1 DEF Alike, EndsPlain
<1> QED BY <1>1, <1>2, <1>3, <1>4, <1>5

\* While the path is stored, its fragment is known.
LEMMA PathIndex == ASSUME NEW p, OnPath(p) PROVE p.index["GET"] # 0
BY SafeFacts, EmptySeq DEF OnPath, Get

\* Changes of one field.
LEMMA SetPs ==
  ASSUME NEW p, p \in HeaderTable, NEW v \in ParseStates, NEW q, q = [p EXCEPT !.ps = v]
  PROVE  Alike(p, q) /\ q.ps = v /\ q.ups = p.ups /\ q.ret = p.ret /\ q.ues = p.ues /\ q.stash = p.stash
BY DEF HeaderTable, Alike

\* Changing the state of the path changes no more.
LEMMA SetUps ==
  ASSUME NEW p, p \in HeaderTable, NEW v \in PathStates, NEW q, q = [p EXCEPT !.ups = v]
  PROVE  Alike(p, q) /\ q.ups = v /\ q.ps = p.ps /\ q.ret = p.ret /\ q.ues = p.ues /\ q.stash = p.stash
BY DEF HeaderTable, Alike

\* Changing the result changes no more.
LEMMA SetRet ==
  ASSUME NEW p, p \in HeaderTable, NEW v \in Results, NEW q, q = [p EXCEPT !.ret = v]
  PROVE  Alike(p, q) /\ q.ret = v /\ q.ups = p.ups /\ q.ps = p.ps /\ q.ues = p.ues /\ q.stash = p.stash
BY DEF HeaderTable, Alike

\* Changing the state of an escape changes no more.
LEMMA SetUes ==
  ASSUME NEW p, p \in HeaderTable, NEW v \in EscapeStates, NEW q, q = [p EXCEPT !.ues = v]
  PROVE  Alike(p, q) /\ q.ups = p.ups /\ q.ps = p.ps /\ q.ret = p.ret /\ q.stash = p.stash
BY DEF HeaderTable, Alike

\* Giving up keeps the invariant.
LEMMA DeadKeeps == ASSUME NEW p, Safe(p), p.ps # "COMPLETE" PROVE HeaderInv(Dead(p)) /\ Dead(p).ret = 2
<1>1. 2 \in Results BY DEF Results
<1>2. Alike(p, Dead(p)) /\ Dead(p).ret = 2 /\ Dead(p).ps = p.ps /\ Dead(p).ups = p.ups
  BY <1>1, SafeFacts, SetRet DEF Dead
<1> QED BY <1>2, AlikeFacts, DeadInv

\* The tokens whose values are stored.
LEMMA GetToken == Tokens = {"GET", "ARGS", "HTTP", "h1", "h2"} /\ Taking \subseteq Tokens /\ Taking \subseteq ParseStates
BY DEF Tokens, Headers, Taking, ParseStates

\* A fragment for another token is begun behind the closed ones.
LEMMA FreshFragment ==
  ASSUME NEW p, AllShut(p), NEW t \in Tokens, NEW q, q = NewFragment(p, t)
  PROVE  /\ Refilled(p, q) /\ q.ret = p.ret /\ q.data = p.data /\ q.frags \in Seq(Frag) /\ Len(q.frags) = Len(p.frags) + 1
         /\ Laid(q.data, q.frags, Get(p)) /\ Laid(q.data, q.frags, Len(q.frags)) /\ Opened(q.data, q.frags)
         /\ (~Over(p) => Parted(q.data, q.frags)) /\ Current(q).len = 0
<1>1. p \in HeaderTable /\ p.data \in Seq(Chars) /\ p.frags \in Seq(Frag) /\ Laid(p.data, p.frags, Get(p))
  BY SafeFacts DEF AllShut
<1> DEFINE f == Fragment(Len(p.data), 0, t)  fs == Append(p.frags, f)
<1>2. fs \in Seq(Frag) /\ Len(fs) = Len(p.frags) + 1 /\ Laid(p.data, fs, Get(p)) /\ Laid(p.data, fs, Len(p.frags) + 1)
      /\ Opened(p.data, fs) /\ (Parted(p.data, p.frags) /\ Shut(p.data, p.frags) => Parted(p.data, fs))
  BY <1>1, FreshLaid
<1>3. f \in Frag /\ f.len = 0
  <2>1. Len(p.data) \in Nat BY <1>1
  <2> QED BY <2>1 DEF Fragment, Frag
<1> HIDE DEF f
<1>4. fs[Len(p.frags) + 1] = f BY <1>1, <1>3
<1>5. q = [p EXCEPT !.frags = fs] BY <1>1 DEF NewFragment, f, HeaderTable
<1> HIDE DEF fs
<1>6. Refilled(p, q) /\ q.ret = p.ret /\ q.data = p.data /\ q.frags = fs BY <1>1, <1>2, <1>5, RefillFrags
<1>7. Current(q) = f BY <1>2, <1>4, <1>6 DEF Current
<1> QED BY <1>2, <1>3, <1>6, <1>7 DEF AllShut

\* A link to a new fragment moves none.
Pointed(fs, e, new) == [fs EXCEPT ![e].next = new]
Linked(p, e, new, c) == Lengthened([p EXCEPT !.frags[e].next = new, !.data = Append(@, c)], 1)

\* Linking a fragment to the next leaves both where they are.
LEMMA NextFacts ==
  ASSUME NEW fs \in Seq(Frag), NEW e, NEW new \in Nat, NEW hs, hs = Pointed(fs, e, new)
  PROVE  /\ hs \in Seq(Frag) /\ Len(hs) = Len(fs)
         /\ \A n \in 1 .. Len(fs) : hs[n].off = fs[n].off /\ hs[n].len = fs[n].len
<1> DEFINE x == [fs[e] EXCEPT !.next = new]  gs == [fs EXCEPT ![e] = x]
<1>1. hs = gs BY DEF Pointed
<1>2. CASE e \in 1 .. Len(fs)
  <2>1. fs[e] \in Frag BY <1>2
  <2>2. x \in Frag /\ x.off = fs[e].off /\ x.len = fs[e].len BY <2>1 DEF Frag
  <2> HIDE DEF x
  <2>3. gs \in Seq(Frag) /\ Len(gs) = Len(fs) /\ \A j \in 1 .. Len(fs) : gs[j] = IF j = e THEN x ELSE fs[j]
    BY <1>2, <2>2, ExceptSeq
  <2> QED BY <1>1, <2>2, <2>3
<1>3. CASE e \notin 1 .. Len(fs)
  <2> HIDE DEF x
  <2>1. DOMAIN fs = 1 .. Len(fs) OBVIOUS
  <2>2. gs = fs BY <1>3, <2>1
  <2> QED BY <1>1, <2>2
<1> QED BY <1>2, <1>3

LinkedTo(r, q, c) ==
    /\ Refilled(r, q) /\ q.ret = r.ret
    /\ \E fs \in Seq(Frag) : /\ Len(fs) = Len(r.frags) /\ q.data = Append(r.data, c) /\ q.frags = Longer(fs, 1)
                             /\ \A n \in 1 .. Len(r.frags) : fs[n].off = r.frags[n].off /\ fs[n].len = r.frags[n].len

\* What Linked adds to a table: one character, and links.
LEMMA LinkMore ==
  ASSUME NEW r, r \in HeaderTable, r.frags # <<>>, NEW e, NEW c \in Chars, NEW new \in Nat, NEW q,
         q = Linked(r, e, new, c)
  PROVE  LinkedTo(r, q, c)
<1> DEFINE fs == Pointed(r.frags, e, new)  d == Append(r.data, c)
           u == [r EXCEPT !.frags = fs, !.data = d]
<1>1. q = Lengthened(u, 1)
  <2>1. [r EXCEPT !.frags[e].next = new, !.data = Append(@, c)] = u BY DEF HeaderTable, Pointed
  <2> QED BY <2>1 DEF Linked
<1>2. r.frags \in Seq(Frag) /\ r.data \in Seq(Chars) BY DEF HeaderTable
<1>3. fs \in Seq(Frag) /\ Len(fs) = Len(r.frags) /\ \A n \in 1 .. Len(r.frags) : fs[n].off = r.frags[n].off /\ fs[n].len = r.frags[n].len
  BY <1>2, NextFacts
<1> HIDE DEF fs
<1>4. d \in Seq(Chars) BY <1>2, AppendFacts
<1> HIDE DEF d
<1>5. Refilled(r, u) /\ u.ret = r.ret /\ u.data = d /\ u.frags = fs
  BY <1>3, <1>4 DEF HeaderTable, Refilled
<1>6. u \in HeaderTable /\ fs # <<>> BY <1>2, <1>3, <1>5, EmptySeq DEF Refilled
<1> HIDE DEF u
<1>7. Current(u).len + 1 \in Nat BY <1>5, <1>6, CurrentFacts
<1>8. Refilled(u, q) /\ q.ret = u.ret /\ q.data = u.data /\ q.frags = Longer(u.frags, 1)
  BY <1>1, <1>5, <1>6, <1>7, LengthenedFacts
<1> QED BY <1>3, <1>5, <1>8, RefilledTwice DEF d, LinkedTo

\* The first fragment of a header is opened behind the data.
LEMMA StartKeeps ==
  ASSUME NEW p, AllShut(p), NEW t \in Taking, t = "GET" <=> Get(p) = 0, p.ps # "COMPLETE", p.ret # 2
  PROVE  HeaderInv(StartFragment(p, t))
<1>0. t \in Tokens /\ t \in ParseStates /\ t # "COMPLETE" BY GetToken DEF Taking
<1>1. CASE Len(p.frags) + 1 = MaxFrags BY <1>1, DeadKeeps DEF StartFragment, AllShut
<1>2. CASE Len(p.frags) + 1 # MaxFrags
  <2> DEFINE p1 == [p EXCEPT !.ps = t]  r == NewFragment(p1, t)  new == Len(r.frags)
  <2>1. Alike(p, p1) /\ p1.ps = t /\ p1.ups = p.ups /\ p1.ret = p.ret BY <1>0, SafeFacts, SetPs DEF AllShut
  <2>2. AllShut(p1) /\ Get(p1) = Get(p) /\ (Over(p) <=> Over(p1)) BY <2>1, AlikeFacts
  <2> HIDE DEF p1
  <2>3. /\ Refilled(p1, r) /\ r.ret = p1.ret /\ r.data = p1.data /\ r.frags \in Seq(Frag) /\ Len(r.frags) = Len(p1.frags) + 1
        /\ Laid(r.data, r.frags, Get(p1)) /\ Laid(r.data, r.frags, Len(r.frags)) /\ Opened(r.data, r.frags)
        /\ (~Over(p1) => Parted(r.data, r.frags)) /\ Current(r).len = 0
    BY <1>0, <2>2, FreshFragment
  <2> HIDE DEF r
  <2>4. r \in HeaderTable /\ r.ps = t /\ r.ups = p.ups /\ r.ret # 2 /\ Get(r) = Get(p) /\ (Over(r) <=> Over(p)) /\ r.index = p1.index
    BY <2>1, <2>2, <2>3 DEF Refilled, Get, Over
  <2>5. Len(p1.frags) \in Nat /\ Get(p1) \in 0 .. Len(p1.frags) BY <2>2, SafeFacts DEF AllShut
  <2>6. new \in Nat \ {0} /\ Get(p) < new /\ r.frags # <<>> BY <2>2, <2>3, <2>5, EmptySeq
  <2>7. Get(p) = 0 => p.ups = "IDLE" BY DEF AllShut, Safe
  <2>8. Over(p) => p.ups = "ARGUMENTS" BY DEF AllShut
  <2>9. StartFragment(p, t) = Link(r, t) BY <1>2 DEF StartFragment, r, p1
  <2>10. CASE r.index[t] = 0
    <3> DEFINE q == [r EXCEPT !.index[t] = new]
    <3>1. /\ q \in HeaderTable /\ q.data = r.data /\ q.frags = r.frags /\ q.ups = r.ups /\ q.ps = r.ps /\ q.ret = r.ret
          /\ q.index[t] = new /\ \A x \in Tokens : x # t => q.index[x] = r.index[x]
      <4>1. q = [r EXCEPT !.index[t] = new] OBVIOUS
      <4> HIDE DEF q, new
      <4> QED BY <4>1, <2>4, <2>6, <1>0 DEF HeaderTable
    <3>2. Link(r, t) = q BY <2>10 DEF Link
    <3> HIDE DEF q
    <3>3. CASE t = "GET"
      <4>1. Get(q) = new /\ q.ups = "IDLE" /\ q.ps = "GET" BY <3>1, <3>3, <2>4, <2>7 DEF Get
      <4>2. ~Over(q) /\ ~Over(p1) BY <3>1, <3>3, <2>2, <2>4, <2>7, <2>8 DEF Over
      <4>3. OnPath(q) BY <4>1, <4>2, <3>1, <2>3, <2>6 DEF OnPath, Safe
      <4>4. EndsPlain(q, q.ups)
        <5>1. Current(q).len = 0 BY <3>1, <2>3 DEF Current
        <5> QED BY <5>1 DEF EndsPlain, Ending, NoSlash, NoSlashDot
      <4> QED BY <4>1, <4>3, <4>4, <3>2, <2>9, OnPathInv
    <3>4. CASE t # "GET"
      <4>1. Get(q) = Get(p) /\ Get(p) # 0 BY <3>1, <3>4, <2>4, GetToken DEF Get
      <4>2. OffPath(q) BY <4>1, <3>1, <2>2, <2>3, <2>4, <2>6, <2>8 DEF OffPath, Safe, Over
      <4> QED BY <4>1, <4>2, <3>1, <3>2, <3>4, <2>4, <2>9, <1>0, OffPathInv DEF InPath
    <3> QED BY <3>3, <3>4
  <2>11. CASE r.index[t] # 0
    <3>1. t # "GET" /\ Get(p) # 0 BY <2>4, <2>11, <2>2 DEF Get
    <3>2. Safe(r) BY <2>2, <2>3, <2>4, <2>7 DEF Safe
    <3>3. CASE Len(r.data) = DataSize
      <4>1. Link(r, t) = Dead(r) BY <2>11, <3>3 DEF Link
      <4> QED BY <4>1, <3>2, <2>4, <2>9, <1>0, DeadKeeps
    <3>4. CASE Len(r.data) # DataSize
      <4>1. PICK e : Link(r, t) = Linked(r, e, Len(r.frags), " ")
        BY <2>11, <3>4, Zenon DEF Link, Linked
      <4> DEFINE q == Link(r, t)  sp == " "
      <4>2. sp \in Chars /\ sp # "nul" BY Zenon DEF Chars
      <4>3. q = Linked(r, e, Len(r.frags), sp) BY <4>1, Zenon
      <4> HIDE DEF q, sp
      <4>18. LinkedTo(r, q, sp)
        <5>1. Len(r.frags) \in Nat BY <2>6
        <5>2. r \in HeaderTable /\ r.frags # <<>> /\ sp \in Chars BY <4>2, <2>4, <2>6
        <5> QED BY <5>1, <5>2, <4>3, LinkMore
      <4>4. Refilled(r, q) /\ q.ret = r.ret BY <4>18 DEF LinkedTo
      <4>5. PICK fs \in Seq(Frag) : /\ Len(fs) = Len(r.frags) /\ q.data = Append(r.data, sp) /\ q.frags = Longer(fs, 1)
                                   /\ \A n \in 1 .. Len(r.frags) : fs[n].off = r.frags[n].off /\ fs[n].len = r.frags[n].len
        BY <4>18 DEF LinkedTo
      <4>6. r.data \in Seq(Chars) BY <2>4 DEF HeaderTable
      <4>7. fs # <<>> BY <4>5, <2>3, <2>6, EmptySeq
      <4>11. q \in HeaderTable /\ q.ps = t /\ q.ups = p.ups /\ Get(q) = Get(p) /\ q.ret # 2
        BY <4>4, <2>4 DEF Refilled, Get
      <4>12. Laid(r.data, fs, Get(p)) /\ Opened(r.data, fs) /\ (~Over(p) => Parted(r.data, fs))
        BY <4>5, <4>6, <2>2, <2>3, LinkedLaid
      <4>13. Laid(q.data, q.frags, Get(p)) /\ Opened(q.data, q.frags) /\ (~Over(p) => Parted(q.data, q.frags))
        <5>1. Get(p) < Len(fs) BY <4>5, <2>6
        <5> QED BY <5>1, <4>2, <4>5, <4>6, <4>7, <4>12, GrowLaid
      <4>14. Len(q.frags) = Len(r.frags)
        <5>1. Len(fs) \in 1 .. Len(fs) BY <4>5, <2>6
        <5>2. fs[Len(fs)].len + 1 \in Nat
          <6>1. fs[Len(fs)] \in Frag BY <5>1
          <6> QED BY <6>1 DEF Frag
        <5> QED BY <5>2, <4>5, <4>7, LongerFacts
      <4>15. Len(q.data) = Len(r.data) + 1 /\ Len(r.data) \in Nat BY <4>2, <4>5, <4>6, AppendFacts
      <4>16. Over(q) <=> Over(p) BY <4>15, <3>4, <2>4, HeaderAssumption DEF Over
      <4>17. OffPath(q) BY <4>11, <4>13, <4>14, <4>16, <2>6, <2>8, <3>1 DEF OffPath, Safe
      <4> QED BY <4>11, <4>17, <3>1, <2>9, <1>0, OffPathInv DEF InPath, q
    <3> QED BY <3>3, <3>4
  <2> QED BY <2>10, <2>11
<1> QED BY <1>1, <1>2

\* A set of positions has a last one.
LEMMA LastOf ==
    ASSUME NEW n \in Nat, NEW Some, Some \subseteq 2 .. n - 1, Some # {}
    PROVE  \E i \in Some : \A j \in Some : j <= i
<1> DEFINE Rear == {n - i : i \in Some}
<1>1. Rear \subseteq Nat /\ Rear # {} OBVIOUS
<1>2. PICK b \in Rear : \A c \in Rear : b <= c BY <1>1, FirstOf
<1>3. PICK i \in Some : b = n - i BY <1>2
<1>4. ASSUME NEW j \in Some PROVE j <= i
  <2>1. n - j \in Rear /\ i \in 2 .. n - 1 /\ j \in 2 .. n - 1 OBVIOUS
  <2>2. n - i <= n - j BY <2>1, <1>2, <1>3
  <2> QED BY <2>1, <2>2
<1> QED BY <1>4

\* What a terminator or a character makes of the invariant when it is stored.
LEMMA StoreEnd ==
  ASSUME NEW p, OnPath(p) \/ OffPath(p), p.ps # "COMPLETE"
  PROVE  HeaderInv(Store(p, "cr"))
<1> DEFINE r == [p EXCEPT !.ps = "SAW_CR"]  q == IssueChar(r, "nul")
<1>1. "SAW_CR" \in ParseStates /\ "SAW_CR" \notin Taking /\ "SKIPPING" \in ParseStates /\ "SKIPPING" \notin Taking
  BY DEF ParseStates, Taking
<1>2. Alike(p, r) /\ r.ps = "SAW_CR" /\ r.ups = p.ups BY <1>1, SafeFacts, SetPs DEF OnPath, OffPath
<1>3. OnPath(r) \/ OffPath(r) BY <1>2, AlikeFacts
<1> HIDE DEF r
<1>4. Refilled(r, q) /\ Safe(q) /\ q.ret \in {0, 1, 2} /\ (q.ret # 2 => AllShut(q)) BY <1>3, IssueNul
<1>5. Store(p, "cr") = IF q.ret = 1 THEN [q EXCEPT !.ps = "SKIPPING"] ELSE q BY DEF Store, r
<1> HIDE DEF q
<1>6. q.ps = "SAW_CR" /\ q \in HeaderTable BY <1>2, <1>4 DEF Refilled
<1>7. CASE q.ret = 1
  <2> DEFINE u == [q EXCEPT !.ps = "SKIPPING"]
  <2>1. Alike(q, u) /\ u.ps = "SKIPPING" /\ u.ups = q.ups /\ u.ret = q.ret BY <1>1, <1>6, SetPs
  <2> HIDE DEF u
  <2>2. HeaderInv(u) BY <2>1, <1>1, <1>4, <1>7, AlikeFacts, BetweenInv
  <2> QED BY <2>2, <1>5, <1>7 DEF u
<1>8. CASE q.ret = 2 BY <1>4, <1>5, <1>6, <1>8, DeadInv
<1>9. CASE q.ret = 0 BY <1>1, <1>4, <1>5, <1>6, <1>9, BetweenInv
<1> QED BY <1>4, <1>7, <1>8, <1>9

\* Storing a letter of the path keeps the invariant when the letter fits what
\* precedes it.
LEMMA StoreOnPath ==
  ASSUME NEW p, OnPath(p), p.ps = "GET", p.ups # "ARGUMENTS", NEW c \in Letters, c # "cr",
         c = "/" => NoSlash(p.data, Current(p)) /\ NoSlashDot(p.data, Current(p)) /\ p.ups # "IDLE",
         c = "." => NoSlash(p.data, Current(p)) /\ NoSlashDot(p.data, Current(p))
  PROVE  HeaderInv(Store(p, c)) /\ Store(p, c).ps = "GET"
<1> DEFINE q == IssueChar(p, c)
<1>1. /\ Refilled(p, q) /\ OnPath(q)
      /\ \/ q.ret = 2 /\ Len(p.data) = DataSize /\ q.data = p.data /\ q.frags = p.frags
         \/ /\ q.ret = 0
            /\ c # "/" => NoSlash(q.data, Current(q))
            /\ c # "." \/ NoSlash(p.data, Current(p)) => NoSlashDot(q.data, Current(q))
  BY IssueOnPath
<1>2. Store(p, c) = q BY <1>1 DEF Store
<1> HIDE DEF q
<1>3. q.ps = "GET" /\ q.ups = p.ups BY <1>1 DEF Refilled
<1>4. CASE q.ret = 2 BY <1>1, <1>2, <1>3, <1>4, DeadInv DEF OnPath
<1>5. CASE q.ret = 0
  <2>1. EndsPlain(q, q.ups) BY <1>1, <1>3, <1>5 DEF EndsPlain, Ending
  <2> QED BY <2>1, <1>1, <1>2, <1>3, OnPathInv
<1> QED BY <1>1, <1>4, <1>5

\* Where Assess may be called: in the URI, or where a first call of it left it.
Assessable(p) == p.ps = "GET" \/ (p.ps = "SKIPPING" /\ Over(p))

\* Storing a letter of another value keeps the invariant.
LEMMA StoreOffPath ==
  ASSUME NEW p, OffPath(p), p.ps = "GET" => p.ups = "ARGUMENTS" /\ Get(p) # 0,
         p.ps \in Taking \/ (p.ps = "SKIPPING" /\ Over(p)), NEW c \in Letters, c # "cr"
  PROVE  HeaderInv(Store(p, c)) /\ (p.ps \in {"GET", "SKIPPING"} => Assessable(Store(p, c)))
<1> DEFINE q == IssueChar(p, c)
<1>1. Refilled(p, q) /\ OffPath(q) /\ q.ret \in {0, 1, 2} /\ (Over(p) => Over(q)) /\ (q.ret = 1 => Over(q))
  BY IssueOffPath
<1>2. Store(p, c) = IF q.ret = 1 THEN [q EXCEPT !.ps = "SKIPPING"] ELSE q BY DEF Store
<1> HIDE DEF q
<1>3. q \in HeaderTable /\ q.ps = p.ps /\ q.ups = p.ups /\ Get(q) = Get(p) BY <1>1 DEF Refilled, Get
<1>4. "SKIPPING" \in ParseStates /\ "SKIPPING" \notin Taking /\ "COMPLETE" \notin Taking
  BY DEF ParseStates, Taking
<1>5. CASE q.ret = 1
  <2> DEFINE u == [q EXCEPT !.ps = "SKIPPING"]
  <2>1. Alike(q, u) /\ u.ps = "SKIPPING" /\ u.ups = q.ups /\ u.ret = q.ret BY <1>3, <1>4, SetPs
  <2> HIDE DEF u
  <2>2. OffPath(u) /\ Over(u) BY <2>1, <1>1, <1>5, AlikeFacts
  <2>3. HeaderInv(u) BY <2>1, <2>2, OffPathInv DEF InPath
  <2> QED BY <2>1, <2>2, <2>3, <1>2, <1>5 DEF u, Assessable
<1>6. CASE q.ret # 1
  <2>1. HeaderInv(q) BY <1>1, <1>3, <1>4, OffPathInv DEF InPath
  <2>2. p.ps = "SKIPPING" => Over(q) BY <1>1, <1>4
  <2>3. p.ps \in {"GET", "SKIPPING"} => Assessable(q) BY <2>2, <1>3 DEF Assessable
  <2> QED BY <2>1, <2>3, <1>2, <1>6
<1> QED BY <1>5, <1>6

\* The "?" ends the path and opens the fragment of its arguments.
LEMMA UriArgsKeeps ==
  ASSUME NEW p, OnPath(p) \/ OffPath(p), Get(p) # 0, Assessable(p)
  PROVE  HeaderInv(UriArgs(p)) /\ UriArgs(p).ps = p.ps /\ Assessable(UriArgs(p))
<1>1. /\ p \in HeaderTable /\ Laid(p.data, p.frags, Get(p)) /\ (Get(p) = 0 => p.ups = "IDLE")
      /\ (Over(p) => p.ups = "ARGUMENTS" /\ Get(p) < Len(p.frags))
      /\ (~Over(p) => Opened(p.data, p.frags) /\ Parted(p.data, p.frags))
  BY DEF OnPath, OffPath, Safe
<1>2. p.data \in Seq(Chars) /\ p.frags \in Seq(Frag) /\ Len(p.data) \in Nat /\ Len(p.frags) \in Nat /\ Get(p) \in 0 .. Len(p.frags)
  BY SafeFacts DEF OnPath, OffPath
<1> DEFINE nul == "nul"  d == Append(p.data, nul)  f == Fragment(Len(d), 0, "ARGS")  fs == Append(p.frags, f)
           r == [p EXCEPT !.data = d, !.frags = fs]
           q == [p EXCEPT !.data = d, !.frags = fs, !.index["ARGS"] = Len(fs), !.ups = "ARGUMENTS"]
<1>3. nul \in Chars /\ nul = "nul" BY Zenon DEF Chars
<1>4. "ARGS" \in Tokens /\ "GET" \in Tokens BY GetToken
<1>5. UriArgs(p) = q BY <1>1, <1>2 DEF UriArgs, NewFragment, HeaderTable
<1>6. d \in Seq(Chars) /\ Len(d) = Len(p.data) + 1
  <2> HIDE DEF nul
  <2> QED BY <1>2, <1>3, AppendFacts
<1>7. Laid(d, p.frags, Get(p)) /\ (~Over(p) => Parted(d, p.frags) /\ Shut(d, p.frags))
  <2> HIDE DEF nul
  <2> QED BY <1>1, <1>2, <1>3, SealLaid
<1> HIDE DEF d
<1>8. /\ fs \in Seq(Frag) /\ Len(fs) = Len(p.frags) + 1 /\ Laid(d, fs, Get(p)) /\ Opened(d, fs)
      /\ (Parted(d, p.frags) /\ Shut(d, p.frags) => Parted(d, fs))
  BY <1>2, <1>4, <1>6, <1>7, FreshLaid
<1> HIDE DEF fs
<1>9. "ARGUMENTS" \in PathStates BY DEF PathStates
<1>10. Len(fs) \in Nat BY <1>2, <1>8
<1>11. q \in HeaderTable /\ q.data = d /\ q.frags = fs /\ q.ups = "ARGUMENTS" /\ q.ps = p.ps /\ Get(q) = Get(p)
  BY <1>1, <1>4, <1>6, <1>8, <1>9, <1>10 DEF HeaderTable, Get
<1> HIDE DEF q
<1>12. ~Over(q) => ~Over(p) BY <1>2, <1>6, <1>11, HeaderAssumption DEF Over
<1>13. Over(p) => Over(q) BY <1>12
<1>14. Get(p) < Len(fs) BY <1>2, <1>8
<1>15. OffPath(q) BY <1>7, <1>8, <1>11, <1>12, <1>14 DEF OffPath, Safe
<1>16. HeaderInv(q) BY <1>11, <1>13, <1>15, OffPathInv DEF InPath, Assessable, Taking
<1> QED BY <1>5, <1>11, <1>13, <1>16 DEF Assessable

\* BackUp takes the path back to a length that is a part of it.
CutTo(p, k) ==
    Lengthened([p EXCEPT !.data = SubSeq(@, 1, Len(@) - (Current(p).len - k))], k - Current(p).len)

\* Cutting the path back keeps it laid, open and plain.
LEMMA CutKeeps ==
  ASSUME NEW p, OnPath(p), NEW k \in 1 .. Current(p).len - 1, NEW q, q = CutTo(p, k)
  PROVE  /\ Refilled(p, q) /\ q.ret = p.ret /\ OnPath(q)
         /\ k = 1 \/ p.data[Current(p).off + k + 1] = "/" => NoSlashDot(q.data, Current(q))
<1>1. /\ p \in HeaderTable /\ p.frags # <<>> /\ Get(p) = Len(p.frags) /\ Opened(p.data, p.frags) /\ Parted(p.data, p.frags)
      /\ Laid(p.data, p.frags, Len(p.frags)) /\ ~(Len(p.data) > DataSize) /\ (Get(p) = 0 => p.ups = "IDLE")
  BY DEF OnPath, Safe, Over
<1>2. p.data \in Seq(Chars) /\ p.frags \in Seq(Frag) /\ Len(p.data) \in Nat BY SafeFacts DEF OnPath
<1>3. Current(p) = p.frags[Len(p.frags)] /\ Current(p).len \in Nat BY <1>1, CurrentFacts
<1> DEFINE n == Current(p).len  d == SubSeq(p.data, 1, Len(p.data) - (n - k))  fs == Longer(p.frags, k - n)
           r == [p EXCEPT !.data = d]
<1>4. q = Lengthened(r, k - n) BY <1>1 DEF CutTo, HeaderTable
<1>5. /\ d \in Seq(Chars) /\ fs \in Seq(Frag) /\ Len(fs) = Len(p.frags) /\ Len(d) <= Len(p.data)
      /\ Laid(d, fs, Len(p.frags)) /\ Opened(d, fs) /\ Parted(d, fs)
      /\ k = 1 \/ p.data[Current(p).off + k + 1] = "/" => NoSlashDot(d, fs[Len(p.frags)])
  <2>1. d = Cut(p.data, p.frags, k) BY <1>3 DEF Cut
  <2>2. fs = Longer(p.frags, k - p.frags[Len(p.frags)].len) BY <1>3
  <2>3. k \in 1 .. p.frags[Len(p.frags)].len - 1 BY <1>3
  <2> HIDE DEF d, fs
  <2> QED BY <2>1, <2>2, <2>3, <1>1, <1>2, <1>3, CutLaid
<1>6. k - n \in Int /\ n + (k - n) \in Nat BY <1>3, SMTT(30)
<1> HIDE DEF d, n
<1>7. Refilled(p, r) /\ r.ret = p.ret /\ r.data = d /\ r.frags = p.frags BY <1>1, <1>5 DEF HeaderTable, Refilled
<1> HIDE DEF r
<1>8. r \in HeaderTable /\ r.frags # <<>> /\ Current(r).len = n BY <1>1, <1>7 DEF Refilled, Current, n
<1>9. Refilled(r, q) /\ q.ret = p.ret /\ q.data = d /\ q.frags = fs BY <1>4, <1>6, <1>7, <1>8, LengthenedFacts
<1> HIDE DEF fs
<1>10. Refilled(p, q) BY <1>7, <1>9, RefilledTwice
<1>11. q \in HeaderTable /\ Get(q) = Get(p) /\ q.ups = p.ups BY <1>10 DEF Refilled, Get
<1>12. ~Over(q)
  <2>1. Len(d) \in Nat BY <1>5
  <2> QED BY <2>1, <1>1, <1>2, <1>5, <1>9, HeaderAssumption DEF Over
<1>13. q.frags # <<>> BY <1>1, <1>2, <1>5, <1>9, EmptySeq
<1>14. OnPath(q) BY <1>1, <1>5, <1>9, <1>11, <1>12, <1>13 DEF OnPath, Safe
<1>15. Current(q) = fs[Len(p.frags)] BY <1>5, <1>9 DEF Current
<1> QED BY <1>5, <1>9, <1>10, <1>14, <1>15

\* A part of the data holds its characters.
LEMMA Part ==
  ASSUME NEW d \in Seq(Chars), NEW a \in Nat, NEW n \in Nat, a + n <= Len(d)
  PROVE  \A i \in 1 .. n : SubSeq(d, a + 1, a + n)[i] = d[a + i]
OBVIOUS

\* "/.." takes the last directory off the path, back to the slash before it.
LEMMA BackUpKeeps ==
  ASSUME NEW p, OnPath(p), NoSlashDot(p.data, Current(p))
  PROVE  /\ Refilled(p, BackUp(p)) /\ BackUp(p).ret = p.ret /\ OnPath(BackUp(p))
         /\ NoSlashDot(BackUp(p).data, Current(BackUp(p)))
<1>1. p \in HeaderTable /\ p.frags # <<>> /\ p.data \in Seq(Chars) /\ Opened(p.data, p.frags)
  BY SafeFacts DEF OnPath
<1> DEFINE f == Current(p)  path == SubSeq(p.data, f.off + 1, f.off + f.len)
           Slashes == {i \in 2 .. f.len - 1 : path[i] = "/"}
           last == CHOOSE i \in Slashes : \A j \in Slashes : j <= i
           keep == IF Slashes = {} THEN 1 ELSE last - 1
<1>2. f.off \in Nat /\ f.len \in Nat /\ f.off + f.len = Len(p.data) BY <1>1, CurrentFacts DEF Opened, End
<1>3. BackUp(p) = IF f.len <= 2 THEN p ELSE CutTo(p, keep) BY DEF BackUp, CutTo
<1>4. CASE f.len <= 2 BY <1>1, <1>3, <1>4 DEF Refilled
<1>5. CASE ~(f.len <= 2)
  <2>1. keep \in 1 .. f.len - 1 /\ (keep = 1 \/ p.data[f.off + keep + 1] = "/")
    <3>1. CASE Slashes = {}
      <4> HIDE DEF f, Slashes
      <4> QED BY <3>1, <1>2, <1>5
    <3>2. CASE Slashes # {}
      <4>1. Slashes \subseteq 2 .. f.len - 1 OBVIOUS
      <4>2. last \in Slashes
        <5> HIDE DEF f, Slashes
        <5>1. \E i \in Slashes : \A j \in Slashes : j <= i BY <3>2, <4>1, <1>2, LastOf
        <5> QED BY <5>1
      <4>3. path[last] = "/" BY <4>2
      <4> DEFINE l == last
      <4>4. l \in 2 .. f.len - 1 /\ path[l] = "/" BY <4>1, <4>2, <4>3
      <4>5. keep = l - 1 BY <3>2
      <4> HIDE DEF f, l, keep
      <4>6. path[l] = p.data[f.off + l]
        <5>1. l \in 1 .. f.len /\ f.off + f.len <= Len(p.data) BY <4>4, <1>2
        <5> QED BY <5>1, <1>1, <1>2, Part
      <4> HIDE DEF path
      <4>7. f.off + keep + 1 = f.off + l /\ keep \in 1 .. f.len - 1 BY <4>4, <4>5, <1>2
      <4> QED BY <4>4, <4>6, <4>7
    <3> QED BY <3>1, <3>2
  <2> HIDE DEF keep
  <2>2. BackUp(p) = CutTo(p, keep) BY <1>3, <1>5
  <2> QED BY <2>1, <2>2, CutKeeps
<1> QED BY <1>4, <1>5

\* The path's states: what is swallowed keeps the invariant, what goes on may
\* be stored.
Storable(p, c) ==
    /\ OnPath(p) /\ p.ps = "GET" /\ p.ups # "ARGUMENTS" /\ p.ret # 2
    /\ c = "/" => NoSlash(p.data, Current(p)) /\ NoSlashDot(p.data, Current(p)) /\ p.ups # "IDLE"
    /\ c = "." => NoSlash(p.data, Current(p)) /\ NoSlashDot(p.data, Current(p))

\* A character of the path is stored only where it keeps the path plain.
LEMMA PathStepKeeps ==
  ASSUME NEW p, OnPath(p), EndsPlain(p, p.ups), p.ps = "GET", p.ups # "ARGUMENTS", p.ret # 2, NEW c
  PROVE  /\ ~PathStep(p, c).go => HeaderInv(PathStep(p, c).p) /\ PathStep(p, c).p.ps = "GET"
         /\ PathStep(p, c).go => Storable(PathStep(p, c).p, c)
<1>1. p \in HeaderTable /\ p.ups \in PathStates /\ p.index["GET"] # 0 /\ HeaderInv(p)
  BY SafeFacts, PathIndex, OnPathInv DEF OnPath, HeaderTable
<1>2. p.ups \in {"IDLE", "SLASH", "SLASH_DOT", "SLASH_DOT_DOT"} BY <1>1 DEF PathStates
<1>3. "IDLE" \in PathStates /\ "SLASH" \in PathStates /\ "SLASH_DOT" \in PathStates /\ "SLASH_DOT_DOT" \in PathStates
  BY DEF PathStates
<1>4. NoSlashDot(p.data, Current(p)) /\ (p.ups = "IDLE" => NoSlash(p.data, Current(p)))
  BY DEF EndsPlain, Ending
<1>5. ASSUME NEW u \in PathStates \ {"ARGUMENTS"}, NEW q, q = [p EXCEPT !.ups = u]
      PROVE  /\ OnPath(q) /\ q.ps = "GET" /\ q.ups = u /\ q.ret = p.ret
             /\ q.data = p.data /\ Current(q) = Current(p) /\ (u # "IDLE" => HeaderInv(q))
  <2>1. Alike(p, q) /\ q.ups = u /\ q.ps = p.ps /\ q.ret = p.ret BY <1>1, <1>5, SetUps
  <2>2. OnPath(q) /\ Current(q) = Current(p) /\ q.data = p.data BY <2>1, <1>1, AlikeFacts DEF Alike
  <2>3. u # "IDLE" => EndsPlain(q, u) BY <2>2, <1>4 DEF EndsPlain, Ending
  <2> QED BY <2>1, <2>2, <2>3, <1>5, OnPathInv
<1>6. CASE p.ups = "IDLE"
  <2>1. CASE c = "/"
    <3>1. PathStep(p, c) = Go([p EXCEPT !.ups = "SLASH"]) BY <1>6, <2>1 DEF PathStep
    <3> QED BY <3>1, <2>1, <1>3, <1>4, <1>5, <1>6 DEF Go, Storable
  <2>2. CASE c # "/"
    <3>1. PathStep(p, c) = Go(p) BY <1>6, <2>2 DEF PathStep
    <3> QED BY <3>1, <2>2, <1>4, <1>6 DEF Go, Storable
  <2> QED BY <2>1, <2>2
<1>7. CASE p.ups = "SLASH"
  <2>0. PathStep(p, c) = SeenSlash(p, c) BY <1>7 DEF PathStep
  <2>1. CASE c = "/"
    <3>1. PathStep(p, c) = Swallow(p) BY <2>0, <2>1 DEF SeenSlash
    <3> QED BY <3>1, <1>1 DEF Swallow
  <2>2. CASE c = "."
    <3>1. PathStep(p, c) = Swallow([p EXCEPT !.ups = "SLASH_DOT"]) BY <2>0, <2>2 DEF SeenSlash
    <3> QED BY <3>1, <1>3, <1>5 DEF Swallow
  <2>3. CASE c # "/" /\ c # "."
    <3>1. PathStep(p, c) = Go([p EXCEPT !.ups = "IDLE"]) BY <2>0, <2>3 DEF SeenSlash
    <3> QED BY <3>1, <2>3, <1>3, <1>5 DEF Go, Storable
  <2> QED BY <2>1, <2>2, <2>3
<1>8. CASE p.ups = "SLASH_DOT"
  <2>0. PathStep(p, c) = SeenDot(p, c) BY <1>8 DEF PathStep
  <2>1. CASE c = "."
    <3> DEFINE b == BackUp(p)  q == [b EXCEPT !.ups = "SLASH_DOT_DOT"]
    <3>1. PathStep(p, c) = Swallow(q) BY <2>0, <2>1 DEF SeenDot
    <3>2. Refilled(p, b) /\ b.ret = p.ret /\ OnPath(b) /\ NoSlashDot(b.data, Current(b)) BY <1>4, BackUpKeeps
    <3> HIDE DEF b
    <3>3. b \in HeaderTable /\ b.ps = "GET" BY <3>2 DEF Refilled
    <3>4. Alike(b, q) /\ q.ups = "SLASH_DOT_DOT" /\ q.ps = "GET" BY <3>3, <1>3, SetUps
    <3> HIDE DEF q
    <3>5. OnPath(q) /\ Current(q) = Current(b) /\ q.data = b.data BY <3>2, <3>4, PathIndex, AlikeFacts DEF Alike
    <3>6. HeaderInv(q) BY <3>2, <3>4, <3>5, OnPathInv DEF EndsPlain, Ending
    <3> QED BY <3>1, <3>4, <3>6 DEF Swallow
  <2>2. CASE c = "/"
    <3>1. PathStep(p, c) = Swallow([p EXCEPT !.ups = "SLASH"]) BY <2>0, <2>2 DEF SeenDot
    <3> QED BY <3>1, <1>3, <1>5 DEF Swallow
  <2>3. CASE c # "/" /\ c # "."
    <3> DEFINE b == IssueChar(p, ".")  q == [b EXCEPT !.ups = "IDLE"]  r == [q EXCEPT !.ret = 0]
    <3>1. PathStep(p, c) = Go(r) BY <2>0, <2>3 DEF SeenDot, Unheeded
    <3>2. "." \in Letters BY DEF Letters, Uri
    <3>3. Refilled(p, b) /\ OnPath(b) BY <3>2, <1>4, IssueOnPath
    <3> HIDE DEF b
    <3>4. b \in HeaderTable /\ b.ps = "GET" BY <3>3 DEF Refilled
    <3>5. Alike(b, q) /\ q.ups = "IDLE" /\ q.ps = "GET" BY <3>4, <1>3, SetUps
    <3> HIDE DEF q
    <3>6. OnPath(q) BY <3>3, <3>5, PathIndex, AlikeFacts
    <3>7. q \in HeaderTable /\ 0 \in Results BY <3>5 DEF Alike, Results
    <3>8. Alike(q, r) /\ r.ups = "IDLE" /\ r.ps = "GET" /\ r.ret = 0 BY <3>5, <3>7, SetRet
    <3> HIDE DEF r
    <3>9. OnPath(r) BY <3>5, <3>6, <3>8, AlikeFacts
    <3> QED BY <3>1, <3>8, <3>9, <2>3 DEF Go, Storable
  <2> QED BY <2>1, <2>2, <2>3
<1>9. CASE p.ups = "SLASH_DOT_DOT"
  <2>0. PathStep(p, c) = SeenDotDot(p, c) BY <1>9 DEF PathStep
  <2>1. CASE c \in {".", "/"}
    <3>1. PathStep(p, c) = Swallow(p) BY <2>0, <2>1 DEF SeenDotDot
    <3> QED BY <3>1, <1>1 DEF Swallow
  <2>2. CASE c \notin {".", "/"}
    <3>1. PathStep(p, c) = Go([p EXCEPT !.ups = "SLASH"]) BY <2>0, <2>2 DEF SeenDotDot
    <3> QED BY <3>1, <2>2, <1>3, <1>5 DEF Go, Storable
  <2> QED BY <2>1, <2>2
<1> QED BY <1>2, <1>6, <1>7, <1>8, <1>9

\* A letter that was assessed as part of the path or of a value keeps the
\* invariant.
LEMMA AssessKeeps ==
  ASSUME NEW p, HeaderInv(p), p.ret # 2, Assessable(p), NEW c \in Letters
  PROVE  HeaderInv(Assess(p, c)) /\ (c # "cr" => Assessable(Assess(p, c)))
<1>1. \/ p.ps = "GET" /\ p.ups # "ARGUMENTS" /\ OnPath(p) /\ EndsPlain(p, p.ups)
      \/ p.ups = "ARGUMENTS" /\ OffPath(p) /\ Get(p) # 0
  BY Cases DEF Assessable
<1>2. CASE p.ps = "GET" /\ p.ups # "ARGUMENTS" /\ OnPath(p) /\ EndsPlain(p, p.ups)
  <2> DEFINE s == PathStep(p, c)  q == s.p
  <2>1. (~s.go => HeaderInv(q) /\ q.ps = "GET") /\ (s.go => Storable(q, c)) BY <1>2, PathStepKeeps
  <2>2. Assess(p, c) = IF ~s.go THEN q ELSE IF c = "?" THEN UriArgs(q) ELSE Store(q, c) BY DEF Assess
  <2> HIDE DEF s, q
  <2>3. CASE ~s.go BY <2>1, <2>2, <2>3 DEF Assessable
  <2>4. CASE s.go
    <3>1. OnPath(q) /\ q.ps = "GET" /\ Get(q) # 0 /\ Assessable(q)
      BY <2>1, <2>4, PathIndex DEF Storable, Assessable, Get
    <3>2. CASE c = "?" BY <3>1, <3>2, <2>2, <2>4, UriArgsKeeps
    <3>3. CASE c = "cr"
      <4>1. Assess(p, c) = Store(q, "cr") BY <3>3, <2>2, <2>4
      <4> QED BY <4>1, <3>1, <3>3, StoreEnd
    <3>4. CASE c # "?" /\ c # "cr"
      <4>1. HeaderInv(Store(q, c)) /\ Store(q, c).ps = "GET" BY <3>4, <2>1, <2>4, StoreOnPath DEF Storable
      <4> QED BY <4>1, <3>4, <2>2, <2>4 DEF Assessable
    <3> QED BY <3>2, <3>3, <3>4
  <2> QED BY <2>3, <2>4
<1>3. CASE p.ups = "ARGUMENTS" /\ OffPath(p) /\ Get(p) # 0
  <2>1. PathStep(p, c) = Go(p) BY <1>3 DEF PathStep
  <2>2. Assess(p, c) = IF c = "?" THEN UriArgs(p) ELSE Store(p, c) BY <2>1 DEF Assess, Go
  <2>3. CASE c = "?" BY <2>2, <2>3, <1>3, UriArgsKeeps
  <2>4. CASE c = "cr"
    <3>1. Assess(p, c) = Store(p, "cr") /\ p.ps # "COMPLETE" BY <2>2, <2>4 DEF Assessable
    <3> QED BY <3>1, <2>4, <1>3, StoreEnd
  <2>5. CASE c # "?" /\ c # "cr"
    <3>1. p.ps \in {"GET", "SKIPPING"} /\ (p.ps \in Taking \/ (p.ps = "SKIPPING" /\ Over(p)))
      BY DEF Assessable, Taking
    <3> QED BY <3>1, <2>2, <2>5, <1>3, StoreOffPath
  <2> QED BY <2>3, <2>4, <2>5
<1> QED BY <1>1, <1>2, <1>3

\* The invariant looks at no other field.
LEMMA RecastInv ==
  ASSUME NEW p, HeaderInv(p), NEW q, Alike(p, q), q.ps = p.ps, q.ups = p.ups, q.ret = p.ret
  PROVE  HeaderInv(q) /\ Get(q) = Get(p)
<1>1. Get(q) = Get(p) /\ (Over(p) <=> Over(q)) /\ (Safe(p) => Safe(q)) BY AlikeFacts
<1>2. Filling(p) => Filling(q) BY <1>1 DEF Filling, InPath, Alike
<1> QED BY <1>1, <1>2 DEF HeaderInv

\* A "%" that begins no escape is stored as it is.
LEMMA PercentKeeps ==
  ASSUME NEW p, HeaderInv(p), p.ret # 2, p.ps = "GET", NEW q, q = IssueChar(p, "%")
  PROVE  /\ HeaderInv(q) /\ q.ps = "GET"
         /\ HeaderInv(Unheeded(q)) /\ Unheeded(q).ps = "GET" /\ Unheeded(q).ret = 0
<1>1. "%" \in Letters /\ 0 \in Results BY DEF Letters, Uri, Results
<1> DEFINE u == Unheeded(q)
<1>2. \/ p.ups # "ARGUMENTS" /\ OnPath(p) /\ EndsPlain(p, p.ups)
      \/ p.ups = "ARGUMENTS" /\ OffPath(p) /\ Get(p) # 0
  BY Cases
<1>3. CASE p.ups # "ARGUMENTS" /\ OnPath(p) /\ EndsPlain(p, p.ups)
  <2>1. /\ Refilled(p, q) /\ OnPath(q)
        /\ \/ q.ret = 2 /\ Len(p.data) = DataSize /\ q.data = p.data /\ q.frags = p.frags
           \/ q.ret = 0 /\ NoSlash(q.data, Current(q)) /\ NoSlashDot(q.data, Current(q))
    BY <1>1, <1>3, IssueOnPath
  <2>2. q \in HeaderTable /\ q.ps = "GET" /\ q.ups = p.ups BY <2>1 DEF Refilled
  <2>3. EndsPlain(q, q.ups) BY <2>1, <2>2, <1>3 DEF EndsPlain, Ending, Current
  <2>4. Alike(q, u) /\ u.ps = "GET" /\ u.ups = q.ups /\ u.ret = 0 BY <2>2, <1>1, SetRet DEF Unheeded
  <2> HIDE DEF u
  <2>5. OnPath(u) /\ EndsPlain(u, u.ups) BY <2>1, <2>3, <2>4, AlikeFacts
  <2>6. HeaderInv(q) /\ HeaderInv(u) BY <2>1, <2>2, <2>3, <2>4, <2>5, <1>3, OnPathInv
  <2> QED BY <2>2, <2>4, <2>6 DEF u
<1>4. CASE p.ups = "ARGUMENTS" /\ OffPath(p) /\ Get(p) # 0
  <2>1. Refilled(p, q) /\ OffPath(q) BY <1>1, <1>4, IssueOffPath
  <2>2. q \in HeaderTable /\ q.ps = "GET" /\ q.ups = p.ups /\ Get(q) # 0 BY <2>1, <1>4 DEF Refilled, Get
  <2>4. Alike(q, u) /\ u.ps = "GET" /\ u.ups = q.ups /\ u.ret = 0 BY <2>2, <1>1, SetRet DEF Unheeded
  <2> HIDE DEF u
  <2>5. OffPath(u) /\ Get(u) # 0 BY <2>1, <2>2, <2>4, AlikeFacts
  <2>6. HeaderInv(q) /\ HeaderInv(u) BY <2>1, <2>2, <2>4, <2>5, <1>4, OffPathInv DEF InPath, Taking
  <2> QED BY <2>2, <2>4, <2>6 DEF u
<1> QED BY <1>2, <1>3, <1>4

\* A letter of the request's URI keeps the invariant.
LEMMA UriStepKeeps ==
  ASSUME NEW p, HeaderInv(p), p.ret # 2, p.ps = "GET", NEW c \in Letters
  PROVE  HeaderInv(UriStep(p, c))
<1>1. p \in HeaderTable /\ p.ues \in EscapeStates /\ p.stash \in Stashes BY DEF HeaderInv, Safe, HeaderTable
<1>2. "IDLE" \in EscapeStates /\ "PERCENT" \in EscapeStates /\ "H1" \in EscapeStates BY DEF EscapeStates
<1> DEFINE idle == [p EXCEPT !.ues = "IDLE"]  percent == IssueChar(idle, "%")
<1>3. HeaderInv(idle) /\ idle.ret # 2 /\ idle.ps = "GET" BY <1>1, <1>2, SetUes, RecastInv
<1> HIDE DEF idle
<1>4. HeaderInv(percent) /\ percent.ps = "GET" /\ HeaderInv(Unheeded(percent)) /\ Unheeded(percent).ps = "GET"
      /\ Unheeded(percent).ret = 0
  BY <1>3, PercentKeeps
<1> HIDE DEF percent
<1>5. p.stash \in Letters /\ p.stash # "cr" BY <1>1, Zenon DEF Stashes, Letters, Uri, Values, Hex
<1>6. CASE p.ues = "IDLE" /\ c = "%"
  <2> DEFINE q == [p EXCEPT !.ues = "PERCENT"]
  <2>1. UriStep(p, c) = q BY <1>6 DEF UriStep
  <2>2. Alike(p, q) /\ q.ups = p.ups /\ q.ps = p.ps /\ q.ret = p.ret BY <1>1, <1>2, SetUes
  <2> QED BY <2>1, <2>2, RecastInv
<1>7. CASE p.ues = "PERCENT" /\ c \in Hex
  <2> DEFINE q == [p EXCEPT !.ues = "H1", !.stash = c]
  <2>1. UriStep(p, c) = q BY <1>7 DEF UriStep
  <2>2. c \in Stashes BY <1>7 DEF Stashes
  <2>3. Alike(p, q) /\ q.ups = p.ups /\ q.ps = p.ps /\ q.ret = p.ret BY <2>2, <1>1, <1>2 DEF HeaderTable, Alike
  <2> QED BY <2>1, <2>3, RecastInv
<1>8. CASE p.ues = "PERCENT" /\ c \notin Hex
  <2>1. UriStep(p, c) = IF percent.ret = 2 THEN percent ELSE Assess(percent, c) BY <1>8 DEF UriStep, percent, idle
  <2> QED BY <2>1, <1>4, AssessKeeps DEF Assessable
<1>9. CASE p.ues = "H1" /\ c \in Hex
  <2>1. UriStep(p, c) = Assess(idle, Decode(p.stash, c)) BY <1>9 DEF UriStep, idle
  <2>2. Decode(p.stash, c) \in Letters BY Zenon DEF Decode, Letters, Uri
  <2> QED BY <2>1, <2>2, <1>3, AssessKeeps DEF Assessable
<1>10. CASE p.ues = "H1" /\ c \notin Hex
  <2> DEFINE q == Assess(Unheeded(percent), p.stash)
  <2>1. UriStep(p, c) = IF q.ret = 2 THEN q ELSE Assess(q, c) BY <1>10 DEF UriStep, percent, idle
  <2>2. Unheeded(percent).ret # 2 /\ Assessable(Unheeded(percent)) BY <1>4 DEF Assessable
  <2>3. HeaderInv(q) /\ Assessable(q) BY <2>2, <1>4, <1>5, AssessKeeps
  <2> HIDE DEF q
  <2> QED BY <2>1, <2>3, AssessKeeps
<1>11. CASE ~(p.ues = "IDLE" /\ c = "%") /\ p.ues # "PERCENT" /\ p.ues # "H1"
  <2>1. UriStep(p, c) = Assess(p, c) BY <1>11 DEF UriStep
  <2> QED BY <2>1, AssessKeeps DEF Assessable
<1> QED BY <1>6, <1>7, <1>8, <1>9, <1>10, <1>11

\* The end of the URI seals it.
LEMMA UriEndKeeps ==
  ASSUME NEW p, HeaderInv(p), p.ret # 2, p.ps = "GET"
  PROVE  HeaderInv(UriEnd(p))
<1> DEFINE q == IF Current(p).len = 0 THEN IssueChar(p, "/") ELSE p  r == IssueChar(q, "nul")
<1>1. UriEnd(p) = IF q.ret = 2 \/ r.ret = 2 THEN Dead(r) ELSE StartFragment(r, "HTTP") BY DEF UriEnd
<1>2. "/" \in Letters BY DEF Letters, Uri
<1>3. \/ p.ups # "ARGUMENTS" /\ OnPath(p) /\ Get(p) # 0
      \/ p.ups = "ARGUMENTS" /\ OffPath(p) /\ Get(p) # 0
  BY Cases, PathIndex DEF Get
<1>4. (OnPath(q) \/ OffPath(q)) /\ q.ps = "GET" /\ Get(q) # 0
  <2>1. CASE Current(p).len # 0 BY <2>1, <1>3
  <2>2. CASE Current(p).len = 0 /\ OnPath(p)
    <3>1. NoSlash(p.data, Current(p)) /\ NoSlashDot(p.data, Current(p)) BY <2>2 DEF NoSlash, NoSlashDot
    <3>2. q = IssueChar(p, "/") BY <2>2
    <3> HIDE DEF q
    <3>3. Refilled(p, q) /\ OnPath(q) BY <3>1, <3>2, <2>2, <1>2, IssueOnPath
    <3> QED BY <3>3, PathIndex DEF Refilled, Get
  <2>3. CASE Current(p).len = 0 /\ OffPath(p)
    <3>1. q = IssueChar(p, "/") BY <2>3
    <3> HIDE DEF q
    <3>2. Refilled(p, q) /\ OffPath(q) BY <3>1, <2>3, <1>2, IssueOffPath
    <3> QED BY <3>2, <1>3 DEF Refilled, Get
  <2> QED BY <2>1, <2>2, <2>3, <1>3
<1> HIDE DEF q
<1>5. Refilled(q, r) /\ Safe(r) /\ (r.ret # 2 => AllShut(r)) BY <1>4, IssueNul
<1> HIDE DEF r
<1>6. r.ps = "GET" /\ Get(r) # 0 BY <1>4, <1>5 DEF Refilled, Get
<1>7. CASE q.ret = 2 \/ r.ret = 2 BY <1>1, <1>5, <1>6, <1>7, DeadKeeps
<1>8. CASE ~(q.ret = 2 \/ r.ret = 2)
  <2>1. "HTTP" \in Taking BY DEF Taking
  <2> QED BY <2>1, <1>1, <1>5, <1>6, <1>8, StartKeeps
<1> QED BY <1>7, <1>8

\* A letter of a header's value keeps the invariant.
LEMMA ValueKeeps ==
  ASSUME NEW p, HeaderInv(p), p.ret # 2, p.ps \in Taking, NEW c \in Letters
  PROVE  HeaderInv(Value(p, c))
<1>1. \/ Value(p, c) = p
      \/ p.ps = "GET" /\ (Value(p, c) = UriEnd(p) \/ Value(p, c) = UriStep(p, c))
      \/ p.ps # "GET" /\ Value(p, c) = Store(p, c)
  BY Zenon DEF Value
<1>2. CASE p.ps # "GET" /\ Value(p, c) = Store(p, c)
  <2>1. OffPath(p) /\ p.ps # "COMPLETE" BY <1>2, Cases DEF Taking
  <2>2. CASE c = "cr" BY <2>1, <2>2, <1>2, StoreEnd
  <2>3. CASE c # "cr" BY <2>1, <2>3, <1>2, StoreOffPath
  <2> QED BY <2>2, <2>3
<1> QED BY <1>1, <1>2, UriEndKeeps, UriStepKeeps

\* The name of a header keeps the invariant.
LEMMA NameKeeps ==
  ASSUME NEW p, HeaderInv(p), p.ret # 2, p.ps = "NAME",
         NEW c \in Names, Get(p) = 0 => c \in {"GET", "unknown"}
  PROVE  HeaderInv(NamePart(p, c))
<1>1. AllShut(p) /\ Safe(p) /\ p \in HeaderTable BY Cases, SafeFacts DEF Taking, AllShut
<1>2. /\ "SKIPPING" \in ParseStates /\ "COMPLETE" \in ParseStates
      /\ "SKIPPING" \notin Taking /\ "COMPLETE" \notin Taking
  BY DEF ParseStates, Taking
<1>3. ASSUME NEW v \in {"SKIPPING", "COMPLETE"}, NEW q, q = [p EXCEPT !.ps = v] PROVE HeaderInv(q)
  <2>1. Alike(p, q) /\ q.ps = v /\ q.ups = p.ups /\ q.ret = p.ret BY <1>1, <1>2, <1>3, SetPs
  <2> QED BY <2>1, <1>1, <1>2, AlikeFacts, BetweenInv
<1>4. CASE c = "unknown"
  <2>1. NamePart(p, c) = Dead(p) \/ NamePart(p, c) = [p EXCEPT !.ps = "SKIPPING"] BY <1>4 DEF NamePart
  <2> QED BY <2>1, <1>1, <1>3, DeadKeeps
<1>5. CASE c = "end"
  <2>1. NamePart(p, c) = [p EXCEPT !.ps = "COMPLETE"] BY <1>5 DEF NamePart
  <2> QED BY <2>1, <1>3
<1>6. CASE c = "GET" /\ p.index["GET"] # 0
  <2>1. NamePart(p, c) = Dead(p) BY <1>6 DEF NamePart
  <2> QED BY <2>1, <1>1, DeadKeeps
<1>7. CASE c \in Taking /\ ~(c = "GET" /\ p.index["GET"] # 0)
  <2>1. c # "unknown" /\ c # "end" BY <1>7 DEF Taking
  <2>2. NamePart(p, c) = StartFragment(p, c) BY <2>1, <1>7 DEF NamePart
  <2>3. c = "GET" <=> Get(p) = 0 BY <2>1, <1>7 DEF Get
  <2> QED BY <2>2, <2>3, <1>1, <1>7, StartKeeps
<1> QED BY <1>4, <1>5, <1>6, <1>7 DEF Names, Headers, Taking

\* A header that is skipped keeps the invariant.
LEMMA SkippingKeeps ==
  ASSUME NEW p, HeaderInv(p), p.ret # 2, p.ps \in {"SKIPPING", "SAW_CR"}, NEW c
  PROVE  HeaderInv(Skipping(p, c))
<1>1. AllShut(p) /\ p \in HeaderTable BY Cases, SafeFacts DEF Taking, AllShut
<1>2. \A v \in {"SKIPPING", "SAW_CR", "NAME"} : v \in ParseStates /\ v \notin Taking /\ v # "COMPLETE"
  BY DEF ParseStates, Taking
<1>3. ASSUME NEW v \in {"SKIPPING", "SAW_CR", "NAME"}, NEW q, q = [p EXCEPT !.ps = v] PROVE HeaderInv(q)
  <2>1. Alike(p, q) /\ q.ps = v /\ q.ups = p.ups /\ q.ret = p.ret BY <1>1, <1>2, <1>3, SetPs
  <2> QED BY <2>1, <1>1, <1>2, AlikeFacts, BetweenInv
<1>4. \E v \in {"SKIPPING", "SAW_CR", "NAME"} : Skipping(p, c) = [p EXCEPT !.ps = v] BY DEF Skipping
<1> QED BY <1>3, <1>4

\* Each call of libwebsocket_parse keeps the invariant.
LEMMA ParseKeeps ==
  ASSUME NEW p, HeaderInv(p), p.ret # 2, p.ps # "COMPLETE", NEW c \in Expected(p)
  PROVE  HeaderInv(Parse(p, c))
<1>1. p.ps \in ParseStates BY DEF HeaderInv, Safe, HeaderTable
<1>2. CASE p.ps = "NAME"
  <2>1. Parse(p, c) = NamePart(p, c) BY <1>2 DEF Parse
  <2>2. c \in Names /\ (Get(p) = 0 => c \in {"GET", "unknown"}) BY <1>2 DEF Expected, Names, Get
  <2> QED BY <2>1, <2>2, <1>2, NameKeeps
<1>3. CASE p.ps \in {"SKIPPING", "SAW_CR"}
  <2>1. Parse(p, c) = Skipping(p, c) BY <1>3 DEF Parse
  <2> QED BY <2>1, <1>3, SkippingKeeps
<1>4. CASE p.ps \in Taking
  <2>1. Parse(p, c) = Value(p, c) BY <1>4 DEF Parse, Taking
  <2>2. c \in Letters BY <1>4 DEF Expected, Letters, Taking
  <2> QED BY <2>1, <2>2, <1>4, ValueKeeps
<1> QED BY <1>1, <1>2, <1>3, <1>4 DEF ParseStates

\* Counting the letters that may still come changes no more.
LEMMA SetLeft ==
  ASSUME NEW p, p \in HeaderTable, NEW v \in Int, NEW q, q = [p EXCEPT !.left = v]
  PROVE  Alike(p, q) /\ q.ps = p.ps /\ q.ups = p.ups /\ q.ret = p.ret
BY DEF HeaderTable, Alike

\* Each step of the parser keeps the invariant.
LEMMA HeaderStep == ASSUME HeaderInv(hp), HeaderNext PROVE HeaderInv(hp')
<1>1. PICK c \in Expected(hp) : hp' = [Parse(hp, c) EXCEPT !.left = @ - 1] BY DEF HeaderNext
<1> DEFINE q == Parse(hp, c)
<1>2. HeaderInv(q) BY ParseKeeps DEF HeaderNext
<1>3. q \in HeaderTable BY <1>2 DEF HeaderInv, Safe
<1> HIDE DEF q
<1>4. hp' = [q EXCEPT !.left = q.left - 1] BY <1>1 DEF q
<1>5. Alike(q, hp') /\ hp'.ps = q.ps /\ hp'.ups = q.ups /\ hp'.ret = q.ret
  <2> DEFINE v == q.left - 1
  <2>1. v \in Int BY <1>3 DEF HeaderTable
  <2>2. hp' = [q EXCEPT !.left = v] BY <1>4
  <2> HIDE DEF v
  <2> QED BY <2>1, <2>2, <1>3, SetLeft
<1> QED BY <1>2, <1>5, RecastInv

\* The table of a new request.
LEMMA EmptyTable ==
  /\ NewTable \in HeaderTable /\ NewTable.data = <<>> /\ NewTable.frags = <<>> /\ Get(NewTable) = 0
  /\ NewTable.ps = "NAME" /\ NewTable.ups = "IDLE" /\ NewTable.ret = 0
<1>1. UriChars \in Int BY HeaderAssumption
<1>2. "NAME" \in ParseStates /\ "IDLE" \in EscapeStates /\ "IDLE" \in PathStates /\ "x" \in Stashes /\ 0 \in Results
  BY DEF ParseStates, EscapeStates, PathStates, Stashes, Results
<1>3. "GET" \in Tokens BY GetToken
<1>4. [t \in Tokens |-> 0] \in [Tokens -> Nat] OBVIOUS
<1>5. <<>> \in Seq(Chars) /\ <<>> \in Seq(Frag) OBVIOUS
<1> QED BY <1>1, <1>2, <1>3, <1>4, <1>5 DEF NewTable, HeaderTable, Get

\* A fragment that begins at off and has len characters.
LEMMA FragmentFacts ==
  ASSUME NEW off \in Nat, NEW len \in Nat, NEW t \in Tokens
  PROVE  /\ Fragment(off, len, t) \in Frag /\ Fragment(off, len, t).off = off /\ Fragment(off, len, t).len = len
         /\ End(Fragment(off, len, t)) = off + len
BY DEF Fragment, Frag, End

\* The invariant holds of a new table and of one that is nearly full.
LEMMA HeaderInitial == HeaderInit => HeaderInv(hp)
<1>1. DataSize \in Nat /\ DataSize > 3 /\ UriChars \in Nat /\ HeaderChars \in Nat BY HeaderAssumption
<1>2. {"GET", "HTTP"} \subseteq Tokens /\ "GET" # "HTTP" BY GetToken
<1>3. {"x", "/", "nul"} \subseteq Chars BY Zenon DEF Chars
<1>4. HeaderInv(NewTable)
  <2>1. Behind(<<>>, <<>>) /\ Parted(<<>>, <<>>) /\ Shut(<<>>, <<>>) BY DEF Behind, Parted, Shut
  <2>2. Laid(<<>>, <<>>, 0) BY <2>1 DEF Laid
  <2>3. ~Over(NewTable) BY <1>1, EmptyTable DEF Over
  <2> QED BY <2>1, <2>2, <2>3, EmptyTable DEF HeaderInv, Safe, Filling, InPath, Taking
<1>5. HeaderInv(Requested)
  <2> DEFINE d == <<"/", "nul", "x", "nul">>  f == Fragment(0, 1, "GET")  g == Fragment(2, 1, "HTTP")  fs == <<f, g>>
             p == Requested
  <2>1. f \in Frag /\ f.off = 0 /\ f.len = 1 /\ End(f) = 1 /\ g \in Frag /\ g.off = 2 /\ g.len = 1 /\ End(g) = 3
    <3>1. f \in Frag /\ f.off = 0 /\ f.len = 1 /\ End(f) = 0 + 1 BY <1>2, FragmentFacts
    <3>2. g \in Frag /\ g.off = 2 /\ g.len = 1 /\ End(g) = 2 + 1 BY <1>2, FragmentFacts
    <3> QED BY <3>1, <3>2
  <2> HIDE DEF f, g
  <2>2. fs \in Seq(Frag) /\ Len(fs) = 2 /\ fs[1] = f /\ fs[2] = g BY <2>1
  <2>3. d \in Seq(Chars) /\ Len(d) = 4 /\ d[1] = "/" /\ d[2] = "nul" /\ d[3] = "x" /\ d[4] = "nul" BY <1>3
  <2> HIDE DEF d, fs
  <2>4. \A n \in 1 .. Len(fs) : n = 1 \/ n = 2 BY <2>2
  <2>5. Behind(d, fs) BY <2>1, <2>2, <2>3, <2>4 DEF Behind
  <2>6. Clean(d, f) /\ Clean(d, g) BY <2>1, <2>3 DEF Clean
  <2>7. Parted(d, fs) BY <2>1, <2>2, <2>3, <2>4, <2>6 DEF Parted
  <2>8. Shut(d, fs) BY <2>1, <2>2, <2>3 DEF Shut, Sealed
  <2>9. PlainPath(d, f) BY <2>1 DEF PlainPath
  <2>10. Laid(d, fs, 1) BY <2>2, <2>5, <2>9 DEF Laid
  <2>11. p = [NewTable EXCEPT !.left = HeaderChars, !.ups = "SLASH", !.data = d, !.frags = fs,
                              !.index["GET"] = 1, !.index["HTTP"] = 2]
    BY DEF Requested, d, fs, f, g
  <2>12. "SLASH" \in PathStates /\ HeaderChars \in Int BY <1>1 DEF PathStates
  <2>13. p \in HeaderTable /\ p.data = d /\ p.frags = fs /\ p.ps = "NAME" /\ p.ups = "SLASH" /\ p.ret = 0
    BY <2>2, <2>3, <2>11, <2>12, EmptyTable, <1>2 DEF HeaderTable
  <2>14. Get(p) = 1 BY <2>11, <1>2, EmptyTable DEF HeaderTable, Get
  <2> HIDE DEF p
  <2>15. ~Over(p)
    <3>1. Len(p.data) = 4 BY <2>3, <2>13
    <3> QED BY <3>1, <1>1 DEF Over
  <2>16. HeaderInv(p) BY <2>7, <2>8, <2>10, <2>13, <2>14, <2>15 DEF HeaderInv, Safe, Filling, InPath, Taking
  <2> QED BY <2>16 DEF p
<1>6. HeaderInv(NearlyFull)
  <2> DEFINE l == DataSize - 2  d == [i \in 1 .. l |-> IF i = 1 THEN "/" ELSE "x"]  f == Fragment(0, l, "GET")
             fs == <<f>>  p == NearlyFull
  <2>0. l \in Nat /\ l > 1 BY <1>1
  <2>1. d \in Seq(Chars) /\ Len(d) = l /\ d[1] = "/" /\ \A i \in 2 .. l : d[i] = "x"
    <3> HIDE DEF l
    <3>1. \A i \in 1 .. l : d[i] \in Chars BY <1>3
    <3> QED BY <3>1, <2>0
  <2> HIDE DEF l
  <2>2. f \in Frag /\ f.off = 0 /\ f.len = l /\ End(f) = l BY <2>0, <1>2, FragmentFacts
  <2> HIDE DEF f
  <2>3. fs \in Seq(Frag) /\ Len(fs) = 1 /\ fs[1] = f BY <2>2
  <2>4. p = [NewTable EXCEPT !.ps = "GET", !.data = d, !.frags = fs, !.index["GET"] = 1]
    BY DEF NearlyFull, f, l
  <2> HIDE DEF d, fs
  <2>5. "GET" \in ParseStates BY GetToken DEF Taking
  <2>6. p \in HeaderTable /\ p.data = d /\ p.frags = fs /\ p.ps = "GET" /\ p.ups = "IDLE" /\ p.ret = 0
    BY <2>1, <2>3, <2>4, <2>5, EmptyTable, <1>2 DEF HeaderTable
  <2>7. Get(p) = 1 BY <2>4, <1>2, EmptyTable DEF HeaderTable, Get
  <2> HIDE DEF p
  <2>8. \A n \in 1 .. Len(fs) : n = 1 BY <2>3
  <2>9. Behind(d, fs) BY <2>0, <2>1, <2>2, <2>3, <2>8 DEF Behind
  <2>10. \A i \in 1 .. l : d[i] # "nul" /\ (i # 1 => d[i] = "x") BY <2>0, <2>1
  <2>11. Parted(d, fs) BY <2>2, <2>3, <2>8, <2>10 DEF Parted, Clean
  <2>12. PlainPath(d, f)
    <3>1. ASSUME NEW i \in 1 .. l - 1, d[i] = "/" PROVE d[i + 1] = "x"
      <4>1. i = 1 /\ 2 \in 1 .. l BY <3>1, <2>0, <2>10
      <4> QED BY <4>1, <2>10
    <3> QED BY <3>1, <2>2 DEF PlainPath
  <2>13. Laid(d, fs, 1) BY <2>3, <2>9, <2>12 DEF Laid
  <2>14. Opened(d, fs) BY <2>1, <2>2, <2>3 DEF Opened
  <2>15. ~Over(p) BY <2>0, <2>1, <2>6, <1>1 DEF Over, l
  <2>16. EndsPlain(p, "IDLE")
    <3>1. Current(p) = f BY <2>3, <2>6 DEF Current
    <3>2. d[l] = "x"
      <4>1. l \in 1 .. l /\ l # 1 BY <2>0
      <4> QED BY <4>1, <2>10
    <3> QED BY <3>1, <3>2, <2>2, <2>6 DEF EndsPlain, Ending, NoSlash, NoSlashDot
  <2>17. fs # <<>> BY <2>3, EmptySeq
  <2>18. OnPath(p) BY <2>3, <2>6, <2>7, <2>11, <2>13, <2>14, <2>15, <2>17 DEF OnPath, Safe
  <2>19. HeaderInv(p) BY <2>6, <2>16, <2>18, OnPathInv
  <2> QED BY <2>19 DEF p
<1> QED BY <1>4, <1>5, <1>6 DEF HeaderInit

\* A part of the data has the length asked for.
LEMMA PartLength ==
  ASSUME NEW d \in Seq(Chars), NEW a \in Nat, NEW n \in Nat, a + n <= Len(d)
  PROVE  Len(SubSeq(d, a + 1, a + n)) = n /\ DOMAIN SubSeq(d, a + 1, a + n) = 1 .. n
OBVIOUS

\* The text of a fragment is its part of the data.
LEMMA TextFacts ==
  ASSUME NEW p, Safe(p), NEW n \in 1 .. Len(p.frags)
  PROVE  /\ p.frags[n].off \in Nat /\ p.frags[n].len \in Nat /\ Len(Text(p, n)) = p.frags[n].len
         /\ DOMAIN Text(p, n) = 1 .. p.frags[n].len
         /\ \A i \in 1 .. p.frags[n].len : Text(p, n)[i] = p.data[p.frags[n].off + i]
<1>1. p.data \in Seq(Chars) /\ p.frags \in Seq(Frag) /\ Behind(p.data, p.frags) BY SafeFacts DEF Laid
<1>2. p.frags[n] \in Frag BY <1>1
<1>3. p.frags[n].off \in Nat /\ p.frags[n].len \in Nat BY <1>2 DEF Frag
<1>4. p.frags[n].off + p.frags[n].len <= Len(p.data) BY <1>1 DEF Behind, End
<1> DEFINE a == p.frags[n].off  l == p.frags[n].len
<1> HIDE DEF a, l
<1>5. a \in Nat /\ l \in Nat /\ a + l <= Len(p.data) BY <1>3, <1>4 DEF a, l
<1>6. Text(p, n) = SubSeq(p.data, a + 1, a + l) BY DEF Text, a, l
<1>7. Len(Text(p, n)) = l /\ DOMAIN Text(p, n) = 1 .. l BY <1>1, <1>5, <1>6, PartLength
<1>8. \A i \in 1 .. l : Text(p, n)[i] = p.data[a + i] BY <1>1, <1>5, <1>6, Part
<1> QED BY <1>3, <1>7, <1>8 DEF a, l

\* The place after a place.
LEMMA NextPlace == ASSUME NEW a \in Nat, NEW b \in Nat PROVE a + (b + 1) = (a + b) + 1
OBVIOUS

\* What ends before a fragment begins ends before the data does.
LEMMA BeforeEnd ==
  ASSUME NEW a \in Nat, NEW off \in Nat, NEW len \in Nat, NEW n \in Nat, a < off, off + len <= n
  PROVE  a < n
OBVIOUS

\* The invariant says what the runs check.
LEMMA HeaderSound == HeaderInv(hp) => NoClimb /\ CopyMatchesLength
<1> SUFFICES ASSUME HeaderInv(hp) PROVE NoClimb /\ CopyMatchesLength OBVIOUS
<1>1. Safe(hp) BY DEF HeaderInv
<1>2. hp.data \in Seq(Chars) /\ hp.frags \in Seq(Frag) /\ Get(hp) \in 0 .. Len(hp.frags) /\ Len(hp.data) \in Nat
      /\ Len(hp.frags) \in Nat
  BY <1>1, SafeFacts
<1>3. NoClimb
  <2> SUFFICES ASSUME Get(hp) # 0
               PROVE  \A i \in 1 .. Len(Text(hp, Get(hp))) - 1 :
                        /\ Text(hp, Get(hp))[i] = "/" => Text(hp, Get(hp))[i + 1] # "/"
                        /\ Text(hp, Get(hp))[i] = "/" /\ Text(hp, Get(hp))[i + 1] = "." =>
                               i + 2 > Len(Text(hp, Get(hp))) \/ Text(hp, Get(hp))[i + 2] # "."
    BY DEF NoClimb, Get
  <2> DEFINE f == hp.frags[Get(hp)]  path == Text(hp, Get(hp))
  <2>1. PlainPath(hp.data, f) BY <1>1 DEF Safe, Laid
  <2>2. f.off \in Nat /\ f.len \in Nat /\ Len(path) = f.len /\ \A i \in 1 .. f.len : path[i] = hp.data[f.off + i]
    BY <1>1, <1>2, TextFacts
  <2> HIDE DEF f, path
  <2>3. ASSUME NEW i \in 1 .. Len(path) - 1, path[i] = "/"
        PROVE  path[i + 1] # "/" /\ (path[i + 1] = "." => i + 2 > Len(path) \/ path[i + 2] # ".")
    <3> DEFINE j == f.off + i
    <3>1. i \in 1 .. f.len /\ i + 1 \in 1 .. f.len /\ j \in f.off + 1 .. End(f) - 1 BY <2>2 DEF End
    <3>2. path[i] = hp.data[j] /\ path[i + 1] = hp.data[j + 1]
      <4>1. f.off + (i + 1) = j + 1
        <5>1. f.off \in Nat /\ i \in Nat BY <2>2, <3>1
        <5> QED BY <5>1, NextPlace
      <4> QED BY <4>1, <3>1, <2>2
    <3>3. ASSUME ~(i + 2 > Len(path)) PROVE path[i + 2] = hp.data[j + 2] /\ j + 2 <= End(f)
      <4>2. i + 2 <= f.len /\ i \in Nat BY <3>3, <3>1, <2>2
      <4>3. f.off + (i + 2) = j + 2 /\ j + 2 <= f.off + f.len
        <5>1. f.off \in Nat /\ f.len \in Nat BY <2>2
        <5> HIDE DEF f
        <5> QED BY <5>1, <4>2, SMTT(30)
      <4>1. f.off + (i + 2) = j + 2 /\ i + 2 \in 1 .. f.len /\ j + 2 <= End(f) BY <4>2, <4>3, <2>2 DEF End
      <4> QED BY <4>1, <2>2
    <3> HIDE DEF j
    <3>4. hp.data[j + 1] # "/" /\ (hp.data[j + 1] = "." /\ j + 2 <= End(f) => hp.data[j + 2] \notin {".", "/"})
      BY <3>1, <3>2, <2>1, <2>3 DEF PlainPath
    <3> QED BY <3>2, <3>3, <3>4
  <2> QED BY <2>3 DEF path
<1>4. CopyMatchesLength
  <2> SUFFICES ASSUME hp.ps = "COMPLETE", Len(hp.data) <= DataSize, NEW n \in DOMAIN hp.frags
               PROVE  /\ hp.frags[n].off + hp.frags[n].len < Len(hp.data)
                      /\ hp.data[hp.frags[n].off + hp.frags[n].len + 1] = "nul"
                      /\ "nul" \notin Range(Text(hp, n))
    BY DEF CopyMatchesLength
  <2>1. ~Over(hp) BY <1>2, HeaderAssumption DEF Over
  <2>2. Parted(hp.data, hp.frags) /\ Shut(hp.data, hp.frags) BY <2>1 DEF HeaderInv, Filling, Taking
  <2>3. n \in 1 .. Len(hp.frags) BY <1>2
  <2>4. Clean(hp.data, hp.frags[n]) BY <2>2, <2>3 DEF Parted
  <2>5. Sealed(hp.data, hp.frags[n])
    <3>1. CASE n = Len(hp.frags)
      <4>1. Len(hp.frags) > 0 BY <2>3
      <4> QED BY <4>1, <3>1, <2>2 DEF Shut
    <3>2. CASE n # Len(hp.frags)
      <4> DEFINE m == n + 1
      <4>1. m \in 1 .. Len(hp.frags) /\ n < m BY <3>2, <2>3, <1>2
      <4> HIDE DEF m
      <4>2. End(hp.frags[n]) < hp.frags[m].off /\ hp.data[End(hp.frags[n]) + 1] = "nul" BY <4>1, <2>2, <2>3 DEF Parted
      <4>3. hp.frags[m].off \in Nat /\ hp.frags[m].len \in Nat BY <4>1, <1>1, TextFacts
      <4>4. hp.frags[m].off + hp.frags[m].len <= Len(hp.data) BY <4>1, <1>1 DEF Safe, Laid, Behind, End
      <4>5. End(hp.frags[n]) \in Nat BY <2>3, <1>1, TextFacts DEF End
      <4>6. End(hp.frags[n]) < Len(hp.data) BY <4>2, <4>3, <4>4, <4>5, <1>2, BeforeEnd
      <4> QED BY <4>2, <4>6 DEF Sealed
    <3> QED BY <3>1, <3>2
  <2>6. "nul" \notin Range(Text(hp, n))
    <3> DEFINE f == hp.frags[n]  text == Text(hp, n)
    <3>1. f.off \in Nat /\ f.len \in Nat /\ DOMAIN text = 1 .. f.len /\ \A i \in 1 .. f.len : text[i] = hp.data[f.off + i]
      BY <2>3, <1>1, TextFacts
    <3>2. Clean(hp.data, f) BY <2>4
    <3> HIDE DEF f, text
    <3>3. ASSUME NEW i \in DOMAIN text PROVE text[i] # "nul"
      <4>1. f.off + i \in f.off + 1 .. End(f) /\ text[i] = hp.data[f.off + i] BY <3>1 DEF End
      <4> QED BY <4>1, <3>2 DEF Clean
    <3> QED BY <3>3 DEF Range, text
  <2> QED BY <2>5, <2>6 DEF Sealed, End
<1> QED BY <1>3, <1>4

=============================================================================
