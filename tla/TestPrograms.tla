---------------------------- MODULE TestPrograms ----------------------------
(***************************************************************************)
(* The other example programs of test-server/, one of which runs: the      *)
(* server of test-echo ("echo") and the loop of its client ("rate"),       *)
(* test-fraggle ("fraggle"), test-ping ("ping") and test-client            *)
(* ("client").  The library calls them back as LwsServer and WsLink have   *)
(* it; in particular POLLOUT stays on after a pong or a stored rest.       *)
(***************************************************************************)
EXTENDS Integers, Sequences, FiniteSets, SequencesExt

CONSTANTS MaxSends,    \* bound: messages, pings or connections of a program
          Second,      \* ticks of the clock in a second
          RxBuffer,    \* pieces in which a frame is handed over
          PingRing     \* PING_RINGBUFFER_SIZE

\* What the buffers and the clock need to work at all.
ASSUME ProgramsAssumption ==
    MaxSends \in Nat /\ Second \in Nat /\ RxBuffer \in Nat \ {0} /\ PingRing \in Nat \ {0}

VARIABLES st           \* the state of the program that runs

-----------------------------------------------------------------------------
(* test-echo, server: one buffer per session *)

EchoInit == [prog |-> "echo", open |-> TRUE, buf |-> 0, rcvd |-> 0, last |-> 0, asked |-> FALSE,
             pollout |-> FALSE, ping |-> FALSE, stored |-> FALSE, repeated |-> FALSE]

EchoReceive ==
    /\ st.prog = "echo" /\ st.open /\ st.rcvd < MaxSends
    /\ \/ st' = [st EXCEPT !.rcvd = @ + 1, !.buf = st.rcvd + 1, !.pollout = TRUE, !.asked = TRUE]
       \/ st' = [st EXCEPT !.open = FALSE]       \* longer than MAX_ECHO_PAYLOAD

EchoPing ==
    /\ st.prog = "echo" /\ st.open /\ ~st.ping /\ st.rcvd < MaxSends
    /\ st' = [st EXCEPT !.ping = TRUE, !.pollout = TRUE, !.rcvd = @ + 1]

EchoSentTwice(s) == [s EXCEPT !.pollout = TRUE, !.last = s.buf, !.asked = s.buf # s.last,
                              !.repeated = @ \/ (s.asked /\ s.buf = s.last)]

\* SERVER_WRITEABLE sends what the buffer holds.
EchoSent(s) == [s EXCEPT !.pollout = FALSE, !.asked = FALSE, !.last = s.buf,
                         !.repeated = @ \/ (s.asked /\ s.buf = s.last)]

EchoPollout ==
    /\ st.prog = "echo" /\ st.open /\ st.pollout
    /\ CASE st.stored -> st' = [st EXCEPT !.stored = FALSE]
         [] ~st.stored /\ st.ping -> st' = [st EXCEPT !.ping = FALSE]
         [] OTHER     -> \/ st' = EchoSent(st)
                         \/ st' = [EchoSent(st) EXCEPT !.stored = TRUE, !.pollout = TRUE]
                         \/ st' = [st EXCEPT !.open = FALSE]

-----------------------------------------------------------------------------
(* test-echo, client: the main loop compares the microseconds of the       *)
(* present second with those of the last round.                            *)

RateInit == [prog |-> "rate", us |-> 0, oldus |-> 0, since |-> 0, rate |-> 0]

\* As unsigned numbers.
Due(s) == s.us < s.oldus \/ s.us - s.oldus > s.rate

RateLoop ==
    /\ st.prog = "rate"
    /\ LET now == [st EXCEPT !.us = (@ + 1) % Second, !.since = IF @ > 2 * Second THEN @ ELSE @ + 1]
       IN  st' = IF Due(now) THEN [now EXCEPT !.oldus = now.us, !.since = 0] ELSE now

-----------------------------------------------------------------------------
(* test-fraggle: the server sends a message in fragments and then its sum; *)
(* the client adds up what it is handed, in pieces of RxBuffer at most.    *)

FraggleInit ==
    [prog |-> "fraggle", srv |-> "START", left |-> 0, sum |-> 0, sent |-> 0, long |-> FALSE,
     wire |-> <<>>, cli |-> "START", csum |-> 0, wrong |-> FALSE]

\* A piece that is handed over carries the FIN of its frame.
Pieces(n, fin) ==
    LET whole == (n - 1) \div RxBuffer
    IN  [i \in 1 .. whole + 1 |->
            [kind |-> "data", n |-> IF i <= whole THEN RxBuffer ELSE n - whole * RxBuffer,
             fin |-> fin]]

FraggleWriteable ==
    /\ st.prog = "fraggle" /\ st.wire = <<>> /\ st.sent < MaxSends
    /\ IF st.srv = "SUM"
       THEN st' = [st EXCEPT !.srv = "START", !.wire = <<[kind |-> "sum", n |-> st.sum, fin |-> TRUE]>>]
       ELSE \E packets \in 1 .. 2, chunk \in 1 .. RxBuffer + 1 :
              LET left == (IF st.srv = "START" THEN packets ELSE st.left) - 1
              IN  st' = [st EXCEPT !.sent = @ + 1, !.left = left,
                           !.srv = IF left = 0 THEN "SUM" ELSE "RANDOM",
                           !.sum = (IF st.srv = "START" THEN 0 ELSE @) + chunk,
                           !.long = @ \/ (left = 0 /\ chunk > RxBuffer),
                           !.wire = Pieces(chunk, left = 0)]

FinalIgnored(piece) == TRUE
\* libwebsocket_is_final_fragment
Final(piece) == piece.fin

FraggleReceive ==
    /\ st.prog = "fraggle" /\ st.wire # <<>>
    /\ LET piece == Head(st.wire)
           rest  == [st EXCEPT !.wire = Tail(@)]
       IN  IF st.cli = "SUM"
           THEN st' = [rest EXCEPT !.cli = "START",
                                   !.wrong = @ \/ piece.kind # "sum" \/ piece.n # st.csum]
           ELSE st' = [rest EXCEPT !.csum = (IF st.cli = "START" THEN 0 ELSE @) + piece.n,
                                   !.cli = IF Final(piece) THEN "SUM" ELSE "RANDOM"]

-----------------------------------------------------------------------------
(* test-ping: a ring of the pings sent, searched backwards for each pong;  *)
(* the list of connections closes up when one is closed.                   *)

PingInit ==
    [prog |-> "ping", ring |-> [i \in 0 .. PingRing - 1 |-> 0], head |-> 0, tail |-> 0, index |-> 1,
     missed |-> FALSE, list |-> <<"a", "b", "c">>, gone |-> {}]

Succ(i) == IF i = PingRing - 1 THEN 0 ELSE i + 1

SnipNot(s) == s
\* "snip any re-used tail so we keep to the ring length"
Snip(s) == IF s.tail = s.head THEN [s EXCEPT !.tail = Succ(@)] ELSE s

PingWriteable ==
    /\ st.prog = "ping" /\ st.index <= MaxSends /\ st.list # <<>>
    /\ st' = Snip([st EXCEPT !.ring[st.head] = st.index, !.index = @ + 1, !.head = Succ(@)])

\* The slots looked at: from the head down to the tail.
Searched(s) ==
    LET back == (s.head - s.tail) % PingRing
    IN  {(s.head - i) % PingRing : i \in 0 .. back}

PongReceive ==
    /\ st.prog = "ping" /\ st.list # <<>>
    /\ \E l \in 1 .. st.index - 1 :
          LET found == \E n \in Searched(st) : st.ring[n] = l
          IN  st' = [st EXCEPT !.missed = @ \/ (~found /\ l >= st.index - (PingRing - 1))
                                            \/ (found /\ l < st.index - PingRing)]

PingClosed ==
    /\ st.prog = "ping"
    /\ \E n \in DOMAIN st.list :
          st' = [st EXCEPT !.list = RemoveAt(@, n), !.gone = @ \cup {st.list[n]}]

-----------------------------------------------------------------------------
(* test-client: the mirror connection is opened again whenever wsi_mirror  *)
(* is NULL.  Attempts end as LwsClient has it, some of them in silence.    *)

ClientInit == [prog |-> "client", dumb |-> "trying", mirror |-> "none", wsi_mirror |-> FALSE,
               was_closed |-> FALSE, running |-> TRUE, opened |-> 0]

ClientLoop ==
    /\ st.prog = "client" /\ st.running
    /\ IF st.was_closed THEN st' = [st EXCEPT !.running = FALSE]
       ELSE /\ ~st.wsi_mirror /\ st.opened < MaxSends
            /\ \/ st' = [st EXCEPT !.wsi_mirror = TRUE, !.mirror = "trying", !.opened = @ + 1]
               \/ st' = [st EXCEPT !.running = FALSE]

\* The first protocol's callback also hears of the other's connection errors.
ClientConnectionError(who) ==
    /\ st.prog = "client" /\ st.running /\ st[who] = "trying"
    /\ st' = [st EXCEPT ![who] = "none", !.was_closed = TRUE]

ClientSilentEnd(who) ==
    /\ st.prog = "client" /\ st.running /\ st[who] = "trying" /\ st' = [st EXCEPT ![who] = "silent"]

ClientEstablished(who) ==
    /\ st.prog = "client" /\ st.running /\ st[who] = "trying" /\ st' = [st EXCEPT ![who] = "up"]

MirrorClosedKept(s) == [s EXCEPT !.mirror = "none"]
\* CLOSED of the mirror connection, after its lifetime or whenever.
MirrorClosed(s) == [s EXCEPT !.mirror = "none", !.wsi_mirror = FALSE]

ClientClosed(who) ==
    /\ st.prog = "client" /\ st.running /\ st[who] = "up"
    /\ st' = IF who = "mirror" THEN MirrorClosed(st)
             ELSE [st EXCEPT !.dumb = "none", !.was_closed = TRUE]

-----------------------------------------------------------------------------
ProgramsInit == st \in {EchoInit, FraggleInit, PingInit, ClientInit}
               \cup {[RateInit EXCEPT !.rate = r] : r \in 1 .. Second - 2}

ProgramsNext ==
    \/ EchoReceive \/ EchoPing \/ EchoPollout \/ RateLoop
    \/ FraggleWriteable \/ FraggleReceive \/ PingWriteable \/ PongReceive \/ PingClosed
    \/ ClientLoop
    \/ \E who \in {"dumb", "mirror"} : \/ ClientConnectionError(who) \/ ClientSilentEnd(who)
                                       \/ ClientEstablished(who) \/ ClientClosed(who)

-----------------------------------------------------------------------------
(* Properties *)

\* The echo server, asked for a callback by its own RECEIVE, never sends what
\* it sent before; only POLLOUT that the library left on makes it do so.
\* The echo client's rounds are at most its rate apart, across the second.
EchoOnce ==
    /\ st.prog = "echo" => ~st.repeated
    /\ st.prog = "rate" => st.since <= st.rate + 1

\* The sums that test-fraggle compares agree, unless the last fragment of a
\* message was longer than the rx buffer, whose first piece is taken for the
\* end of the message.
SumsAgree == st.prog = "fraggle" /\ st.wrong => st.long

\* test-ping finds the entry of each of its last PingRing - 1 pings and of
\* none that has been overwritten, wherever the ring has come round to; its
\* list holds the connections that were not closed.
PongMatched ==
    st.prog = "ping" => ~st.missed /\ Range(st.list) = {"a", "b", "c"} \ st.gone

\* test-client never goes on with a mirror pointer to nothing, unless the
\* attempt it points to ended without a callback.
MirrorReopened ==
    st.prog = "client" /\ st.running /\ ~st.was_closed /\ st.wsi_mirror =>
        st.mirror \in {"trying", "up", "silent"}
=============================================================================
