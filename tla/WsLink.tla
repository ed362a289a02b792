-------------------------------- MODULE WsLink --------------------------------
(***************************************************************************)
(* One direction of an established websocket: libwebsocket_write and       *)
(* lws_issue_raw at the sender, a socket that takes and gives any part of  *)
(* what it is asked, and libwebsocket_rx_sm (server) or                    *)
(* libwebsocket_client_rx_sm (client) with rx flow control at the          *)
(* receiver.  The sender also answers pings that come the other way.       *)
(*                                                                         *)
(* The wire carries tokens: the first byte of a frame ("op"), its length   *)
(* ("len"), the masking key of a frame sent by a client ("key"), and       *)
(* payload ("pay").  The application's payload is 1, 2, 3, ..., cut into   *)
(* messages of the lengths Lens; that of a pong is 0.                      *)
(*                                                                         *)
(* The applications do as the comments in output.c ask: the sender resumes *)
(* a partial write with the rest, and gives up on an error; the receiver   *)
(* that stopped rx resumes it later.                                       *)
(***************************************************************************)
EXTENDS Naturals, Sequences, SequencesExt

CONSTANTS Lens,        \* lengths of the messages to send
          Capacity,    \* tokens the socket buffers hold
          RxBuffer,    \* protocol->rx_buffer_size
          MaxPings     \* bound: pings that reach the sender

\* libwebsocket_write refuses a message of length 0.
LinkAssumption == Lens \in Seq(Nat \ {0})

VARIABLES
    masked,    \* the sender is the client
    asks,      \* the sender asks for POLLOUT itself after a partial write
    ext,       \* an extension rewrites the payload: clean_buffer is 0
    tx,        \* the sender's wsi
    wire,      \* tokens in the socket buffers
    rx,        \* the receiver's wsi
    pings,     \* pings still to come
    garbled    \* the frames on the wire no longer fit together

vars == <<masked, ext, asks, tx, wire, rx, pings, garbled>>

LinkInit ==
    /\ masked \in BOOLEAN /\ ext \in BOOLEAN /\ asks \in BOOLEAN
    /\ \E asked \in BOOLEAN :      \* for its first callback
          tx = [msg |-> 1, off |-> 0, told |-> 0, inside |-> FALSE, stored |-> <<>>, ping |-> FALSE,
                pollout |-> asked, closed |-> FALSE]
    /\ rx = [parse |-> "NEW", opcode |-> "DATA", left |-> 0, buf |-> <<>>, got |-> <<>>,
             allow |-> TRUE, change |-> FALSE, cache |-> <<>>, pollin |-> TRUE,
             pollout |-> FALSE, pongs |-> 0]
    /\ wire = <<>> /\ pings = MaxPings /\ garbled = FALSE

Up == ~tx.closed /\ ~garbled

-----------------------------------------------------------------------------
(* The sender *)

Units(t)  == [i \in 1 .. Lens[t.msg] - t.off |-> <<"pay", t.told + i>>]
Header(op, n) == <<<<"op", op>>, <<"len", n>>>> \o (IF masked THEN <<<<"key", n>>>> ELSE <<>>)

\* lws_ssl_capable_write takes any part of what it is offered, or nothing.
Taken(toks) == {k \in 0 .. Len(toks) : k <= Capacity - Len(wire)}

\* The tail of lws_issue_raw for new data of which k tokens were taken: what is
\* not the user's to resume is stored, and POLLOUT asked for.
MustStore(k, clean) == k = 0 \/ ~clean

IssueRaw(t, toks, k, clean) ==
    IF k < Len(toks) /\ MustStore(k, clean)
    THEN [t EXCEPT !.stored = SubSeq(toks, k + 1, Len(toks)), !.pollout = TRUE]
    ELSE t

\* lws_issue_raw for the stored rest, which leaves POLLOUT on.
IssueStored ==
    \E k \in Taken(tx.stored) \ {0} :
        /\ wire' = wire \o SubSeq(tx.stored, 1, k)
        /\ tx' = [tx EXCEPT !.stored = SubSeq(@, k + 1, Len(@))]
        /\ UNCHANGED garbled

\* libwebsocket_write of a pong.  Inside a frame its header is left out; and
\* when only a part is taken, that part is all that is ever sent of it.
WritePong ==
    LET toks == (IF tx.inside THEN <<>> ELSE Header("PONG", 1)) \o <<<<"pay", 0>>>>
    IN  \E k \in Taken(toks) :
            /\ wire' = wire \o SubSeq(toks, 1, k)
            /\ tx' = [IssueRaw(tx, toks, k, TRUE) EXCEPT !.ping = FALSE]
            /\ garbled' = (tx.inside \/ (k < Len(toks) /\ k > 0))

\* The rest of libwebsocket_write for data: a complete (or stored) write ends
\* the frame; a partial one gives the user n - pre, which is negative when the
\* header was cut.  `told' adds up what the user was given.
WriteReturns(t, toks, pre, k) ==
    IF k = Len(toks) \/ t.stored # <<>>
    THEN [t EXCEPT !.inside = FALSE, !.msg = @ + 1, !.off = 0, !.told = @ + (Lens[t.msg] - t.off)]
    ELSE IF k < pre THEN [t EXCEPT !.closed = TRUE, !.inside = TRUE]
    ELSE [t EXCEPT !.inside = TRUE, !.off = @ + (k - pre), !.told = @ + (k - pre)]

\* libwebsocket_write of a message, or of the rest of one; the application
\* asks to be called again for the next message, and, if it does not rely on
\* the library there, for the rest of this one.
WriteData ==
    LET head == IF tx.inside THEN <<>> ELSE Header("DATA", Lens[tx.msg] - tx.off)
        toks == head \o Units(tx)
    IN  \E k \in Taken(toks) :
            LET t == WriteReturns(IssueRaw(tx, toks, k, ~ext), toks, Len(head), k)
            IN  /\ wire' = wire \o SubSeq(toks, 1, k)
                /\ tx' = [t EXCEPT !.pollout = t.stored # <<>>
                                 \/ (t.msg <= Len(Lens) /\ (asks \/ ~t.inside))]
                /\ UNCHANGED garbled

\* lws_handle_POLLOUT_event: a stored rest, then a pong, then the user.
TxPollout ==
    /\ Up /\ tx.pollout /\ Len(wire) < Capacity
    /\ IF tx.stored # <<>>         THEN IssueStored
       ELSE IF tx.ping             THEN WritePong
       ELSE IF tx.msg <= Len(Lens) THEN WriteData
       ELSE tx' = [tx EXCEPT !.pollout = FALSE] /\ UNCHANGED <<wire, garbled>>
    /\ UNCHANGED <<masked, ext, asks, rx, pings>>

TxPingUnarmed ==
    /\ Up /\ pings > 0 /\ ~masked /\ pings' = pings - 1
    /\ tx' = [tx EXCEPT !.ping = TRUE] /\ UNCHANGED <<masked, ext, asks, wire, rx, garbled>>

\* A ping reaches the sender.  The server keeps one to answer when writeable
\* and drops those that come meanwhile (rx_sm).
TxPing ==
    /\ Up /\ pings > 0 /\ ~masked /\ pings' = pings - 1
    /\ tx' = IF tx.ping THEN tx ELSE [tx EXCEPT !.ping = TRUE, !.pollout = TRUE]
    /\ UNCHANGED <<masked, ext, asks, wire, rx, garbled>>

\* The client answers at once, so never with something stored (client_rx_sm).
ClientPing ==
    /\ Up /\ pings > 0 /\ masked /\ tx.stored = <<>> /\ pings' = pings - 1
    /\ WritePong /\ UNCHANGED <<masked, ext, asks, rx>>

TxClose ==
    /\ Up /\ tx' = [tx EXCEPT !.closed = TRUE]
    /\ UNCHANGED <<masked, ext, asks, wire, rx, pings, garbled>>

-----------------------------------------------------------------------------
(* The receiver *)

AppliedDeaf(r) ==
    IF r.change /\ r.cache = <<>> THEN [r EXCEPT !.change = FALSE, !.pollin = r.pollin /\ r.allow]
    ELSE r

\* _libwebsocket_rx_flow_control: a pending change waits for the stored input.
Applied(r) ==
    IF ~r.change THEN r
    ELSE IF r.cache # <<>> THEN [r EXCEPT !.pollout = TRUE]
    ELSE [r EXCEPT !.change = FALSE, !.pollin = r.allow]

\* libwebsocket_rx_flow_control
FlowControl(r, enable) ==
    IF enable = r.allow THEN r ELSE [r EXCEPT !.change = TRUE, !.allow = enable]

SpillKept(r) ==
    IF r.opcode = "PONG" THEN {[r EXCEPT !.pongs = @ + 1]}
    ELSE {[r EXCEPT !.got = @ \o r.buf, !.buf = IF r.left = 0 THEN <<>> ELSE @]}

\* spill: payload goes to the application, which may stop rx there; a pong
\* does not.  Only the server's code applies a change of rx flow at once.
Spill(r) ==
    LET empty == [r EXCEPT !.buf = <<>>]
        given == [empty EXCEPT !.got = @ \o r.buf]
    IN  IF r.opcode = "PONG" THEN {[empty EXCEPT !.pongs = @ + 1]}
        ELSE {IF masked THEN Applied(FlowControl(given, e)) ELSE FlowControl(given, e) :
                e \in {r.allow, FALSE}}

\* The first byte, the length, the key.
RxFirst(r, op) == [r EXCEPT !.opcode = op, !.parse = "LEN"]
RxLen(r, n)    == [r EXCEPT !.left = n, !.parse = IF masked THEN "KEY" ELSE "PAYLOAD"]
RxKey(r)       == [r EXCEPT !.parse = "PAYLOAD"]

\* PAYLOAD_UNTIL_LENGTH_EXHAUSTED: spill at the end of the frame, or when the
\* rx buffer is full.
RxPayload(r, u) ==
    LET s == [r EXCEPT !.buf = Append(@, u), !.left = @ - 1,
                       !.parse = IF r.left = 1 THEN "NEW" ELSE @]
    IN  IF s.left = 0 \/ Len(s.buf) = RxBuffer THEN Spill(s) ELSE {s}

\* libwebsocket_rx_sm and libwebsocket_client_rx_sm on a token.
RxSm(r, tok) ==
    CASE r.parse = "NEW"     -> {RxFirst(r, tok[2])}
      [] r.parse = "LEN"     -> {RxLen(r, tok[2])}
      [] r.parse = "KEY"     -> {RxKey(r)}
      [] OTHER               -> RxPayload(r, tok[2])

\* libwebsocket_interpret_incoming_packet with lws_rxflow_cache: once rx is
\* stopped the rest is kept.  The client has no such cache and goes on.
Keeps(r) == masked /\ ~r.allow

Take(r, tok) == IF Keeps(r) THEN {[r EXCEPT !.cache = Append(@, tok)]} ELSE RxSm(r, tok)

Interpret(r, toks) ==
    LET after[i \in 0 .. Len(toks)] ==
            IF i = 0 THEN {r} ELSE UNION {Take(s, toks[i]) : s \in after[i - 1]}
    IN  after[Len(toks)]

\* Input on the socket.
RxPollin ==
    /\ Up /\ rx.pollin /\ wire # <<>>
    /\ \E j \in 1 .. Len(wire) :
          /\ wire' = SubSeq(wire, j + 1, Len(wire))
          /\ rx' \in Interpret(rx, SubSeq(wire, 1, j))
    /\ UNCHANGED <<masked, ext, asks, tx, pings, garbled>>

\* The drain of the rx flow buffer in libwebsocket_service_fd; when it stalls
\* again the rest stays where it is.
Drained(r) ==
    IF r.cache = <<>> \/ ~r.allow THEN {r}
    ELSE {Applied(s) : s \in Interpret([r EXCEPT !.cache = <<>>], r.cache)}

\* POLLOUT at the receiver: the writeable callback, with its look at the rx
\* flow, and then the drain.
RxPollout ==
    /\ Up /\ rx.pollout
    /\ rx' \in Drained(Applied([rx EXCEPT !.pollout = FALSE]))
    /\ UNCHANGED <<masked, ext, asks, tx, wire, pings, garbled>>

\* The application resumes rx from elsewhere (rx_flow_allow_all_protocol) and
\* asks for a writeable callback.
Resume ==
    /\ Up /\ ~rx.pollin /\ ~rx.pollout
    /\ rx' = [FlowControl(rx, TRUE) EXCEPT !.pollout = TRUE]
    /\ UNCHANGED <<masked, ext, asks, tx, wire, pings, garbled>>

-----------------------------------------------------------------------------
LinkNext ==
    \/ TxPollout \/ TxPing \/ ClientPing \/ TxClose
    \/ RxPollin \/ RxPollout \/ Resume

\* Both ends are serviced, and the receiving application resumes.
LinkFairness == WF_vars(TxPollout) /\ WF_vars(RxPollin) /\ WF_vars(RxPollout) /\ WF_vars(Resume)

LinkSpec == LinkInit /\ [][LinkNext]_vars /\ LinkFairness

-----------------------------------------------------------------------------
(* Properties *)

\* The payload that the sender's application was told is on its way.
Accepted == [i \in 1 .. tx.told |-> i]

Promise == INSTANCE Stream WITH sent <- Accepted, got <- rx.got,
                                broken <- garbled \/ tx.closed

\* Partial writes, stored sends, full rx buffers, stopped and drained input
\* together still are the stream the applications are promised.
ImplementsStream == Promise!Spec

Total == FoldLeft(LAMBDA a, b : a + b, 0, Lens)

\* What a sender that asks for POLLOUT has to send is handed over in the end,
\* whatever was stored or stopped on the way, unless the connection ends.
AllArrives == asks /\ tx.pollout => <>[](~Up \/ Len(rx.got) = Total)

\* A ping is answered, or the connection ends.
PingAnswered == tx.ping ~> (~tx.ping \/ ~Up)
=============================================================================
