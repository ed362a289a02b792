-------------------------------- MODULE Http2 --------------------------------
(***************************************************************************)
(* HTTP/2 on a server connection (lib/http2.c, lib/hpack.c, and what is    *)
(* under LWS_USE_HTTP2 in pollfd.c and service.c): the exchange of         *)
(* settings, streams as child wsis of the connection's own (the network    *)
(* wsi), the sharing out of POLLOUT among them, and header fields.         *)
(*                                                                         *)
(* The client's bytes are items: the preface, frame headers, a settings    *)
(* payload, and of a header block the byte that begins a field, its        *)
(* strings and the block's end.                                            *)
(***************************************************************************)
EXTENDS Integers, Sequences, FiniteSets, SequencesExt

CONSTANTS MaxStreams,   \* MAX_CONCURRENT_STREAMS
          DynSize,      \* entries of a dynamic table (20)
          MaxFrames     \* bound: frames that the client sends

VARIABLES h2,           \* the network wsi, with its children
          rxq,          \* what the client sent and the server has not parsed
          sent          \* what the server sent

h2vars == <<h2, rxq, sent>>

Static == {"t1", "t2"}                  \* tokens of the static table
Item(k, arg) == [k |-> k, arg |-> arg]

H2Init ==
    /\ h2 \in [st : {"preface"}, ssl : BOOLEAN, pps : {"none"}, rx : {TRUE}, req : {FALSE},
               pollout : {FALSE}, init : {FALSE}, kids : {<<>>}, cur : {0}, serving : {FALSE},
               hpack : {"TYPE"}, value : {TRUE}, incr : {FALSE}, dyn : {<<>>}, seen : {0}, cut : {FALSE}, frames : {0}]
    /\ rxq = <<Item("preface", "")>> /\ sent = <<>>

Closed(h) == [h EXCEPT !.st = "closed"]

-----------------------------------------------------------------------------
(* Asking for POLLOUT *)

Arm(h) == IF h.req THEN h ELSE [h EXCEPT !.req = TRUE, !.pollout = TRUE]

\* libwebsocket_callback_on_writable for a child: the network wsi is marked
\* too, and polled if it was not.
OnWritable(h, n) == IF h.kids[n].want THEN h ELSE [Arm(h) EXCEPT !.kids[n].want = TRUE]

PendingUnchoked(h, p) == Arm([h EXCEPT !.pps = p])

\* lws_set_protocol_write_pending: one packet at a time, reading stops until
\* it was sent.
Pending(h, p) == Arm([h EXCEPT !.pps = p, !.rx = FALSE])

-----------------------------------------------------------------------------
(* Streams *)

\* lws_create_server_child_wsi: in front of the others; one short of the limit.
\* A child that is closed stays on the list, since nobody calls
\* lws_remove_server_child_wsi.
Create(h, sid) ==
    IF Len(h.kids) + 1 = MaxStreams THEN Closed(h)
    ELSE [h EXCEPT !.kids = <<[sid |-> sid, want |-> FALSE, live |-> TRUE, index |-> "none"]>> \o @, !.cur = 1]

\* lws_http2_wsi_from_id
WithId(h, sid) == {n \in DOMAIN h.kids : h.kids[n].sid = sid}
StreamOf(h, sid) ==
    IF WithId(h, sid) = {} THEN Create(h, sid)
    ELSE [h EXCEPT !.cur = CHOOSE n \in WithId(h, sid) : \A m \in WithId(h, sid) : n <= m]

\* lws_http_action: the user answers at once, or asks to be called back; that
\* it wants the stream closed is not heeded here.
HttpAction(h, n) == {h, OnWritable(h, n)}

-----------------------------------------------------------------------------
(* Header fields: lws_hpack_interpret, whatever the lengths and the coding   *)
(* of strings.                                                               *)

\* lws_token_from_index: the dynamic table's entries that nobody filled hold
\* what the memory held.
TokenFromIndex(h, i) ==
    CASE i \in Static            -> i
      [] i = "d1" /\ h.dyn # <<>> -> h.dyn[1]
      [] i = "d2" /\ h.dyn # <<>> -> IF Len(h.dyn) > 1 THEN h.dyn[2] ELSE "?"
      [] OTHER                   -> "none"

\* HPKS_TYPE, HPKS_IDX_EXT: whole fields, names by index, and names in full,
\* of which only one to be added to the table forgets the index of the stream's
\* field before.  A size of the table that takes more than a byte is taken for
\* the index of a name.
Named(h, i)  == [h EXCEPT !.kids[h.cur].index = i]
Strings(h, value, incr) == [h EXCEPT !.hpack = "STRING", !.value = value, !.incr = incr]
BeginField(h, f) ==
    CASE f.kind = "indexed" -> IF TokenFromIndex(h, f.i) = "none" THEN Closed(h) ELSE Named(h, f.i)
      [] f.kind = "named"   -> Strings(Named(h, f.i), TRUE, f.incr)
      [] f.kind = "size"    -> Strings(Named(h, "none"), TRUE, FALSE)
      [] f.kind = "literal" -> Strings(IF f.incr THEN Named(h, "none") ELSE h, FALSE, f.incr)

\* lws_hpack_add_dynamic_header, at the end of a value and of a name alike.
Added(h, token) ==
    IF ~h.incr THEN h
    ELSE IF Len(h.dyn) = DynSize THEN Closed(h) ELSE [h EXCEPT !.dyn = Append(@, token)]

\* HPKS_HLEN, HPKS_DATA: a name that is not known leaves the parser waiting
\* for another one.
Str(h, known) ==
    LET token == TokenFromIndex(h, h.kids[h.cur].index)
        added == Added(h, token)
    IN  IF ~h.value THEN [added EXCEPT !.value = known]
        ELSE IF token = "none" THEN Closed(h)
        ELSE [added EXCEPT !.hpack = "TYPE"]

-----------------------------------------------------------------------------
(* lws_http2_parser *)

\* A frame header.  Settings are acknowledged before their payload is read.
FrameHeader(h, i) ==
    CASE i.k = "settings" -> Pending([h EXCEPT !.cur = 0, !.seen = @ + 1], "ack")
      [] i.k = "ack"      -> [h EXCEPT !.cur = 0]
      [] i.k = "headers"  -> [StreamOf(h, i.arg) EXCEPT !.hpack = "TYPE"]

\* The results of an item.  The first frame with a payload initializes the
\* connection; an item where another is expected loses the client, and so does
\* a name that is not known when no method is.  Frames of other types, which
\* change nothing here, are left out.
Parsed(h, i) ==
    CASE i.k = "preface" -> {Pending([h EXCEPT !.st = "pre"], "my")}
      [] i.k \in {"settings", "ack", "headers"} -> {FrameHeader(h, i)}
      [] i.k = "payload" -> {[h EXCEPT !.init = TRUE]}
      [] i.k = "field" -> {IF h.hpack = "TYPE" THEN BeginField(h, i.arg) ELSE Closed(h)}
      [] i.k = "string" -> {IF h.hpack = "STRING" THEN Str(h, i.arg) ELSE Closed(h)}
                           \cup (IF i.arg THEN {} ELSE {Closed(h)})
      [] i.k = "end" -> HttpAction([h EXCEPT !.init = TRUE], h.cur)

\* libwebsocket_read looks before each byte whether it may go on.
Receive ==
    /\ h2.st # "closed" /\ ~h2.serving /\ h2.rx /\ rxq # <<>>
    /\ h2' \in Parsed(h2, Head(rxq)) /\ rxq' = Tail(rxq) /\ UNCHANGED sent

-----------------------------------------------------------------------------
(* lws_handle_POLLOUT_event *)

\* lws_http2_do_pps_send: the acknowledgement ends the preface, and without
\* TLS the request that came with the upgrade is served as stream 1.
AfterAck(h) ==
    LET est == [h EXCEPT !.st = "est"]
    IN  IF h.st # "pre" THEN {h}
        ELSE IF h.ssl THEN {est}
        ELSE LET c == Create(est, 1) IN IF c.st = "closed" THEN {c} ELSE HttpAction(c, 1)

PolloutPps ==
    /\ h2.st \in {"pre", "est"} /\ ~h2.serving /\ h2.pollout /\ h2.pps # "none"
    /\ sent' = Append(sent, h2.pps) /\ UNCHANGED rxq
    /\ \E h \in (IF h2.pps = "ack" THEN AfterAck(h2) ELSE {h2}) :
          h2' = [h EXCEPT !.pps = "none", !.rx = TRUE]

NotifyUnmarked(h) == [h EXCEPT !.pollout = FALSE]
\* notify_action: one shot, and nobody is marked at the network wsi.
Notify(h) == [h EXCEPT !.pollout = FALSE, !.req = FALSE]

Wanting(h) == {n \in DOMAIN h.kids : h.kids[n].want}

PolloutNotify ==
    /\ h2.st \in {"pre", "est"} /\ ~h2.serving /\ h2.pollout /\ h2.pps = "none"
    /\ h2' = [Notify(h2) EXCEPT !.serving = h2.init, !.cut = @ \/ (~h2.init /\ Wanting(h2) # {})]
    /\ UNCHANGED <<rxq, sent>>

\* The loop over the children, always from the first; the callback may ask
\* again, or have its stream closed; the socket may be choked after it.
Serve ==
    /\ h2.serving /\ UNCHANGED <<rxq, sent>>
    /\ IF Wanting(h2) = {} THEN h2' = [h2 EXCEPT !.serving = FALSE]
       ELSE LET n == CHOOSE n \in Wanting(h2) : \A m \in Wanting(h2) : n <= m
                called == [h2 EXCEPT !.kids[n].want = FALSE]
            IN  \E h \in {called, OnWritable(called, n), [called EXCEPT !.kids[n].live = FALSE]},
                   choked \in BOOLEAN :
                   h2' = [h EXCEPT !.serving = ~choked,
                                   !.cut = @ \/ (choked /\ ~h.pollout /\ Wanting(h) # {})]

\* A stream's user asks for a callback, from outside.
Ask ==
    /\ h2.st \in {"pre", "est"} /\ ~h2.serving
    /\ \E n \in DOMAIN h2.kids : h2.kids[n].live /\ ~h2.kids[n].want /\ h2' = OnWritable(h2, n)
    /\ UNCHANGED <<rxq, sent>>

-----------------------------------------------------------------------------
(* The client *)

Field(kind, i, incr) == Item("field", [kind |-> kind, i |-> i, incr |-> incr])
Fields ==
    {<<Field("indexed", "t1", FALSE)>>, <<Field("indexed", "d1", FALSE)>>,
     <<Field("named", "t2", TRUE), Item("string", TRUE)>>,
     <<Field("named", "d2", FALSE), Item("string", TRUE)>>,
     <<Field("size", "none", FALSE), Item("string", TRUE)>>}
    \cup {<<Field("literal", "none", ~known), Item("string", known), Item("string", TRUE)>>
             : known \in BOOLEAN}

Client ==
    /\ h2.st # "closed" /\ ~h2.serving /\ h2.frames < MaxFrames
    /\ \/ \E f \in {<<Item("settings", "")>>, <<Item("settings", ""), Item("payload", "")>>, <<Item("ack", "")>>} :
              rxq' = rxq \o f
       \/ \E sid \in {1, 3}, x \in Fields : rxq' = rxq \o (<<Item("headers", sid)>> \o x \o <<Item("end", "")>>)
    /\ h2' = [h2 EXCEPT !.frames = @ + 1] /\ UNCHANGED sent

H2Next == Receive \/ PolloutPps \/ PolloutNotify \/ Serve \/ Ask \/ Client

-----------------------------------------------------------------------------
(* Properties *)

Count(what) == Cardinality({i \in DOMAIN sent : sent[i] = what})
Waits(what) == IF h2.pps = what THEN 1 ELSE 0

\* However the client's frames crowd together, the server's settings are the
\* first thing it sends, and every settings frame that it takes is
\* acknowledged once: what waits to be sent is never overwritten.
SettingsInOrder ==
    /\ sent # <<>> => sent[1] = "my"
    /\ h2.st \in {"pre", "est"} =>
           Count("my") + Waits("my") = 1 /\ Count("ack") + Waits("ack") = h2.seen

\* A stream that waits to be called back has POLLOUT asked for at the network
\* wsi, unless the loop over the streams was once left before its turn,
\* because the socket was choked or no frame with a payload had come.
StreamIsArmed ==
    h2.st # "closed" /\ ~h2.serving /\ Wanting(h2) # {} => h2.pollout \/ h2.cut
=============================================================================
