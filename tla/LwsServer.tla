------------------------------ MODULE LwsServer ------------------------------
(***************************************************************************)
(* A serving libwebsocket_context (libwebsockets lib/, built with SSL      *)
(* support and without HTTP2, the default): one thread polls the sockets   *)
(* in the poll table, hands each ready one to libwebsocket_service_fd, and *)
(* once a second looks for expired timeouts; other threads may ask for a   *)
(* writeable callback; the application finally destroys the context.       *)
(*                                                                         *)
(* A request is one token of a peer's stream: "part" of its headers, "bad" *)
(* ones, one the application refuses ("deny"), one for a file on a         *)
(* connection to close ("file") or keep ("fileKA"), a POST on a kept one   *)
(* whose body is the token "body", or an upgrade ("ws") after which "msg"  *)
(* and "close" frames follow.  A read takes all tokens that have arrived.  *)
(* A file is Chunks service buffers long, and as long as Chunks tokens.    *)
(*                                                                         *)
(* Handlers work on a connection's record and return every outcome that    *)
(* the sockets allow; Settle then closes the connection if the outcome     *)
(* asks for it.                                                            *)
(***************************************************************************)
EXTENDS PollTable, FiniteSets, Sequences, Functions

CONSTANTS Conns,      \* connections, each a descriptor
          Listen,     \* the listening socket
          Tokens,     \* [Conns -> Nat], bound: tokens each peer sends
          Await,      \* AWAITING_TIMEOUT in seconds
          Chunks,     \* length of a file in service buffers
          Pieces      \* bound: sends that a truncated rest may take

ASSUME ServerAssumption ==
    /\ Socks = Conns \cup {Listen} /\ Listen \notin Conns
    /\ Tokens \in [Conns -> Nat] /\ Await \in Nat /\ Chunks \in Nat \ {0} /\ Pieces \in Nat \ {0}
    /\ IsFiniteSet(Conns) /\ Cardinality(Conns) + 2 <= MaxFds

VARIABLES
    wsi,      \* struct libwebsocket of each connection, with its socket
    peer,     \* the other end: what it sent and did
    pc,       \* what the service thread does
    n,        \* its index into fds while it scans or destroys
    our,      \* the socket it came to service, Pipe for none
    checked,  \* last_timeout_check_s is the present second
    woken,    \* a byte is in the dummy pipe
    ssl,      \* LWS_SSL_ENABLED(context)
    crashed   \* why the process died, "no" while it lives

thread == <<pc, n, our, checked, woken>>
vars   == <<table, wsi, peer, thread, ssl, crashed>>

States == {"none", "backlog", "HTTP", "ISSUING_FILE", "HEADERS", "BODY", "ESTABLISHED",
           "RETURNED_CLOSE", "FLUSHING", "DEAD"}
Modes  == {"HTTP_SERVING", "ACCEPTED", "WS_SERVING", "SSL_ACK"}
Kinds  == {"part", "bad", "deny", "file", "fileKA", "post", "body", "ws",
           "msg", "close"}

\* libwebsocket_create_new_server_wsi, before a socket is accepted into it.
NewWsi ==
    [state |-> "none", mode |-> "HTTP_SERVING", ah |-> TRUE, keep |-> FALSE,
     fd |-> FALSE, left |-> 0, stored |-> 0, unusable |-> FALSE,
     pending |-> FALSE, limit |-> 0, room |-> TRUE,
     established |-> 0, closed |-> 0, leaked |-> FALSE, suspended |-> FALSE]

Init ==
    /\ TableInit
    /\ wsi = [c \in Conns |-> NewWsi]
    /\ peer = [c \in Conns |-> [sent |-> <<>>, budget |-> Tokens[c], gone |-> FALSE]]
    /\ pc = "create" /\ n = 0 /\ our = Pipe /\ checked = TRUE /\ woken = FALSE
    /\ ssl \in BOOLEAN /\ crashed = "no"

Running == crashed = "no" /\ pc # "gone"
Open(c) == wsi[c].state \notin {"none", "backlog", "DEAD"}

-----------------------------------------------------------------------------
(* Outcomes of a handler: the record it leaves, whether it asked for or    *)
(* gave up POLLOUT, whether it wants the connection closed, or the reason  *)
(* why the process did not survive it.                                     *)

Out(r, o, close) == [r |-> r, pollout |-> o, close |-> close, crash |-> "no"]
Truncated(r)  == r.stored > 0             \* truncated_send_len
Fine(r)       == Out(r, "keep", FALSE)
Later(r)      == Out(r, "arm", FALSE)      \* libwebsocket_callback_on_writable
Bail(r)       == Out(r, "keep", TRUE)
Crash(r, why) == [Fine(r) EXCEPT !.crash = why]

\* libwebsocket_set_timeout; limit counts the seconds that are left.
SetTimeout(r, secs) == [r EXCEPT !.pending = TRUE, !.limit = secs]
NoTimeout(r)        == [r EXCEPT !.pending = FALSE, !.limit = 0]

SentUnarmed(r, gone) ==
    IF gone THEN {Bail([r EXCEPT !.unusable = TRUE])}
    ELSE {Fine(r), Fine([r EXCEPT !.room = FALSE, !.stored = Pieces])}

\* A send of new data: all of it, some, or nothing; what is left is buffered
\* (u.ws.clean_buffer is 0 here).  A dead peer fails it.
Sent(r, gone) ==
    IF gone THEN {Fine(r), Bail([r EXCEPT !.unusable = TRUE])}
    ELSE {Later([r EXCEPT !.room = FALSE, !.stored = Pieces])}
         \cup IF r.room THEN {Fine(r), Fine([r EXCEPT !.room = FALSE])} ELSE {}

\* lws_issue_raw of new data; the assertion fails if something is buffered.
IssueNew(r, gone) ==
    IF Truncated(r) THEN {Crash(r, "assert")} ELSE Sent(r, gone)

\* lws_issue_raw of the truncated rest when the socket is writeable.
IssueRest(r, gone) ==
    LET Left(k) == [r EXCEPT !.stored = k, !.room = FALSE]
    IN  IF gone THEN {Bail([r EXCEPT !.unusable = TRUE])}
        ELSE {Later(Left(k)) : k \in 1 .. r.stored - 1}
             \cup IF r.state = "FLUSHING" THEN {Bail(Left(0))}
                  ELSE {Later([Left(0) EXCEPT !.room = b]) : b \in BOOLEAN}

\* libwebsockets_serve_http_file_fragment: chunks are read and written until
\* the file is done or the pipe is choked, by the send buffer or by a
\* truncated send; on completion only the state is set, the file stays open.
Fragment(r, gone) ==
    LET Choked(k, t) == Later([r EXCEPT !.left = k, !.stored = t, !.room = FALSE,
                                        !.suspended = TRUE])
    IN  IF ~r.room \/ Truncated(r) THEN {Choked(r.left, r.stored)} ELSE
            {Choked(k, 0) : k \in 1 .. r.left}
            \cup {Choked(k, Pieces) : k \in 0 .. r.left - 1}
            \cup {Fine([r EXCEPT !.left = 0, !.state = "HTTP", !.room = b]) : b \in BOOLEAN}
            \cup (IF gone THEN {Bail([r EXCEPT !.unusable = TRUE])} ELSE {})

\* libwebsockets_serve_http_file: headers, then the first fragments.
ServeFile(r, gone) ==
    UNION {IF h.close \/ h.crash # "no" THEN {h}
           ELSE Fragment([h.r EXCEPT !.state = "ISSUING_FILE"], gone) :
             h \in IssueNew([r EXCEPT !.fd = TRUE, !.left = Chunks], gone)}

\* lws_http_transaction_completed: go on or close.
Completed(o) == IF o.r.keep THEN o ELSE [o EXCEPT !.close = TRUE]

HttpCompleteTableless(o) ==
    IF ~o.r.keep THEN [o EXCEPT !.close = TRUE]
    ELSE [o EXCEPT !.r = NoTimeout([o.r EXCEPT !.state = "HTTP", !.mode = "HTTP_SERVING"])]

\* http_complete of libwebsocket_read: back to headers with a new table, the
\* open file forgotten; or close.
HttpComplete(o) ==
    IF ~o.r.keep THEN [o EXCEPT !.close = TRUE]
    ELSE [o EXCEPT !.r = NoTimeout([o.r EXCEPT !.state = "HTTP", !.mode = "HTTP_SERVING",
                                     !.ah = TRUE, !.leaked = @ \/ o.r.fd, !.fd = FALSE])]

\* lws_http_action, with callback_http of test-server.c as the callback.  The
\* table is freed whatever the callback did.  A file that was sent at once
\* leaves its length as the content_length, so a body is awaited after it.
HttpAction(r, tok, gone) ==
    LET asked == SetTimeout([r EXCEPT !.keep = tok = "fileKA"], Await)
        Awaits(o) == IF o.close \/ o.crash # "no" \/ o.r.state = "ISSUING_FILE" \/ ~o.r.keep
                     THEN o ELSE [o EXCEPT !.r.state = "BODY", !.r.left = Chunks]
        Served(o) == Awaits(IF o.r.state = "HTTP" THEN Completed(o) ELSE o)
    IN  CASE tok = "deny" -> {Bail([asked EXCEPT !.ah = FALSE])}
          [] tok = "post" -> {Fine([asked EXCEPT !.ah = FALSE, !.state = "BODY", !.left = 1,
                                                 !.keep = k]) : k \in BOOLEAN}
          [] OTHER        -> {[Served(o) EXCEPT !.r.ah = FALSE] : o \in ServeFile(asked, gone)}

\* upgrade_ws of lws_handshake_server with handshake_0405: the reply is
\* written, ESTABLISHED is called back, then the mode changes and the table
\* is dropped.
Upgrade(r, gone) ==
    {IF o.close \/ o.crash # "no" THEN o
     ELSE [o EXCEPT !.r = [@ EXCEPT !.state = "ESTABLISHED", !.ah = FALSE,
                                    !.mode = "WS_SERVING", !.established = 1]] :
        o \in IssueNew(r, gone)}

\* lws_handshake_server: parse headers until they are complete, then choose.
HandshakeServer(r, tok, gone) ==
    IF ~r.ah THEN {Crash(r, "table")} ELSE
    CASE tok = "part" -> {Fine(r)}
      [] tok = "bad"  -> {Bail(r)}
      [] tok = "ws"   -> Upgrade(NoTimeout(r), gone)
      [] OTHER        -> HttpAction(NoTimeout([r EXCEPT !.mode = "ACCEPTED", !.state = "HTTP",
                                                        !.fd = FALSE]), tok, gone)

\* http_postbody of libwebsocket_read, whose last piece the application
\* answers with a status.
Body(r, gone) ==
    IF r.left > 1 THEN {Fine(SetTimeout([r EXCEPT !.left = @ - 1], Await))}
    ELSE {IF o.close \/ o.crash # "no" THEN o ELSE HttpComplete(o) :
            o \in IssueNew(NoTimeout([r EXCEPT !.left = 0]), gone)}

\* libwebsocket_rx_sm on a whole frame: a message may make the application
\* ask for a writeable callback or refuse, a close is answered and obeyed.
Frame(r, tok, gone) ==
    IF tok = "close"
    THEN {[o EXCEPT !.r.state = "RETURNED_CLOSE", !.close = o.crash = "no"] :
            o \in IssueNew(r, gone)}
    ELSE {Fine(r), Later(r), Bail(r)}

\* libwebsocket_read of one token.
ReadToken(r, tok, gone) ==
    CASE r.state \in {"HTTP", "HEADERS", "ISSUING_FILE"} ->
           HandshakeServer([r EXCEPT !.state = "HEADERS"], tok, gone)
      [] r.state = "BODY"        -> Body(r, gone)
      [] r.state = "ESTABLISHED" -> Frame(r, tok, gone)
      [] OTHER                   -> {Fine(r)}

\* The outcome p of what came after the outcome o.
After(o, p) == [p EXCEPT !.pollout = IF @ = "keep" THEN o.pollout ELSE @]

\* What follows a request whose file is still being issued is dropped with
\* the buffer.
ReadMore(o, tok, gone) ==
    IF o.close \/ o.crash # "no" \/ o.r.state = "ISSUING_FILE" THEN {o}
    ELSE {After(o, p) : p \in ReadToken(o.r, tok, gone)}

\* libwebsocket_read of a buffer, token by token.
Read(r, toks, gone) ==
    LET read[i \in 1 .. Len(toks)] ==
            IF i = 1 THEN ReadToken(r, toks[1], gone)
            ELSE UNION {ReadMore(o, toks[i], gone) : o \in read[i - 1]}
    IN  read[Len(toks)]

-----------------------------------------------------------------------------
(* Closing *)

CallsBackUnflushed(r) == r.state \in {"ESTABLISHED", "RETURNED_CLOSE"}

\* just_kill_connection: CLOSED goes to a connection that was established or
\* whose stored send was flushed; the file is closed only on the way here
\* that http_serving takes, not on the short cuts.
CallsBackClosed(r) == r.state \in {"ESTABLISHED", "RETURNED_CLOSE", "FLUSHING"}

Killed(r) ==
    [NewWsi EXCEPT
        !.state = "DEAD", !.established = r.established, !.suspended = r.suspended,
        !.closed = r.closed + IF CallsBackClosed(r) THEN 1 ELSE 0,
        !.leaked = \/ r.leaked
                   \/ r.fd /\ (r.unusable \/ r.state = "FLUSHING" \/ r.mode # "ACCEPTED")]

\* libwebsocket_close_and_free_session without a status, as every caller has
\* it: with a truncated send the close is put off, else the wsi is killed.
Close(c, r, out) ==
    IF Truncated(r) /\ ~r.unusable
    THEN /\ wsi' = [wsi EXCEPT ![c] = [r EXCEPT !.state = "FLUSHING"]]
         /\ SetPollout(IF r.state = "FLUSHING" THEN out \cup {position[c]} ELSE out)
    ELSE RemoveSock(c, out) /\ wsi' = [wsi EXCEPT ![c] = Killed(r)]

\* Leaves a connection as the outcome o of its handler says.
Settle(c, o) ==
    LET out == CASE o.pollout = "arm"    -> Armed(c)
                 [] o.pollout = "disarm" -> Disarmed(c)
                 [] OTHER                -> pollout
    IN  /\ crashed' = o.crash
        /\ IF o.close THEN Close(c, o.r, out)
           ELSE wsi' = [wsi EXCEPT ![c] = o.r] /\ SetPollout(out)

-----------------------------------------------------------------------------
(* The peers.  What they do while the thread is not at poll() it does not  *)
(* notice before it is back there.                                         *)

Outside == crashed = "no" /\ pc = "poll"

Requests == {"part", "bad", "deny", "file", "fileKA", "post", "ws"}

PeerConnect(c) ==
    /\ Outside /\ wsi[c].state = "none" /\ wsi' = [wsi EXCEPT ![c].state = "backlog"]
    /\ UNCHANGED <<table, peer, thread, ssl, crashed>>

\* Frames follow the reply to an upgrade, a body its POST.
MaySend(c, k) ==
    CASE k \in {"msg", "close"} -> wsi[c].state = "ESTABLISHED"
      [] k = "body" -> wsi[c].state = "BODY" \/ "post" \in Range(peer[c].sent)
      [] OTHER -> /\ wsi[c].state \in {"HTTP", "HEADERS", "ISSUING_FILE", "BODY"}
                  /\ "ws" \notin Range(peer[c].sent)

PeerSend(c, k) ==
    /\ Outside /\ Open(c) /\ wsi[c].mode # "SSL_ACK" /\ ~peer[c].gone /\ peer[c].budget > 0
    /\ MaySend(c, k)
    /\ peer' = [peer EXCEPT ![c].sent = Append(@, k), ![c].budget = @ - 1]
    /\ UNCHANGED <<table, wsi, thread, ssl, crashed>>

PeerRead(c) ==
    /\ Outside /\ Open(c) /\ ~peer[c].gone /\ ~wsi[c].room
    /\ wsi' = [wsi EXCEPT ![c].room = TRUE]
    /\ UNCHANGED <<table, peer, thread, ssl, crashed>>

PeerClose(c) ==
    /\ Outside /\ Open(c) /\ ~peer[c].gone /\ peer' = [peer EXCEPT ![c].gone = TRUE, ![c].budget = 0]
    /\ UNCHANGED <<table, wsi, thread, ssl, crashed>>

\* A second passes, which is long for a round of the service thread.
Tick ==
    /\ Outside /\ checked' = FALSE
    /\ wsi' = [c \in Conns |-> IF wsi[c].pending /\ wsi[c].limit >= 0
                               THEN [wsi[c] EXCEPT !.limit = @ - 1] ELSE wsi[c]]
    /\ UNCHANGED <<table, peer, pc, n, our, woken, ssl, crashed>>

-----------------------------------------------------------------------------
(* The service thread *)

Readable(c)  == peer[c].sent # <<>> \/ peer[c].gone
Writeable(c) == Waiting(c) /\ (wsi[c].room \/ peer[c].gone)

Ready(s) ==
    IF s = Listen THEN \E c \in Conns : wsi[c].state = "backlog"
    ELSE s \in Conns /\ s \in lookup /\ wsi[s].mode # "SSL_ACK"
         /\ (Readable(s) \/ Writeable(s))

\* What reading the socket gives; 0 bytes from a peer that is gone.
Input(c, r) ==
    IF peer[c].sent = <<>> THEN {Bail(r)} ELSE Read(r, peer[c].sent, peer[c].gone)

\* POLLOUT is given up before a writeable callback, which may ask again.
OneShot(o) == [o EXCEPT !.pollout = IF @ = "keep" THEN "disarm" ELSE @]

\* lws_server_socket_service for a connection that is not a websocket: a
\* truncated send comes first, then input, then POLLOUT, which goes to the
\* file being sent or to the application.
ServeHttp(c) ==
    LET r == wsi[c]
        Ended(o) == IF o.r.state = "HTTP" THEN Completed(o) ELSE o
    IN  IF Truncated(r)
        THEN IF Writeable(c) THEN IssueRest(r, peer[c].gone) ELSE {Fine(r)}
        ELSE IF Readable(c) THEN Input(c, r)
        ELSE IF r.state = "ISSUING_FILE"
        THEN {Ended(OneShot(o)) : o \in Fragment(r, peer[c].gone)}
        ELSE {OneShot(Fine(r))}

\* lws_handle_POLLOUT_event and lws_calllback_as_writeable: the application
\* may write, ask to be called again or refuse.
HandlePollout(c) ==
    LET r == wsi[c]
    IN  IF Truncated(r) THEN IssueRest(r, peer[c].gone)
        ELSE {OneShot(o) : o \in {Fine(r), Later(r), Bail(r)} \cup IssueNew(r, peer[c].gone)}

\* libwebsocket_service_fd for a websocket: POLLOUT, and then input.
ServeWs(c) ==
    LET first == IF Writeable(c) /\ wsi[c].state \in {"ESTABLISHED", "FLUSHING"}
                 THEN HandlePollout(c) ELSE {Fine(wsi[c])}
        Then(o) == IF o.close \/ o.crash # "no" \/ ~Readable(c) THEN {o}
                   ELSE {After(o, p) : p \in Input(c, o.r)}
    IN  UNION {Then(o) : o \in first}

\* Input is left in the socket while a truncated send has priority.
Consumes(c) == Readable(c) /\ ~(wsi[c].mode # "WS_SERVING" /\ Truncated(wsi[c]))

ServeConn(c) ==
    /\ \E o \in IF wsi[c].mode = "WS_SERVING" THEN ServeWs(c) ELSE ServeHttp(c) : Settle(c, o)
    /\ peer' = [peer EXCEPT ![c].sent = IF Consumes(c) THEN <<>> ELSE @]
    /\ UNCHANGED ssl

\* lws_server_socket_service_ssl while SSL_accept is going on: done, waiting
\* for the peer, waiting to write, or failed.
SslAccept(r) ==
    {Out(SetTimeout([r EXCEPT !.mode = "HTTP_SERVING"], Await), "disarm", FALSE),
     Out(r, "disarm", FALSE), Later(r), Out(r, "disarm", TRUE)}

\* SERVER_LISTENER: the filter may deny; the new wsi is inserted at once, and
\* with SSL waits for SSL_accept.  service_fd also gets here while it is at
\* another socket (listen service piggybacking).
Accept ==
    \E c \in Conns :
        /\ wsi[c].state = "backlog" /\ UNCHANGED <<peer, ssl, crashed>>
        /\ \/ /\ wsi' = [wsi EXCEPT ![c].state = "DEAD"] /\ UNCHANGED table
           \/ /\ InsertSock(c)
              /\ wsi' = [wsi EXCEPT ![c] = SetTimeout([@ EXCEPT !.state = "HTTP",
                            !.mode = IF ssl THEN "SSL_ACK" ELSE "HTTP_SERVING"], Await)]

ServiceSocket(s) == IF s = Listen THEN Accept ELSE ServeConn(s)

\* lws_plat_service hands a ready socket to service_fd: in a new second the
\* timeouts are looked at first.
Visit(s) ==
    /\ pc = "poll" /\ Ready(s) /\ crashed = "no"
    /\ IF checked THEN ServiceSocket(s) /\ UNCHANGED thread
       ELSE /\ pc' = "scan" /\ n' = 0 /\ our' = s /\ checked' = TRUE
            /\ UNCHANGED <<table, wsi, peer, woken, ssl, crashed>>

PollTimeoutIdle ==
    pc = "poll" /\ ~checked /\ (\A s \in Socks : ~Ready(s)) /\ UNCHANGED vars

\* poll() times out only when nothing is ready; the byte in the dummy pipe
\* counts, and is never read, since the pipe has no wsi.
PollTimeout ==
    /\ pc = "poll" /\ ~checked /\ ~woken /\ crashed = "no"
    /\ \A s \in Socks : ~Ready(s)
    /\ pc' = "scan" /\ n' = 0 /\ our' = Pipe /\ checked' = TRUE
    /\ UNCHANGED <<table, wsi, peer, woken, ssl, crashed>>

Expired(c) == Open(c) /\ wsi[c].pending /\ wsi[c].limit < 0

\* One round of the loop over fds with libwebsocket_service_timeout_check;
\* the entry that fills the slot of a killed one is not looked at.
ScanStep ==
    /\ pc = "scan" /\ n < fds_count
    /\ n' = n + 1
    /\ IF fds[n] \in Conns /\ Expired(fds[n])
       THEN Close(fds[n], wsi[fds[n]], pollout) /\ our' = (IF our = fds[n] THEN Pipe ELSE our)
       ELSE UNCHANGED <<table, wsi, our>>
    /\ UNCHANGED <<peer, pc, checked, woken, ssl, crashed>>

ScanEnd ==
    /\ pc = "scan" /\ n >= fds_count /\ n' = 0
    /\ pc' = (IF our = Pipe THEN "poll" ELSE "serve")
    /\ UNCHANGED <<table, wsi, peer, our, checked, woken, ssl, crashed>>

ServeOur ==
    /\ pc = "serve" /\ ServiceSocket(our) /\ pc' = "poll" /\ our' = Pipe
    /\ UNCHANGED <<n, checked, woken>>

\* TLS records of a connection in SSL_accept arrive, or its socket drains.
SslService(c) ==
    /\ pc = "poll" /\ crashed = "no" /\ Open(c) /\ wsi[c].mode = "SSL_ACK"
    /\ \E o \in SslAccept(wsi[c]) : Settle(c, o)
    /\ UNCHANGED <<peer, thread, ssl>>

OtherThreadLate(c) ==
    /\ pc # "gone" /\ crashed = "no" /\ wsi[c].established = 1 /\ ~Waiting(c)
    /\ SetPollout(Armed(c)) /\ woken' = (woken \/ pc = "poll")
    /\ UNCHANGED <<wsi, peer, pc, n, our, checked, ssl, crashed>>

\* libwebsocket_callback_on_writable from another thread, which wakes poll().
OtherThread(c) ==
    /\ pc # "gone" /\ crashed = "no" /\ wsi[c].state = "ESTABLISHED" /\ ~Waiting(c)
    /\ SetPollout(Armed(c)) /\ woken' = (woken \/ pc = "poll")
    /\ UNCHANGED <<wsi, peer, pc, n, our, checked, ssl, crashed>>

-----------------------------------------------------------------------------
(* The context *)

\* libwebsocket_create_context with lws_context_init_server, which destroys
\* again what it could not complete.
Create ==
    /\ pc = "create" /\ UNCHANGED <<wsi, peer, n, our, checked, woken, ssl, crashed>>
    /\ \/ InsertSock(Listen) /\ pc' = "poll"
       \/ pc' = "destroy" /\ UNCHANGED table

DestroyBegin ==
    /\ pc = "poll" /\ crashed = "no" /\ pc' = "destroy" /\ n' = 0
    /\ UNCHANGED <<table, wsi, peer, our, checked, woken, ssl, crashed>>

DestroyStepStuck ==
    /\ pc = "destroy" /\ n < fds_count /\ UNCHANGED <<peer, pc, our, checked, woken, ssl, crashed>>
    /\ CASE fds[n] \in {Pipe, Listen} -> n' = n + 1 /\ UNCHANGED <<table, wsi>>
         [] OTHER -> UNCHANGED <<table, wsi, n>>

\* libwebsocket_context_destroy: the slot is looked at again after a close.
DestroyStep ==
    /\ pc = "destroy" /\ n < fds_count
    /\ CASE fds[n] = Pipe   -> n' = n + 1 /\ UNCHANGED <<table, wsi>>
         [] fds[n] = Listen -> RemoveSock(Listen, pollout) /\ UNCHANGED <<wsi, n>>
         [] OTHER           -> Close(fds[n], wsi[fds[n]], pollout) /\ UNCHANGED n
    /\ UNCHANGED <<peer, pc, our, checked, woken, ssl, crashed>>

DestroyEnd ==
    /\ pc = "destroy" /\ n >= fds_count /\ pc' = "gone"
    /\ UNCHANGED <<table, wsi, peer, n, our, checked, woken, ssl, crashed>>

-----------------------------------------------------------------------------
Next ==
    \/ Create \/ DestroyBegin \/ DestroyStep \/ DestroyEnd
    \/ PollTimeout \/ ScanStep \/ ScanEnd \/ ServeOur \/ Tick
    \/ \E s \in Socks : Visit(s)
    \/ \E c \in Conns : \/ PeerConnect(c) \/ PeerRead(c) \/ PeerClose(c)
                        \/ SslService(c) \/ OtherThread(c)
                        \/ \E k \in Kinds : PeerSend(c, k)

\* The service loop goes round and visits every slot that is ready, many times
\* a second; time passes; a peer that stays reads.
Fairness ==
    /\ WF_vars(ScanStep) /\ WF_vars(ScanEnd) /\ WF_vars(ServeOur) /\ WF_vars(PollTimeout)
    /\ WF_vars(Tick) /\ WF_vars(\E s \in Socks : Visit(s))
    /\ \A s \in Socks : SF_vars(checked /\ Visit(s))
    /\ WF_vars(DestroyStep) /\ WF_vars(DestroyEnd)
    /\ \A c \in Conns : SF_vars(PeerRead(c))

Spec == Init /\ [][Next]_vars /\ Fairness

-----------------------------------------------------------------------------
(* Properties *)

\* The variables have their types.
TypeOK ==
    /\ TypeOKTable
    /\ wsi \in [Conns -> [state : States, mode : Modes, ah : BOOLEAN, keep : BOOLEAN,
                           fd : BOOLEAN, left : 0 .. Chunks, stored : 0 .. Pieces,
                           unusable : BOOLEAN, pending : BOOLEAN, limit : -1 .. Await,
                           room : BOOLEAN, established : 0 .. 1, closed : 0 .. 2,
                           leaked : BOOLEAN, suspended : BOOLEAN]]
    /\ \A c \in Conns : peer[c].budget \in 0 .. Tokens[c] /\ Len(peer[c].sent) <= Tokens[c]
    /\ pc \in {"create", "poll", "scan", "serve", "destroy", "gone"} /\ n \in 0 .. MaxFds
    /\ our \in Socks \cup {Pipe} /\ crashed \in {"no", "table", "assert"}

\* Whatever is accepted, closed, timed out or destroyed, in whichever order,
\* the three views of the poll table agree, and a connection is polled exactly
\* as long as it is open.
OpenIsPolled ==
    TableConsistent /\ \A c \in Conns : Open(c) <=> c \in lookup

\* The server uses the table as PollTable expects: on no path, however closes,
\* timeouts, piggybacked accepts and other threads mix, is a socket inserted
\* twice, or removed or armed when it is no longer there.
UsesTable == TableSpec

\* A websocket the application was told of is taken back exactly once, on
\* whichever way it dies: a refusal, a close frame, a dead peer, a timeout,
\* the flush of a truncated send or the end of the context.
CallbacksPaired ==
    \A c \in Conns : /\ wsi[c].closed <= 1
                     /\ wsi[c].state = "DEAD" => wsi[c].established <= wsi[c].closed
                     /\ wsi[c].closed = 1 => wsi[c].state = "DEAD"

\* Headers are parsed without a header table only on a connection that once
\* had to suspend a file; requests, bodies and files that are done at once
\* always find their table again.
TableLostOnlyBySuspension ==
    crashed = "table" => \E c \in Conns : wsi[c].suspended

\* Whoever leaves a truncated send behind, in HTTP, in a file or in a
\* websocket, has asked for POLLOUT, and nothing takes the request away
\* before the rest is sent.
StoredSendIsArmed ==
    \A c \in Conns : Truncated(wsi[c]) /\ crashed = "no" => Waiting(c)

\* A truncated send is finished while the peer reads, or given up with the
\* connection, as long as the context is served.
StoredSendLeaves ==
    \A c \in Conns : Truncated(wsi[c]) ~> (~Truncated(wsi[c]) \/ pc = "destroy" \/ ~Running)

\* A connection that is past its time is closed, unless it has a truncated
\* send or the dummy pipe holds a byte that nobody reads.
ExpiredIsClosed ==
    \A c \in Conns : Expired(c) ~> \/ ~Expired(c) \/ Truncated(wsi[c]) \/ woken
                                    \/ pc = "destroy" \/ ~Running

\* Destroying the context ends, unless some connection has a truncated send.
DestroyEnds ==
    pc = "destroy" ~> (pc = "gone" \/ \E c \in Conns : Truncated(wsi[c]))
==============================================================================
