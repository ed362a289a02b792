--------------------------- MODULE LwsServerProofs ---------------------------
(***************************************************************************)
(* The serving context of libwebsockets, for any number of connections,    *)
(* tokens, files and sends cut into any pieces: the poll table loses       *)
(* nobody, connections and table of descriptors keep step, what was        *)
(* announced is taken back once, a stored send is armed, and the table is  *)
(* used as PollTable allows.                                               *)
(***************************************************************************)
EXTENDS LwsServer, FiniteSetTheorems, TLAPS, WellFoundedInduction, NaturalsInduction

-----------------------------------------------------------------------------
(* The poll table alone: it stays consistent for every set of sockets and  *)
(* every size of the table.                                                *)

\* The slots in use are the pipe's and one for each socket.
Counted == IsFiniteSet(lookup) /\ fds_count = Cardinality(lookup) + 1

TableInv == TypeOKTable /\ TableConsistent /\ Counted

-----------------------------------------------------------------------------

\* lws_plat_init_fd_tables leaves a consistent table.
LEMMA TableInitial == TableInit => TableInv
<1> SUFFICES ASSUME TableInit PROVE TableInv OBVIOUS
<1>1. TypeOKTable
  BY TableAssumption DEF TableInit, TypeOKTable, Slots, Blank
<1>2. TableConsistent
  BY TableAssumption DEF TableInit, TableConsistent, Slots, Blank
<1>3. Counted
  BY FS_EmptySet DEF TableInit, Counted
<1> QED BY <1>1, <1>2, <1>3 DEF TableInv

\* insert_wsi_socket_into_fds keeps it so, whether or not the table is full.
LEMMA InsertKeeps ==
    ASSUME NEW s \in Socks, s \notin lookup, TableInv, InsertSock(s)
    PROVE  TableInv'
<1>1. CASE fds_count >= MaxFds
  BY <1>1 DEF InsertSock, table, TableInv, TypeOKTable, TableConsistent, Counted
<1>2. CASE ~(fds_count >= MaxFds)
  <2> USE <1>2
  <2>1. /\ lookup' = lookup \cup {s} /\ position' = [position EXCEPT ![s] = fds_count]
        /\ fds' = [fds EXCEPT ![fds_count] = s] /\ pollout' = pollout \ {fds_count}
        /\ fds_count' = fds_count + 1
    BY DEF InsertSock
  <2>2. fds_count \in Slots /\ fds_count \in 1 .. MaxFds - 1
    BY TableAssumption DEF TableInv, TypeOKTable, Slots
  <2>3. TypeOKTable'
    BY <2>1, <2>2, TableAssumption DEF TableInv, TypeOKTable, Slots
  <2>4. TableConsistent'
    BY <2>1, <2>2, TableAssumption DEF TableInv, TypeOKTable, TableConsistent, Slots
  <2>5. Counted'
    <3>1. IsFiniteSet(lookup \cup {s}) /\ Cardinality(lookup \cup {s}) = Cardinality(lookup) + 1
      BY FS_AddElement DEF TableInv, Counted
    <3>2. Cardinality(lookup) \in Nat
      BY FS_CardinalityType DEF TableInv, Counted
    <3> QED BY <2>1, <3>1, <3>2 DEF TableInv, Counted
  <2> QED BY <2>3, <2>4, <2>5 DEF TableInv
<1> QED BY <1>1, <1>2

\* remove_wsi_socket_from_fds keeps it so: the entry moved into the hole finds
\* itself there.
LEMMA RemoveKeeps ==
    ASSUME NEW s \in Socks, s \in lookup, TableInv, NEW out \in SUBSET Slots, RemoveSock(s, out)
    PROVE  TableInv'
<1> DEFINE m == position[s]
           last == fds_count - 1
           end == fds[last]
<1>1. /\ fds_count' = last
      /\ fds' = [fds EXCEPT ![m] = end, ![last] = Blank]
      /\ pollout' = Moved(out, m, last)
      /\ position' = [position EXCEPT ![end] = m, ![s] = -1]
      /\ lookup' = lookup \ {s}
  BY DEF RemoveSock
<1>2. fds_count \in Nat /\ fds_count <= MaxFds /\ MaxFds \in Nat
  BY TableAssumption DEF TableInv, TypeOKTable
<1>3. m \in 1 .. last /\ fds[m] = s /\ m \in Slots
  BY <1>2 DEF TableInv, TableConsistent, Slots
<1>4. last \in 1 .. fds_count - 1 /\ last \in Slots /\ 0 \in Slots
  BY <1>2, <1>3 DEF Slots
<1>5. end \in lookup /\ position[end] = last /\ end \in Socks
  BY <1>4 DEF TableInv, TableConsistent, TypeOKTable
<1>6. fds \in [Slots -> Socks \cup {Pipe}] /\ position \in [Socks -> Slots \cup {-1}] /\ lookup \subseteq Socks
  BY DEF TableInv, TypeOKTable
<1>7. TypeOKTable'
  <2>1. pollout' \in SUBSET Slots
    BY <1>1, <1>3 DEF Moved
  <2>2. fds' \in [Slots -> Socks \cup {Pipe}]
    BY <1>1, <1>5, <1>6 DEF Blank
  <2>3. position' \in [Socks -> Slots \cup {-1}]
    BY <1>1, <1>3, <1>6
  <2>4. fds_count' \in 1 .. MaxFds
    BY <1>1, <1>2, <1>3
  <2> QED BY <1>1, <1>6, <2>1, <2>2, <2>3, <2>4 DEF TypeOKTable
<1>8. TableConsistent'
  <2>1. fds'[0] = Pipe
    BY <1>1, <1>3, <1>4, <1>6 DEF TableInv, TableConsistent
  <2>2. ASSUME NEW t \in lookup' PROVE position'[t] \in 1 .. fds_count' - 1 /\ fds'[position'[t]] = t
    <3>1. t \in lookup /\ t # s /\ t \in Socks
      BY <1>1, <1>6
    <3>2. position[t] \in 1 .. last /\ fds[position[t]] = t /\ position[t] # m
      BY <1>3, <3>1 DEF TableInv, TableConsistent
    <3>3. CASE t = end
      <4>1. m # last
        BY <1>3, <3>1, <3>3
      <4>2. position'[t] = m
        BY <1>1, <1>6, <3>1, <3>3
      <4> QED BY <1>1, <1>2, <1>3, <1>4, <1>6, <3>3, <4>1, <4>2
    <3>4. CASE t # end
      <4>1. position[t] # last
        BY <3>2, <3>4
      <4>2. position'[t] = position[t]
        BY <1>1, <1>6, <3>1, <3>4
      <4>3. fds'[position[t]] = fds[position[t]]
        BY <1>1, <1>2, <1>6, <3>2, <4>1 DEF Slots
      <4> QED BY <1>1, <1>2, <3>2, <4>1, <4>2, <4>3
    <3> QED BY <3>3, <3>4
  <2>3. ASSUME NEW i \in 1 .. fds_count' - 1 PROVE fds'[i] \in lookup' /\ position'[fds'[i]] = i
    <3>1. i \in 1 .. last - 1 /\ i \in Slots /\ i # last /\ i \in 1 .. fds_count - 1
      BY <1>1, <1>2, <1>4 DEF Slots
    <3>2. CASE i = m
      <4>1. fds'[i] = end
        BY <1>1, <1>6, <3>1, <3>2
      <4>2. end # s
        BY <1>3, <1>5, <3>1, <3>2
      <4> QED BY <1>1, <1>5, <1>6, <3>2, <4>1, <4>2
    <3>3. CASE i # m
      <4>1. fds'[i] = fds[i]
        BY <1>1, <1>6, <3>1, <3>3
      <4>2. fds[i] \in lookup /\ position[fds[i]] = i
        BY <3>1 DEF TableInv, TableConsistent
      <4>3. fds[i] # s /\ fds[i] # end
        BY <1>3, <1>5, <3>1, <3>3, <4>2
      <4> QED BY <1>1, <1>6, <4>1, <4>2, <4>3
    <3> QED BY <3>2, <3>3
  <2> QED BY <2>1, <2>2, <2>3 DEF TableConsistent
<1>9. Counted'
  <2>1. IsFiniteSet(lookup \ {s}) /\ Cardinality(lookup \ {s}) = Cardinality(lookup) - 1
    BY FS_RemoveElement DEF TableInv, Counted
  <2>2. Cardinality(lookup) \in Nat
    BY FS_CardinalityType DEF TableInv, Counted
  <2> QED BY <1>1, <2>1, <2>2 DEF TableInv, Counted
<1> QED BY <1>7, <1>8, <1>9 DEF TableInv

\* lws_change_pollfd touches events only, those of a slot in use.
LEMMA PolloutKeeps ==
    ASSUME NEW s \in Socks, s \in lookup, TableInv,
           SetPollout(Armed(s)) \/ SetPollout(Disarmed(s))
    PROVE  TableInv'
<1>1. position[s] \in Slots
  BY TableAssumption DEF TableInv, TableConsistent, TypeOKTable, Slots
<1>2. pollout' \in SUBSET Slots
  BY <1>1 DEF SetPollout, Armed, Disarmed, TableInv, TypeOKTable
<1> QED BY <1>2 DEF SetPollout, TableInv, TypeOKTable, TableConsistent, Counted

-----------------------------------------------------------------------------

\* However sockets are inserted, removed and armed, for any number of them and
\* any size of the table, fds, lws_lookup and position_in_fds_table agree.
THEOREM TableStaysConsistent == TableSpec => [](TypeOKTable /\ TableConsistent)
<1>1. TableInit => TableInv
  BY TableInitial
<1>2. TableInv /\ [TableNext]_table => TableInv'
  <2> SUFFICES ASSUME TableInv, [TableNext]_table PROVE TableInv' OBVIOUS
  <2>1. CASE UNCHANGED table
    BY <2>1 DEF table, TableInv, TypeOKTable, TableConsistent, Counted
  <2>2. CASE TableNext
    BY <2>2, InsertKeeps, RemoveKeeps, PolloutKeeps DEF TableNext
  <2> QED BY <2>1, <2>2
<1>3. TableInv => TypeOKTable /\ TableConsistent
  BY DEF TableInv
<1> QED BY <1>1, <1>2, <1>3, PTL DEF TableSpec

\* The step from a consistent table with a slot for the pipe and for every
\* socket: no insertion is refused.
LEMMA InsertTakes ==
    ASSUME TableInv, IsFiniteSet(Socks), Cardinality(Socks) + 1 <= MaxFds,
           NEW s \in Socks, s \notin lookup, InsertSock(s)
    PROVE  s \in lookup'
<1>1. lookup \subseteq Socks \ {s} /\ IsFiniteSet(Socks \ {s})
  BY FS_RemoveElement DEF TableInv, TypeOKTable
<1>2. Cardinality(Socks \ {s}) = Cardinality(Socks) - 1
  BY FS_RemoveElement
<1>3. Cardinality(lookup) <= Cardinality(Socks \ {s})
  BY <1>1, FS_Subset
<1>4. /\ Cardinality(lookup) \in Nat /\ Cardinality(Socks) \in Nat /\ MaxFds \in Nat
      /\ fds_count = Cardinality(lookup) + 1
  BY FS_CardinalityType, TableAssumption DEF TableInv, Counted
<1>5. fds_count < MaxFds
  BY <1>2, <1>3, <1>4
<1> QED BY <1>4, <1>5 DEF InsertSock

\* An insertion that is not lost: what insert_wsi_socket_into_fds was given is
\* polled afterwards.
Taken == \A s \in Socks : s \notin lookup /\ InsertSock(s) => s \in lookup'

\* With a slot for the pipe and one for every socket, no step of any behaviour
\* loses a socket that insert_wsi_socket_into_fds was given.
THEOREM NothingRefused ==
    ASSUME IsFiniteSet(Socks), Cardinality(Socks) + 1 <= MaxFds
    PROVE  TableSpec => [][Taken]_table
<1>1. TableInit => TableInv
  BY TableInitial
<1>2. TableInv /\ [TableNext]_table => TableInv'
  <2> SUFFICES ASSUME TableInv, [TableNext]_table PROVE TableInv' OBVIOUS
  <2>1. CASE UNCHANGED table
    BY <2>1 DEF table, TableInv, TypeOKTable, TableConsistent, Counted
  <2>2. CASE TableNext
    BY <2>2, InsertKeeps, RemoveKeeps, PolloutKeeps DEF TableNext
  <2> QED BY <2>1, <2>2
<1>3. TableInv /\ [TableNext]_table => [Taken]_table
  BY InsertTakes DEF Taken
<1> QED BY <1>1, <1>2, <1>3, PTL DEF TableSpec

-----------------------------------------------------------------------------
(* The inductive invariant.                                                 *)

\* struct libwebsocket and what a handler returns.
Wsi == [state : States, mode : Modes, ah : BOOLEAN, keep : BOOLEAN,
        fd : BOOLEAN, left : 0 .. Chunks, stored : 0 .. Pieces,
        unusable : BOOLEAN, pending : BOOLEAN, limit : -1 .. Await,
        room : BOOLEAN, established : 0 .. 1, closed : 0 .. 1,
        leaked : BOOLEAN, suspended : BOOLEAN]

Outcome == [r : Wsi, pollout : {"keep", "arm", "disarm"}, close : BOOLEAN,
            crash : {"no", "table", "assert"}]

\* A peer: what it sent, what it may still send, whether it has gone.
Peer == [sent : Seq(Kinds), budget : Nat, gone : BOOLEAN]

\* States of a connection in the table; those in which headers are parsed; and
\* those of a websocket.
Live    == States \ {"none", "backlog", "DEAD"}
Parsing == {"HTTP", "HEADERS", "ISSUING_FILE"}
Upgraded == {"ESTABLISHED", "RETURNED_CLOSE", "FLUSHING"}

\* The types of what peers and the service thread have.
PeersTyped ==
    /\ peer \in [Conns -> Peer]
    /\ \A c \in Conns : peer[c].budget + Len(peer[c].sent) <= Tokens[c]

ThreadTyped ==
    /\ pc \in {"create", "poll", "scan", "serve", "destroy", "gone"} /\ n \in 0 .. MaxFds
    /\ our \in Socks \cup {Pipe}

\* What a handler may rely on: the application was told of a websocket only
\* in a state from which closing it tells it again, and headers are parsed
\* with a table, unless a file was suspended.
Serviceable(r) ==
    /\ r \in Wsi /\ r.state \in Live /\ r.closed = 0 /\ r.mode # "SSL_ACK"
    /\ r.established = 1 => r.state \in Upgraded
    /\ r.state \in Parsing => r.ah \/ r.suspended

\* A connection before, during and after its time in the table; why says why
\* the process died, if it did.
Kept(r, why) ==
    CASE r.state \in {"none", "backlog"} ->
           r.established = 0 /\ r.closed = 0 /\ r.stored = 0 /\ r.ah
      [] r.state = "DEAD" -> r.stored = 0 /\ r.established <= r.closed
      [] OTHER -> /\ r.closed = 0 /\ (r.established = 1 => r.state \in Upgraded)
                  /\ r.mode = "SSL_ACK" => r.stored = 0
                  /\ why = "no" /\ r.state \in Parsing => r.ah \/ r.suspended

\* The table holds the open connections, and before the context is there not
\* the listening socket either.
Polled    == \A c \in Conns : Open(c) <=> c \in lookup
Unlistened == pc = "create" => Listen \notin lookup

\* A socket that service_fd came for stays open and past SSL_accept while the
\* timeouts are looked at.
Served ==
    /\ pc \in {"scan", "serve"} /\ our \in Conns => our \in lookup /\ wsi[our].mode # "SSL_ACK"
    /\ pc = "serve" => our # Pipe

\* The process died at a socket, with the thread in its pass.
Died == crashed # "no" => pc = "poll"

\* What the connections and the table have to do with one another.
ConnsInv ==
    /\ TableInv /\ wsi \in [Conns -> Wsi] /\ crashed \in {"no", "table", "assert"}
    /\ Polled /\ StoredSendIsArmed /\ TableLostOnlyBySuspension
    /\ \A c \in Conns : Kept(wsi[c], crashed)

\* The inductive invariant of the server.
ServerInv == ConnsInv /\ PeersTyped /\ ThreadTyped /\ Unlistened /\ Served /\ Died

-----------------------------------------------------------------------------
(* Handlers.                                                                *)

\* What sending leaves of a connection as it was.
SameButSending(r, s) ==
    /\ s.state = r.state /\ s.mode = r.mode /\ s.ah = r.ah /\ s.keep = r.keep /\ s.left = r.left
    /\ s.established = r.established /\ s.closed = r.closed /\ s.suspended = r.suspended

\* What is stored after a handler has POLLOUT asked for, or had it before.
Asked(r, o) ==
    /\ o.r.stored > 0 => o.pollout = "arm" \/ (o.pollout = "keep" /\ r.stored > 0)
    /\ o.pollout = "disarm" => o.r.stored = 0

\* What a handler that was given r may leave behind.
Proper(r, o) ==
    /\ o \in Outcome /\ o.r.state \in Live /\ o.r.closed = 0
    /\ o.r.established = 1 => o.r.state \in Upgraded
    /\ r.mode # "SSL_ACK" => o.r.mode # "SSL_ACK"
    /\ o.r.mode = "SSL_ACK" => o.r.stored = 0
    /\ ~o.close /\ o.crash = "no" /\ o.r.state \in Parsing => o.r.ah \/ o.r.suspended
    /\ o.crash = "table" => o.r.suspended
    /\ Asked(r, o)

\* lws_issue_raw of new data.
LEMMA IssueNewOutcome ==
    ASSUME NEW r \in Wsi, NEW gone \in BOOLEAN, NEW o \in IssueNew(r, gone)
    PROVE  /\ o \in Outcome /\ SameButSending(r, o.r) /\ Asked(r, o)
           /\ o.crash # "table"
<1> USE ServerAssumption
<1>1. Pieces \in 0 .. Pieces
  OBVIOUS
<1>2. CASE o = Fine(r)
  BY <1>2 DEF Wsi, Outcome, SameButSending, Asked, Fine, Out
<1>3. CASE o = Bail([r EXCEPT !.unusable = TRUE])
  BY <1>3 DEF Wsi, Outcome, SameButSending, Asked, Bail, Out
<1>4. CASE o = Later([r EXCEPT !.room = FALSE, !.stored = Pieces])
  BY <1>1, <1>4 DEF Wsi, Outcome, SameButSending, Asked, Later, Out
<1>5. CASE o = Fine([r EXCEPT !.room = FALSE])
  BY <1>5 DEF Wsi, Outcome, SameButSending, Asked, Fine, Out
<1>6. CASE o = Crash(r, "assert")
  BY <1>6, ZenonT(20) DEF Wsi, Outcome, SameButSending, Asked, Fine, Out, Crash
<1> QED BY <1>2, <1>3, <1>4, <1>5, <1>6 DEF IssueNew, Sent

\* lws_issue_raw of a truncated rest.
LEMMA IssueRestOutcome ==
    ASSUME NEW r \in Wsi, Truncated(r), NEW gone \in BOOLEAN, NEW o \in IssueRest(r, gone)
    PROVE  /\ o \in Outcome /\ SameButSending(r, o.r) /\ Asked(r, o) /\ o.crash = "no"
<1> USE ServerAssumption
<1>0. 0 \in 0 .. Pieces
  OBVIOUS
<1>1. CASE o = Bail([r EXCEPT !.unusable = TRUE])
  BY <1>1 DEF Wsi, Outcome, SameButSending, Asked, Bail, Out, Truncated
<1>2. ASSUME NEW k \in 1 .. r.stored - 1, o = Later([r EXCEPT !.stored = k, !.room = FALSE])
      PROVE  /\ o \in Outcome /\ SameButSending(r, o.r) /\ Asked(r, o) /\ o.crash = "no"
  <2>1. k \in 0 .. Pieces
    BY DEF Wsi
  <2> QED BY <1>2, <2>1 DEF Wsi, Outcome, SameButSending, Asked, Later, Out
<1>3. CASE o = Bail([r EXCEPT !.stored = 0, !.room = FALSE])
  <2> DEFINE s == [r EXCEPT !.stored = 0, !.room = FALSE]
  <2>1. s \in Wsi /\ SameButSending(r, s) /\ s.stored = 0
    BY <1>0 DEF Wsi, SameButSending
  <2>2. o = [r |-> s, pollout |-> "keep", close |-> TRUE, crash |-> "no"]
    BY <1>3 DEF Bail, Out
  <2> HIDE DEF s
  <2> QED BY <2>1, <2>2 DEF Outcome, Asked
<1>4. ASSUME NEW b \in BOOLEAN, o = Later([[r EXCEPT !.stored = 0, !.room = FALSE] EXCEPT !.room = b])
      PROVE  /\ o \in Outcome /\ SameButSending(r, o.r) /\ Asked(r, o) /\ o.crash = "no"
  <2>1. o = Later([r EXCEPT !.stored = 0, !.room = b])
    BY <1>4 DEF Wsi
  <2> QED BY <1>0, <2>1 DEF Wsi, Outcome, SameButSending, Asked, Later, Out
<1> QED BY <1>1, <1>2, <1>3, <1>4 DEF IssueRest

\* A fragment of a file leaves the connection waiting with the file suspended,
\* done with it, or to be closed.
LEMMA FragmentOutcome ==
    ASSUME NEW r \in Wsi, r.state = "ISSUING_FILE", NEW gone \in BOOLEAN, NEW o \in Fragment(r, gone)
    PROVE  /\ o \in Outcome /\ o.crash = "no"
           /\ o.r.mode = r.mode /\ o.r.ah = r.ah /\ o.r.keep = r.keep
           /\ o.r.established = r.established /\ o.r.closed = r.closed
           /\ \/ o.close /\ o.r.state = "ISSUING_FILE"
              \/ o.r.state = "ISSUING_FILE" /\ o.r.suspended
              \/ o.r.state = "HTTP" /\ o.r.suspended = r.suspended
           /\ o.r.stored > 0 => o.pollout = "arm"
           /\ o.pollout # "disarm"
<1> USE ServerAssumption
<1> DEFINE Goal == /\ o \in Outcome /\ o.crash = "no"
                   /\ o.r.mode = r.mode /\ o.r.ah = r.ah /\ o.r.keep = r.keep
                   /\ o.r.established = r.established /\ o.r.closed = r.closed
                   /\ \/ o.close /\ o.r.state = "ISSUING_FILE"
                      \/ o.r.state = "ISSUING_FILE" /\ o.r.suspended
                      \/ o.r.state = "HTTP" /\ o.r.suspended = r.suspended
                   /\ o.r.stored > 0 => o.pollout = "arm"
                   /\ o.pollout # "disarm"
           Choked(k, t) == Later([r EXCEPT !.left = k, !.stored = t, !.room = FALSE, !.suspended = TRUE])
<1>0. r.left \in 0 .. Chunks /\ r.stored \in 0 .. Pieces /\ Pieces \in 0 .. Pieces /\ 0 \in 0 .. Pieces
      /\ 0 \in 0 .. Chunks
  BY DEF Wsi
<1>1. ASSUME NEW k \in 0 .. Chunks, NEW t \in 0 .. Pieces, o = Choked(k, t) PROVE Goal
  BY <1>1 DEF Wsi, Outcome, Later, Out
<1>2. ASSUME NEW b \in BOOLEAN, r.stored = 0, o = Fine([r EXCEPT !.left = 0, !.state = "HTTP", !.room = b])
      PROVE  Goal
  <2> DEFINE q == [r EXCEPT !.left = 0, !.room = b]
             s == [q EXCEPT !.state = "HTTP"]
  <2>0. /\ q \in Wsi /\ q.mode = r.mode /\ q.ah = r.ah /\ q.keep = r.keep /\ q.stored = 0
        /\ q.established = r.established /\ q.closed = r.closed /\ q.suspended = r.suspended
    BY <1>0, <1>2 DEF Wsi
  <2>3. o = Fine(s) BY <1>2 DEF Wsi
  <2> HIDE DEF q
  <2>1. /\ s \in Wsi /\ s.mode = r.mode /\ s.ah = r.ah /\ s.keep = r.keep /\ s.stored = 0
        /\ s.established = r.established /\ s.closed = r.closed
        /\ s.state = "HTTP" /\ s.suspended = r.suspended
    BY <2>0 DEF Wsi, States
  <2>2. o = [r |-> s, pollout |-> "keep", close |-> FALSE, crash |-> "no"]
    BY <2>3 DEF Fine, Out
  <2> HIDE DEF s
  <2> QED BY <2>1, <2>2 DEF Outcome
<1>3. ASSUME r.stored = 0, o = Bail([r EXCEPT !.unusable = TRUE])
      PROVE  Goal
  <2> DEFINE s == [r EXCEPT !.unusable = TRUE]
  <2>1. /\ s \in Wsi /\ s.mode = r.mode /\ s.ah = r.ah /\ s.keep = r.keep /\ s.stored = 0
        /\ s.established = r.established /\ s.closed = r.closed /\ s.state = "ISSUING_FILE"
    BY <1>3 DEF Wsi
  <2>2. o = [r |-> s, pollout |-> "keep", close |-> TRUE, crash |-> "no"]
    BY <1>3 DEF Bail, Out
  <2> HIDE DEF s
  <2> QED BY <2>1, <2>2 DEF Outcome
<1>4. CASE ~r.room \/ Truncated(r)
  <2>1. o = Choked(r.left, r.stored)
    BY <1>4 DEF Fragment
  <2> QED BY <1>0, <1>1, <2>1
<1>5. CASE ~(~r.room \/ Truncated(r))
  <2>1. r.stored = 0
    BY <1>5, <1>0 DEF Truncated
  <2>2. \/ \E k \in 1 .. r.left : o = Choked(k, 0)
        \/ \E k \in 0 .. r.left - 1 : o = Choked(k, Pieces)
        \/ \E b \in BOOLEAN : o = Fine([r EXCEPT !.left = 0, !.state = "HTTP", !.room = b])
        \/ o = Bail([r EXCEPT !.unusable = TRUE])
    BY <1>5 DEF Fragment
  <2>3. ASSUME NEW k \in 1 .. r.left, o = Choked(k, 0) PROVE Goal
    <3>1. k \in 0 .. Chunks
      BY <1>0
    <3> QED BY <3>1, <2>3, <1>0, <1>1
  <2>4. ASSUME NEW k \in 0 .. r.left - 1, o = Choked(k, Pieces) PROVE Goal
    <3>1. k \in 0 .. Chunks
      BY <1>0
    <3> QED BY <3>1, <2>4, <1>0, <1>1
  <2> QED BY <2>1, <2>2, <2>3, <2>4, <1>2, <1>3
<1> QED BY <1>4, <1>5

\* libwebsocket_set_timeout touches nothing that a handler relies on.
LEMMA TimeoutSteps ==
    ASSUME NEW r \in Wsi
    PROVE  /\ SetTimeout(r, Await) \in Wsi /\ SameButSending(r, SetTimeout(r, Await))
           /\ SetTimeout(r, Await).stored = r.stored /\ SetTimeout(r, Await).fd = r.fd
           /\ NoTimeout(r) \in Wsi /\ SameButSending(r, NoTimeout(r))
           /\ NoTimeout(r).stored = r.stored /\ NoTimeout(r).fd = r.fd
<1>1. Await \in -1 .. Await /\ 0 \in -1 .. Await
  BY ServerAssumption
<1> QED BY <1>1 DEF Wsi, SetTimeout, NoTimeout, SameButSending

\* Only the mode and the stored send of what a handler was given matter.
LEMMA ProperFrom ==
    ASSUME NEW r, NEW s, r.stored = s.stored, s.mode # "SSL_ACK", NEW o, Proper(s, o)
    PROVE  Proper(r, o)
BY DEF Proper, Asked

\* A handler that goes on leaves a connection that the next one may serve.
LEMMA ProperGoesOn ==
    ASSUME NEW r, r.mode # "SSL_ACK", NEW o, Proper(r, o), ~o.close, o.crash = "no"
    PROVE  Serviceable(o.r)
BY DEF Proper, Serviceable, Outcome

\* libwebsockets_serve_http_file.
LEMMA ServeFileOutcome ==
    ASSUME NEW r \in Wsi, r.state = "HTTP", NEW gone \in BOOLEAN, NEW o \in ServeFile(r, gone)
    PROVE  /\ o \in Outcome /\ o.crash # "table" /\ Asked(r, o)
           /\ o.r.mode = r.mode /\ o.r.keep = r.keep
           /\ o.r.established = r.established /\ o.r.closed = r.closed
           /\ o.r.state \in {"HTTP", "ISSUING_FILE"}
           /\ ~o.close /\ o.crash = "no" /\ o.r.state = "ISSUING_FILE" => o.r.suspended
<1> DEFINE s == [r EXCEPT !.fd = TRUE, !.left = Chunks]
           Goal == /\ o \in Outcome /\ o.crash # "table" /\ Asked(r, o)
                   /\ o.r.mode = r.mode /\ o.r.keep = r.keep
                   /\ o.r.established = r.established /\ o.r.closed = r.closed
                   /\ o.r.state \in {"HTTP", "ISSUING_FILE"}
                   /\ ~o.close /\ o.crash = "no" /\ o.r.state = "ISSUING_FILE" => o.r.suspended
<1>1. /\ s \in Wsi /\ s.stored = r.stored /\ s.mode = r.mode /\ s.keep = r.keep
      /\ s.established = r.established /\ s.closed = r.closed /\ s.state = "HTTP"
  <2>1. Chunks \in 0 .. Chunks
    BY ServerAssumption
  <2> QED BY <2>1 DEF Wsi
<1>2. PICK h \in IssueNew(s, gone) :
         o \in IF h.close \/ h.crash # "no" THEN {h}
               ELSE Fragment([h.r EXCEPT !.state = "ISSUING_FILE"], gone)
  BY DEF ServeFile
<1> HIDE DEF s
<1>3. h \in Outcome /\ SameButSending(s, h.r) /\ Asked(s, h) /\ h.crash # "table"
  BY <1>1, <1>2, IssueNewOutcome
<1>4. CASE h.close \/ h.crash # "no"
  <2>1. o = h
    BY <1>2, <1>4
  <2>2. o.r.state = "HTTP"
    BY <1>1, <1>3, <2>1 DEF SameButSending
  <2>3. Asked(r, o)
    BY <1>1, <1>3, <2>1 DEF Asked
  <2> QED BY <1>1, <1>3, <1>4, <2>1, <2>2, <2>3 DEF SameButSending
<1>5. CASE ~(h.close \/ h.crash # "no")
  <2> DEFINE f == [h.r EXCEPT !.state = "ISSUING_FILE"]
  <2>1. o \in Fragment(f, gone)
    BY <1>2, <1>5
  <2>2. /\ f \in Wsi /\ f.state = "ISSUING_FILE" /\ f.mode = h.r.mode /\ f.keep = h.r.keep
        /\ f.established = h.r.established /\ f.closed = h.r.closed
    <3>1. h.r \in Wsi
      BY <1>3 DEF Outcome
    <3> QED BY <3>1 DEF Wsi, States
  <2> HIDE DEF f
  <2>3. /\ o \in Outcome /\ o.crash = "no"
        /\ o.r.mode = f.mode /\ o.r.keep = f.keep
        /\ o.r.established = f.established /\ o.r.closed = f.closed
        /\ \/ o.close /\ o.r.state = "ISSUING_FILE"
           \/ o.r.state = "ISSUING_FILE" /\ o.r.suspended
           \/ o.r.state = "HTTP"
        /\ o.r.stored > 0 => o.pollout = "arm"
        /\ o.pollout # "disarm"
    BY <2>1, <2>2, FragmentOutcome
  <2>4. Asked(r, o)
    BY <2>3 DEF Asked
  <2> QED BY <1>1, <1>3, <2>2, <2>3, <2>4 DEF SameButSending
<1> QED BY <1>4, <1>5

\* An outcome with another record.
LEMMA OutcomeWith ==
    ASSUME NEW o \in Outcome, NEW s \in Wsi
    PROVE  /\ [o EXCEPT !.r = s] \in Outcome /\ [o EXCEPT !.r = s].r = s
           /\ [o EXCEPT !.r = s].pollout = o.pollout /\ [o EXCEPT !.r = s].close = o.close
           /\ [o EXCEPT !.r = s].crash = o.crash
BY DEF Outcome

\* An outcome that asks for the connection to be closed.
LEMMA OutcomeCloses ==
    ASSUME NEW o \in Outcome, NEW b \in BOOLEAN
    PROVE  /\ [o EXCEPT !.close = b] \in Outcome /\ [o EXCEPT !.close = b].r = o.r
           /\ [o EXCEPT !.close = b].pollout = o.pollout /\ [o EXCEPT !.close = b].close = b
           /\ [o EXCEPT !.close = b].crash = o.crash
BY DEF Outcome

\* lws_http_action.
LEMMA HttpActionOutcome ==
    ASSUME NEW r \in Wsi, r.state = "HTTP", r.mode = "ACCEPTED", r.closed = 0, r.established = 0,
           NEW gone \in BOOLEAN, NEW tok \in Kinds, NEW o \in HttpAction(r, tok, gone)
    PROVE  Proper(r, o)
<1> DEFINE kept == [r EXCEPT !.keep = tok = "fileKA"]
           asked == SetTimeout(kept, Await)
<1>1. /\ asked \in Wsi /\ asked.state = "HTTP" /\ asked.mode = "ACCEPTED" /\ asked.closed = 0
      /\ asked.established = 0 /\ asked.stored = r.stored
  <2>1. /\ kept \in Wsi /\ kept.state = "HTTP" /\ kept.mode = "ACCEPTED" /\ kept.closed = 0
        /\ kept.established = 0 /\ kept.stored = r.stored
    BY DEF Wsi
  <2> HIDE DEF kept
  <2> QED BY <2>1, TimeoutSteps DEF SameButSending
<1>2. CASE tok = "deny"
  <2> DEFINE s == [asked EXCEPT !.ah = FALSE]
  <2>1. o = [r |-> s, pollout |-> "keep", close |-> TRUE, crash |-> "no"]
    BY <1>2 DEF HttpAction, Bail, Out
  <2> HIDE DEF asked
  <2>2. /\ s \in Wsi /\ s.state = "HTTP" /\ s.mode = "ACCEPTED" /\ s.closed = 0
        /\ s.established = 0 /\ s.stored = r.stored
    BY <1>1 DEF Wsi
  <2> HIDE DEF s
  <2> QED BY <2>1, <2>2 DEF Proper, Outcome, Asked, Live, States
<1>3. CASE tok = "post"
  <2>0. PICK k \in BOOLEAN :
            o = Fine([asked EXCEPT !.ah = FALSE, !.state = "BODY", !.left = 1, !.keep = k])
    BY <1>3 DEF HttpAction
  <2> DEFINE s == [asked EXCEPT !.ah = FALSE, !.state = "BODY", !.left = 1, !.keep = k]
  <2>1. o = [r |-> s, pollout |-> "keep", close |-> FALSE, crash |-> "no"]
    BY <2>0 DEF Fine, Out
  <2> HIDE DEF asked
  <2>2. /\ s \in Wsi /\ s.state = "BODY" /\ s.mode = "ACCEPTED" /\ s.closed = 0
        /\ s.established = 0 /\ s.stored = r.stored
    <3>1. 1 \in 0 .. Chunks
      BY ServerAssumption
    <3> QED BY <1>1, <3>1 DEF Wsi, States
  <2> HIDE DEF s
  <2> QED BY <2>1, <2>2 DEF Proper, Outcome, Asked, Live, States, Parsing
<1>4. CASE tok # "deny" /\ tok # "post"
  <2> DEFINE Next1(p) == IF p.r.state = "HTTP" THEN Completed(p) ELSE p
             Next2(p) == IF p.close \/ p.crash # "no" \/ p.r.state = "ISSUING_FILE" \/ ~p.r.keep
                         THEN p ELSE [p EXCEPT !.r.state = "BODY", !.r.left = Chunks]
  <2>1. PICK p \in ServeFile(asked, gone) : o = [Next2(Next1(p)) EXCEPT !.r.ah = FALSE]
    BY <1>4 DEF HttpAction
  <2> HIDE DEF asked
  <2>2. /\ p \in Outcome /\ p.crash # "table" /\ Asked(asked, p)
        /\ p.r.mode = "ACCEPTED" /\ p.r.established = 0 /\ p.r.closed = 0
        /\ p.r.state \in {"HTTP", "ISSUING_FILE"}
        /\ ~p.close /\ p.crash = "no" /\ p.r.state = "ISSUING_FILE" => p.r.suspended
    BY <1>1, ServeFileOutcome
  <2> DEFINE q == Next1(p)
  <2>3. /\ q \in Outcome /\ q.r = p.r /\ q.pollout = p.pollout /\ q.crash = p.crash
        /\ q.close \/ q.close = p.close
        /\ ~q.close /\ q.r.state = "HTTP" => q.r.keep
    BY <2>2, OutcomeCloses DEF Completed
  <2> DEFINE t == Next2(q)
  <2>4. o = [t EXCEPT !.r.ah = FALSE]
    BY <2>1
  <2> HIDE DEF q, Next1
  <2>5. /\ t \in Outcome /\ t.crash # "table" /\ t.pollout = q.pollout
        /\ t.r.mode = "ACCEPTED" /\ t.r.established = 0 /\ t.r.closed = 0 /\ t.r.stored = q.r.stored
        /\ t.r.state \in {"HTTP", "ISSUING_FILE", "BODY"}
        /\ ~t.close /\ t.crash = "no" /\ t.r.state \in Parsing => t.r.suspended
    <3>1. CASE q.close \/ q.crash # "no" \/ q.r.state = "ISSUING_FILE" \/ ~q.r.keep
      BY <3>1, <2>2, <2>3 DEF Parsing
    <3>2. CASE ~(q.close \/ q.crash # "no" \/ q.r.state = "ISSUING_FILE" \/ ~q.r.keep)
      <4> DEFINE u == [q.r EXCEPT !.state = "BODY", !.left = Chunks]
      <4>1. q.r \in Wsi /\ Chunks \in 0 .. Chunks
        BY <2>3, ServerAssumption DEF Outcome
      <4>2. /\ u \in Wsi /\ u.mode = q.r.mode /\ u.established = q.r.established
            /\ u.closed = q.r.closed /\ u.state = "BODY" /\ u.stored = q.r.stored
        BY <4>1 DEF Wsi, States
      <4>3. t = [q EXCEPT !.r = u]
        BY <2>3, <3>2, <4>1 DEF Outcome
      <4> HIDE DEF u, t
      <4> QED BY <4>2, <4>3, <2>2, <2>3, OutcomeWith DEF Parsing
    <3> QED BY <3>1, <3>2
  <2> HIDE DEF t
  <2> DEFINE v == [t.r EXCEPT !.ah = FALSE]
  <2>6. t.r \in Wsi
    BY <2>5 DEF Outcome
  <2>7. /\ v \in Wsi /\ v.mode = t.r.mode /\ v.established = t.r.established /\ v.closed = t.r.closed
        /\ v.stored = t.r.stored /\ v.state = t.r.state /\ v.suspended = t.r.suspended
    BY <2>6 DEF Wsi
  <2>8. o = [t EXCEPT !.r = v]
    BY <2>4, <2>5, <2>6 DEF Outcome
  <2> HIDE DEF v
  <2>9. /\ o \in Outcome /\ o.r = v /\ o.pollout = t.pollout /\ o.close = t.close /\ o.crash = t.crash
    BY <2>5, <2>7, <2>8, OutcomeWith
  <2>10. Asked(r, o)
    BY <1>1, <2>2, <2>3, <2>5, <2>7, <2>9 DEF Asked
  <2> QED BY <2>5, <2>7, <2>9, <2>10 DEF Proper, Live, States, Parsing
<1> QED BY <1>2, <1>3, <1>4

\* The upgrade of lws_handshake_server.
LEMMA UpgradeOutcome ==
    ASSUME NEW r \in Wsi, r.state = "HEADERS", r.mode # "SSL_ACK", r.closed = 0, r.established = 0, r.ah,
           NEW gone \in BOOLEAN, NEW o \in Upgrade(r, gone)
    PROVE  Proper(r, o)
<1>1. PICK p \in IssueNew(r, gone) :
         o = IF p.close \/ p.crash # "no" THEN p
             ELSE [p EXCEPT !.r = [@ EXCEPT !.state = "ESTABLISHED", !.ah = FALSE,
                                            !.mode = "WS_SERVING", !.established = 1]]
  BY DEF Upgrade
<1>2. p \in Outcome /\ SameButSending(r, p.r) /\ Asked(r, p) /\ p.crash # "table"
  BY IssueNewOutcome
<1>3. p.r \in Wsi
  BY <1>2 DEF Outcome
<1>4. CASE p.close \/ p.crash # "no"
  BY <1>1, <1>2, <1>4 DEF SameButSending, Proper, Live, States
<1>5. CASE ~(p.close \/ p.crash # "no")
  <2> DEFINE s == [p.r EXCEPT !.state = "ESTABLISHED", !.ah = FALSE, !.mode = "WS_SERVING",
                              !.established = 1]
  <2>1. /\ s \in Wsi /\ s.state = "ESTABLISHED" /\ s.mode = "WS_SERVING" /\ s.established = 1
        /\ s.closed = p.r.closed /\ s.stored = p.r.stored
    <3>1. 1 \in 0 .. 1
      OBVIOUS
    <3> QED BY <1>3, <3>1 DEF Wsi, States, Modes
  <2>2. o = [p EXCEPT !.r = s]
    BY <1>1, <1>5, <1>2 DEF Outcome
  <2> HIDE DEF s
  <2>3. /\ o \in Outcome /\ o.r = s /\ o.pollout = p.pollout /\ o.crash = p.crash
    BY <2>1, <2>2, <1>2, OutcomeWith
  <2>4. Asked(r, o)
    BY <2>1, <2>3, <1>2 DEF Asked
  <2> QED BY <1>2, <1>5, <2>1, <2>3, <2>4 DEF SameButSending, Proper, Live, States, Upgraded, Parsing
<1> QED BY <1>4, <1>5

\* An outcome that leaves the record as it is.
LEMMA Unchanged ==
    ASSUME NEW r, Serviceable(r)
    PROVE  /\ Proper(r, Fine(r)) /\ Proper(r, Later(r)) /\ Proper(r, Bail(r))
<1>1. ASSUME NEW out \in {"keep", "arm"}, NEW close \in BOOLEAN PROVE Proper(r, Out(r, out, close))
  <2> DEFINE o == Out(r, out, close)
  <2>1. /\ o.r = r /\ o.pollout = out /\ o.close = close /\ o.crash = "no"
        /\ (r \in Wsi => o \in Outcome)
    BY DEF Out, Outcome
  <2> HIDE DEF o
  <2>2. Asked(r, o)
    BY <2>1 DEF Asked
  <2>3. Proper(r, o)
    BY <2>1, <2>2 DEF Proper, Serviceable
  <2> QED BY <2>3 DEF o
<1> QED BY <1>1 DEF Fine, Later, Bail

\* lws_handshake_server: without a table only where a file was suspended.
LEMMA HandshakeOutcome ==
    ASSUME NEW r, Serviceable(r), r.state = "HEADERS",
           NEW gone \in BOOLEAN, NEW tok \in Kinds, NEW o \in HandshakeServer(r, tok, gone)
    PROVE  Proper(r, o)
<1>0. r \in Wsi /\ r.mode # "SSL_ACK" /\ r.closed = 0 /\ r.established = 0
  BY DEF Serviceable, Upgraded, Wsi
<1>1. CASE ~r.ah
  <2>1. o = Crash(r, "table")
    BY <1>1 DEF HandshakeServer
  <2>2. o.r = r /\ o.pollout = "keep" /\ o.crash = "table" /\ o \in Outcome
    BY <1>0, <2>1 DEF Crash, Fine, Out, Outcome
  <2>3. r.suspended
    BY <1>1 DEF Serviceable, Parsing
  <2>4. Asked(r, o)
    BY <2>2 DEF Asked
  <2> QED BY <1>0, <2>2, <2>3, <2>4 DEF Proper, Serviceable
<1>2. CASE r.ah /\ (o = Fine(r) \/ o = Bail(r))
  BY <1>2, Unchanged
<1>3. CASE r.ah /\ o \in Upgrade(NoTimeout(r), gone)
  <2> DEFINE s == NoTimeout(r)
  <2>1. s \in Wsi /\ SameButSending(r, s) /\ s.stored = r.stored
    BY <1>0, TimeoutSteps
  <2> HIDE DEF s
  <2>2. /\ s.state = "HEADERS" /\ s.mode # "SSL_ACK" /\ s.closed = 0 /\ s.established = 0 /\ s.ah
    BY <1>0, <1>3, <2>1 DEF SameButSending
  <2>3. o \in Upgrade(s, gone)
    BY <1>3 DEF s
  <2>4. Proper(s, o)
    BY <2>1, <2>2, <2>3, UpgradeOutcome
  <2> QED BY <2>1, <2>2, <2>4, ProperFrom
<1>4. CASE o \in HttpAction(NoTimeout([r EXCEPT !.mode = "ACCEPTED", !.state = "HTTP", !.fd = FALSE]), tok, gone)
  <2> DEFINE t == [r EXCEPT !.mode = "ACCEPTED", !.state = "HTTP", !.fd = FALSE]
             s == NoTimeout(t)
  <2>1. /\ t \in Wsi /\ t.mode = "ACCEPTED" /\ t.state = "HTTP" /\ t.closed = 0 /\ t.established = 0
        /\ t.stored = r.stored
    BY <1>0 DEF Wsi, Modes, States
  <2>2. o \in HttpAction(s, tok, gone)
    BY <1>4
  <2> HIDE DEF t
  <2>3. s \in Wsi /\ SameButSending(t, s) /\ s.stored = r.stored
    BY <2>1, TimeoutSteps
  <2> HIDE DEF s
  <2>4. Proper(s, o)
    BY <2>1, <2>2, <2>3, HttpActionOutcome DEF SameButSending
  <2> QED BY <2>1, <2>3, <2>4, ProperFrom DEF SameButSending
<1> QED BY <1>1, <1>2, <1>3, <1>4 DEF HandshakeServer

\* http_postbody of libwebsocket_read: the next request finds its table.
LEMMA BodyOutcome ==
    ASSUME NEW r, Serviceable(r), r.state = "BODY", NEW gone \in BOOLEAN, NEW o \in Body(r, gone)
    PROVE  Proper(r, o)
<1>0. r \in Wsi /\ r.mode # "SSL_ACK" /\ r.closed = 0 /\ r.established = 0 /\ r.left \in 0 .. Chunks
  BY DEF Serviceable, Upgraded, Wsi
<1>1. CASE r.left > 1
  <2> DEFINE t == [r EXCEPT !.left = @ - 1]
             s == SetTimeout(t, Await)
  <2>1. r.left - 1 \in 0 .. Chunks
    BY <1>0, <1>1, ServerAssumption
  <2>2. t \in Wsi /\ t.state = "BODY" /\ t.mode = r.mode /\ t.closed = 0 /\ t.established = 0 /\ t.stored = r.stored
    BY <1>0, <2>1 DEF Wsi
  <2>3. o = Fine(s)
    BY <1>1 DEF Body
  <2> HIDE DEF t
  <2>4. s \in Wsi /\ SameButSending(t, s) /\ s.stored = r.stored
    BY <2>2, TimeoutSteps
  <2> HIDE DEF s
  <2>5. Serviceable(s) /\ s.mode # "SSL_ACK"
    BY <1>0, <2>2, <2>4 DEF SameButSending, Serviceable, Live, States, Parsing
  <2>6. Proper(s, o)
    BY <2>3, <2>5, Unchanged
  <2> QED BY <2>4, <2>5, <2>6, ProperFrom
<1>2. CASE ~(r.left > 1)
  <2> DEFINE t == [r EXCEPT !.left = 0]
             s == NoTimeout(t)
  <2>1. t \in Wsi /\ t.state = "BODY" /\ t.mode = r.mode /\ t.closed = 0 /\ t.established = 0 /\ t.stored = r.stored
    <3>1. 0 \in 0 .. Chunks
      BY ServerAssumption
    <3> QED BY <1>0, <3>1 DEF Wsi
  <2>2. PICK p \in IssueNew(s, gone) : o = IF p.close \/ p.crash # "no" THEN p ELSE HttpComplete(p)
    BY <1>2 DEF Body
  <2> HIDE DEF t
  <2>3. s \in Wsi /\ SameButSending(t, s) /\ s.stored = r.stored
    BY <2>1, TimeoutSteps
  <2> HIDE DEF s
  <2>4. p \in Outcome /\ SameButSending(s, p.r) /\ Asked(s, p) /\ p.crash # "table"
    BY <2>3, IssueNewOutcome
  <2>5. /\ p.r \in Wsi /\ p.r.state = "BODY" /\ p.r.mode = r.mode /\ p.r.closed = 0 /\ p.r.established = 0
        /\ Asked(r, p)
    <3>1. p.r \in Wsi
      BY <2>4 DEF Outcome
    <3>2. Asked(r, p)
      BY <2>3, <2>4 DEF Asked
    <3> QED BY <2>1, <2>3, <2>4, <3>1, <3>2 DEF SameButSending
  <2>6. CASE p.close \/ p.crash # "no"
    BY <1>0, <2>2, <2>4, <2>5, <2>6 DEF Proper, Live, States, Parsing
  <2>7. CASE ~(p.close \/ p.crash # "no") /\ ~p.r.keep
    <3>1. o = [p EXCEPT !.close = TRUE]
      BY <2>2, <2>7 DEF HttpComplete
    <3>2. o \in Outcome /\ o.r = p.r /\ o.pollout = p.pollout /\ o.crash = p.crash
      BY <3>1, <2>4, OutcomeCloses
    <3>3. Asked(r, o)
      BY <2>5, <3>2 DEF Asked
    <3> QED BY <1>0, <2>4, <2>5, <3>2, <3>3 DEF Proper, Live, States, Parsing
  <2>8. CASE ~(p.close \/ p.crash # "no") /\ p.r.keep
    <3> DEFINE u == [p.r EXCEPT !.state = "HTTP", !.mode = "HTTP_SERVING", !.ah = TRUE,
                                !.leaked = @ \/ p.r.fd, !.fd = FALSE]
               v == NoTimeout(u)
    <3>1. /\ u \in Wsi /\ u.state = "HTTP" /\ u.mode = "HTTP_SERVING" /\ u.ah /\ u.closed = 0
          /\ u.established = 0 /\ u.stored = p.r.stored
      BY <2>5, ZenonT(20) DEF Wsi, States, Modes
    <3>2. o = [p EXCEPT !.r = v]
      BY <2>2, <2>8, <2>4, <2>5 DEF HttpComplete, Outcome
    <3> HIDE DEF u
    <3>3. v \in Wsi /\ SameButSending(u, v) /\ v.stored = u.stored
      BY <3>1, TimeoutSteps
    <3> HIDE DEF v
    <3>4. o \in Outcome /\ o.r = v /\ o.pollout = p.pollout /\ o.crash = p.crash
      BY <2>4, <3>2, <3>3, OutcomeWith
    <3>5. Asked(r, o)
      BY <2>5, <3>1, <3>3, <3>4 DEF Asked
    <3>6. v.state = "HTTP" /\ v.mode = "HTTP_SERVING" /\ v.ah /\ v.closed = 0 /\ v.established = 0
      BY <3>1, <3>3 DEF SameButSending
    <3> QED BY <2>4, <3>4, <3>5, <3>6 DEF Proper, Live, States
  <2> QED BY <2>6, <2>7, <2>8
<1> QED BY <1>1, <1>2

\* libwebsocket_rx_sm on a frame.
LEMMA FrameOutcome ==
    ASSUME NEW r, Serviceable(r), r.state = "ESTABLISHED",
           NEW gone \in BOOLEAN, NEW tok, NEW o \in Frame(r, tok, gone)
    PROVE  Proper(r, o)
<1>1. CASE tok # "close"
  BY <1>1, Unchanged DEF Frame
<1>2. CASE tok = "close"
  <2>1. PICK p \in IssueNew(r, gone) : o = [p EXCEPT !.r.state = "RETURNED_CLOSE", !.close = p.crash = "no"]
    BY <1>2 DEF Frame
  <2>2. r \in Wsi
    BY DEF Serviceable
  <2>3. p \in Outcome /\ SameButSending(r, p.r) /\ Asked(r, p) /\ p.crash # "table"
    BY <2>2, IssueNewOutcome
  <2>4. p.r \in Wsi
    BY <2>3 DEF Outcome
  <2> DEFINE s == [p.r EXCEPT !.state = "RETURNED_CLOSE"]
             b == (p.crash = "no")
             q == [p EXCEPT !.r = s]
  <2>5. /\ s \in Wsi /\ s.state = "RETURNED_CLOSE" /\ s.mode = r.mode /\ s.closed = r.closed
        /\ s.stored = p.r.stored
    BY <2>3, <2>4 DEF Wsi, States, SameButSending
  <2>6. o = [q EXCEPT !.close = b]
    BY <2>1, <2>3, <2>4 DEF Outcome
  <2> HIDE DEF s
  <2>7. q \in Outcome /\ q.r = s /\ q.pollout = p.pollout /\ q.crash = p.crash
    BY <2>3, <2>5, OutcomeWith
  <2> HIDE DEF q
  <2>8. o \in Outcome /\ o.r = s /\ o.pollout = p.pollout /\ o.crash = p.crash
    BY <2>6, <2>7, OutcomeCloses
  <2>9. Asked(r, o)
    BY <2>3, <2>5, <2>8 DEF Asked
  <2> QED BY <2>3, <2>5, <2>8, <2>9 DEF Proper, Live, States, Parsing, Upgraded, Serviceable
<1> QED BY <1>1, <1>2

\* libwebsocket_read of one token.
LEMMA ReadTokenOutcome ==
    ASSUME NEW r, Serviceable(r), NEW gone \in BOOLEAN, NEW tok \in Kinds, NEW o \in ReadToken(r, tok, gone)
    PROVE  Proper(r, o)
<1>0. r \in Wsi /\ r.mode # "SSL_ACK"
  BY DEF Serviceable
<1>1. CASE r.state \in Parsing
  <2> DEFINE s == [r EXCEPT !.state = "HEADERS"]
  <2>1. /\ s \in Wsi /\ s.state = "HEADERS" /\ s.mode = r.mode /\ s.closed = r.closed /\ s.ah = r.ah
        /\ s.established = r.established /\ s.suspended = r.suspended /\ s.stored = r.stored
    BY <1>0 DEF Wsi, States
  <2>2. o \in HandshakeServer(s, tok, gone)
    BY <1>1 DEF ReadToken, Parsing
  <2> HIDE DEF s
  <2>3. Serviceable(s)
    BY <1>1, <2>1 DEF Serviceable, Parsing, Live, States, Upgraded
  <2>4. Proper(s, o)
    BY <2>1, <2>2, <2>3, HandshakeOutcome
  <2> QED BY <1>0, <2>1, <2>4, ProperFrom
<1>2. CASE r.state = "BODY"
  BY <1>2, BodyOutcome DEF ReadToken
<1>3. CASE r.state = "ESTABLISHED"
  BY <1>3, FrameOutcome DEF ReadToken
<1>4. CASE r.state \notin Parsing \cup {"BODY", "ESTABLISHED"}
  BY <1>4, Unchanged DEF ReadToken, Parsing
<1> QED BY <1>1, <1>2, <1>3, <1>4

\* One handler after another.
LEMMA AfterProper ==
    ASSUME NEW r, r.mode # "SSL_ACK", NEW o, Proper(r, o), NEW p, Proper(o.r, p)
    PROVE  Proper(r, After(o, p))
<1> DEFINE q == After(o, p)
<1>1. o \in Outcome /\ p \in Outcome
  BY DEF Proper
<1>2. /\ q \in Outcome /\ q.r = p.r /\ q.close = p.close /\ q.crash = p.crash
      /\ q.pollout = IF p.pollout = "keep" THEN o.pollout ELSE p.pollout
  BY <1>1 DEF After, Outcome
<1> HIDE DEF q
<1>3. Asked(r, q)
  <2>1. o.r.stored \in Nat /\ p.r.stored \in Nat
    BY <1>1, ServerAssumption DEF Outcome, Wsi
  <2> QED BY <1>2, <2>1 DEF Proper, Asked
<1>4. Proper(r, q)
  BY <1>2, <1>3 DEF Proper
<1> QED BY <1>4 DEF q

\* What contains 1 and the successors of its numbers below n contains 1 .. n.
LEMMA Counting ==
    ASSUME NEW N \in Nat, NEW T, 1 \in T, \A i \in 1 .. N - 1 : i \in T => i + 1 \in T
    PROVE  \A i \in 1 .. N : i \in T
<1> DEFINE S == {i \in 1 .. N : i \notin T}
<1> SUFFICES ASSUME S # {} PROVE FALSE
  OBVIOUS
<1>1. S \subseteq Nat
  OBVIOUS
<1>2. PICK x \in S : \A y \in S : ~(<<y, x>> \in OpToRel(<, Nat))
  BY <1>1, NatLessThanWellFounded, WFMin
<1>3. x \in 1 .. N /\ x \notin T /\ x # 1
  OBVIOUS
<1>4. x - 1 \in S
  BY <1>3
<1>5. x - 1 < x /\ x - 1 \in Nat /\ x \in Nat
  BY <1>3
<1>6. <<x - 1, x>> \in OpToRel(<, Nat)
  BY <1>5 DEF OpToRel
<1> QED BY <1>2, <1>4, <1>6

\* What libwebsocket_read of a buffer can have come to after each token.
GoesThrough(f, r, toks, gone) ==
    /\ f[1] = ReadToken(r, toks[1], gone)
    /\ \A i \in 2 .. Len(toks) : f[i] = UNION {ReadMore(o, toks[i], gone) : o \in f[i - 1]}

\* There is such a function, so that Read is what it comes to at the end.
LEMMA ReadDefined ==
    ASSUME NEW r, NEW toks \in Seq(Kinds), toks # <<>>, NEW gone
    PROVE  \E f : Read(r, toks, gone) = f[Len(toks)] /\ GoesThrough(f, r, toks, gone)
<1> DEFINE N == Len(toks)
           First == ReadToken(r, toks[1], gone)
           More(S, i) == UNION {ReadMore(o, toks[i], gone) : o \in S}
           Reads(f, k) == \A i \in 1 .. k : f[i] = IF i = 1 THEN First ELSE More(f[i - 1], i)
           Reading(f) == [i \in 1 .. N |-> IF i = 1 THEN First ELSE More(f[i - 1], i)]
           T == {k \in 1 .. N : \E f : Reads(f, k)}
<1>1. N \in Nat /\ N >= 1
  OBVIOUS
<1>2. Read(r, toks, gone) = (CHOOSE f : f = Reading(f))[N]
  BY DEF Read
<1> HIDE DEF N, First, More
<1>3. 1 \in T
  <2>1. Reads([i \in 1 .. 1 |-> First], 1)
    OBVIOUS
  <2> HIDE DEF Reads
  <2> QED BY <1>1, <2>1
<1>4. ASSUME NEW k \in 1 .. N - 1, k \in T PROVE k + 1 \in T
  <2>1. PICK f : Reads(f, k)
    BY <1>4
  <2> DEFINE g == [i \in 1 .. k + 1 |-> IF i = 1 THEN First ELSE More(f[i - 1], i)]
  <2>2. ASSUME NEW i \in 1 .. k PROVE g[i] = f[i]
    BY <1>1, <2>1
  <2>3. ASSUME NEW i \in 1 .. k + 1, i # 1 PROVE g[i - 1] = f[i - 1]
    <3>1. i - 1 \in 1 .. k
      BY <1>1, <2>3
    <3> HIDE DEF g
    <3> QED BY <2>2, <3>1
  <2>4. Reads(g, k + 1)
    BY <2>3
  <2>5. k + 1 \in 1 .. N
    BY <1>1
  <2> HIDE DEF g, Reads
  <2> QED BY <2>4, <2>5
<1>5. N \in T
  <2> HIDE DEF T
  <2>1. \A i \in 1 .. N : i \in T
    BY <1>1, <1>3, <1>4, Counting
  <2> QED BY <1>1, <2>1
<1>6. PICK f : Reads(f, N)
  BY <1>5
<1> DEFINE g == [i \in 1 .. N |-> f[i]]
<1>7. g = Reading(g)
  <2>1. ASSUME NEW i \in 1 .. N PROVE g[i] = IF i = 1 THEN First ELSE More(g[i - 1], i)
    <3>1. i # 1 => g[i - 1] = f[i - 1]
      BY <1>1
    <3> QED BY <1>6, <3>1
  <2> QED BY <2>1
<1> DEFINE h == CHOOSE f2 : f2 = Reading(f2)
<1>8. h = Reading(h)
  <2> HIDE DEF g, Reading
  <2> QED BY <1>7
<1>9. h[1] = First /\ \A i \in 2 .. N : h[i] = More(h[i - 1], i)
  <2> HIDE DEF h
  <2> QED BY <1>1, <1>8
<1> HIDE DEF h
<1>10. Read(r, toks, gone) = h[N]
  BY <1>2 DEF h
<1> QED BY <1>9, <1>10 DEF GoesThrough, N, First, More

\* libwebsocket_read of a buffer of any length.
LEMMA ReadOutcome ==
    ASSUME NEW r, Serviceable(r), NEW gone \in BOOLEAN, NEW toks \in Seq(Kinds), toks # <<>>,
           NEW o \in Read(r, toks, gone)
    PROVE  Proper(r, o)
<1>0. r.mode # "SSL_ACK"
  BY DEF Serviceable
<1>1. PICK f : Read(r, toks, gone) = f[Len(toks)] /\ GoesThrough(f, r, toks, gone)
  BY ReadDefined
<1> DEFINE N == Len(toks)
           T == {i \in 1 .. N : \A p \in f[i] : Proper(r, p)}
<1>2. N \in Nat /\ N >= 1 /\ \A i \in 1 .. N : toks[i] \in Kinds
  OBVIOUS
<1>3. 1 \in T
  <2>1. \A p \in f[1] : Proper(r, p)
    BY <1>1, <1>2, ReadTokenOutcome DEF GoesThrough
  <2> QED BY <1>2, <2>1
<1>4. ASSUME NEW i \in 1 .. N - 1, i \in T PROVE i + 1 \in T
  <2>1. i + 1 \in 2 .. N /\ i + 1 \in 1 .. N /\ (i + 1) - 1 = i
    BY <1>2
  <2>2. f[i + 1] = UNION {ReadMore(p, toks[i + 1], gone) : p \in f[i]}
    BY <1>1, <2>1 DEF GoesThrough
  <2>3. ASSUME NEW q \in f[i + 1] PROVE Proper(r, q)
    <3>1. PICK p \in f[i] : q \in ReadMore(p, toks[i + 1], gone)
      BY <2>2
    <3>2. Proper(r, p)
      BY <1>4
    <3>3. CASE q = p
      BY <3>2, <3>3
    <3>4. CASE ~p.close /\ p.crash = "no" /\ q \in {After(p, u) : u \in ReadToken(p.r, toks[i + 1], gone)}
      <4>1. PICK u \in ReadToken(p.r, toks[i + 1], gone) : q = After(p, u)
        BY <3>4
      <4>2. Serviceable(p.r)
        BY <1>0, <3>2, <3>4, ProperGoesOn
      <4>3. Proper(p.r, u)
        BY <1>2, <2>1, <4>2, ReadTokenOutcome
      <4> QED BY <1>0, <3>2, <4>1, <4>3, AfterProper
    <3> QED BY <3>1, <3>3, <3>4 DEF ReadMore
  <2> QED BY <2>1, <2>3
<1>5. N \in T
  <2> HIDE DEF T, N
  <2>1. \A i \in 1 .. N : i \in T
    BY <1>2, <1>3, <1>4, Counting
  <2> QED BY <1>2, <2>1
<1> QED BY <1>1, <1>5

\* A send alone leaves a connection that may be served again.
LEMMA SendProper ==
    ASSUME NEW r, Serviceable(r), NEW gone \in BOOLEAN,
           NEW o, o \in IssueNew(r, gone) \/ (Truncated(r) /\ o \in IssueRest(r, gone))
    PROVE  Proper(r, o)
<1>1. r \in Wsi
  BY DEF Serviceable
<1>2. o \in Outcome /\ SameButSending(r, o.r) /\ Asked(r, o) /\ o.crash # "table"
  BY <1>1, IssueNewOutcome, IssueRestOutcome
<1> QED BY <1>2 DEF Proper, Serviceable, SameButSending

\* A writeable callback that did not ask again gives POLLOUT up, which it may
\* where nothing was stored.
LEMMA OneShotProper ==
    ASSUME NEW r, r.stored = 0, NEW o, Proper(r, o)
    PROVE  Proper(r, OneShot(o)) /\ OneShot(o) \in Outcome /\ OneShot(o).r = o.r
<1> DEFINE q == OneShot(o)
<1>1. o \in Outcome
  BY DEF Proper
<1>2. /\ q \in Outcome /\ q.r = o.r /\ q.close = o.close /\ q.crash = o.crash
      /\ q.pollout = IF o.pollout = "keep" THEN "disarm" ELSE o.pollout
  BY <1>1 DEF OneShot, Outcome
<1> HIDE DEF q
<1>3. Asked(r, q)
  <2>1. o.r.stored \in Nat
    BY <1>1, ServerAssumption DEF Outcome, Wsi
  <2> QED BY <1>2, <2>1 DEF Proper, Asked
<1>4. Proper(r, q)
  BY <1>2, <1>3 DEF Proper
<1> QED BY <1>2, <1>4 DEF q

\* What reading the socket gives.
LEMMA InputProper ==
    ASSUME NEW c \in Conns, peer[c] \in Peer, NEW r, Serviceable(r), NEW o \in Input(c, r)
    PROVE  Proper(r, o)
<1>1. peer[c].sent \in Seq(Kinds) /\ peer[c].gone \in BOOLEAN
  BY DEF Peer
<1> QED BY <1>1, Unchanged, ReadOutcome DEF Input

\* lws_server_socket_service.
LEMMA ServeHttpProper ==
    ASSUME NEW c \in Conns, peer[c] \in Peer, Serviceable(wsi[c]), NEW o \in ServeHttp(c)
    PROVE  Proper(wsi[c], o)
<1> DEFINE r == wsi[c]
<1>0. peer[c].gone \in BOOLEAN
  BY DEF Peer
<1>1. CASE Truncated(r)
  <2>1. CASE o \in IssueRest(r, peer[c].gone)
    BY <1>0, <1>1, <2>1, SendProper
  <2>2. CASE o = Fine(r)
    BY <2>2, Unchanged
  <2> QED BY <1>1, <2>1, <2>2 DEF ServeHttp
<1>2. CASE ~Truncated(r) /\ Readable(c)
  BY <1>2, InputProper DEF ServeHttp
<1>3. ~Truncated(r) => r.stored = 0
  BY ServerAssumption DEF Truncated, Serviceable, Wsi
<1>4. CASE ~Truncated(r) /\ ~Readable(c) /\ r.state = "ISSUING_FILE"
  <2>1. PICK p \in Fragment(r, peer[c].gone) :
            o = IF OneShot(p).r.state = "HTTP" THEN Completed(OneShot(p)) ELSE OneShot(p)
    BY <1>4 DEF ServeHttp
  <2>2. /\ p \in Outcome /\ p.crash = "no"
        /\ p.r.mode = r.mode /\ p.r.ah = r.ah /\ p.r.keep = r.keep
        /\ p.r.established = r.established /\ p.r.closed = r.closed
        /\ \/ p.close /\ p.r.state = "ISSUING_FILE"
           \/ p.r.state = "ISSUING_FILE" /\ p.r.suspended
           \/ p.r.state = "HTTP" /\ p.r.suspended = r.suspended
        /\ p.r.stored > 0 => p.pollout = "arm"
        /\ p.pollout # "disarm"
    BY <1>0, <1>4, FragmentOutcome DEF Serviceable
  <2>3. Proper(r, p)
    <3>1. Asked(r, p)
      BY <2>2 DEF Asked
    <3>2. r.established = 0 /\ r.closed = 0 /\ r.mode # "SSL_ACK" /\ (r.ah \/ r.suspended)
      BY <1>4 DEF Serviceable, Wsi, Upgraded, Parsing
    <3> HIDE DEF r
    <3> QED BY <2>2, <3>1, <3>2 DEF Proper, Live, States
  <2> DEFINE q == OneShot(p)
  <2>4. Proper(r, q) /\ q \in Outcome
    BY <1>3, <1>4, <2>3, OneShotProper
  <2>5. CASE o = q
    BY <2>4, <2>5
  <2>6. CASE o = [q EXCEPT !.close = TRUE]
    <3> HIDE DEF q, r
    <3>1. o \in Outcome /\ o.r = q.r /\ o.pollout = q.pollout /\ o.crash = q.crash /\ o.close = TRUE
      BY <2>4, <2>6, OutcomeCloses
    <3>2. Asked(r, o)
      BY <2>4, <3>1 DEF Proper, Asked
    <3>3. Proper(r, o)
      BY <2>4, <3>1, <3>2 DEF Proper
    <3> QED BY <3>3 DEF r
  <2> QED BY <2>1, <2>5, <2>6 DEF Completed
<1>5. CASE ~Truncated(r) /\ ~Readable(c) /\ r.state # "ISSUING_FILE"
  <2>1. o = OneShot(Fine(r))
    BY <1>5 DEF ServeHttp
  <2>2. Proper(r, Fine(r))
    BY Unchanged
  <2>3. r.stored = 0
    BY <1>3, <1>5
  <2> HIDE DEF r
  <2>4. Proper(r, OneShot(Fine(r)))
    BY <2>2, <2>3, OneShotProper
  <2>5. Proper(r, o)
    BY <2>1, <2>4
  <2> QED BY <2>5 DEF r
<1> QED BY <1>1, <1>2, <1>4, <1>5

\* lws_handle_POLLOUT_event.
LEMMA PolloutProper ==
    ASSUME NEW c \in Conns, peer[c] \in Peer, Serviceable(wsi[c]), NEW o \in HandlePollout(c)
    PROVE  Proper(wsi[c], o)
<1> DEFINE r == wsi[c]
<1>0. peer[c].gone \in BOOLEAN
  BY DEF Peer
<1>1. CASE Truncated(r)
  BY <1>0, <1>1, SendProper DEF HandlePollout
<1>2. CASE ~Truncated(r)
  <2>1. PICK p \in {Fine(r), Later(r), Bail(r)} \cup IssueNew(r, peer[c].gone) : o = OneShot(p)
    BY <1>2 DEF HandlePollout
  <2>2. Proper(r, p)
    BY <1>0, <2>1, SendProper, Unchanged
  <2>3. r.stored = 0
    BY <1>2, ServerAssumption DEF Truncated, Serviceable, Wsi
  <2> QED BY <2>1, <2>2, <2>3, OneShotProper
<1> QED BY <1>1, <1>2

\* libwebsocket_service_fd for a websocket.
LEMMA ServeWsProper ==
    ASSUME NEW c \in Conns, peer[c] \in Peer, Serviceable(wsi[c]), NEW o \in ServeWs(c)
    PROVE  Proper(wsi[c], o)
<1> DEFINE r == wsi[c]
<1>0. r.mode # "SSL_ACK"
  BY DEF Serviceable
<1>1. PICK p \in (IF Writeable(c) /\ wsi[c].state \in {"ESTABLISHED", "FLUSHING"}
                  THEN HandlePollout(c) ELSE {Fine(wsi[c])}) :
         o \in IF p.close \/ p.crash # "no" \/ ~Readable(c) THEN {p}
               ELSE {After(p, q) : q \in Input(c, p.r)}
  BY DEF ServeWs
<1>2. Proper(r, p)
  BY <1>1, PolloutProper, Unchanged
<1>3. CASE p.close \/ p.crash # "no" \/ ~Readable(c)
  BY <1>1, <1>2, <1>3
<1>4. CASE ~(p.close \/ p.crash # "no" \/ ~Readable(c))
  <2>1. PICK q \in Input(c, p.r) : o = After(p, q)
    BY <1>1, <1>4
  <2>2. Serviceable(p.r)
    BY <1>0, <1>2, <1>4, ProperGoesOn
  <2>3. Proper(p.r, q)
    BY <2>2, InputProper
  <2> QED BY <1>0, <1>2, <2>1, <2>3, AfterProper
<1> QED BY <1>3, <1>4

\* lws_server_socket_service_ssl, before anything was sent.
LEMMA SslAcceptProper ==
    ASSUME NEW r \in Wsi, r.state \in Live, r.closed = 0, r.mode = "SSL_ACK", r.stored = 0,
           r.established = 1 => r.state \in Upgraded, r.state \in Parsing => r.ah \/ r.suspended,
           NEW o \in SslAccept(r)
    PROVE  Proper(r, o)
<1>1. ASSUME NEW s \in Wsi, SameButSending(r, s) \/ (s.mode = "HTTP_SERVING" /\ s.state = r.state
                   /\ s.ah = r.ah /\ s.established = r.established /\ s.closed = r.closed
                   /\ s.suspended = r.suspended), s.stored = 0,
             NEW out \in {"arm", "disarm"}, NEW close \in BOOLEAN, o = Out(s, out, close)
      PROVE  Proper(r, o)
  <2>1. o.r = s /\ o.pollout = out /\ o.crash = "no" /\ o \in Outcome
    BY <1>1 DEF Out, Outcome
  <2>2. Asked(r, o)
    BY <2>1, <1>1 DEF Asked
  <2>3. /\ s.state = r.state /\ s.ah = r.ah /\ s.established = r.established /\ s.closed = r.closed
        /\ s.suspended = r.suspended
    BY <1>1 DEF SameButSending
  <2> QED BY <2>1, <2>2, <2>3, <1>1 DEF Proper
<1> DEFINE t == [r EXCEPT !.mode = "HTTP_SERVING"]
<1>2. /\ t \in Wsi /\ t.mode = "HTTP_SERVING" /\ t.state = r.state /\ t.ah = r.ah /\ t.stored = 0
      /\ t.established = r.established /\ t.closed = r.closed /\ t.suspended = r.suspended
  BY DEF Wsi, Modes
<1> HIDE DEF t
<1>3. /\ SetTimeout(t, Await) \in Wsi /\ SameButSending(t, SetTimeout(t, Await))
      /\ SetTimeout(t, Await).stored = 0
  BY <1>2, TimeoutSteps
<1>4. SameButSending(r, r)
  BY DEF SameButSending
<1>5. CASE o = Out(SetTimeout(t, Await), "disarm", FALSE)
  <2> DEFINE s == SetTimeout(t, Await)
  <2>1. s \in Wsi /\ s.mode = "HTTP_SERVING" /\ s.state = r.state /\ s.ah = r.ah /\ s.stored = 0
      /\ s.established = r.established /\ s.closed = r.closed /\ s.suspended = r.suspended
    BY <1>2, <1>3 DEF SameButSending
  <2>2. o = Out(s, "disarm", FALSE)
    BY <1>5
  <2> HIDE DEF s
  <2> QED BY <2>1, <2>2, <1>1
<1>6. CASE o = Out(r, "disarm", FALSE)
  BY <1>4, <1>6, <1>1
<1>7. CASE o = Out(r, "arm", FALSE)
  BY <1>4, <1>7, <1>1
<1>8. CASE o = Out(r, "disarm", TRUE)
  BY <1>4, <1>8, <1>1
<1> QED BY <1>5, <1>6, <1>7, <1>8 DEF SslAccept, Later, t

-----------------------------------------------------------------------------
(* The table under a connection that is opened, served or closed.           *)

\* Where the sockets of the table are.
LEMMA Positions ==
    ASSUME TableInv
    PROVE  /\ \A s \in lookup : /\ position[s] \in Slots /\ position[s] \in 1 .. fds_count - 1
                                /\ fds[position[s]] = s
           /\ \A s, d \in lookup : s # d => position[s] # position[d]
           /\ lookup \subseteq Socks /\ fds_count \in Nat /\ MaxFds \in Nat /\ fds_count <= MaxFds
           /\ pollout \subseteq Slots
<1>1. fds_count \in 1 .. MaxFds /\ MaxFds \in Nat /\ pollout \in SUBSET Slots /\ lookup \in SUBSET Socks
  BY TableAssumption DEF TableInv, TypeOKTable
<1>2. \A s \in lookup : position[s] \in 1 .. fds_count - 1 /\ fds[position[s]] = s
  BY DEF TableInv, TableConsistent
<1>3. \A s \in lookup : position[s] \in Slots
  BY <1>1, <1>2 DEF Slots
<1> QED BY <1>1, <1>2, <1>3

\* remove_wsi_socket_from_fds: whoever is moved takes its POLLOUT along.
LEMMA RemoveEffect ==
    ASSUME TableInv, NEW s \in lookup, NEW out \in SUBSET Slots, RemoveSock(s, out)
    PROVE  /\ lookup' = lookup \ {s}
           /\ \A d \in lookup \ {s} : position[d] \in out => position'[d] \in pollout'
<1> DEFINE m == position[s]
           last == fds_count - 1
           end == fds[last]
<1>1. /\ lookup' = lookup \ {s} /\ pollout' = Moved(out, m, last)
      /\ position' = [position EXCEPT ![end] = m, ![s] = -1]
  BY DEF RemoveSock
<1>2. /\ m \in 1 .. last /\ last \in Nat /\ fds[m] = s /\ position \in [Socks -> Slots \cup {-1}]
      /\ lookup \subseteq Socks
  BY Positions DEF TableInv, TypeOKTable
<1>3. end \in lookup /\ position[end] = last
  BY <1>2 DEF TableInv, TableConsistent
<1> HIDE DEF m, last, end
<1>4. ASSUME NEW d \in lookup \ {s}, position[d] \in out PROVE position'[d] \in pollout'
  <2>1. CASE d = end
    <3>1. m # last
      BY <1>2, <2>1 DEF end
    <3>2. position'[d] = m
      BY <1>1, <1>2, <2>1
    <3> QED BY <1>1, <1>3, <1>4, <2>1, <3>1, <3>2 DEF Moved
  <2>2. CASE d # end
    <3>1. position'[d] = position[d]
      BY <1>1, <1>2, <2>2
    <3>2. position[d] # m /\ position[d] # last
      BY <1>3, <2>2, Positions DEF m
    <3> QED BY <1>1, <1>4, <3>1, <3>2 DEF Moved
  <2> QED BY <2>1, <2>2
<1> QED BY <1>1, <1>4

\* There is always room for another socket.
LEMMA RoomForAll == IsFiniteSet(Socks) /\ Cardinality(Socks) + 1 <= MaxFds
<1>1. /\ Socks = Conns \cup {Listen} /\ Listen \notin Conns /\ IsFiniteSet(Conns)
      /\ Cardinality(Conns) + 2 <= MaxFds
  BY ServerAssumption
<1>2. Cardinality(Conns) \in Nat
  BY <1>1, FS_CardinalityType
<1>3. IsFiniteSet(Socks) /\ Cardinality(Socks) = Cardinality(Conns) + 1
  BY <1>1, FS_AddElement
<1>4. MaxFds \in Nat
  BY TableAssumption
<1> QED BY <1>1, <1>2, <1>3, <1>4

\* insert_wsi_socket_into_fds takes nothing away from the others.
LEMMA InsertEffect ==
    ASSUME TableInv, NEW s \in Socks, s \notin lookup, InsertSock(s)
    PROVE  /\ lookup' = lookup \cup {s}
           /\ \A d \in lookup : Waiting(d) => Waiting(d)'
<1>1. s \in lookup'
  BY RoomForAll, InsertTakes
<1>2. ~(fds_count >= MaxFds)
  BY <1>1 DEF InsertSock, table
<1>3. /\ lookup' = lookup \cup {s} /\ position' = [position EXCEPT ![s] = fds_count]
      /\ pollout' = pollout \ {fds_count}
  BY <1>2 DEF InsertSock
<1>4. ASSUME NEW d \in lookup, Waiting(d) PROVE Waiting(d)'
  <2>1. position'[d] = position[d]
    BY <1>3 DEF TableInv, TypeOKTable
  <2>2. position[d] # fds_count
    BY Positions
  <2> QED BY <1>3, <1>4, <2>1, <2>2 DEF Waiting
<1> QED BY <1>3, <1>4

\* What lws_change_pollfd can make of the events for a connection.
Events(c) == {pollout, Armed(c), Disarmed(c)}

\* lws_change_pollfd changes one slot.
LEMMA EventsEffect ==
    ASSUME TableInv, NEW c \in lookup, NEW out \in Events(c)
    PROVE  /\ out \in SUBSET Slots
           /\ \A d \in lookup \ {c} : position[d] \in pollout => position[d] \in out
           /\ out \cup {position[c]} = Armed(c)
BY Positions DEF Events, Armed, Disarmed

\* Setting them is a step of the table.
LEMMA SetEffect ==
    ASSUME TableInv, NEW c \in lookup, NEW out \in Events(c), SetPollout(out)
    PROVE  /\ TableInv' /\ (TableNext \/ UNCHANGED table) /\ lookup' = lookup
           /\ \A d \in lookup \ {c} : Waiting(d) => Waiting(d)'
           /\ position[c] \in out => Waiting(c)'
<1>1. c \in Socks
  BY Positions
<1>2. lookup' = lookup /\ position' = position /\ pollout' = out
  BY DEF SetPollout
<1>3. TableInv' /\ (TableNext \/ UNCHANGED table)
  <2>1. CASE out = pollout
    <3>1. UNCHANGED table
      BY <2>1 DEF SetPollout, table
    <3> QED BY <3>1 DEF table, TableInv, TypeOKTable, TableConsistent, Counted
  <2>2. CASE out = Armed(c) \/ out = Disarmed(c)
    BY <1>1, <2>2, PolloutKeeps DEF TableNext
  <2> QED BY <2>1, <2>2 DEF Events
<1>4. \A d \in lookup \ {c} : Waiting(d) => Waiting(d)'
  BY <1>2, EventsEffect DEF Waiting
<1> QED BY <1>2, <1>3, <1>4 DEF Waiting

-----------------------------------------------------------------------------
(* Steps of one connection.                                                 *)

\* A step that leaves w of connection c, and the table with it.
Moves(c, w) ==
    /\ wsi' = [wsi EXCEPT ![c] = w] /\ w \in Wsi
    /\ TableInv' /\ (TableNext \/ UNCHANGED table)
    /\ \A d \in Socks \ {c} : d \in lookup' <=> d \in lookup
    /\ \A d \in Conns \ {c} : Waiting(d) => Waiting(d)'
    /\ c \in lookup' <=> w.state \in Live
    /\ w.stored > 0 => Waiting(c)'

\* What closing needs to know of the record.
Closable(r) ==
    /\ r \in Wsi /\ r.state \in Live /\ r.closed = 0
    /\ r.established = 1 => r.state \in Upgraded
    /\ r.mode = "SSL_ACK" => r.stored = 0

\* libwebsocket_close_and_free_session kills, or puts off and stays armed.
LEMMA CloseMoves ==
    ASSUME TableInv, NEW c \in Conns, c \in lookup, NEW r, Closable(r), NEW out \in Events(c),
           r.stored > 0 => position[c] \in out, Close(c, r, out)
    PROVE  \E w : Moves(c, w) /\ w.suspended = r.suspended /\ \A why : Kept(w, why)
<1>0. c \in Socks /\ r \in Wsi /\ r.stored \in Nat
  BY ServerAssumption DEF Closable, Wsi
<1>1. CASE Truncated(r) /\ ~r.unusable
  <2> DEFINE w == [r EXCEPT !.state = "FLUSHING"]
             ev == IF r.state = "FLUSHING" THEN out \cup {position[c]} ELSE out
  <2>1. wsi' = [wsi EXCEPT ![c] = w] /\ SetPollout(ev)
    BY <1>1 DEF Close
  <2>2. /\ w \in Wsi /\ w.state = "FLUSHING" /\ w.closed = 0 /\ w.stored = r.stored
        /\ w.mode = r.mode /\ w.suspended = r.suspended
    BY <1>0 DEF Wsi, States, Closable
  <2> HIDE DEF w
  <2>3. ev \in Events(c)
    BY EventsEffect DEF Events
  <2>4. position[c] \in ev
    BY <1>1 DEF Truncated
  <2> HIDE DEF ev
  <2>5. /\ TableInv' /\ (TableNext \/ UNCHANGED table) /\ lookup' = lookup
        /\ \A d \in lookup \ {c} : Waiting(d) => Waiting(d)'
        /\ Waiting(c)'
    BY <2>1, <2>3, <2>4, SetEffect
  <2>6. Moves(c, w)
    BY <2>1, <2>2, <2>5 DEF Moves, Waiting, Live, States
  <2>7. ASSUME NEW why PROVE Kept(w, why)
    BY <1>1, <2>2 DEF Kept, Closable, Upgraded, Parsing, Truncated
  <2> QED BY <2>2, <2>6, <2>7
<1>2. CASE ~(Truncated(r) /\ ~r.unusable)
  <2> DEFINE w == Killed(r)
  <2>1. wsi' = [wsi EXCEPT ![c] = w] /\ RemoveSock(c, out)
    BY <1>2 DEF Close
  <2>2. /\ w \in Wsi /\ w.state = "DEAD" /\ w.stored = 0 /\ w.established <= w.closed
        /\ w.suspended = r.suspended
    <3> DEFINE told == r.closed + IF CallsBackClosed(r) THEN 1 ELSE 0
               lost == \/ r.leaked
                       \/ r.fd /\ (r.unusable \/ r.state = "FLUSHING" \/ r.mode # "ACCEPTED")
    <3>1. told \in 0 .. 1 /\ r.established \in 0 .. 1 /\ r.established <= told
      BY <1>0 DEF Closable, Upgraded, CallsBackClosed, Wsi
    <3>2. lost \in BOOLEAN /\ r.suspended \in BOOLEAN
      BY <1>0 DEF Wsi
    <3>3. w = [NewWsi EXCEPT !.state = "DEAD", !.established = r.established,
                             !.suspended = r.suspended, !.closed = told, !.leaked = lost]
      BY DEF Killed
    <3> HIDE DEF told, lost, w
    <3>4. /\ 0 \in 0 .. Chunks /\ 0 \in 0 .. Pieces /\ 0 \in -1 .. Await
      BY ServerAssumption
    <3>5. /\ w.state = "DEAD" /\ w.stored = 0 /\ w.suspended = r.suspended
          /\ w.established = r.established /\ w.closed = told
      BY <3>3 DEF NewWsi
    <3>6. w \in Wsi
      BY <3>1, <3>2, <3>3, <3>4 DEF NewWsi, Wsi, States, Modes
    <3> QED BY <3>1, <3>5, <3>6
  <2> HIDE DEF w
  <2>3. out \in SUBSET Slots /\ \A d \in lookup \ {c} : position[d] \in pollout => position[d] \in out
    BY EventsEffect
  <2>4. /\ lookup' = lookup \ {c}
        /\ \A d \in lookup \ {c} : position[d] \in out => position'[d] \in pollout'
    BY <2>1, <2>3, RemoveEffect
  <2>5. TableInv' /\ TableNext
    BY <1>0, <2>1, <2>3, RemoveKeeps DEF TableNext
  <2>6. \A d \in Conns \ {c} : Waiting(d) => Waiting(d)'
    BY <2>3, <2>4 DEF Waiting
  <2>7. Moves(c, w)
    BY <2>1, <2>2, <2>4, <2>5, <2>6 DEF Moves, Live, States
  <2>8. ASSUME NEW why PROVE Kept(w, why)
    BY <2>2 DEF Kept
  <2> QED BY <2>2, <2>7, <2>8
<1> QED BY <1>1, <1>2

\* A connection is left as the outcome of its handler says.
LEMMA SettleMoves ==
    ASSUME TableInv, NEW c \in Conns, c \in lookup, wsi[c].stored > 0 => Waiting(c),
           NEW o, Proper(wsi[c], o), Settle(c, o)
    PROVE  /\ crashed' \in {"no", "table", "assert"}
           /\ \E w : /\ Moves(c, w) /\ Kept(w, crashed')
                     /\ crashed' = "table" => w.suspended
<1> DEFINE out == CASE o.pollout = "arm"    -> Armed(c)
                    [] o.pollout = "disarm" -> Disarmed(c)
                    [] OTHER                -> pollout
<1>1. /\ crashed' = o.crash
      /\ IF o.close THEN Close(c, o.r, out) ELSE wsi' = [wsi EXCEPT ![c] = o.r] /\ SetPollout(out)
  BY DEF Settle
<1>2. o \in Outcome /\ o.r \in Wsi /\ o.crash \in {"no", "table", "assert"}
  BY DEF Proper, Outcome
<1>3. Closable(o.r)
  BY <1>2 DEF Proper, Closable
<1>4. out \in Events(c)
  BY DEF Events
<1>5. o.r.stored > 0 => position[c] \in out
  BY DEF Proper, Asked, Armed, Waiting
<1> HIDE DEF out
<1>6. CASE o.close
  <2>1. PICK w : Moves(c, w) /\ w.suspended = o.r.suspended /\ \A why : Kept(w, why)
    BY <1>1, <1>3, <1>4, <1>5, <1>6, CloseMoves
  <2>2. o.crash = "table" => w.suspended
    BY <2>1 DEF Proper
  <2> QED BY <1>1, <1>2, <2>1, <2>2
<1>7. CASE ~o.close
  <2>1. /\ TableInv' /\ (TableNext \/ UNCHANGED table) /\ lookup' = lookup
        /\ \A d \in lookup \ {c} : Waiting(d) => Waiting(d)'
        /\ position[c] \in out => Waiting(c)'
    BY <1>1, <1>4, <1>7, SetEffect
  <2>2. Moves(c, o.r)
    BY <1>1, <1>2, <1>5, <1>7, <2>1 DEF Moves, Waiting, Proper
  <2>3. Kept(o.r, crashed')
    BY <1>1, <1>7 DEF Kept, Proper, Live
  <2>4. o.crash = "table" => o.r.suspended
    BY DEF Proper
  <2> QED BY <1>1, <1>2, <2>2, <2>3, <2>4
<1> QED BY <1>6, <1>7

\* The listener accepts a connection, or the application's filter refuses it.
LEMMA AcceptMoves ==
    ASSUME TableInv, wsi \in [Conns -> Wsi], \A c \in Conns : Kept(wsi[c], "no"),
           \A c \in Conns : Open(c) <=> c \in lookup, Accept
    PROVE  \E c \in Conns : \E w : Moves(c, w) /\ Kept(w, "no")
<1>1. PICK c \in Conns :
        /\ wsi[c].state = "backlog"
        /\ \/ wsi' = [wsi EXCEPT ![c].state = "DEAD"] /\ UNCHANGED table
           \/ /\ InsertSock(c)
              /\ wsi' = [wsi EXCEPT ![c] = SetTimeout([@ EXCEPT !.state = "HTTP",
                            !.mode = IF ssl THEN "SSL_ACK" ELSE "HTTP_SERVING"], Await)]
  BY DEF Accept
<1> DEFINE r == wsi[c]
<1>2. r \in Wsi /\ r.established = 0 /\ r.closed = 0 /\ r.stored = 0 /\ r.ah
  BY <1>1 DEF Kept
<1>3. c \notin lookup /\ c \in Socks
  BY <1>1, ServerAssumption DEF Open
<1>4. CASE wsi' = [wsi EXCEPT ![c].state = "DEAD"] /\ UNCHANGED table
  <2> DEFINE w == [r EXCEPT !.state = "DEAD"]
  <2>1. w \in Wsi /\ w.state = "DEAD" /\ w.stored = 0 /\ w.established = 0 /\ w.closed = 0
    BY <1>2 DEF Wsi, States
  <2>2. wsi' = [wsi EXCEPT ![c] = w]
    BY <1>2, <1>4 DEF Wsi
  <2> HIDE DEF w
  <2>3. TableInv' /\ \A d \in Conns : Waiting(d) => Waiting(d)'
    BY <1>4 DEF table, TableInv, TypeOKTable, TableConsistent, Counted, Waiting
  <2>4. lookup' = lookup
    BY <1>4 DEF table
  <2>5. Moves(c, w)
    <3>1. w.state \notin Live /\ c \notin lookup' /\ ~(w.stored > 0)
      BY <1>3, <2>1, <2>4 DEF Live
    <3>2. UNCHANGED table
      BY <1>4
    <3> QED BY <2>1, <2>2, <2>3, <2>4, <3>1, <3>2 DEF Moves
  <2>6. Kept(w, "no")
    BY <2>1 DEF Kept
  <2> QED BY <2>5, <2>6
<1>5. CASE InsertSock(c) /\ wsi' = [wsi EXCEPT ![c] = SetTimeout([@ EXCEPT !.state = "HTTP",
                            !.mode = IF ssl THEN "SSL_ACK" ELSE "HTTP_SERVING"], Await)]
  <2> DEFINE t == [r EXCEPT !.state = "HTTP", !.mode = IF ssl THEN "SSL_ACK" ELSE "HTTP_SERVING"]
             w == SetTimeout(t, Await)
  <2>1. t \in Wsi /\ t.state = "HTTP" /\ t.stored = 0 /\ t.established = 0 /\ t.closed = 0 /\ t.ah
    BY <1>2 DEF Wsi, States, Modes
  <2>2. wsi' = [wsi EXCEPT ![c] = w]
    BY <1>5 DEF SetTimeout
  <2> HIDE DEF t
  <2>3. w \in Wsi /\ w.state = "HTTP" /\ w.stored = 0 /\ w.established = 0 /\ w.closed = 0 /\ w.ah
    BY <2>1, TimeoutSteps DEF SameButSending
  <2> HIDE DEF w
  <2>4. lookup' = lookup \cup {c} /\ \A d \in lookup : Waiting(d) => Waiting(d)'
    BY <1>3, <1>5, InsertEffect
  <2>5. TableInv' /\ TableNext
    BY <1>3, <1>5, InsertKeeps DEF TableNext
  <2>6. Moves(c, w)
    BY <2>2, <2>3, <2>4, <2>5 DEF Moves, Live, States, Waiting
  <2>7. Kept(w, "no")
    BY <2>3 DEF Kept
  <2> QED BY <2>6, <2>7
<1> QED BY <1>1, <1>4, <1>5

-----------------------------------------------------------------------------
(* Every action keeps the invariant and uses the table as it may be used.   *)

TableStep == TableNext \/ UNCHANGED table

\* Connections that do not move stay as they are.
LEMMA Untouched ==
    ASSUME ConnsInv, UNCHANGED <<table, wsi, crashed>>
    PROVE  ConnsInv' /\ TableStep
<1>1. /\ fds' = fds /\ fds_count' = fds_count /\ pollout' = pollout /\ lookup' = lookup
      /\ position' = position /\ wsi' = wsi /\ crashed' = crashed
  BY DEF table
<1>2. TableInv'
  BY <1>1 DEF ConnsInv, TableInv, TypeOKTable, TableConsistent, Counted
<1>3. Polled' /\ StoredSendIsArmed' /\ TableLostOnlyBySuspension'
  BY <1>1 DEF ConnsInv, Polled, Open, StoredSendIsArmed, TableLostOnlyBySuspension, Waiting, Truncated
<1> QED BY <1>1, <1>2, <1>3 DEF ConnsInv, TableStep

\* One connection moves, and the table with it.
LEMMA MovesKeep ==
    ASSUME ConnsInv, crashed = "no", NEW c \in Conns, NEW w, Moves(c, w), Kept(w, crashed'),
           crashed' \in {"no", "table", "assert"}, crashed' = "table" => w.suspended
    PROVE  /\ ConnsInv' /\ TableStep /\ (Listen \in lookup' <=> Listen \in lookup)
           /\ \A d \in Conns \ {c} : wsi'[d] = wsi[d] /\ (d \in lookup' <=> d \in lookup)
<1>1. /\ wsi' \in [Conns -> Wsi] /\ wsi'[c] = w
      /\ \A d \in Conns \ {c} : wsi'[d] = wsi[d]
  BY DEF ConnsInv, Moves
<1>2. /\ TableInv' /\ TableStep
      /\ \A d \in Socks \ {c} : d \in lookup' <=> d \in lookup
      /\ \A d \in Conns \ {c} : Waiting(d) => Waiting(d)'
      /\ c \in lookup' <=> w.state \in Live
      /\ w.stored > 0 => Waiting(c)'
  BY DEF Moves, TableStep
<1>3. Polled'
  <2>1. w.state \in States
    BY DEF Moves, Wsi
  <2>2. Open(c)' <=> w.state \in Live
    BY <1>1, <2>1 DEF Open, Live
  <2>3. \A d \in Conns \ {c} : (Open(d)' <=> Open(d)) /\ d \in Socks
    BY <1>1, ServerAssumption DEF Open
  <2> QED BY <1>2, <2>2, <2>3 DEF ConnsInv, Polled
<1>4. StoredSendIsArmed'
  BY <1>1, <1>2 DEF ConnsInv, StoredSendIsArmed, Truncated
<1>5. ASSUME NEW d \in Conns PROVE Kept(wsi'[d], crashed')
  <2>1. CASE d = c
    BY <1>1, <2>1
  <2>2. CASE d # c
    BY <1>1, <2>2 DEF ConnsInv, Kept
  <2> QED BY <2>1, <2>2
<1>6. TableLostOnlyBySuspension'
  BY <1>1 DEF TableLostOnlyBySuspension
<1>7. Listen \in Socks \ {c} /\ \A d \in Conns \ {c} : d \in Socks \ {c}
  BY ServerAssumption
<1> QED BY <1>1, <1>2, <1>3, <1>4, <1>5, <1>6, <1>7 DEF ConnsInv

\* A connection in the table may be served, once past SSL_accept.
LEMMA OpenIsServiceable ==
    ASSUME ConnsInv, crashed = "no", NEW c \in Conns, c \in lookup
    PROVE  /\ Closable(wsi[c]) /\ (wsi[c].stored > 0 => Waiting(c))
           /\ wsi[c].state \in Parsing => wsi[c].ah \/ wsi[c].suspended
           /\ wsi[c].mode # "SSL_ACK" => Serviceable(wsi[c])
<1>1. wsi[c] \in Wsi /\ wsi[c].state \in Live /\ Kept(wsi[c], "no")
  BY DEF ConnsInv, Polled, Open, Live, Wsi
<1>2. wsi[c].stored > 0 => Waiting(c)
  BY DEF ConnsInv, StoredSendIsArmed, Truncated
<1> QED BY <1>1, <1>2 DEF Kept, Closable, Serviceable, Live

\* libwebsocket_service_fd at the listening socket or an open connection.
LEMMA ServiceKeeps ==
    ASSUME ConnsInv, PeersTyped, crashed = "no", NEW s,
           s = Listen \/ (s \in Conns /\ s \in lookup /\ wsi[s].mode # "SSL_ACK"), ServiceSocket(s)
    PROVE  /\ ConnsInv' /\ TableStep /\ PeersTyped' /\ (Listen \in lookup' <=> Listen \in lookup)
<1>1. CASE s = Listen
  <2>1. Accept /\ UNCHANGED <<peer, crashed>>
    BY <1>1 DEF ServiceSocket, Accept
  <2>2. TableInv /\ wsi \in [Conns -> Wsi] /\ (\A c \in Conns : Kept(wsi[c], "no"))
        /\ \A c \in Conns : Open(c) <=> c \in lookup
    BY DEF ConnsInv, Polled
  <2>0. PICK c \in Conns : \E w : Moves(c, w) /\ Kept(w, "no")
    BY <2>1, <2>2, AcceptMoves
  <2>3. PICK w : Moves(c, w) /\ Kept(w, "no")
    BY <2>0
  <2>4. Kept(w, crashed') /\ crashed' = "no"
    BY <2>1, <2>3
  <2>5. PeersTyped'
    BY <2>1 DEF PeersTyped
  <2> QED BY <2>3, <2>4, <2>5, MovesKeep
<1>2. CASE s # Listen
  <2>1. s \in Conns /\ s \in lookup /\ wsi[s].mode # "SSL_ACK" /\ ServeConn(s)
    BY <1>2 DEF ServiceSocket
  <2>2. Serviceable(wsi[s]) /\ (wsi[s].stored > 0 => Waiting(s)) /\ TableInv /\ peer[s] \in Peer
    BY <2>1, OpenIsServiceable DEF ConnsInv, PeersTyped
  <2>3. PICK o \in (IF wsi[s].mode = "WS_SERVING" THEN ServeWs(s) ELSE ServeHttp(s)) : Settle(s, o)
    BY <2>1 DEF ServeConn
  <2>4. Proper(wsi[s], o)
    BY <2>1, <2>2, ServeWsProper, ServeHttpProper
  <2>5. crashed' \in {"no", "table", "assert"}
    BY <2>1, <2>2, <2>3, <2>4, SettleMoves
  <2>6. PICK w : Moves(s, w) /\ Kept(w, crashed') /\ (crashed' = "table" => w.suspended)
    BY <2>1, <2>2, <2>3, <2>4, SettleMoves
  <2>7. PeersTyped'
    <3>1. peer' = [peer EXCEPT ![s].sent = IF Consumes(s) THEN <<>> ELSE @]
      BY <2>1 DEF ServeConn
    <3>2. CASE Consumes(s)
      <4>1. peer' = [peer EXCEPT ![s].sent = <<>>]
        BY <3>1, <3>2
      <4>2. <<>> \in Seq(Kinds) /\ Len(<<>>) = 0
        OBVIOUS
      <4>3. peer[s].budget \in Nat /\ Len(peer[s].sent) \in Nat /\ Tokens[s] \in Nat
        BY <2>1, <2>2, ServerAssumption DEF Peer
      <4>4. peer'[s] \in Peer /\ peer'[s].budget = peer[s].budget /\ peer'[s].sent = <<>>
        BY <2>1, <2>2, <4>1, <4>2 DEF Peer, PeersTyped
      <4>5. \A d \in Conns \ {s} : peer'[d] = peer[d]
        BY <4>1 DEF PeersTyped
      <4>6. peer' \in [Conns -> Peer]
        BY <4>1, <4>4, <4>5 DEF PeersTyped
      <4>7. peer'[s].budget + Len(peer'[s].sent) <= Tokens[s]
        BY <2>1, <4>2, <4>3, <4>4 DEF PeersTyped
      <4> QED BY <4>5, <4>6, <4>7 DEF PeersTyped
    <3>3. CASE ~Consumes(s)
      <4>1. peer' = peer
        BY <2>1, <2>2, <3>1, <3>3 DEF Peer, PeersTyped
      <4> QED BY <4>1 DEF PeersTyped
    <3> QED BY <3>2, <3>3
  <2> QED BY <2>1, <2>5, <2>6, <2>7, MovesKeep
<1> QED BY <1>1, <1>2

\* The context before anything happened.
LEMMA ServerInitial == ASSUME Init PROVE ServerInv
<1>1. TableInv
  BY TableInitial DEF Init
<1>2. NewWsi \in Wsi
  <2>1. 0 \in 0 .. Chunks /\ 0 \in 0 .. Pieces /\ 0 \in -1 .. Await /\ 0 \in 0 .. 1
    BY ServerAssumption
  <2> QED BY <2>1 DEF NewWsi, Wsi, States, Modes
<1>3. /\ wsi \in [Conns -> Wsi] /\ crashed = "no" /\ lookup = {}
      /\ \A c \in Conns : wsi[c] = NewWsi
  BY <1>2 DEF Init, TableInit
<1>4. Polled /\ StoredSendIsArmed /\ TableLostOnlyBySuspension
  BY <1>3 DEF Polled, Open, StoredSendIsArmed, TableLostOnlyBySuspension, Truncated, NewWsi
<1>5. Kept(NewWsi, "no")
  BY DEF Kept, NewWsi
<1>6. PeersTyped
  <2>1. peer = [c \in Conns |-> [sent |-> <<>>, budget |-> Tokens[c], gone |-> FALSE]]
    BY DEF Init
  <2>2. \A c \in Conns : Tokens[c] \in Nat
    BY ServerAssumption
  <2>3. <<>> \in Seq(Kinds) /\ Len(<<>>) = 0
    OBVIOUS
  <2>4. ASSUME NEW c \in Conns
        PROVE  peer[c] \in Peer /\ peer[c].budget = Tokens[c] /\ peer[c].sent = <<>>
    BY <2>1, <2>2, <2>3 DEF Peer
  <2>5. peer \in [Conns -> Peer]
    BY <2>1, <2>4
  <2>6. \A c \in Conns : peer[c].budget + Len(peer[c].sent) <= Tokens[c]
    BY <2>2, <2>3, <2>4
  <2> QED BY <2>5, <2>6 DEF PeersTyped
<1>7. ThreadTyped /\ Unlistened /\ Served /\ Died
  BY <1>3, TableAssumption DEF Init, ThreadTyped, Unlistened, Served, Died
<1> QED BY <1>1, <1>3, <1>4, <1>5, <1>6, <1>7 DEF ServerInv, ConnsInv

\* What the table says of the slot the thread is at.
LEMMA SlotHolds ==
    ASSUME TableInv, NEW i \in 0 .. MaxFds, i < fds_count
    PROVE  fds[i] = Pipe \/ (fds[i] \in lookup /\ fds[i] \in Socks)
<1>1. fds_count \in Nat /\ lookup \subseteq Socks
  BY Positions
<1>2. CASE i = 0
  BY <1>2 DEF TableInv, TableConsistent
<1>3. CASE i # 0
  <2>1. i \in 1 .. fds_count - 1
    BY <1>1, <1>3, TableAssumption
  <2> QED BY <1>1, <2>1 DEF TableInv, TableConsistent
<1> QED BY <1>2, <1>3

\* Nothing but the thread moves.
LEMMA ThreadStep ==
    ASSUME ServerInv, DestroyBegin \/ DestroyEnd \/ PollTimeout \/ ScanEnd
    PROVE  ServerInv' /\ TableStep
<1>1. UNCHANGED <<table, wsi, crashed>> /\ peer' = peer
  BY DEF DestroyBegin, DestroyEnd, PollTimeout, ScanEnd
<1>2. ConnsInv' /\ TableStep
  BY <1>1, Untouched DEF ServerInv
<1>3. PeersTyped'
  BY <1>1 DEF ServerInv, PeersTyped
<1>4. wsi' = wsi /\ lookup' = lookup /\ crashed' = crashed /\ MaxFds \in Nat /\ Pipe \notin Conns
  BY <1>1, TableAssumption, ServerAssumption DEF table
<1>5. ThreadTyped' /\ Unlistened' /\ Served' /\ Died'
  BY <1>4 DEF DestroyBegin, DestroyEnd, PollTimeout, ScanEnd, ServerInv, ThreadTyped, Unlistened, Served, Died
<1> QED BY <1>2, <1>3, <1>5 DEF ServerInv

\* libwebsocket_create_context.
LEMMA CreateStep ==
    ASSUME ServerInv, Create
    PROVE  ServerInv' /\ TableStep
<1>1. /\ pc = "create" /\ wsi' = wsi /\ peer' = peer /\ n' = n /\ our' = our /\ crashed' = crashed
      /\ pc' \in {"poll", "destroy"}
  BY DEF Create
<1>2. ConnsInv' /\ TableStep
  <2>1. CASE UNCHANGED table
    BY <1>1, <2>1, Untouched DEF ServerInv
  <2>2. CASE InsertSock(Listen)
    <3>1. Listen \in Socks /\ Listen \notin lookup /\ Listen \notin Conns /\ TableInv
      BY <1>1, ServerAssumption DEF ServerInv, Unlistened, ConnsInv
    <3>2. TableInv' /\ TableNext
      BY <2>2, <3>1, InsertKeeps DEF TableNext
    <3>3. lookup' = lookup \cup {Listen} /\ \A d \in lookup : Waiting(d) => Waiting(d)'
      BY <2>2, <3>1, InsertEffect
    <3>4. Polled' /\ StoredSendIsArmed' /\ TableLostOnlyBySuspension'
      BY <1>1, <3>1, <3>3 DEF ServerInv, ConnsInv, Polled, Open, StoredSendIsArmed,
            TableLostOnlyBySuspension, Waiting, Truncated
    <3> QED BY <1>1, <3>2, <3>4 DEF ServerInv, ConnsInv, TableStep
  <2> QED BY <2>1, <2>2 DEF Create
<1>3. PeersTyped'
  BY <1>1 DEF ServerInv, PeersTyped
<1>4. ThreadTyped' /\ Unlistened' /\ Served' /\ Died'
  BY <1>1 DEF ServerInv, ThreadTyped, Unlistened, Served, Died
<1> QED BY <1>2, <1>3, <1>4 DEF ServerInv

\* libwebsocket_context_destroy at one slot.
LEMMA DestroyStepKeeps ==
    ASSUME ServerInv, DestroyStep
    PROVE  ServerInv' /\ TableStep
<1>1. /\ pc = "destroy" /\ n < fds_count /\ peer' = peer /\ pc' = pc /\ our' = our /\ crashed' = crashed
      /\ n \in 0 .. MaxFds
  BY DEF DestroyStep, ServerInv, ThreadTyped
<1>2. TableInv /\ ConnsInv /\ crashed = "no"
  BY <1>1 DEF ServerInv, ConnsInv, Died
<1>3. fds[n] = Pipe \/ (fds[n] \in lookup /\ fds[n] \in Socks)
  BY <1>1, <1>2, SlotHolds
<1>4. Pipe \notin Socks /\ Listen \in Socks /\ Listen \notin Conns /\ Socks = Conns \cup {Listen}
      /\ MaxFds \in Nat
  BY TableAssumption, ServerAssumption
<1>5. ConnsInv' /\ TableStep /\ n' \in 0 .. MaxFds
  <2>1. CASE fds[n] = Pipe
    <3>1. n' = n + 1 /\ UNCHANGED <<table, wsi>>
      BY <1>4, <2>1 DEF DestroyStep
    <3>2. n' \in 0 .. MaxFds
      BY <1>1, <1>2, <1>4, <3>1, Positions
    <3> QED BY <1>1, <1>2, <3>1, <3>2, Untouched
  <2>2. CASE fds[n] = Listen
    <3>1. RemoveSock(Listen, pollout) /\ wsi' = wsi /\ n' = n
      BY <1>4, <2>2 DEF DestroyStep
    <3>2. Listen \in lookup /\ pollout \in SUBSET Slots
      BY <1>2, <1>3, <1>4, <2>2, Positions
    <3>3. TableInv' /\ TableNext
      BY <1>2, <1>4, <3>1, <3>2, RemoveKeeps DEF TableNext
    <3>4. /\ lookup' = lookup \ {Listen}
          /\ \A d \in lookup \ {Listen} : position[d] \in pollout => position'[d] \in pollout'
      BY <1>2, <3>1, <3>2, RemoveEffect
    <3>5. Polled' /\ StoredSendIsArmed' /\ TableLostOnlyBySuspension'
      BY <1>1, <1>4, <3>1, <3>4 DEF ServerInv, ConnsInv, Polled, Open, StoredSendIsArmed,
            TableLostOnlyBySuspension, Waiting, Truncated
    <3> QED BY <1>1, <3>1, <3>3, <3>5 DEF ServerInv, ConnsInv, TableStep, ThreadTyped
  <2>3. CASE fds[n] # Pipe /\ fds[n] # Listen
    <3> DEFINE c == fds[n]
    <3>1. Close(c, wsi[c], pollout) /\ n' = n
      BY <2>3 DEF DestroyStep
    <3>2. c \in Conns /\ c \in lookup
      BY <1>3, <1>4, <2>3
    <3> HIDE DEF c
    <3>3. Closable(wsi[c]) /\ (wsi[c].stored > 0 => Waiting(c))
      BY <1>2, <3>2, OpenIsServiceable
    <3>4. pollout \in Events(c) /\ (wsi[c].stored > 0 => position[c] \in pollout)
      BY <3>3 DEF Waiting, Events
    <3>5. PICK w : Moves(c, w) /\ w.suspended = wsi[c].suspended /\ \A why : Kept(w, why)
      BY <1>2, <3>1, <3>2, <3>3, <3>4, CloseMoves
    <3>6. Kept(w, crashed') /\ crashed' = "no"
      BY <1>1, <1>2, <3>5
    <3> QED BY <1>1, <1>2, <3>1, <3>2, <3>5, <3>6, MovesKeep
  <2> QED BY <2>1, <2>2, <2>3
<1>6. PeersTyped'
  BY <1>1 DEF ServerInv, PeersTyped
<1>7. ThreadTyped' /\ Unlistened' /\ Served' /\ Died'
  BY <1>1, <1>2, <1>5 DEF ServerInv, ThreadTyped, Unlistened, Served, Died
<1> QED BY <1>5, <1>6, <1>7 DEF ServerInv

\* libwebsocket_service_timeout_check at one slot: the socket that the thread
\* came for stays, or is forgotten.
LEMMA ScanStepKeeps ==
    ASSUME ServerInv, ScanStep
    PROVE  ServerInv' /\ TableStep
<1>1. /\ pc = "scan" /\ n < fds_count /\ n' = n + 1 /\ peer' = peer /\ pc' = pc /\ crashed' = crashed
      /\ n \in 0 .. MaxFds /\ our \in Socks \cup {Pipe}
  BY DEF ScanStep, ServerInv, ThreadTyped
<1>2. TableInv /\ ConnsInv /\ crashed = "no"
  BY <1>1 DEF ServerInv, ConnsInv, Died
<1>3. fds[n] = Pipe \/ (fds[n] \in lookup /\ fds[n] \in Socks)
  BY <1>1, <1>2, SlotHolds
<1>4. Pipe \notin Socks /\ Socks = Conns \cup {Listen} /\ MaxFds \in Nat
  BY TableAssumption, ServerAssumption
<1>5. n' \in 0 .. MaxFds
  BY <1>1, <1>2, <1>4, Positions
<1>6. /\ ConnsInv' /\ TableStep /\ our' \in Socks \cup {Pipe}
      /\ our' \in Conns => our' \in lookup' /\ wsi'[our'].mode # "SSL_ACK"
  <2>0. our \in Conns => our \in lookup /\ wsi[our].mode # "SSL_ACK"
    BY <1>1 DEF ServerInv, Served
  <2>1. CASE ~(fds[n] \in Conns /\ Expired(fds[n]))
    <3>1. UNCHANGED <<table, wsi, our>>
      BY <2>1 DEF ScanStep
    <3>2. ConnsInv' /\ TableStep
      BY <1>1, <1>2, <3>1, Untouched
    <3>3. lookup' = lookup /\ wsi' = wsi /\ our' = our
      BY <3>1 DEF table
    <3> QED BY <1>1, <2>0, <3>2, <3>3
  <2>2. CASE fds[n] \in Conns /\ Expired(fds[n])
    <3> DEFINE c == fds[n]
    <3>1. Close(c, wsi[c], pollout) /\ our' = (IF our = c THEN Pipe ELSE our)
      BY <2>2 DEF ScanStep
    <3>2. c \in Conns /\ c \in lookup
      BY <1>3, <1>4, <2>2
    <3> HIDE DEF c
    <3>3. Closable(wsi[c]) /\ (wsi[c].stored > 0 => Waiting(c))
      BY <1>2, <3>2, OpenIsServiceable
    <3>4. pollout \in Events(c) /\ (wsi[c].stored > 0 => position[c] \in pollout)
      BY <3>3 DEF Waiting, Events
    <3>5. PICK w : Moves(c, w) /\ w.suspended = wsi[c].suspended /\ \A why : Kept(w, why)
      BY <1>2, <3>1, <3>2, <3>3, <3>4, CloseMoves
    <3>6. Kept(w, crashed') /\ crashed' = "no"
      BY <1>1, <1>2, <3>5
    <3>7. /\ ConnsInv' /\ TableStep
          /\ \A d \in Conns \ {c} : wsi'[d] = wsi[d] /\ (d \in lookup' <=> d \in lookup)
      BY <1>1, <1>2, <3>2, <3>5, <3>6, MovesKeep
    <3>8. our' \in Conns => our' = our /\ our' \in Conns \ {c}
      BY <1>4, <3>1
    <3> QED BY <1>1, <2>0, <3>1, <3>7, <3>8
  <2> QED BY <2>1, <2>2
<1>7. PeersTyped'
  BY <1>1 DEF ServerInv, PeersTyped
<1>8. ThreadTyped' /\ Unlistened' /\ Served' /\ Died'
  BY <1>1, <1>2, <1>5, <1>6 DEF ServerInv, ThreadTyped, Unlistened, Served, Died
<1> QED BY <1>6, <1>7, <1>8 DEF ServerInv

\* The socket that the thread came for is served after the scan.
LEMMA ServeOurKeeps ==
    ASSUME ServerInv, ServeOur
    PROVE  ServerInv' /\ TableStep
<1>1. pc = "serve" /\ ServiceSocket(our) /\ pc' = "poll" /\ our' = Pipe /\ n' = n
  BY DEF ServeOur
<1>2. ConnsInv /\ PeersTyped /\ crashed = "no"
  BY <1>1 DEF ServerInv, Died
<1>3. our = Listen \/ (our \in Conns /\ our \in lookup /\ wsi[our].mode # "SSL_ACK")
  BY <1>1, ServerAssumption DEF ServerInv, Served, ThreadTyped
<1>4. ConnsInv' /\ TableStep /\ PeersTyped'
  BY <1>1, <1>2, <1>3, ServiceKeeps
<1>5. ThreadTyped' /\ Unlistened' /\ Served' /\ Died'
  BY <1>1 DEF ServerInv, ThreadTyped, Unlistened, Served, Died
<1> QED BY <1>4, <1>5 DEF ServerInv

\* lws_plat_service hands a ready socket over.
LEMMA VisitKeeps ==
    ASSUME ServerInv, NEW s \in Socks, Visit(s)
    PROVE  ServerInv' /\ TableStep
<1>1. pc = "poll" /\ crashed = "no" /\ Ready(s)
  BY DEF Visit
<1>2. ConnsInv /\ PeersTyped
  BY DEF ServerInv
<1>3. s = Listen \/ (s \in Conns /\ s \in lookup /\ wsi[s].mode # "SSL_ACK")
  BY <1>1 DEF Ready
<1>4. CASE checked
  <2>1. ServiceSocket(s) /\ UNCHANGED thread
    BY <1>4 DEF Visit
  <2>2. ConnsInv' /\ TableStep /\ PeersTyped'
    BY <1>1, <1>2, <1>3, <2>1, ServiceKeeps
  <2>3. pc' = pc /\ n' = n /\ our' = our
    BY <2>1 DEF thread
  <2>4. ThreadTyped' /\ Unlistened' /\ Served' /\ Died'
    BY <1>1, <2>3 DEF ServerInv, ThreadTyped, Unlistened, Served, Died
  <2> QED BY <2>2, <2>4 DEF ServerInv
<1>5. CASE ~checked
  <2>1. pc' = "scan" /\ n' = 0 /\ our' = s /\ UNCHANGED <<table, wsi, crashed>> /\ peer' = peer
    BY <1>5 DEF Visit
  <2>2. ConnsInv' /\ TableStep
    BY <1>2, <2>1, Untouched
  <2>3. PeersTyped'
    BY <1>2, <2>1 DEF PeersTyped
  <2>4. lookup' = lookup /\ wsi' = wsi /\ crashed' = "no" /\ 0 \in 0 .. MaxFds /\ Listen \notin Conns
    BY <1>1, <2>1, TableAssumption, ServerAssumption DEF table
  <2>5. ThreadTyped' /\ Unlistened' /\ Served' /\ Died'
    BY <1>3, <2>1, <2>4 DEF ThreadTyped, Unlistened, Served, Died
  <2> QED BY <2>2, <2>3, <2>5 DEF ServerInv
<1> QED BY <1>4, <1>5

\* SSL_accept of a connection goes on.
LEMMA SslServiceKeeps ==
    ASSUME ServerInv, NEW c \in Conns, SslService(c)
    PROVE  ServerInv' /\ TableStep
<1>1. /\ pc = "poll" /\ crashed = "no" /\ Open(c) /\ wsi[c].mode = "SSL_ACK"
      /\ peer' = peer /\ UNCHANGED thread
  BY DEF SslService
<1>2. ConnsInv /\ TableInv /\ c \in lookup
  BY <1>1 DEF ServerInv, ConnsInv, Polled
<1>3. /\ Closable(wsi[c]) /\ (wsi[c].stored > 0 => Waiting(c))
      /\ wsi[c].state \in Parsing => wsi[c].ah \/ wsi[c].suspended
  BY <1>1, <1>2, OpenIsServiceable
<1>4. PICK o \in SslAccept(wsi[c]) : Settle(c, o)
  BY DEF SslService
<1>5. Proper(wsi[c], o)
  BY <1>1, <1>3, SslAcceptProper DEF Closable
<1>6. crashed' \in {"no", "table", "assert"}
  BY <1>2, <1>3, <1>4, <1>5, SettleMoves
<1>7. PICK w : Moves(c, w) /\ Kept(w, crashed') /\ (crashed' = "table" => w.suspended)
  BY <1>2, <1>3, <1>4, <1>5, SettleMoves
<1>8. ConnsInv' /\ TableStep
  BY <1>1, <1>2, <1>6, <1>7, MovesKeep
<1>9. pc' = pc /\ n' = n /\ our' = our
  BY <1>1 DEF thread
<1>10. PeersTyped' /\ ThreadTyped' /\ Unlistened' /\ Served' /\ Died'
  BY <1>1, <1>9 DEF ServerInv, PeersTyped, ThreadTyped, Unlistened, Served, Died
<1> QED BY <1>8, <1>10 DEF ServerInv

\* Another thread asks for a callback, whatever this one does meanwhile.
LEMMA OtherThreadKeeps ==
    ASSUME ServerInv, NEW c \in Conns, OtherThread(c)
    PROVE  ServerInv' /\ TableStep
<1>1. /\ crashed = "no" /\ wsi[c].state = "ESTABLISHED" /\ SetPollout(Armed(c)) /\ wsi' = wsi /\ peer' = peer
      /\ pc' = pc /\ n' = n /\ our' = our /\ crashed' = crashed
  BY DEF OtherThread
<1>2. ConnsInv /\ TableInv /\ c \in lookup
  BY <1>1 DEF ServerInv, ConnsInv, Polled, Open
<1>3. Armed(c) \in Events(c) /\ position[c] \in Armed(c)
  BY DEF Events, Armed
<1>4. /\ TableInv' /\ TableStep /\ lookup' = lookup
      /\ \A d \in lookup \ {c} : Waiting(d) => Waiting(d)'
      /\ Waiting(c)'
  BY <1>1, <1>2, <1>3, SetEffect DEF TableStep
<1>5. Polled' /\ StoredSendIsArmed' /\ TableLostOnlyBySuspension'
  BY <1>1, <1>2, <1>4 DEF ConnsInv, Polled, Open, StoredSendIsArmed, TableLostOnlyBySuspension,
        Waiting, Truncated
<1>6. ConnsInv'
  BY <1>1, <1>2, <1>4, <1>5 DEF ConnsInv
<1>7. PeersTyped' /\ ThreadTyped' /\ Unlistened' /\ Served' /\ Died'
  BY <1>1, <1>4 DEF ServerInv, PeersTyped, ThreadTyped, Unlistened, Served, Died
<1> QED BY <1>4, <1>6, <1>7 DEF ServerInv

\* A peer connects, or reads what was sent to it.
LEMMA PeerStep ==
    ASSUME ServerInv, NEW c \in Conns, PeerConnect(c) \/ PeerRead(c)
    PROVE  ServerInv' /\ TableStep
<1>1. /\ crashed = "no" /\ pc = "poll" /\ UNCHANGED <<table, peer, thread, ssl, crashed>>
  BY DEF PeerConnect, PeerRead, Outside
<1>2. /\ crashed' = "no" /\ lookup' = lookup /\ peer' = peer /\ pc' = pc /\ n' = n /\ our' = our
      /\ position' = position /\ pollout' = pollout
  BY <1>1 DEF table, thread
<1>3. ConnsInv /\ TableInv /\ wsi[c] \in Wsi /\ wsi \in [Conns -> Wsi]
  BY DEF ServerInv, ConnsInv
<1>4. TableInv' /\ \A d \in Conns : Waiting(d) => Waiting(d)'
  BY <1>1, <1>3 DEF table, TableInv, TypeOKTable, TableConsistent, Counted, Waiting
<1>5. Open(c) <=> c \in lookup
  BY <1>3 DEF ConnsInv, Polled
<1>6. \E w : Moves(c, w) /\ Kept(w, "no")
  <2>1. CASE PeerConnect(c)
    <3> DEFINE w == [wsi[c] EXCEPT !.state = "backlog"]
    <3>1. wsi[c].state = "none" /\ wsi' = [wsi EXCEPT ![c] = w]
      BY <1>3, <2>1 DEF PeerConnect, Wsi
    <3>2. Kept(wsi[c], "no")
      BY <1>1 DEF ServerInv, ConnsInv
    <3>3. wsi[c].established = 0 /\ wsi[c].closed = 0 /\ wsi[c].stored = 0 /\ wsi[c].ah
      BY <3>1, <3>2 DEF Kept
    <3>4. /\ w \in Wsi /\ w.state = "backlog" /\ w.established = 0 /\ w.closed = 0 /\ w.stored = 0 /\ w.ah
      BY <1>3, <3>3 DEF Wsi, States
    <3> HIDE DEF w
    <3>5. w.state \notin Live /\ c \notin lookup' /\ ~(w.stored > 0)
      BY <1>2, <1>5, <3>1, <3>4 DEF Live, Open
    <3>6. UNCHANGED table
      BY <1>1
    <3>7. Moves(c, w)
      BY <1>2, <1>4, <3>1, <3>4, <3>5, <3>6 DEF Moves
    <3>8. Kept(w, "no")
      BY <3>4 DEF Kept
    <3> QED BY <3>7, <3>8
  <2>2. CASE PeerRead(c)
    <3> DEFINE w == [wsi[c] EXCEPT !.room = TRUE]
    <3>1. Open(c) /\ wsi' = [wsi EXCEPT ![c] = w]
      BY <1>3, <2>2 DEF PeerRead, Wsi
    <3>2. w \in Wsi /\ SameButSending(wsi[c], w) /\ w.stored = wsi[c].stored
      BY <1>3 DEF Wsi, SameButSending
    <3> HIDE DEF w
    <3>3. wsi[c].state \in Live
      BY <1>3, <3>1 DEF Open, Live, Wsi
    <3>4. Kept(wsi[c], "no") /\ (wsi[c].stored > 0 => Waiting(c))
      BY <1>1, <1>3, <1>5, <3>1, OpenIsServiceable DEF ServerInv, ConnsInv
    <3>5. Kept(w, "no")
      BY <3>2, <3>4 DEF Kept, SameButSending
    <3>6. w.state \in Live /\ c \in lookup' /\ (w.stored > 0 => Waiting(c)')
      BY <1>2, <1>4, <1>5, <3>1, <3>2, <3>3, <3>4 DEF SameButSending
    <3>7. UNCHANGED table
      BY <1>1
    <3>8. Moves(c, w)
      BY <1>2, <1>4, <3>1, <3>2, <3>6, <3>7 DEF Moves
    <3> QED BY <3>5, <3>8
  <2> QED BY <2>1, <2>2
<1>7. PICK w : Moves(c, w) /\ Kept(w, "no")
  BY <1>6
<1>8. ConnsInv' /\ TableStep
  BY <1>1, <1>2, <1>3, <1>7, MovesKeep
<1>9. PeersTyped' /\ ThreadTyped' /\ Unlistened' /\ Served' /\ Died'
  BY <1>1, <1>2 DEF ServerInv, PeersTyped, ThreadTyped, Unlistened, Served, Died
<1> QED BY <1>8, <1>9 DEF ServerInv

\* A peer sends a token or goes away.
LEMMA PeerSendKeeps ==
    ASSUME ServerInv, NEW c \in Conns, PeerClose(c) \/ \E k \in Kinds : PeerSend(c, k)
    PROVE  ServerInv' /\ TableStep
<1>1. UNCHANGED <<table, wsi, crashed>> /\ UNCHANGED thread /\ pc = "poll" /\ crashed = "no"
  BY DEF PeerClose, PeerSend, Outside
<1>2. ConnsInv' /\ TableStep
  BY <1>1, Untouched DEF ServerInv
<1>3. /\ peer \in [Conns -> Peer] /\ peer[c] \in Peer /\ peer[c].budget \in Nat /\ peer[c].sent \in Seq(Kinds)
      /\ Len(peer[c].sent) \in Nat /\ peer[c].budget + Len(peer[c].sent) <= Tokens[c] /\ Tokens[c] \in Nat
  BY ServerAssumption DEF ServerInv, PeersTyped, Peer
<1>4. \E p \in Peer : peer' = [peer EXCEPT ![c] = p] /\ p.budget + Len(p.sent) <= Tokens[c]
  <2>1. CASE PeerClose(c)
    <3> DEFINE p == [peer[c] EXCEPT !.gone = TRUE, !.budget = 0]
    <3>1. peer' = [peer EXCEPT ![c] = p]
      BY <1>3, <2>1 DEF PeerClose, Peer
    <3>2. p \in Peer /\ p.budget = 0 /\ p.sent = peer[c].sent
      BY <1>3 DEF Peer
    <3> HIDE DEF p
    <3>3. p.budget + Len(p.sent) <= Tokens[c]
      BY <1>3, <3>2
    <3> QED BY <3>1, <3>2, <3>3
  <2>2. ASSUME NEW k \in Kinds, PeerSend(c, k)
        PROVE  \E p \in Peer : peer' = [peer EXCEPT ![c] = p] /\ p.budget + Len(p.sent) <= Tokens[c]
    <3> DEFINE p == [peer[c] EXCEPT !.sent = Append(peer[c].sent, k), !.budget = peer[c].budget - 1]
    <3>1. peer' = [peer EXCEPT ![c] = p] /\ peer[c].budget > 0
      BY <1>3, <2>2 DEF PeerSend, Peer
    <3>2. /\ Append(peer[c].sent, k) \in Seq(Kinds) /\ Len(Append(peer[c].sent, k)) = Len(peer[c].sent) + 1
          /\ peer[c].budget - 1 \in Nat
      BY <1>3, <3>1
    <3>3. p \in Peer /\ p.budget = peer[c].budget - 1 /\ p.sent = Append(peer[c].sent, k)
      BY <1>3, <3>2 DEF Peer
    <3> HIDE DEF p
    <3>4. p.budget + Len(p.sent) <= Tokens[c]
      BY <1>3, <3>2, <3>3
    <3> QED BY <3>1, <3>3, <3>4
  <2> QED BY <2>1, <2>2
<1>5. PeersTyped'
  BY <1>3, <1>4 DEF ServerInv, PeersTyped
<1>6. /\ pc' = pc /\ n' = n /\ our' = our /\ crashed' = crashed /\ wsi' = wsi /\ lookup' = lookup
  BY <1>1 DEF table, thread
<1>7. ThreadTyped' /\ Unlistened' /\ Served' /\ Died'
  BY <1>6 DEF ServerInv, ThreadTyped, Unlistened, Served, Died
<1> QED BY <1>2, <1>5, <1>7 DEF ServerInv

\* A second passes.
LEMMA TickKeeps ==
    ASSUME ServerInv, Tick
    PROVE  ServerInv' /\ TableStep
<1>1. /\ crashed = "no" /\ pc = "poll" /\ UNCHANGED table /\ peer' = peer /\ pc' = pc /\ n' = n /\ our' = our
      /\ crashed' = crashed
      /\ wsi' = [c \in Conns |-> IF wsi[c].pending /\ wsi[c].limit >= 0
                                 THEN [wsi[c] EXCEPT !.limit = @ - 1] ELSE wsi[c]]
  BY DEF Tick, Outside
<1>2. ASSUME NEW c \in Conns
      PROVE  wsi'[c] \in Wsi /\ SameButSending(wsi[c], wsi'[c]) /\ wsi'[c].stored = wsi[c].stored
  <2>1. wsi[c] \in Wsi
    BY DEF ServerInv, ConnsInv
  <2>2. CASE ~(wsi[c].pending /\ wsi[c].limit >= 0)
    BY <1>1, <2>1, <2>2 DEF SameButSending
  <2>3. CASE wsi[c].pending /\ wsi[c].limit >= 0
    <3>1. wsi[c].limit - 1 \in -1 .. Await
      BY <2>1, <2>3, ServerAssumption DEF Wsi
    <3>2. wsi'[c] = [wsi[c] EXCEPT !.limit = wsi[c].limit - 1]
      BY <1>1, <2>1, <2>3 DEF Wsi
    <3> QED BY <2>1, <3>1, <3>2 DEF Wsi, SameButSending
  <2> QED BY <2>2, <2>3
<1>3. wsi' \in [Conns -> Wsi]
  BY <1>1, <1>2
<1>4. /\ lookup' = lookup /\ position' = position /\ pollout' = pollout
      /\ fds' = fds /\ fds_count' = fds_count
  BY <1>1 DEF table
<1>5. TableInv'
  BY <1>4 DEF ServerInv, ConnsInv, TableInv, TypeOKTable, TableConsistent, Counted
<1>6. Polled'
  BY <1>2, <1>4 DEF ServerInv, ConnsInv, Polled, Open, SameButSending
<1>7. StoredSendIsArmed'
  BY <1>1, <1>2, <1>4 DEF ServerInv, ConnsInv, StoredSendIsArmed, Truncated, Waiting
<1>8. TableLostOnlyBySuspension'
  BY <1>1 DEF TableLostOnlyBySuspension
<1>9. ASSUME NEW c \in Conns PROVE Kept(wsi'[c], crashed')
  <2>1. Kept(wsi[c], crashed)
    BY DEF ServerInv, ConnsInv
  <2> QED BY <1>1, <1>2, <2>1 DEF Kept, SameButSending
<1>10. ConnsInv' /\ TableStep
  BY <1>1, <1>3, <1>5, <1>6, <1>7, <1>8, <1>9 DEF ConnsInv, TableStep
<1>11. PeersTyped' /\ ThreadTyped' /\ Unlistened' /\ Served' /\ Died'
  BY <1>1, <1>4 DEF ServerInv, PeersTyped, ThreadTyped, Unlistened, Served, Died
<1> QED BY <1>10, <1>11 DEF ServerInv

\* Every step of the server.
LEMMA ServerStep ==
    ASSUME ServerInv, [Next]_vars
    PROVE  ServerInv' /\ TableStep
<1>1. CASE UNCHANGED vars
  <2>1. /\ UNCHANGED <<table, wsi, crashed>> /\ peer' = peer /\ pc' = pc /\ n' = n /\ our' = our
        /\ lookup' = lookup /\ wsi' = wsi /\ crashed' = crashed
    BY <1>1 DEF vars, thread, table
  <2>2. ConnsInv' /\ TableStep
    BY <2>1, Untouched DEF ServerInv
  <2>3. PeersTyped' /\ ThreadTyped' /\ Unlistened' /\ Served' /\ Died'
    BY <2>1 DEF ServerInv, PeersTyped, ThreadTyped, Unlistened, Served, Died
  <2> QED BY <2>2, <2>3 DEF ServerInv
<1>2. CASE Next
  BY <1>2, ThreadStep, CreateStep, DestroyStepKeeps, ScanStepKeeps, ServeOurKeeps, VisitKeeps, TickKeeps,
     PeerStep, PeerSendKeeps, SslServiceKeeps, OtherThreadKeeps DEF Next
<1> QED BY <1>1, <1>2

\* The invariant holds throughout.
LEMMA ServerInvariant == Spec => []ServerInv
<1>1. Init => ServerInv
  BY ServerInitial
<1>2. ServerInv /\ [Next]_vars => ServerInv'
  BY ServerStep
<1> QED BY <1>1, <1>2, PTL DEF Spec

-----------------------------------------------------------------------------
(* Theorems.                                                                *)

\* The variables of the serving context have their types.
THEOREM ServerTypeCorrect == Spec => []TypeOK
<1>1. ServerInv => TypeOK
  <2> SUFFICES ASSUME ServerInv PROVE TypeOK
    OBVIOUS
  <2>1. TypeOKTable
    BY DEF ServerInv, ConnsInv, TableInv
  <2>2. ASSUME NEW c \in Conns
        PROVE  /\ peer[c].budget \in 0 .. Tokens[c] /\ Len(peer[c].sent) <= Tokens[c]
               /\ wsi[c] \in [state : States, mode : Modes, ah : BOOLEAN, keep : BOOLEAN,
                              fd : BOOLEAN, left : 0 .. Chunks, stored : 0 .. Pieces,
                              unusable : BOOLEAN, pending : BOOLEAN, limit : -1 .. Await,
                              room : BOOLEAN, established : 0 .. 1, closed : 0 .. 2,
                              leaked : BOOLEAN, suspended : BOOLEAN]
    <3>1. /\ peer[c].budget \in Nat /\ Len(peer[c].sent) \in Nat /\ Tokens[c] \in Nat
          /\ peer[c].budget + Len(peer[c].sent) <= Tokens[c]
      BY ServerAssumption DEF ServerInv, PeersTyped, Peer
    <3>2. wsi[c] \in Wsi
      BY DEF ServerInv, ConnsInv
    <3>3. 0 .. 1 \subseteq 0 .. 2
      OBVIOUS
    <3> QED BY <3>1, <3>2, <3>3 DEF Wsi
  <2>3. wsi = [c \in Conns |-> wsi[c]]
    BY DEF ServerInv, ConnsInv
  <2> QED BY <2>1, <2>2, <2>3 DEF TypeOK, ServerInv, ConnsInv, ThreadTyped
<1> QED BY <1>1, ServerInvariant, PTL

\* The three views of the poll table agree, and a connection is polled exactly
\* as long as it is open, whatever is accepted, served, timed out or destroyed.
THEOREM ConnectionsArePolled == Spec => []OpenIsPolled
<1>1. ServerInv => OpenIsPolled
  BY DEF ServerInv, ConnsInv, Polled, OpenIsPolled, TableInv
<1> QED BY <1>1, ServerInvariant, PTL

\* On whichever way it dies, a websocket that the application was told of is
\* taken back exactly once (just_kill_connection).
THEOREM ClosedOncePerWebsocket == Spec => []CallbacksPaired
<1>1. ServerInv => CallbacksPaired
  <2> SUFFICES ASSUME ServerInv, NEW c \in Conns
               PROVE  /\ wsi[c].closed <= 1
                      /\ wsi[c].state = "DEAD" => wsi[c].established <= wsi[c].closed
                      /\ wsi[c].closed = 1 => wsi[c].state = "DEAD"
    BY DEF CallbacksPaired
  <2>1. wsi[c] \in Wsi /\ Kept(wsi[c], crashed)
    BY DEF ServerInv, ConnsInv
  <2>2. wsi[c].closed \in 0 .. 1
    BY <2>1 DEF Wsi
  <2> QED BY <2>1, <2>2 DEF Kept
<1> QED BY <1>1, ServerInvariant, PTL

\* Headers are parsed without a header table only on a connection that once had
\* to suspend a file.
THEOREM TablesAreFoundAgain == Spec => []TableLostOnlyBySuspension
<1>1. ServerInv => TableLostOnlyBySuspension
  BY DEF ServerInv, ConnsInv
<1> QED BY <1>1, ServerInvariant, PTL

\* A truncated send has POLLOUT armed from when it is stored until it is sent.
THEOREM StoredSendsStayArmed == Spec => []StoredSendIsArmed
<1>1. ServerInv => StoredSendIsArmed
  BY DEF ServerInv, ConnsInv
<1> QED BY <1>1, ServerInvariant, PTL

\* The server implements the table's specification: it never inserts a socket
\* twice, and removes or arms none that is not there.
THEOREM ServerUsesTable == Spec => UsesTable
<1>1. Init => TableInit
  BY DEF Init
<1>2. ServerInv /\ [Next]_vars => [TableNext]_table
  BY ServerStep DEF TableStep
<1> QED BY <1>1, <1>2, ServerInvariant, PTL DEF Spec, UsesTable, TableSpec
=============================================================================
