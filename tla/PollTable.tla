------------------------------ MODULE PollTable ------------------------------
(***************************************************************************)
(* The table of polled sockets of a libwebsocket_context (lib/pollfd.c):   *)
(* the array fds with its fds_count, lws_lookup from a descriptor to its   *)
(* wsi, and position_in_fds_table in each wsi.  Slot 0 is the read end of  *)
(* the dummy pipe, which has no wsi.  Of a slot's events only POLLOUT is   *)
(* kept: POLLIN stays armed here (rx flow control is in WsLink).           *)
(*                                                                         *)
(* A removed entry is overwritten by the last one; the slot that falls out *)
(* of the table is blanked, which the code does not trouble to do.         *)
(***************************************************************************)
EXTENDS Integers

CONSTANTS Socks,     \* the descriptors that have a wsi
          Pipe,      \* the dummy pipe, which has none
          MaxFds     \* getdtablesize() when the context was created

ASSUME TableAssumption == /\ MaxFds \in Nat \ {0}
                          /\ Pipe \notin Socks

VARIABLES
    fds,        \* the descriptor in each slot
    fds_count,  \* slots in use
    pollout,    \* the slots whose events include POLLOUT
    lookup,     \* the descriptors lws_lookup knows a wsi for
    position    \* wsi->position_in_fds_table: 0 before it is inserted, -1 after

table == <<fds, fds_count, pollout, lookup, position>>

Slots  == 0 .. MaxFds - 1
Blank  == Pipe

\* lws_plat_init_fd_tables: only the dummy pipe is polled.
TableInit ==
    /\ fds = [i \in Slots |-> Blank] /\ fds_count = 1 /\ pollout = {}
    /\ lookup = {} /\ position = [s \in Socks |-> 0]

TypeOKTable ==
    /\ fds \in [Slots -> Socks \cup {Pipe}] /\ fds_count \in 1 .. MaxFds
    /\ pollout \in SUBSET Slots /\ lookup \in SUBSET Socks
    /\ position \in [Socks -> Slots \cup {-1}]

\* insert_wsi_socket_into_fds; a full table refuses, which no caller notices.
InsertSock(s) ==
    IF fds_count >= MaxFds
    THEN UNCHANGED table
    ELSE /\ lookup' = lookup \cup {s}
         /\ position' = [position EXCEPT ![s] = fds_count]
         /\ fds' = [fds EXCEPT ![fds_count] = s]
         /\ pollout' = pollout \ {fds_count}
         /\ fds_count' = fds_count + 1

\* The slots with POLLOUT once the last entry has moved to slot m.
Moved(out, m, last) ==
    (IF last \in out THEN out \cup {m} ELSE out \ {m}) \ {last}

RemoveSockStale(s, out) ==
    LET m == position[s]
        last == fds_count - 1
    IN  /\ fds_count' = last /\ lookup' = lookup \ {s}
        /\ fds' = [fds EXCEPT ![m] = fds[last], ![last] = Blank]
        /\ pollout' = Moved(out, m, last)
        /\ position' = [position EXCEPT ![s] = -1]

\* remove_wsi_socket_from_fds, given the events the slots have by then; the
\* pipe keeps fds_count above 0, so the early exit at 0 is not taken.
RemoveSock(s, out) ==
    LET m    == position[s]
        last == fds_count - 1
        end  == fds[last]
    IN  /\ fds_count' = last
        /\ fds' = [fds EXCEPT ![m] = end, ![last] = Blank]
        /\ pollout' = Moved(out, m, last)
        /\ position' = [position EXCEPT ![end] = m, ![s] = -1]
        /\ lookup' = lookup \ {s}

\* lws_change_pollfd through position_in_fds_table, so that a wrong position
\* changes somebody else's events.
Armed(s)     == pollout \cup {position[s]}
Disarmed(s)  == pollout \ {position[s]}
SetPollout(out) == pollout' = out /\ UNCHANGED <<fds, fds_count, lookup, position>>

\* What the callers do: a socket is inserted once, and changed or removed only
\* while it is there.
TableNext ==
    \E s \in Socks :
        \/ s \notin lookup /\ InsertSock(s)
        \/ s \in lookup /\ \E out \in SUBSET Slots : RemoveSock(s, out)
        \/ s \in lookup /\ SetPollout(Armed(s))
        \/ s \in lookup /\ SetPollout(Disarmed(s))

TableSpec == TableInit /\ [][TableNext]_table

Waiting(s) == s \in lookup /\ position[s] \in pollout

(***************************************************************************)
(* The three views of the table agree: a wsi found through lws_lookup is   *)
(* in the slot it thinks it is in, and every slot but the pipe's holds a   *)
(* descriptor that lws_lookup knows.                                       *)
(***************************************************************************)
TableConsistent ==
    /\ fds[0] = Pipe
    /\ \A s \in lookup : position[s] \in 1 .. fds_count - 1 /\ fds[position[s]] = s
    /\ \A i \in 1 .. fds_count - 1 : fds[i] \in lookup /\ position[fds[i]] = i
=============================================================================
