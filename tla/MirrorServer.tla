---------------------------- MODULE MirrorServer ----------------------------
(***************************************************************************)
(* The websocket protocols of test-server/test-server.c.  lws-mirror: what *)
(* a client sends goes into one ring of messages, from which every client  *)
(* is sent what it has not had, each with a tail of its own; a client that *)
(* is behind with its own reading is not read from.  dumb-increment: a     *)
(* counter sent on every tick.                                             *)
(*                                                                         *)
(* Messages are numbered as they come.  A write takes a whole message; one *)
(* that is cut is the library's affair (WsLink).  Queue and Low stand for  *)
(* MAX_MESSAGE_QUEUE (32) and MAX_MESSAGE_QUEUE - 15.                      *)
(***************************************************************************)
EXTENDS Integers, FiniteSets

CONSTANTS Clients, Queue, Low,
          MaxMessages,     \* bound: messages that clients send
          CloseAfter       \* dumb increments before close testing closes (50)

ASSUME QueueAssumption == Queue \in Nat \ {0}

VARIABLES
    ring,           \* the number of the message in each slot
    head,           \* ringbuffer_head
    posted,         \* messages received so far
    cl,             \* the clients' sessions
    close_testing,  \* option -c
    number          \* of a dumb-increment connection; -1 when it was closed

mirror == <<ring, head, posted, cl, close_testing, number>>

Idle == [up |-> FALSE, tail |-> 0, writable |-> FALSE, allow |-> TRUE, pending |-> FALSE,
         last |-> 0, alone |-> TRUE, whole |-> TRUE]

Init ==
    /\ ring = [i \in 0 .. Queue - 1 |-> 0] /\ head = 0 /\ posted = 0
    /\ cl = [c \in Clients |-> Idle]
    /\ close_testing \in BOOLEAN /\ number = 0

Step(i)  == IF i = Queue - 1 THEN 0 ELSE i + 1
Fill(tl, h) == (h - tl) % Queue

\* libwebsocket_rx_flow_control, and its effect once the callback returned
\* (user_callback_handle_rxflow); for the others it waits for a callback of
\* their own.
Flow(r, enable) == [r EXCEPT !.pending = enable]
Settled(r)      == [r EXCEPT !.allow = r.pending]

Established(c) ==
    /\ ~cl[c].up
    /\ cl' = [cl EXCEPT ![c] = [Idle EXCEPT !.up = TRUE, !.tail = head, !.pending = TRUE,
                                            !.last = posted]]
    /\ UNCHANGED <<ring, head, posted, close_testing, number>>

\* on_writable_all_protocol
AskAll(f) == [d \in Clients |-> IF f[d].up THEN [f[d] EXCEPT !.writable = TRUE] ELSE f[d]]

\* RECEIVE: a sender whose own reading is a ring behind is dropped from and
\* choked; one that comes near to it is choked.
Receive(c) ==
    LET fill == Fill(cl[c].tail, head)
        next == Step(head)
        Near == Fill(cl[c].tail, next) = Queue - 2
        Others(f) == [d \in Clients |-> IF d = c THEN f[d] ELSE [f[d] EXCEPT !.alone = FALSE]]
        Choked(f, b) == [f EXCEPT ![c] = Settled(IF b THEN Flow([@ EXCEPT !.alone = TRUE], FALSE) ELSE @)]
    IN  /\ cl[c].up /\ cl[c].allow /\ posted < MaxMessages
        /\ IF fill = Queue - 1
           THEN cl' = AskAll(Choked(cl, TRUE)) /\ UNCHANGED <<ring, head, posted>>
           ELSE /\ ring' = [ring EXCEPT ![head] = posted + 1]
                /\ posted' = posted + 1 /\ head' = next
                /\ cl' = AskAll(Others(Choked(cl, Near)))
        /\ UNCHANGED <<close_testing, number>>

ReallowsFull(tl) == Fill(tl, head) = Queue - 1

\* rx is allowed again when exactly Low messages are left to send.
Reallows(tl) == Fill(tl, head) = Low

WrittenAgain(r, k) ==
    [r EXCEPT !.tail = (r.tail + k - 1) % Queue, !.last = ring[(r.tail + k - 1) % Queue],
              !.whole = @ /\ ring[r.tail] > r.last]

\* SERVER_WRITEABLE: messages until none is left or the socket is choked, at
\* least one.
Written(r, k) ==
    LET at(i) == (r.tail + i) % Queue
        nums  == [i \in 0 .. k - 1 |-> ring[at(i)]]
        Gap(i) == nums[i] - (IF i = 0 THEN r.last ELSE nums[i - 1])
    IN  [r EXCEPT !.tail = at(k), !.last = nums[k - 1],
                  !.whole = @ /\ \A i \in 0 .. k - 1 : Gap(i) > 0 /\ (Gap(i) - 1) % Queue = 0]

Writeable(c) ==
    LET behind == Fill(cl[c].tail, head)
        asked  == [cl EXCEPT ![c].writable = FALSE]
        Passed(k) == \E i \in 1 .. k : Reallows((cl[c].tail + i) % Queue)
        AllowAll(f) == [d \in Clients |-> IF f[d].up THEN Flow(f[d], TRUE) ELSE f[d]]
        After(k, choked) == LET w == [asked EXCEPT ![c] = [Written(@, k) EXCEPT !.writable = choked]]
                            IN  IF Passed(k) THEN AllowAll(w) ELSE w
    IN  /\ cl[c].up /\ cl[c].writable
        /\ IF close_testing \/ behind = 0
           THEN cl' = [asked EXCEPT ![c] = Settled(@)]
           ELSE \E k \in 1 .. behind, choked \in BOOLEAN :
                    (k < behind => choked) /\ cl' = [After(k, choked) EXCEPT ![c] = Settled(@)]
        /\ UNCHANGED <<ring, head, posted, close_testing, number>>

\* The library closes the connection, here or because a write failed.
Closed(c) ==
    /\ cl[c].up /\ cl' = [cl EXCEPT ![c] = [Idle EXCEPT !.up = FALSE]]
    /\ UNCHANGED <<ring, head, posted, close_testing, number>>

\* dumb_increment: the main loop asks for it every 50 ms; the client resets.
Increment ==
    /\ number \in 0 .. CloseAfter - 1
    /\ number' = IF close_testing /\ number + 1 = CloseAfter THEN -1 ELSE number + 1
    /\ UNCHANGED <<ring, head, posted, cl, close_testing>>

Reset == number > 0 /\ number' = 0 /\ UNCHANGED <<ring, head, posted, cl, close_testing>>

Next ==
    \/ \E c \in Clients : Established(c) \/ Receive(c) \/ Writeable(c) \/ Closed(c)
    \/ Increment \/ Reset

Fairness == \A c \in Clients : WF_mirror(Writeable(c))

Spec == Init /\ [][Next]_mirror /\ Fairness

-----------------------------------------------------------------------------
(* Properties *)

\* However the ring wraps, and whoever overruns whom, a client is sent
\* messages in the order in which they came, none twice, and those it misses
\* are whole rings of Queue messages.
MissesWholeRings == \A c \in Clients : cl[c].whole

\* A client that was choked is read from again, if nobody else has sent
\* anything meanwhile.
ChokedIsResumed ==
    \A c \in Clients : (~cl[c].allow /\ cl[c].up /\ ~close_testing)
        ~> (cl[c].allow \/ ~cl[c].up \/ ~cl[c].alone)
=============================================================================
