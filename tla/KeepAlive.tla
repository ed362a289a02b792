------------------------------ MODULE KeepAlive ------------------------------
(***************************************************************************)
(* The heartbeat connection of src/java/keepalive: one Client object (its  *)
(* KeepAliveWatchDog and ReceiveWatchDog threads), one Server object (its  *)
(* ConnWatchDog thread and one SocketAction thread per connection), the    *)
(* kernel's accept queue and the two byte streams of every connection.     *)
(*                                                                         *)
(* Connection k is the one made by the k-th successful Client.start(), and *)
(* "dog k" is the pair of threads which that start() created.  The dogs do *)
(* not keep the socket they were started for: they read the field `socket` *)
(* (cSock) at every turn.                                                  *)
(*                                                                         *)
(* Time is counted in ticks.  A clock reading minus a stored timestamp is  *)
(* the age of that timestamp: sinceSend is the age of lastSendTime and     *)
(* sinceRecv[k] that of SocketAction k's lastReceiveTime.  An age stops    *)
(* growing at the first value past every threshold it is compared with.    *)
(*                                                                         *)
(* Objects travel as two tokens: "H" is the stream header that the         *)
(* constructor of ObjectOutputStream writes, "O" the serialised object.    *)
(***************************************************************************)
EXTENDS Naturals, Sequences

CONSTANTS KeepAliveDelay,    \* keepAliveDelay, in ticks
          ReceiveTimeDelay,  \* receiveTimeDelay, in ticks
          Lag,               \* how late a thread may run in PunctualSpec
          SockBuf,           \* tokens a direction of a connection can hold
          Backlog,           \* second argument of new ServerSocket(port,5)
          MaxConns,          \* bound: successful calls of Client.start()
          MaxServerStarts,   \* bound: calls of Server.start()
          Exclusive          \* the application leaves sendObject to the dog
                             \* and restarts only after the old dogs ended

ASSUME ConstAssumption ==
    /\ KeepAliveDelay \in Nat /\ ReceiveTimeDelay \in Nat /\ Lag \in Nat
    /\ SockBuf \in Nat \ {0} /\ Backlog \in Nat \ {0}
    /\ MaxConns \in Nat /\ MaxServerStarts \in Nat
    /\ Exclusive \in BOOLEAN

Conn   == 1 .. MaxConns
App    == 0                     \* the application's own caller of sendObject
Sender == 0 .. MaxConns         \* App and the KeepAliveWatchDogs
SendCap == KeepAliveDelay + 1 + Lag
RecvCap == ReceiveTimeDelay + 1

VARIABLES
    sRunning,   \* Server.running
    sStarts,    \* calls of Server.start() so far
    wpc,        \* the newest ConnWatchDog
    wKill,      \* Thread.stop() was called on it
    wConn,      \* the connection it holds between accept() and start()
    zombie,     \* an older ConnWatchDog, stopped, is still inside accept()
    ss,         \* the port is bound by this process
    backlog,    \* established connections nobody accepted yet
    spc,        \* SocketAction threads
    sinceRecv,  \* age of lastReceiveTime of every SocketAction
    waitS,      \* ticks that a received object has been left unread
    sOpen,      \* the server's end of the connection is open
    c2s, s2c,   \* bytes under way, as tokens
    peer,       \* the client's end: "up", "fin" (closed), "silent" (host gone)
    rst,        \* the client's kernel knows that the server's end is gone
    cRunning,   \* Client.running
    cSock,      \* Client.socket, 0 for null
    sinceSend,  \* age of Client.lastSendTime
    kpc, kSock, \* senders and the socket of the sendObject() they are in
    rpc, rSock  \* ReceiveWatchDogs and the socket they are reading

sDogVars == <<sRunning, sStarts, wpc, wKill, wConn, zombie, ss, backlog>>
saVars   == <<spc, sinceRecv, waitS>>
netVars  == <<sOpen, c2s, s2c, peer, rst>>
sendVars == <<sinceSend, kpc, kSock>>
recvVars == <<rpc, rSock>>
vars == <<sDogVars, saVars, netVars, cRunning, cSock, sendVars, recvVars>>

Token == {"H", "O"}

Init ==
    /\ sRunning = FALSE /\ sStarts = 0
    /\ wpc = "none" /\ wKill = FALSE /\ wConn = 0 /\ zombie = FALSE
    /\ ss = FALSE /\ backlog = <<>>
    /\ spc = [k \in Conn |-> "none"]
    /\ sinceRecv = [k \in Conn |-> 0] /\ waitS = [k \in Conn |-> 0]
    /\ sOpen = [k \in Conn |-> FALSE]
    /\ c2s = [k \in Conn |-> <<>>] /\ s2c = [k \in Conn |-> <<>>]
    /\ peer = [k \in Conn |-> "up"] /\ rst = [k \in Conn |-> FALSE]
    /\ cRunning = FALSE /\ cSock = 0 /\ sinceSend = 0
    /\ kpc = [d \in Sender |-> "none"] /\ kSock = [d \in Sender |-> 0]
    /\ rpc = [d \in Conn |-> "none"] /\ rSock = [d \in Conn |-> 0]

-----------------------------------------------------------------------------
(* Server.start, Server.stop and the ConnWatchDog.  Thread.stop() is        *)
(* asynchronous: a thread inside the native accept() dies only when accept  *)
(* returns, one that is running dies at some later point of its own.  The   *)
(* listening socket is never closed, so a second bind finds the port taken. *)

SStart ==
    /\ ~sRunning /\ sStarts < MaxServerStarts
    /\ wpc \in {"none", "accept", "dead"}
    /\ sRunning' = TRUE /\ sStarts' = sStarts + 1
    /\ zombie' = (zombie \/ wpc = "accept")
    /\ wpc' = "bind" /\ wKill' = FALSE
    /\ UNCHANGED <<wConn, ss, backlog, saVars, netVars, cRunning, cSock,
                   sendVars, recvVars>>

SStop ==
    /\ wpc \notin {"none", "exited"}
    /\ sRunning' = FALSE
    /\ wKill' = (wKill \/ wpc # "dead")
    /\ UNCHANGED <<sStarts, wpc, wConn, zombie, ss, backlog, saVars, netVars,
                   cRunning, cSock, sendVars, recvVars>>

PortReusable == TRUE              \* mutant of PortFree: bind ignores the old socket
PortFree == ~ss

BindOk ==
    /\ wpc = "bind" /\ PortFree
    /\ ss' = TRUE
    /\ wpc' = IF sRunning THEN "accept" ELSE "dead"
    /\ UNCHANGED <<sRunning, sStarts, wKill, wConn, zombie, backlog, saVars,
                   netVars, cRunning, cSock, sendVars, recvVars>>

\* new ServerSocket throws: the dog calls Server.stop(), which stops itself.
BindFail ==
    /\ wpc = "bind"
    /\ sRunning' = FALSE /\ wpc' = "dead"
    /\ UNCHANGED <<sStarts, wKill, wConn, zombie, ss, backlog, saVars, netVars,
                   cRunning, cSock, sendVars, recvVars>>

Accept ==
    /\ wpc = "accept" /\ ~wKill /\ backlog # <<>>
    /\ wpc' = "got" /\ wConn' = Head(backlog) /\ backlog' = Tail(backlog)
    /\ UNCHANGED <<sRunning, sStarts, wKill, zombie, ss, saVars, netVars,
                   cRunning, cSock, sendVars, recvVars>>

\* new Thread(new SocketAction(s)).start(), then the test of `running`.
Serve ==
    /\ wpc = "got"
    /\ spc' = [spc EXCEPT ![wConn] = "loop"]
    /\ sinceRecv' = [sinceRecv EXCEPT ![wConn] = 0]
    /\ wpc' = IF sRunning THEN "accept" ELSE "dead"
    /\ wConn' = 0
    /\ UNCHANGED <<sRunning, sStarts, wKill, zombie, ss, backlog, waitS,
                   netVars, cRunning, cSock, sendVars, recvVars>>

\* The pending ThreadDeath reaches a running dog.  A socket it holds is lost.
DogDies ==
    /\ wKill /\ wpc \in {"bind", "got"}
    /\ wpc' = "dead" /\ wConn' = 0
    /\ spc' = IF wpc = "got" THEN [spc EXCEPT ![wConn] = "done"] ELSE spc
    /\ UNCHANGED <<sRunning, sStarts, wKill, zombie, ss, backlog, sinceRecv,
                   waitS, netVars, cRunning, cSock, sendVars, recvVars>>

\* accept() returns to a dog that was stopped inside it.
AcceptAndDie ==
    /\ backlog # <<>>
    /\ \/ zombie /\ zombie' = FALSE /\ UNCHANGED wpc
       \/ wpc = "accept" /\ wKill /\ wpc' = "dead" /\ UNCHANGED zombie
    /\ spc' = [spc EXCEPT ![Head(backlog)] = "done"]
    /\ backlog' = Tail(backlog)
    /\ UNCHANGED <<sRunning, sStarts, wKill, wConn, ss, sinceRecv, waitS,
                   netVars, cRunning, cSock, sendVars, recvVars>>

-----------------------------------------------------------------------------
(* SocketAction k: the loop of run(), and overThis().                       *)

overThis(k) ==
    /\ spc' = [spc EXCEPT ![k] = "done"]
    /\ sOpen' = [sOpen EXCEPT ![k] = FALSE]

SaExit(k) ==                     \* `running` is false: the socket stays open
    /\ spc[k] = "loop" /\ ~sRunning
    /\ spc' = [spc EXCEPT ![k] = "done"]
    /\ UNCHANGED <<sDogVars, sinceRecv, waitS, netVars, cRunning, cSock,
                   sendVars, recvVars>>

NeverExpired(k) == FALSE          \* mutant of Expired: the timeout is not tested
ExpiredEarly(k) == sinceRecv[k] >= ReceiveTimeDelay \* mutant: >= for >
Expired(k) == sinceRecv[k] > ReceiveTimeDelay

SaTimeout(k) ==
    /\ spc[k] = "loop" /\ sRunning /\ Expired(k)
    /\ overThis(k)
    /\ UNCHANGED <<sDogVars, sinceRecv, waitS, c2s, s2c, peer, rst, cRunning,
                   cSock, sendVars, recvVars>>

\* in.available() > 0: the constructor of ObjectInputStream reads a header.
SaHeader(k) ==
    /\ spc[k] = "loop" /\ sRunning /\ ~Expired(k) /\ c2s[k] # <<>>
    /\ c2s' = [c2s EXCEPT ![k] = Tail(c2s[k])]
    /\ IF Head(c2s[k]) = "H"
       THEN spc' = [spc EXCEPT ![k] = "obj"] /\ UNCHANGED sOpen
       ELSE overThis(k)
    /\ UNCHANGED <<sDogVars, sinceRecv, waitS, s2c, peer, rst, cRunning, cSock,
                   sendVars, recvVars>>

\* readObject() returns, or finds the stream corrupted or at its end.  There
\* is no read timeout: with nothing to read and no FIN the thread stays here.
SaObj(k) ==
    /\ spc[k] = "obj"
    /\ \/ /\ c2s[k] # <<>> /\ Head(c2s[k]) = "O"
          /\ c2s' = [c2s EXCEPT ![k] = Tail(c2s[k])]
          /\ sinceRecv' = [sinceRecv EXCEPT ![k] = 0]
          /\ waitS' = [waitS EXCEPT ![k] = 0]
          /\ spc' = [spc EXCEPT ![k] = "out"] /\ UNCHANGED sOpen
       \/ /\ \/ c2s[k] # <<>> /\ Head(c2s[k]) = "H"
             \/ c2s[k] = <<>> /\ peer[k] = "fin"
          /\ overThis(k) /\ UNCHANGED <<c2s, sinceRecv, waitS>>
    /\ UNCHANGED <<sDogVars, s2c, peer, rst, cRunning, cSock, sendVars,
                   recvVars>>

\* The reply: its header, then the object.  A write blocks on a full buffer.
\* It may fail once the client is gone, and then it never blocks for good.
ReplyWithoutHeader(k) == "O"       \* mutant of ReplyToken: one stream is reused
ReplyToken(k) == IF spc[k] = "out" THEN "H" ELSE "O"

SaReply(k) ==
    /\ \/ /\ spc[k] \in {"out", "outObj"} /\ Len(s2c[k]) < SockBuf
          /\ s2c' = [s2c EXCEPT ![k] = Append(@, ReplyToken(k))]
          /\ spc' = [spc EXCEPT ![k] = IF @ = "out" THEN "outObj" ELSE "loop"]
          /\ UNCHANGED sOpen
       \/ /\ spc[k] \in {"out", "outObj"} /\ peer[k] # "up"
          /\ overThis(k) /\ UNCHANGED s2c
    /\ UNCHANGED <<sDogVars, sinceRecv, waitS, c2s, peer, rst, cRunning, cSock,
                   sendVars, recvVars>>

\* The server process ends: the kernel closes every socket it had.
ServerExit ==
    /\ wpc # "exited"
    /\ sRunning' = FALSE /\ wpc' = "exited" /\ wKill' = FALSE /\ wConn' = 0
    /\ zombie' = FALSE /\ ss' = FALSE /\ backlog' = <<>>
    /\ spc' = [k \in Conn |-> "done"]
    /\ sOpen' = [k \in Conn |-> FALSE]
    /\ UNCHANGED <<sStarts, sinceRecv, waitS, c2s, s2c, peer, rst, cRunning,
                   cSock, sendVars, recvVars>>

-----------------------------------------------------------------------------
(* Client.start, Client.stop and the end of the client's process.           *)

Quiet == /\ \A d \in Sender : kpc[d] \in {"none", "done"}
         /\ \A d \in Conn : rpc[d] \in {"none", "done"}

CStart ==
    /\ ~cRunning /\ cSock < MaxConns
    /\ ss /\ Len(backlog) < Backlog
    /\ Exclusive => Quiet
    /\ cSock' = cSock + 1 /\ cRunning' = TRUE /\ sinceSend' = 0
    /\ backlog' = Append(backlog, cSock + 1)
    /\ sOpen' = [sOpen EXCEPT ![cSock + 1] = TRUE]
    /\ kpc' = [kpc EXCEPT ![cSock + 1] = "loop"]
    /\ rpc' = [rpc EXCEPT ![cSock + 1] = "loop"]
    /\ UNCHANGED <<sRunning, sStarts, wpc, wKill, wConn, zombie, ss, saVars,
                   c2s, s2c, peer, rst, kSock, rSock>>

CStop ==                          \* neither closes the socket nor joins a dog
    /\ cRunning /\ cRunning' = FALSE
    /\ UNCHANGED <<sDogVars, saVars, netVars, cSock, sendVars, recvVars>>

\* The process ends, whatever its threads are doing.  Its kernel closes all
\* of its sockets: with a FIN, or, where replies were left unread, with a
\* reset that discards what the server has not read; or the host is gone
\* and nobody says anything.
ClientExit(how) ==
    /\ \E k \in Conn : k <= cSock /\ peer[k] = "up"
    /\ cRunning' = FALSE
    /\ peer' = [k \in Conn |->
                  IF k <= cSock /\ peer[k] = "up"
                  THEN IF how = "silent" THEN "silent" ELSE "fin"
                  ELSE peer[k]]
    /\ c2s' = [k \in Conn |->
                  IF how = "rst" /\ peer[k] = "up" /\ s2c[k] # <<>>
                  THEN <<>> ELSE c2s[k]]
    /\ kpc' = [d \in Sender |-> IF d = App THEN "none"
                                ELSE IF kpc[d] = "none" THEN "none" ELSE "done"]
    /\ rpc' = [d \in Conn |-> IF rpc[d] = "none" THEN "none" ELSE "done"]
    /\ UNCHANGED <<sDogVars, saVars, sOpen, s2c, rst, cSock, sinceSend, kSock,
                   rSock>>

-----------------------------------------------------------------------------
(* Client.sendObject: two writes on the socket that was the client's when   *)
(* the call began.  A write to a connection whose server end is gone may    *)
(* still be taken by the kernel; the answer to it is a reset, after which   *)
(* every write fails.                                                       *)

CanOverfill(k) ==                 \* mutant of CanWrite: <= for <
    IF sOpen[k] THEN Len(c2s[k]) <= SockBuf ELSE ~rst[k]
CanWrite(k) == IF sOpen[k] THEN Len(c2s[k]) < SockBuf ELSE ~rst[k]

Write(k, t) ==
    /\ CanWrite(k)
    /\ c2s' = IF sOpen[k] THEN [c2s EXCEPT ![k] = Append(@, t)] ELSE c2s
    /\ rst' = [rst EXCEPT ![k] = ~sOpen[k]]

WriteFails(k) == ~sOpen[k] /\ UNCHANGED <<c2s, rst>>

\* KeepAliveWatchDog d, or the application for d = App.
SendHeader(d) ==
    /\ IF d = App THEN kpc[d] = "none" /\ cSock # 0 /\ ~Exclusive
                  ELSE kpc[d] = "loop" /\ cRunning /\ sinceSend > KeepAliveDelay
    /\ peer[cSock] = "up"
    /\ kSock' = [kSock EXCEPT ![d] = cSock]
    /\ Write(cSock, "H")
    /\ kpc' = [kpc EXCEPT ![d] = "obj"]
    /\ UNCHANGED <<sDogVars, saVars, sOpen, s2c, peer, cRunning, cSock,
                   sinceSend, recvVars>>

SendBody(d) ==
    /\ kpc[d] = "obj"
    /\ Write(kSock[d], "O")
    /\ kpc' = [kpc EXCEPT ![d] = IF d = App THEN "none" ELSE "stamp"]
    /\ UNCHANGED <<sDogVars, saVars, sOpen, s2c, peer, cRunning, cSock,
                   sinceSend, kSock, recvVars>>

\* Either write throws.  The dog stops the client, the application goes on.
FailureIgnored(d) == cRunning     \* mutant of RunningAfterFailure: no stop()
RunningAfterFailure(d) == cRunning /\ d = App

SendFails(d) ==
    /\ \/ kpc[d] = "obj" /\ WriteFails(kSock[d])
       \/ d # App /\ kpc[d] = "loop" /\ cRunning /\ sinceSend > KeepAliveDelay
          /\ WriteFails(cSock)
    /\ cRunning' = RunningAfterFailure(d)
    /\ kpc' = [kpc EXCEPT ![d] = IF d = App THEN "none" ELSE "stamp"]
    /\ UNCHANGED <<sDogVars, saVars, sOpen, s2c, peer, cSock, sinceSend,
                   kSock, recvVars>>

KaStamp(d) ==                     \* lastSendTime = System.currentTimeMillis()
    /\ kpc[d] = "stamp"
    /\ sinceSend' = 0
    /\ kpc' = [kpc EXCEPT ![d] = "loop"]
    /\ UNCHANGED <<sDogVars, saVars, netVars, cRunning, cSock, kSock, recvVars>>

KaExit(d) ==
    /\ kpc[d] = "loop" /\ ~cRunning
    /\ kpc' = [kpc EXCEPT ![d] = "done"]
    /\ UNCHANGED <<sDogVars, saVars, netVars, cRunning, cSock, sinceSend, kSock,
                   recvVars>>

-----------------------------------------------------------------------------
(* ReceiveWatchDog d.  available() is 0 on a connection the server closed,  *)
(* so only a read in the middle of an object sees the end of the stream.    *)

RxHeader(d) ==
    /\ rpc[d] = "loop" /\ cRunning /\ s2c[cSock] # <<>>
    /\ rSock' = [rSock EXCEPT ![d] = cSock]
    /\ s2c' = [s2c EXCEPT ![cSock] = Tail(@)]
    /\ IF Head(s2c[cSock]) = "H"
       THEN rpc' = [rpc EXCEPT ![d] = "obj"] /\ UNCHANGED cRunning
       ELSE cRunning' = FALSE /\ UNCHANGED rpc
    /\ UNCHANGED <<sDogVars, saVars, sOpen, c2s, peer, rst, cSock, sendVars>>

RxObj(d) ==
    /\ rpc[d] = "obj"
    /\ \/ /\ s2c[rSock[d]] # <<>>
          /\ s2c' = [s2c EXCEPT ![rSock[d]] = Tail(@)]
          /\ cRunning' = (cRunning /\ Head(s2c[rSock[d]]) = "O")
       \/ /\ s2c[rSock[d]] = <<>> /\ ~sOpen[rSock[d]]
          /\ cRunning' = FALSE /\ UNCHANGED s2c
    /\ rpc' = [rpc EXCEPT ![d] = "loop"]
    /\ UNCHANGED <<sDogVars, saVars, sOpen, c2s, peer, rst, cSock, sendVars,
                   rSock>>

RxExit(d) ==
    /\ rpc[d] = "loop" /\ ~cRunning
    /\ rpc' = [rpc EXCEPT ![d] = "done"]
    /\ UNCHANGED <<sDogVars, saVars, netVars, cRunning, cSock, sendVars, rSock>>

-----------------------------------------------------------------------------
(* Time.                                                                    *)

Serving(k)   == spc[k] \notin {"none", "done"}
HasObject(s) == \E i \in 1 .. Len(s) : s[i] = "O"
Older(age, cap) == IF age < cap THEN age + 1 ELSE age

Tick ==
    /\ sinceSend' = IF cRunning THEN Older(sinceSend, SendCap) ELSE sinceSend
    /\ sinceRecv' = [k \in Conn |-> IF Serving(k)
                                    THEN Older(sinceRecv[k], RecvCap)
                                    ELSE sinceRecv[k]]
    /\ waitS' = [k \in Conn |-> IF Serving(k) /\ HasObject(c2s[k])
                                THEN Older(waitS[k], Lag) ELSE 0]
    /\ UNCHANGED <<sDogVars, spc, netVars, cRunning, cSock, kpc, kSock,
                   recvVars>>

\* Nobody is late: a heartbeat is at most Lag ticks overdue, and an object
\* that reached the server of a running client waits at most Lag ticks.
Live(k)  == cRunning /\ cSock = k /\ Serving(k)
Punctual ==
    \A k \in Conn : Live(k) => /\ sinceSend < SendCap
                               /\ HasObject(c2s[k]) => waitS[k] < Lag

ServerDog == BindOk \/ BindFail \/ Accept \/ Serve \/ DogDies \/ AcceptAndDie
SocketAction(k) == SaExit(k) \/ SaTimeout(k) \/ SaHeader(k) \/ SaObj(k)
                   \/ SaReply(k)
KeepAliveWatchDog(d) == SendHeader(d) \/ SendBody(d) \/ SendFails(d)
                        \/ KaStamp(d) \/ KaExit(d)
ReceiveWatchDog(d) == RxHeader(d) \/ RxObj(d) \/ RxExit(d)

Step ==
    \/ SStart \/ SStop \/ ServerDog \/ ServerExit
    \/ \E k \in Conn : SocketAction(k)
    \/ CStart \/ CStop \/ \E how \in {"fin", "rst", "silent"} : ClientExit(how)
    \/ \E d \in Sender : KeepAliveWatchDog(d)
    \/ \E d \in Conn : ReceiveWatchDog(d)

Next == Step \/ Tick
PunctualNext == Step \/ (Punctual /\ Tick)

\* The JVM schedules every runnable thread, and time passes.  Nothing obliges
\* the application to call start() or stop(), or a process to end.
Fairness ==
    /\ WF_vars(ServerDog) /\ WF_vars(Tick)
    /\ \A k \in Conn : WF_vars(SocketAction(k))
    /\ \A d \in Conn : WF_vars(KeepAliveWatchDog(d))
    /\ WF_vars(SendBody(App) \/ SendFails(App))
    /\ \A d \in Conn : WF_vars(ReceiveWatchDog(d))

Spec         == Init /\ [][Next]_vars
FairSpec     == Spec /\ Fairness
PunctualSpec == Init /\ [][PunctualNext]_vars

-----------------------------------------------------------------------------
(* Properties.                                                              *)

FlagTypes ==
    /\ sRunning \in BOOLEAN /\ wKill \in BOOLEAN /\ zombie \in BOOLEAN
    /\ ss \in BOOLEAN /\ cRunning \in BOOLEAN
DogTypes ==
    /\ sStarts \in 0 .. MaxServerStarts
    /\ wpc \in {"none", "bind", "accept", "got", "dead", "exited"}
    /\ wConn \in Sender /\ (wpc = "got" => wConn \in Conn)
QueueTypes == backlog \in Seq(Conn) /\ Len(backlog) <= Backlog
SaTypes ==
    /\ spc \in [Conn -> {"none", "loop", "obj", "out", "outObj", "done"}]
    /\ sinceRecv \in [Conn -> 0 .. RecvCap] /\ waitS \in [Conn -> 0 .. Lag]
EndTypes ==
    /\ sOpen \in [Conn -> BOOLEAN] /\ rst \in [Conn -> BOOLEAN]
    /\ peer \in [Conn -> {"up", "fin", "silent"}]
StreamTypes ==
    /\ c2s \in [Conn -> Seq(Token)] /\ s2c \in [Conn -> Seq(Token)]
    /\ \A k \in Conn : Len(c2s[k]) <= SockBuf /\ Len(s2c[k]) <= SockBuf
ClientTypes ==
    /\ cSock \in Sender /\ sinceSend \in 0 .. SendCap
    /\ kpc \in [Sender -> {"none", "loop", "obj", "stamp", "done"}]
    /\ kSock \in [Sender -> Sender]
    /\ rpc \in [Conn -> {"none", "loop", "obj", "done"}]
    /\ rSock \in [Conn -> Sender]

\* Every field, thread and stream holds a value of its kind, and no buffer
\* holds more than the kernel gives it (writes block on a full buffer).
TypeOK == /\ FlagTypes /\ DogTypes /\ QueueTypes /\ SaTypes /\ EndTypes
          /\ StreamTypes /\ ClientTypes

\* The promise of the heartbeat: while the client runs and the processes of
\* both sides are alive, the server does not close their connection, neither
\* by the receive timeout nor because it cannot read the stream.
\* It holds for a client whose dog alone sends (Exclusive), with threads no
\* more than Lag late and the margin KeepAliveDelay + 1 + 3 * Lag <=
\* ReceiveTimeDelay (2000 ms and 3000 ms in the code).
LiveClientKept ==
    \A k \in Conn : cRunning /\ cSock = k /\ wpc # "exited" => sOpen[k]

\* Every read that starts an object finds a header and every read inside one
\* finds its body, in both directions and across client restarts: neither
\* ObjectInputStream ever meets a stream two writers have mixed.
Framed ==
    \A k \in Conn :
        /\ Serving(k) /\ c2s[k] # <<>> =>
               Head(c2s[k]) = IF spc[k] = "obj" THEN "O" ELSE "H"
        /\ \A d \in Conn : s2c[k] # <<>> =>
               /\ rpc[d] = "obj" /\ rSock[d] = k => Head(s2c[k]) = "O"
               /\ rpc[d] = "loop" /\ cRunning /\ cSock = k => Head(s2c[k]) = "H"

\* A client whose process ended is let go: its SocketAction ends.
ClosedClientReleased ==
    \A k \in Conn : (peer[k] = "fin") ~> ~Serving(k)

\* A client whose host vanished is let go as well, unless it vanished between
\* a header and its object: that read has no timeout.
SilentClientReleased ==
    \A k \in Conn : (peer[k] = "silent") ~>
        (~Serving(k) \/ (spc[k] = "obj" /\ c2s[k] = <<>>))

\* A client whose connection the server closed finds out and stops, although
\* its ReceiveWatchDog never sees the end of the stream: heartbeats fail.
ServerCloseNoticed ==
    \A k \in Conn : (cRunning /\ cSock = k /\ ~sOpen[k]) ~> ~cRunning

\* Server.stop() is for good: the listening socket is never closed, so after
\* a start() the new dog cannot bind and no later connection is ever served.
StoppedForGood ==
    \A k \in Conn :
        []((ss /\ ~sRunning /\ wpc # "got" /\ ~Serving(k)) => []~Serving(k))
=============================================================================
