------------------------------ MODULE EchoTCP ------------------------------
(***************************************************************************)
(* TCPEchoServer and TCPEchoClient of src/c/socket, with the kernel's      *)
(* accept queue and the two byte streams of every connection.              *)
(*                                                                         *)
(* A stream is a FIFO, so byte counts determine its contents: byte i of    *)
(* what the server sends is byte i of "this server:" (Banner bytes) and    *)
(* after that byte i - Banner of what it has read.  send() blocks until    *)
(* the kernel has taken every byte; recv() returns any number of the bytes *)
(* that are there, up to its buffer.                                       *)
(***************************************************************************)
EXTENDS Naturals, Sequences

CONSTANTS Clients,     \* TCPEchoClient processes
          StrLen,      \* strlen(echoString)
          Banner,      \* bytes of "this server:" with its terminator
          BUFSIZE,     \* of Practical.h
          Cap,         \* bytes the kernel holds in each direction
          MAXPENDING,  \* argument of listen()
          NoClient     \* no client

ASSUME EchoAssumption ==
    /\ StrLen \in Nat /\ Banner \in Nat /\ BUFSIZE \in Nat \ {0, 1}
    /\ NoClient \notin Clients /\ Cap \in Nat \ {0} /\ MAXPENDING \in Nat \ {0}

Over == {"exit", "killed"}      \* the server's process has ended

VARIABLES
    spc,     \* where the server is
    cur,     \* the client it handles
    owed,    \* bytes of the banner not sent yet
    held,    \* bytes in buffer not echoed yet
    read,    \* bytes received from each client
    queue,   \* connections not accepted yet
    cpc,     \* where each client is
    togo,    \* bytes of echoString not sent yet
    got,     \* totalBytesRcvd
    up,      \* bytes under way from each client
    down,    \* bytes under way to each client
    sEnd,    \* the server's end of the connection
    rst      \* the server's kernel was told that the client is gone

server == <<spc, cur, owed, held, read, queue>>
client == <<cpc, togo, got>>
net    == <<up, down, sEnd, rst>>
vars   == <<server, client, net>>

Gone(c) == cpc[c] \in {"done", "died"}

Init ==
    /\ spc = "setup" /\ cur = NoClient /\ owed = 0 /\ held = 0 /\ queue = <<>>
    /\ read = [c \in Clients |-> 0]
    /\ cpc = [c \in Clients |-> "new"] /\ togo = [c \in Clients |-> StrLen]
    /\ got = [c \in Clients |-> 0]
    /\ up = [c \in Clients |-> 0] /\ down = [c \in Clients |-> 0]
    /\ sEnd = [c \in Clients |-> "none"] /\ rst = [c \in Clients |-> FALSE]

Least(a, b) == IF a < b THEN a ELSE b

-----------------------------------------------------------------------------
(* The client's main().                                                     *)

SetupTCPClientSocket(c) ==
    /\ cpc[c] = "new"
    /\ \/ /\ spc \notin {"setup"} \cup Over /\ Len(queue) < MAXPENDING
          /\ queue' = Append(queue, c)
          /\ sEnd' = [sEnd EXCEPT ![c] = "open"]
          /\ cpc' = [cpc EXCEPT ![c] = "send"]
       \/ /\ spc \in {"setup"} \cup Over          \* connection refused
          /\ cpc' = [cpc EXCEPT ![c] = "died"] /\ UNCHANGED <<queue, sEnd>>
    /\ UNCHANGED <<spc, cur, owed, held, read, togo, got, up, down, rst>>

\* The kernel takes n bytes of the string; what a server that is gone would
\* have received is lost.
ClientSend(c, n) ==
    /\ cpc[c] = "send" /\ n \in 1 .. togo[c]
    /\ togo' = [togo EXCEPT ![c] = @ - n]
    /\ IF sEnd[c] = "open"
       THEN n <= Cap - up[c] /\ up' = [up EXCEPT ![c] = @ + n]
       ELSE UNCHANGED up
    /\ UNCHANGED <<server, cpc, got, down, sEnd, rst>>

ClientSent(c) ==
    /\ cpc[c] = "send" /\ togo[c] = 0
    /\ cpc' = [cpc EXCEPT ![c] = "recv"]
    /\ UNCHANGED <<server, togo, got, net>>

OneShort(c)   == got[c] + 1 < StrLen           \* mutant: stops a byte early
OneTooMany(c) == got[c] <= StrLen + Banner    \* mutant: waits for one more
WantsMore(c)  == got[c] < StrLen

\* while (totalBytesRcvd < echoStringLen): up to BUFSIZE - 1 bytes a time.
ClientRecv(c, n) ==
    /\ cpc[c] = "recv" /\ WantsMore(c)
    /\ n \in 1 .. Least(down[c], BUFSIZE - 1)
    /\ got' = [got EXCEPT ![c] = @ + n] /\ down' = [down EXCEPT ![c] = @ - n]
    /\ UNCHANGED <<server, cpc, togo, up, sEnd, rst>>

\* The end of the process closes its socket; bytes nobody read make the
\* kernel send a reset.
Leave(c, how) ==
    /\ cpc' = [cpc EXCEPT ![c] = how]
    /\ rst' = [rst EXCEPT ![c] = down[c] > 0]
    /\ down' = [down EXCEPT ![c] = 0]

\* send() or recv() fails, or recv() returns 0.
ClientDies(c) ==
    /\ sEnd[c] = "closed"
    /\ \/ cpc[c] = "send"
       \/ cpc[c] = "recv" /\ WantsMore(c) /\ (down[c] = 0 \/ up[c] > 0)
    /\ Leave(c, "died")
    /\ UNCHANGED <<server, togo, got, up, sEnd>>

ClientDone(c) ==
    /\ cpc[c] = "recv" /\ ~WantsMore(c)
    /\ Leave(c, "done")
    /\ UNCHANGED <<server, togo, got, up, sEnd>>

-----------------------------------------------------------------------------
(* The server's main() and HandleTCPClient().                               *)

SetupTCPServerSocket ==             \* no address can be bound: exit
    /\ spc = "setup" /\ spc' \in {"accept", "exit"}
    /\ UNCHANGED <<cur, owed, held, read, queue, client, net>>

AcceptTCPConnection ==
    /\ spc = "accept" /\ queue # <<>>
    /\ cur' = Head(queue) /\ queue' = Tail(queue) /\ spc' = "first"
    /\ UNCHANGED <<owed, held, read, client, net>>

WholeBuffer(n)  == BUFSIZE                    \* mutant: send(buffer, BUFSIZE)
numBytesRcvd(n) == n

\* recv(): before the banner (spc = "first") and then after every echo.  A
\* reset does not take away bytes that have arrived.
ServerRecv(n) ==
    /\ spc \in {"first", "recv"} /\ n \in 1 .. Least(up[cur], BUFSIZE)
    /\ up' = [up EXCEPT ![cur] = @ - n] /\ read' = [read EXCEPT ![cur] = @ + n]
    /\ held' = numBytesRcvd(n)
    /\ IF spc = "first" THEN spc' = "banner" /\ owed' = Banner
                        ELSE spc' = "echo" /\ UNCHANGED owed
    /\ UNCHANGED <<cur, queue, client, down, sEnd, rst>>

NothingThere == up[cur] = 0 /\ ~rst[cur]      \* mutant: recv does not block
EndOfStream  == up[cur] = 0 /\ ~rst[cur] /\ Gone(cur)

\* recv() returns 0: the banner is sent even if nothing was received.
ServerEof ==
    /\ spc \in {"first", "recv"} /\ EndOfStream
    /\ held' = 0
    /\ IF spc = "first" THEN spc' = "banner" /\ owed' = Banner
                        ELSE spc' = "close" /\ UNCHANGED owed
    /\ UNCHANGED <<cur, read, queue, client, net>>

\* The kernel takes n bytes.  Those for a client that is gone are answered
\* with a reset.
Fits(n) == n <= Cap - down[cur]

Push(n) ==
    \/ ~Gone(cur) /\ Fits(n) /\ down' = [down EXCEPT ![cur] = @ + n] /\ UNCHANGED rst
    \/ Gone(cur) /\ ~rst[cur] /\ rst' = [rst EXCEPT ![cur] = TRUE] /\ UNCHANGED down

SendBanner(n) ==
    /\ spc = "banner" /\ n \in 1 .. owed /\ Push(n)
    /\ owed' = owed - n
    /\ UNCHANGED <<spc, cur, held, read, queue, client, up, sEnd>>

\* The banner is out; or its send() failed, which nobody looks at.
BannerDone ==
    /\ spc = "banner" /\ (owed = 0 \/ rst[cur])
    /\ spc' = (IF held > 0 THEN "echo" ELSE "close") /\ owed' = 0
    /\ UNCHANGED <<cur, held, read, queue, client, net>>

SendEcho(n) ==
    /\ spc = "echo" /\ n \in 1 .. held /\ Push(n)
    /\ held' = held - n
    /\ UNCHANGED <<spc, cur, owed, read, queue, client, up, sEnd>>

EchoDone ==
    /\ spc = "echo" /\ held = 0 /\ spc' = "recv"
    /\ UNCHANGED <<cur, owed, held, read, queue, client, net>>

\* Every socket of the process is closed, accepted or not.
Exit(how) ==
    /\ spc' = how /\ queue' = <<>>
    /\ sEnd' = [c \in Clients |-> IF sEnd[c] = "none" THEN "none" ELSE "closed"]
    /\ UNCHANGED <<cur, owed, held, read, client, up, down, rst>>

\* One client, then `break`.
ServerExit == spc = "close" /\ Exit("exit")

\* A call on a reset connection fails, with SIGPIPE or DieWithSystemMessage.
ServerDies ==
    /\ spc \in {"first", "recv", "banner", "echo"} /\ rst[cur]
    /\ spc \in {"first", "recv"} => up[cur] = 0
    /\ Exit("exit")

\* Somebody kills the server.
Killed == spc \notin {"setup"} \cup Over /\ Exit("killed")

-----------------------------------------------------------------------------
Client(c) ==
    \/ (\E n \in 1 .. StrLen : ClientSend(c, n)) \/ (\E n \in 1 .. BUFSIZE : ClientRecv(c, n))
    \/ ClientSent(c) \/ ClientDies(c) \/ ClientDone(c)

Server ==
    \/ SetupTCPServerSocket \/ AcceptTCPConnection \/ ServerEof
    \/ \E n \in 1 .. BUFSIZE : ServerRecv(n) \/ SendEcho(n)
    \/ \E n \in 1 .. Banner : SendBanner(n)
    \/ BannerDone \/ EchoDone \/ ServerExit \/ ServerDies

Next == Server \/ Killed
        \/ \E c \in Clients : SetupTCPClientSocket(c) \/ Client(c)

Spec     == Init /\ [][Next]_vars
FairSpec == Spec /\ WF_vars(Server) /\ \A c \in Clients : WF_vars(Client(c))

-----------------------------------------------------------------------------
(* Properties.                                                              *)

\* The type invariant: neither direction holds more than the kernel takes,
\* and the server's buffer never holds more than BUFSIZE bytes.
TypeOK ==
    /\ spc \in {"setup", "accept", "first", "banner", "echo", "recv", "close", "exit", "killed"}
    /\ cur \in Clients \cup {NoClient} /\ owed \in 0 .. Banner /\ held \in 0 .. BUFSIZE
    /\ read \in [Clients -> 0 .. StrLen] /\ queue \in Seq(Clients)
    /\ cpc \in [Clients -> {"new", "send", "recv", "done", "died"}]
    /\ togo \in [Clients -> 0 .. StrLen] /\ got \in [Clients -> Nat]
    /\ up \in [Clients -> 0 .. Cap] /\ down \in [Clients -> 0 .. Cap]
    /\ sEnd \in [Clients -> {"none", "open", "closed"}]
    /\ rst \in [Clients -> BOOLEAN]

\* No byte is lost, repeated or made up while both ends are there: what the
\* client sent is read or under way, and what the server read, after the
\* banner, is received, under way or still in its buffer (lines 82-95).
Conserved ==
    \A c \in Clients : sEnd[c] = "open" /\ ~Gone(c) =>
        /\ read[c] + up[c] + togo[c] = StrLen
        /\ read[c] > 0 => Banner + read[c] = got[c] + down[c] + held + owed

\* A client that ends well has read its string's length in bytes, at most
\* one buffer more, and nothing that the server did not send: at least
\* StrLen - Banner bytes of its string were echoed by then.  The server (unless
\* it is killed) outlives the client it handles, which therefore never sees its
\* connection closed prematurely (client, lines 45-46).
DoneMeansEchoed ==
    /\ \A c \in Clients : cpc[c] = "done" =>
          /\ got[c] >= StrLen /\ got[c] < StrLen + BUFSIZE
          /\ StrLen > 0 => got[c] <= Banner + read[c]
    /\ spc = "exit" /\ cur # NoClient => Gone(cur)

\* Every client that got a connection ends, the ones left in the queue too:
\* although neither process reads while it sends, they never wait for each
\* other for ever, provided a string fits in what the kernel holds.
EveryClientEnds ==
    \A c \in Clients : (sEnd[c] # "none") ~> Gone(c)

\* What the client's main() says: it receives the same string back.
SameStringBack ==
    \A c \in Clients : cpc[c] = "done" => got[c] >= Banner + StrLen
=============================================================================
