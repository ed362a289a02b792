---------------------------- MODULE EchoTCPProofs ----------------------------
(***************************************************************************)
(* The echo server and its clients conserve every byte, for any number of  *)
(* clients and any lengths of string, banner, buffers and accept queue.    *)
(***************************************************************************)
EXTENDS EchoTCP, TLAPS

-----------------------------------------------------------------------------
(* The inductive invariant.                                                 *)

Handling == {"first", "banner", "echo", "recv", "close"}

\* The server handles one client, whose connection is open; those in the accept
\* queue are open too; nothing is open before listen() and after the end.
Connected ==
    /\ spc \in {"setup", "accept"} => cur = NoClient
    /\ spc \in Handling => cur \in Clients /\ sEnd[cur] = "open"
    /\ \A i \in 1 .. Len(queue) : sEnd[queue[i]] = "open"
    /\ spc \in {"setup"} \cup Over => \A c \in Clients : sEnd[c] # "open"
    /\ \A c \in Clients : /\ sEnd[c] = "none" => cpc[c] \in {"new", "died"}
                          /\ cpc[c] = "new" => sEnd[c] = "none"

\* A client that was not read from yet was sent nothing.
Untouched ==
    \A c \in Clients : c # cur \/ spc = "first" => read[c] = 0 /\ got[c] = 0 /\ down[c] = 0

\* What a client sent is read, under way, or lost with the server.
Upward ==
    \A c \in Clients : /\ read[c] + up[c] + togo[c] <= StrLen
                       /\ sEnd[c] # "closed" => read[c] + up[c] + togo[c] = StrLen

\* What the server has in its buffer is what the client lacks; only after a
\* client that has ended does the server stop.
Downward ==
    /\ spc \in Handling \ {"first"} /\ ~Gone(cur) =>
           read[cur] > 0 /\ Banner + read[cur] = got[cur] + down[cur] + held + owed
    /\ spc = "banner" /\ ~Gone(cur) => held > 0
    /\ spc \in {"echo", "recv"} => owed = 0
    /\ spc = "recv" => held = 0
    /\ spc = "close" => Gone(cur)
    /\ spc = "exit" /\ cur # NoClient => Gone(cur)
    /\ \A c \in Clients : rst[c] => Gone(c)

\* What a client has read.
Received ==
    \A c \in Clients : /\ got[c] + down[c] <= Banner + read[c]
                       /\ got[c] < StrLen + BUFSIZE
                       /\ cpc[c] = "done" => got[c] >= StrLen

EchoInv == TypeOK /\ Connected /\ Untouched /\ Upward /\ Downward /\ Received

-----------------------------------------------------------------------------

\* Nothing has happened: no client is connected and nothing is owed.
LEMMA EchoInit == Init => EchoInv
<1> SUFFICES ASSUME Init PROVE EchoInv OBVIOUS
<1> USE EchoAssumption DEF Init, Gone, Handling, Over
<1>1. TypeOK
  BY DEF TypeOK
<1>2. Connected /\ Untouched /\ Upward
  BY DEF Connected, Untouched, Upward
<1>3. Downward /\ Received
  BY DEF Downward, Received
<1> QED BY <1>1, <1>2, <1>3 DEF EchoInv

\* The steps of Next, one disjunct each.
LEMMA Steps ==
    ASSUME [Next]_vars
    PROVE  \/ SetupTCPServerSocket \/ AcceptTCPConnection \/ ServerEof \/ BannerDone \/ EchoDone
           \/ ServerExit \/ ServerDies \/ Killed
           \/ \E n \in 1 .. BUFSIZE : ServerRecv(n) \/ SendEcho(n)
           \/ \E n \in 1 .. Banner : SendBanner(n)
           \/ \E c \in Clients : \/ SetupTCPClientSocket(c) \/ ClientSent(c) \/ ClientDies(c) \/ ClientDone(c)
                                 \/ \E n \in 1 .. StrLen : ClientSend(c, n)
                                 \/ \E n \in 1 .. BUFSIZE : ClientRecv(c, n)
           \/ UNCHANGED vars
BY DEF Next, Server, Client

-----------------------------------------------------------------------------
(* The clients.                                                             *)

\* connect(): the connection is queued, or it is refused.
LEMMA ConnectKeeps ==
    ASSUME EchoInv, NEW c \in Clients, SetupTCPClientSocket(c)
    PROVE  EchoInv'
<1> USE DEF EchoInv
<1>1. CASE /\ spc \notin {"setup"} \cup Over /\ queue' = Append(queue, c)
           /\ sEnd' = [sEnd EXCEPT ![c] = "open"] /\ cpc' = [cpc EXCEPT ![c] = "send"]
  <2>1. UNCHANGED <<spc, cur, owed, held, read, togo, got, up, down, rst>> /\ cpc[c] = "new"
    BY DEF SetupTCPClientSocket
  <2>2. queue \in Seq(Clients) /\ Append(queue, c) \in Seq(Clients)
    BY DEF TypeOK
  <2>3. TypeOK'
    BY <1>1, <2>1, <2>2 DEF TypeOK
  <2>4. /\ \A d \in Clients : sEnd'[d] = (IF d = c THEN "open" ELSE sEnd[d])
        /\ \A d \in Clients : cpc'[d] = (IF d = c THEN "send" ELSE cpc[d])
    BY <1>1 DEF TypeOK
  <2>5. \A i \in 1 .. Len(queue') : queue'[i] = c \/ \E j \in 1 .. Len(queue) : queue'[i] = queue[j]
    BY <1>1, <2>2
  <2>6. \A i \in 1 .. Len(queue') : sEnd'[queue'[i]] = "open"
    <3>1. \A j \in 1 .. Len(queue) : queue[j] \in Clients /\ sEnd[queue[j]] = "open"
      BY <2>2 DEF Connected
    <3> QED BY <2>4, <2>5, <3>1
  <2>7. sEnd[c] = "none"
    BY <2>1 DEF Connected
  <2>8. Connected'
    BY <1>1, <2>1, <2>4, <2>6, <2>7 DEF Connected, Handling
  <2>9. Untouched' /\ Upward'
    BY <2>1, <2>4, <2>7 DEF Untouched, Upward
  <2>10. Downward'
    <3>1. spc \in Handling => c # cur
      BY <2>7 DEF Connected
    <3>2. spc # "exit" /\ cur \in Clients \cup {NoClient}
      BY <1>1 DEF Over, TypeOK
    <3>3. \A d \in Clients : rst'[d] => Gone(d)'
      BY <2>1, <2>4 DEF Downward, Gone
    <3>4. spc \in Handling => cur \in Clients /\ cpc'[cur] = cpc[cur]
      BY <2>4, <3>1 DEF Connected
    <3> QED BY <2>1, <3>2, <3>3, <3>4 DEF Downward, Gone, Handling
  <2>11. Received'
    BY <2>1, <2>4 DEF Received
  <2> QED BY <2>3, <2>8, <2>9, <2>10, <2>11
<1>2. CASE cpc' = [cpc EXCEPT ![c] = "died"] /\ UNCHANGED <<queue, sEnd>>
  <2>1. UNCHANGED <<spc, cur, owed, held, read, togo, got, up, down, rst>> /\ cpc[c] = "new"
    BY DEF SetupTCPClientSocket
  <2>2. TypeOK'
    BY <1>2, <2>1 DEF TypeOK
  <2>3. \A d \in Clients : cpc'[d] = (IF d = c THEN "died" ELSE cpc[d])
    BY <1>2 DEF TypeOK
  <2>4. Connected' /\ Untouched' /\ Upward'
    BY <1>2, <2>1, <2>3 DEF Connected, Untouched, Upward
  <2>5. Downward'
    BY <1>2, <2>1, <2>3 DEF Downward, Gone
  <2>6. Received'
    BY <1>2, <2>1, <2>3 DEF Received
  <2> QED BY <2>2, <2>4, <2>5, <2>6
<1> QED BY <1>1, <1>2 DEF SetupTCPClientSocket

\* send() of the client: its bytes are under way, or lost with the server.
LEMMA ClientSendKeeps ==
    ASSUME EchoInv, NEW c \in Clients, NEW n \in 1 .. StrLen, ClientSend(c, n)
    PROVE  EchoInv'
<1> USE EchoAssumption DEF EchoInv
<1>1. UNCHANGED <<spc, cur, owed, held, read, queue, cpc, got, down, sEnd, rst>>
  BY DEF ClientSend, server
<1>2. /\ cpc[c] = "send" /\ n <= togo[c] /\ togo[c] \in 0 .. StrLen /\ up[c] \in 0 .. Cap
      /\ sEnd[c] = "open" => up[c] + n <= Cap
      /\ sEnd[c] # "none"
  <2>1. cpc[c] = "send" /\ n \in 1 .. togo[c]
    BY DEF ClientSend
  <2>2. togo[c] \in 0 .. StrLen /\ up[c] \in 0 .. Cap
    BY DEF TypeOK
  <2>3. sEnd[c] = "open" => n <= Cap - up[c]
    BY DEF ClientSend
  <2>4. sEnd[c] # "none"
    BY <2>1 DEF Connected
  <2> QED BY <2>1, <2>2, <2>3, <2>4
<1>3. /\ togo' = [togo EXCEPT ![c] = togo[c] - n]
      /\ sEnd[c] = "open" => up' = [up EXCEPT ![c] = up[c] + n]
      /\ sEnd[c] # "open" => up' = up
  BY DEF ClientSend
<1>4. togo[c] - n \in 0 .. StrLen /\ (sEnd[c] = "open" => up[c] + n \in 0 .. Cap)
  BY <1>2
<1>5. /\ \A d \in Clients : togo'[d] = IF d = c THEN togo[c] - n ELSE togo[d]
      /\ \A d \in Clients : up'[d] = IF d = c /\ sEnd[c] = "open" THEN up[c] + n ELSE up[d]
  BY <1>3 DEF TypeOK
<1>6. TypeOK'
  <2>1. togo' \in [Clients -> 0 .. StrLen]
    BY <1>3, <1>4 DEF TypeOK
  <2>2. up \in [Clients -> 0 .. Cap]
    BY DEF TypeOK
  <2>3. CASE sEnd[c] = "open"
    <3>1. up' = [up EXCEPT ![c] = up[c] + n] /\ up[c] + n \in 0 .. Cap
      BY <1>3, <1>4, <2>3
    <3>2. up' \in [Clients -> 0 .. Cap]
      BY <2>2, <3>1
    <3> QED BY <1>1, <2>1, <3>2 DEF TypeOK
  <2>4. CASE sEnd[c] # "open"
    BY <1>1, <1>3, <2>1, <2>4 DEF TypeOK
  <2> QED BY <2>3, <2>4
<1>7. Connected' /\ Untouched'
  BY <1>1 DEF Connected, Untouched
<1>8. Upward'
  <2> SUFFICES ASSUME NEW d \in Clients
               PROVE  /\ read[d] + up'[d] + togo'[d] <= StrLen
                      /\ sEnd[d] # "closed" => read[d] + up'[d] + togo'[d] = StrLen
    BY <1>1 DEF Upward
  <2>1. read[d] \in Nat /\ up[d] \in Nat /\ togo[d] \in Nat
    BY DEF TypeOK
  <2>2. CASE d # c
    BY <1>5, <2>2 DEF Upward
  <2>3. CASE d = c /\ sEnd[c] = "open"
    BY <1>5, <2>1, <2>3 DEF Upward
  <2>4. CASE d = c /\ sEnd[c] = "closed"
    BY <1>5, <2>1, <2>4 DEF Upward
  <2> QED BY <1>2, <2>2, <2>3, <2>4 DEF TypeOK
<1>9. Downward' /\ Received'
  BY <1>1 DEF Downward, Received, Gone
<1> QED BY <1>6, <1>7, <1>8, <1>9

\* The whole string is out: the client starts to receive.
LEMMA ClientSentKeeps ==
    ASSUME EchoInv, NEW c \in Clients, ClientSent(c)
    PROVE  EchoInv'
<1> USE DEF EchoInv
<1>1. UNCHANGED <<spc, cur, owed, held, read, queue, togo, got, up, down, sEnd, rst>>
  BY DEF ClientSent, server, net
<1>2. cpc[c] = "send" /\ cpc' = [cpc EXCEPT ![c] = "recv"]
  BY DEF ClientSent
<1>3. \A d \in Clients : cpc'[d] = IF d = c THEN "recv" ELSE cpc[d]
  BY <1>2 DEF TypeOK
<1>4. TypeOK'
  BY <1>1, <1>2 DEF TypeOK
<1>5. Connected'
  BY <1>1, <1>2, <1>3 DEF Connected
<1>6. Untouched' /\ Upward'
  BY <1>1 DEF Untouched, Upward
<1>7. Downward'
  <2>1. \A d \in Clients : Gone(d)' <=> Gone(d)
    BY <1>2, <1>3 DEF Gone
  <2>2. spc \in Handling => cur \in Clients
    BY DEF Connected
  <2>3. cur # NoClient => cur \in Clients
    BY DEF TypeOK
  <2> QED BY <1>1, <2>1, <2>2, <2>3 DEF Downward, Handling
<1>8. Received'
  BY <1>1, <1>2, <1>3 DEF Received
<1> QED BY <1>4, <1>5, <1>6, <1>7, <1>8

\* recv() of the client moves bytes from the stream to its count.
LEMMA ClientRecvKeeps ==
    ASSUME EchoInv, NEW c \in Clients, NEW n \in 1 .. BUFSIZE, ClientRecv(c, n)
    PROVE  EchoInv'
<1> USE EchoAssumption DEF EchoInv
<1>1. UNCHANGED <<spc, cur, owed, held, read, queue, cpc, togo, up, sEnd, rst>>
  BY DEF ClientRecv, server
<1>2. /\ cpc[c] = "recv" /\ got[c] < StrLen
      /\ got' = [got EXCEPT ![c] = got[c] + n] /\ down' = [down EXCEPT ![c] = down[c] - n]
  BY DEF ClientRecv, WantsMore
<1>3. down[c] \in 0 .. Cap /\ got[c] \in Nat
  BY DEF TypeOK
<1>4. n <= down[c] /\ n <= BUFSIZE - 1
  BY <1>3 DEF ClientRecv, Least
<1>5. down[c] - n \in 0 .. Cap /\ got[c] + n \in Nat
  BY <1>3, <1>4
<1>6. /\ \A d \in Clients : got'[d] = IF d = c THEN got[c] + n ELSE got[d]
      /\ \A d \in Clients : down'[d] = IF d = c THEN down[c] - n ELSE down[d]
  BY <1>2 DEF TypeOK
<1>7. TypeOK'
  BY <1>1, <1>2, <1>5 DEF TypeOK
<1>8. Connected' /\ Upward'
  BY <1>1 DEF Connected, Upward
<1>9. Untouched'
  <2>1. down[c] > 0
    BY <1>3, <1>4
  <2>2. ~ (c # cur \/ spc = "first")
    BY <1>3, <2>1 DEF Untouched
  <2> QED BY <1>1, <1>6, <2>2 DEF Untouched
<1>10. \A d \in Clients : /\ got'[d] + down'[d] = got[d] + down[d]
                           /\ got[d] \in Nat /\ down[d] \in Nat
  <2>1. \A d \in Clients : got[d] \in Nat /\ down[d] \in Nat
    BY DEF TypeOK
  <2>2. got[c] + n + (down[c] - n) = got[c] + down[c]
    BY <1>3
  <2> QED BY <1>6, <2>1, <2>2
<1>11. Downward'
  <2>1. held \in Nat /\ owed \in Nat
    BY DEF TypeOK
  <2>2. ASSUME cur \in Clients
        PROVE  got'[cur] + down'[cur] + held + owed = got[cur] + down[cur] + held + owed
    BY <1>10, <2>2
  <2>3. spc \in Handling => cur \in Clients
    BY DEF Connected
  <2>4. \A d \in Clients : Gone(d)' <=> Gone(d)
    BY <1>1 DEF Gone
  <2>5. cur # NoClient => cur \in Clients
    BY DEF TypeOK
  <2> QED BY <1>1, <2>2, <2>3, <2>4, <2>5 DEF Downward, Handling
<1>12. Received'
  <2>1. got[c] + n < StrLen + BUFSIZE
    BY <1>2, <1>3, <1>4
  <2> QED BY <1>1, <1>2, <1>6, <1>10, <2>1 DEF Received
<1> QED BY <1>7, <1>8, <1>9, <1>11, <1>12

\* The end of a client, for better or worse.
LEMMA LeaveKeeps ==
    ASSUME EchoInv, NEW c \in Clients, NEW how \in {"died", "done"}, Leave(c, how),
           cpc[c] \in {"send", "recv"}, how = "done" => got[c] >= StrLen,
           UNCHANGED <<server, togo, got, up, sEnd>>
    PROVE  EchoInv'
<1> USE EchoAssumption DEF EchoInv
<1>1. UNCHANGED <<spc, cur, owed, held, read, queue, togo, got, up, sEnd>>
  BY DEF server
<1>2. /\ cpc' = [cpc EXCEPT ![c] = how] /\ rst' = [rst EXCEPT ![c] = down[c] > 0]
      /\ down' = [down EXCEPT ![c] = 0]
  BY DEF Leave
<1>3. /\ \A d \in Clients : cpc'[d] = IF d = c THEN how ELSE cpc[d]
      /\ \A d \in Clients : down'[d] = IF d = c THEN 0 ELSE down[d]
      /\ \A d \in Clients : d # c => rst'[d] = rst[d]
  BY <1>2 DEF TypeOK
<1>4. rst' \in [Clients -> BOOLEAN]
  BY <1>2 DEF TypeOK
<1>5. TypeOK'
  BY <1>1, <1>2, <1>4, SMTT(20) DEF TypeOK
<1>6. Connected' /\ Upward'
  BY <1>1, <1>3 DEF Connected, Upward
<1>7. Untouched'
  BY <1>1, <1>3 DEF Untouched
<1>8. Downward'
  <2>1. \A d \in Clients : Gone(d)' <=> (d = c \/ Gone(d))
    BY <1>3 DEF Gone
  <2>2. spc \in Handling => cur \in Clients
    BY DEF Connected
  <2>3. cur # NoClient => cur \in Clients
    BY DEF TypeOK
  <2>4. cur \in Clients /\ ~Gone(cur)' => ~Gone(cur) /\ down'[cur] = down[cur]
    BY <1>3, <2>1, <1>1
  <2>5. \A d \in Clients : rst'[d] => Gone(d)'
    BY <1>3, <2>1 DEF Downward
  <2> QED BY <1>1, <2>1, <2>2, <2>3, <2>4, <2>5 DEF Downward, Handling
<1>9. Received'
  <2>1. \A d \in Clients : got[d] \in Nat /\ down[d] \in Nat /\ read[d] \in Nat
    BY DEF TypeOK
  <2>2. \A d \in Clients : got'[d] + down'[d] <= got[d] + down[d]
    BY <1>1, <1>3, <2>1
  <2>3. \A d \in Clients : got'[d] + down'[d] <= Banner + read'[d]
    <3> SUFFICES ASSUME NEW d \in Clients PROVE got'[d] + down'[d] <= Banner + read'[d]
      OBVIOUS
    <3>1. got[d] + down[d] <= Banner + read[d]
      BY DEF Received
    <3>2. got'[d] \in Nat /\ down'[d] \in Nat /\ read'[d] = read[d]
      BY <1>1, <1>3, <2>1
    <3> QED BY <2>1, <2>2, <3>1, <3>2
  <2> QED BY <1>1, <1>3, <2>3 DEF Received
<1> QED BY <1>5, <1>6, <1>7, <1>8, <1>9

\* The two ways in which a client ends.
LEMMA ClientEndsKeeps ==
    ASSUME EchoInv, NEW c \in Clients, ClientDies(c) \/ ClientDone(c)
    PROVE  EchoInv'
<1>1. got[c] \in Nat /\ StrLen \in Nat
  BY EchoAssumption DEF EchoInv, TypeOK
<1>2. CASE ClientDies(c)
  BY <1>2, LeaveKeeps DEF ClientDies
<1>3. CASE ClientDone(c)
  BY <1>1, <1>3, LeaveKeeps DEF ClientDone, WantsMore
<1> QED BY <1>2, <1>3

-----------------------------------------------------------------------------
(* The server.                                                              *)

\* The client that the server handles.
LEMMA Current ==
    ASSUME EchoInv
    PROVE  /\ spc \in Handling => cur \in Clients /\ sEnd[cur] = "open"
           /\ cur # NoClient => cur \in Clients
           /\ owed \in 0 .. Banner /\ held \in 0 .. BUFSIZE
           /\ \A c \in Clients : /\ read[c] \in 0 .. StrLen /\ got[c] \in Nat /\ togo[c] \in 0 .. StrLen
                                 /\ up[c] \in 0 .. Cap /\ down[c] \in 0 .. Cap
BY DEF EchoInv, TypeOK, Connected

\* listen(), or the exit of a server that cannot bind.
LEMMA SetupKeeps ==
    ASSUME EchoInv, SetupTCPServerSocket
    PROVE  EchoInv'
<1> USE DEF EchoInv
<1>1. UNCHANGED <<cur, owed, held, read, queue, cpc, togo, got, up, down, sEnd, rst>>
  BY DEF SetupTCPServerSocket, client, net
<1>2. spc = "setup" /\ spc' \in {"accept", "exit"}
  BY DEF SetupTCPServerSocket
<1>3. TypeOK'
  BY <1>1, <1>2 DEF TypeOK
<1>4. cur = NoClient
  BY <1>2 DEF Connected
<1>5. Connected'
  BY <1>1, <1>2 DEF Connected, Over, Handling
<1>6. Untouched' /\ Upward' /\ Received'
  BY <1>1, <1>2 DEF Untouched, Upward, Received
<1>7. Downward'
  <2>1. \A d \in Clients : rst'[d] => Gone(d)'
    BY <1>1 DEF Downward, Gone
  <2> QED BY <1>1, <1>2, <1>4, <2>1 DEF Downward, Handling
<1> QED BY <1>3, <1>5, <1>6, <1>7

\* accept() takes the oldest connection of the queue.
LEMMA AcceptKeeps ==
    ASSUME EchoInv, AcceptTCPConnection
    PROVE  EchoInv'
<1> USE DEF EchoInv
<1>1. UNCHANGED <<owed, held, read, cpc, togo, got, up, down, sEnd, rst>>
  BY DEF AcceptTCPConnection, client, net
<1>2. /\ spc = "accept" /\ spc' = "first" /\ queue # <<>>
      /\ cur' = Head(queue) /\ queue' = Tail(queue)
  BY DEF AcceptTCPConnection
<1>3. queue \in Seq(Clients)
  BY DEF TypeOK
<1>4. Len(queue) \in Nat \ {0} /\ Head(queue) \in Clients /\ Head(queue) = queue[1] /\ Tail(queue) \in Seq(Clients)
  BY <1>2, <1>3
<1>5. \A i \in 1 .. Len(Tail(queue)) : i + 1 \in 1 .. Len(queue) /\ Tail(queue)[i] = queue[i + 1]
  BY <1>2, <1>3
<1>6. TypeOK'
  BY <1>1, <1>2, <1>4 DEF TypeOK
<1>7. Connected'
  <2>1. sEnd[cur'] = "open"
    BY <1>2, <1>4 DEF Connected
  <2>2. \A i \in 1 .. Len(queue') : sEnd'[queue'[i]] = "open"
    BY <1>1, <1>2, <1>5 DEF Connected
  <2> QED BY <1>1, <1>2, <1>4, <2>1, <2>2 DEF Connected, Over, Handling
<1>8. Untouched'
  <2>1. cur = NoClient
    BY <1>2 DEF Connected
  <2>2. \A c \in Clients : c # cur
    BY <2>1, EchoAssumption
  <2> QED BY <1>1, <2>2 DEF Untouched
<1>9. Upward' /\ Received'
  BY <1>1 DEF Upward, Received
<1>10. Downward'
  <2>1. \A d \in Clients : rst'[d] => Gone(d)'
    BY <1>1 DEF Downward, Gone
  <2> QED BY <1>1, <1>2, <2>1 DEF Downward, Handling
<1> QED BY <1>6, <1>7, <1>8, <1>9, <1>10

\* recv() of the server, before the banner and in the echo loop.
LEMMA ServerRecvKeeps ==
    ASSUME EchoInv, NEW n \in 1 .. BUFSIZE, ServerRecv(n)
    PROVE  EchoInv'
<1> USE EchoAssumption DEF EchoInv
<1>1. UNCHANGED <<cur, queue, cpc, togo, got, down, sEnd, rst>>
  BY DEF ServerRecv, client
<1>2. /\ spc \in {"first", "recv"} /\ held' = n
      /\ up' = [up EXCEPT ![cur] = up[cur] - n] /\ read' = [read EXCEPT ![cur] = read[cur] + n]
      /\ spc = "first" => spc' = "banner" /\ owed' = Banner
      /\ spc = "recv" => spc' = "echo" /\ owed' = owed
  BY DEF ServerRecv, numBytesRcvd
<1>3. /\ cur \in Clients /\ sEnd[cur] = "open"
      /\ up[cur] \in 0 .. Cap /\ read[cur] \in 0 .. StrLen /\ togo[cur] \in 0 .. StrLen
      /\ got[cur] \in Nat /\ down[cur] \in Nat /\ held \in Nat /\ owed \in Nat
  BY <1>2, Current DEF Handling
<1>4. n <= up[cur]
  BY <1>3 DEF ServerRecv, Least
<1>5. read[cur] + up[cur] + togo[cur] = StrLen
  BY <1>3 DEF Upward
<1>6. up[cur] - n \in 0 .. Cap /\ read[cur] + n \in 0 .. StrLen /\ n \in 0 .. BUFSIZE
      /\ read[cur] + n + (up[cur] - n) + togo[cur] = StrLen
  BY <1>3, <1>4, <1>5
<1>7. /\ \A d \in Clients : up'[d] = IF d = cur THEN up[cur] - n ELSE up[d]
      /\ \A d \in Clients : read'[d] = IF d = cur THEN read[cur] + n ELSE read[d]
  BY <1>2 DEF TypeOK
<1>8. TypeOK'
  <2>1. owed' \in 0 .. Banner /\ spc' \in {"banner", "echo"}
    BY <1>2 DEF TypeOK
  <2>2. up' \in [Clients -> 0 .. Cap] /\ read' \in [Clients -> 0 .. StrLen]
    BY <1>2, <1>3, <1>6 DEF TypeOK
  <2> QED BY <1>1, <1>2, <1>6, <2>1, <2>2 DEF TypeOK
<1>9. Connected'
  BY <1>1, <1>2, <1>3 DEF Connected, Handling, Over
<1>10. Untouched'
  BY <1>1, <1>2, <1>7 DEF Untouched
<1>11. Upward'
  BY <1>1, <1>6, <1>7, <1>3 DEF Upward
<1>12. Downward'
  <2>1. \A d \in Clients : Gone(d)' <=> Gone(d)
    BY <1>1 DEF Gone
  <2>2. read'[cur] > 0 /\ read'[cur] = read[cur] + n
    BY <1>3, <1>7
  <2>3. ~Gone(cur) => Banner + read'[cur] = got[cur] + down[cur] + held' + owed'
    <3>1. CASE spc = "first"
      <4>1. read[cur] = 0 /\ got[cur] = 0 /\ down[cur] = 0
        BY <1>3, <3>1 DEF Untouched
      <4>2. held' = n /\ owed' = Banner
        BY <1>2, <3>1
      <4> QED BY <2>2, <4>1, <4>2
    <3>2. CASE spc = "recv"
      <4>1. held = 0 /\ owed = 0
        BY <3>2 DEF Downward
      <4>2. ~Gone(cur) => Banner + read[cur] = got[cur] + down[cur] + held + owed
        BY <3>2 DEF Downward, Handling
      <4>3. held' = n /\ owed' = 0
        BY <1>2, <3>2, <4>1
      <4> QED BY <1>3, <2>2, <4>1, <4>2, <4>3
    <3> QED BY <1>2, <3>1, <3>2
  <2>4. \A d \in Clients : rst'[d] => Gone(d)'
    BY <1>1, <2>1 DEF Downward
  <2>5. spc' \in {"banner", "echo"} /\ held' > 0 /\ (spc' = "echo" => owed' = 0)
    BY <1>2 DEF Downward
  <2> QED BY <1>1, <1>3, <2>1, <2>2, <2>3, <2>4, <2>5 DEF Downward, Handling
<1>13. Received'
  <2>1. \A d \in Clients : read[d] \in Nat /\ got[d] \in Nat /\ down[d] \in Nat
    BY Current
  <2>2. \A d \in Clients : read'[d] >= read[d] /\ read'[d] \in Nat
    BY <1>3, <1>7, <2>1
  <2>3. \A d \in Clients : got[d] + down[d] <= Banner + read'[d]
    BY <2>1, <2>2 DEF Received
  <2> QED BY <1>1, <2>3 DEF Received
<1> QED BY <1>8, <1>9, <1>10, <1>11, <1>12, <1>13

\* recv() returns 0 only after the client has gone.
LEMMA ServerEofKeeps ==
    ASSUME EchoInv, ServerEof
    PROVE  EchoInv'
<1> USE EchoAssumption DEF EchoInv
<1>1. UNCHANGED <<cur, read, queue, cpc, togo, got, up, down, sEnd, rst>>
  BY DEF ServerEof, client, net
<1>2. /\ spc \in {"first", "recv"} /\ held' = 0 /\ Gone(cur)
      /\ spc = "first" => spc' = "banner" /\ owed' = Banner
      /\ spc = "recv" => spc' = "close" /\ owed' = owed
  BY DEF ServerEof, EndOfStream
<1>3. cur \in Clients /\ sEnd[cur] = "open"
  BY <1>2, Current DEF Handling
<1>4. TypeOK'
  <2>1. owed' \in 0 .. Banner /\ spc' \in {"banner", "close"}
    BY <1>2 DEF TypeOK
  <2>2. held' \in 0 .. BUFSIZE
    BY <1>2
  <2> QED BY <1>1, <2>1, <2>2 DEF TypeOK
<1>5. Connected'
  BY <1>1, <1>2, <1>3 DEF Connected, Handling, Over
<1>6. Untouched'
  BY <1>1, <1>2 DEF Untouched
<1>7. Upward' /\ Received'
  BY <1>1 DEF Upward, Received
<1>8. Downward'
  <2>1. \A d \in Clients : Gone(d)' <=> Gone(d)
    BY <1>1 DEF Gone
  <2>2. \A d \in Clients : rst'[d] => Gone(d)'
    BY <1>1, <2>1 DEF Downward
  <2>3. Gone(cur)'
    BY <1>1, <1>2, <1>3, <2>1
  <2> QED BY <1>2, <2>2, <2>3 DEF Downward, Handling
<1> QED BY <1>4, <1>5, <1>6, <1>7, <1>8

\* Bytes of the banner or of the buffer that the kernel takes.
LEMMA PushKeeps ==
    ASSUME EchoInv, NEW n \in Nat, spc \in {"banner", "echo"}, Push(n),
           UNCHANGED <<spc, cur, read, queue, client, up, sEnd>>,
           owed' \in 0 .. Banner, held' \in 0 .. BUFSIZE, held' + owed' + n = held + owed,
           spc = "banner" => held' = held, spc = "echo" => owed' = owed
    PROVE  EchoInv'
<1> USE EchoAssumption DEF EchoInv
<1>1. UNCHANGED <<spc, cur, read, queue, cpc, togo, got, up, sEnd>>
  BY DEF client
<1>2. /\ cur \in Clients /\ read[cur] \in Nat /\ got[cur] \in Nat /\ down[cur] \in 0 .. Cap
      /\ held \in Nat /\ owed \in Nat
  BY Current DEF Handling
<1>3. Connected' /\ Upward'
  BY <1>1 DEF Connected, Upward
<1>4. \A d \in Clients : Gone(d)' <=> Gone(d)
  BY <1>1 DEF Gone
<1>5. spc = "echo" => owed' = 0
  BY DEF Downward
<1>6. CASE ~Gone(cur) /\ Fits(n) /\ down' = [down EXCEPT ![cur] = down[cur] + n] /\ rst' = rst
  <2>1. down[cur] + n \in 0 .. Cap
    BY <1>2, <1>6 DEF Fits
  <2>2. \A d \in Clients : down'[d] = IF d = cur THEN down[cur] + n ELSE down[d]
    BY <1>6 DEF TypeOK
  <2>3. TypeOK'
    <3>1. down' \in [Clients -> 0 .. Cap]
      BY <1>2, <1>6, <2>1 DEF TypeOK
    <3> QED BY <1>1, <1>6, <3>1 DEF TypeOK
  <2>4. Untouched'
    BY <1>1, <2>2 DEF Untouched
  <2>5. /\ read[cur] > 0 /\ Banner + read[cur] = got[cur] + down[cur] + held + owed
        /\ spc = "banner" => held > 0
    BY <1>6 DEF Downward, Handling
  <2>6. Banner + read[cur] = got[cur] + down'[cur] + held' + owed'
    BY <1>2, <2>2, <2>5
  <2>7. \A d \in Clients : rst'[d] => Gone(d)'
    BY <1>4, <1>6 DEF Downward
  <2>8. Downward'
    BY <1>1, <1>2, <1>4, <1>5, <2>5, <2>6, <2>7 DEF Downward, Handling
  <2>9. got[cur] + down'[cur] <= Banner + read[cur]
    BY <1>2, <2>1, <2>2, <2>6
  <2>10. Received'
    BY <1>1, <2>2, <2>9 DEF Received
  <2> QED BY <1>3, <2>3, <2>4, <2>8, <2>10
<1>7. CASE Gone(cur) /\ rst' = [rst EXCEPT ![cur] = TRUE] /\ down' = down
  <2>1. \A d \in Clients : d # cur => rst'[d] = rst[d]
    BY <1>7 DEF TypeOK
  <2>2. TypeOK'
    BY <1>1, <1>7 DEF TypeOK
  <2>3. Untouched' /\ Received'
    BY <1>1, <1>7 DEF Untouched, Received
  <2>4. \A d \in Clients : rst'[d] => Gone(d)'
    BY <1>4, <1>7, <2>1 DEF Downward
  <2>5. Downward'
    BY <1>1, <1>2, <1>4, <1>5, <1>7, <2>4 DEF Downward, Handling
  <2> QED BY <1>3, <2>2, <2>3, <2>5
<1> QED BY <1>6, <1>7 DEF Push

\* send() of the banner.
LEMMA SendBannerKeeps ==
    ASSUME EchoInv, NEW n \in 1 .. Banner, SendBanner(n)
    PROVE  EchoInv'
<1>1. /\ spc = "banner" /\ n <= owed /\ Push(n) /\ owed' = owed - n /\ held' = held
      /\ UNCHANGED <<spc, cur, read, queue, client, up, sEnd>>
  BY DEF SendBanner
<1>2. owed \in 0 .. Banner /\ held \in 0 .. BUFSIZE /\ Banner \in Nat /\ BUFSIZE \in Nat /\ n \in Nat
  BY Current, EchoAssumption
<1>3. owed' \in 0 .. Banner /\ held' \in 0 .. BUFSIZE /\ held' + owed' + n = held + owed
  BY <1>1, <1>2
<1> QED BY <1>1, <1>2, <1>3, PushKeeps

\* send() of what was received.
LEMMA SendEchoKeeps ==
    ASSUME EchoInv, NEW n \in 1 .. BUFSIZE, SendEcho(n)
    PROVE  EchoInv'
<1>1. /\ spc = "echo" /\ n <= held /\ Push(n) /\ held' = held - n /\ owed' = owed
      /\ UNCHANGED <<spc, cur, read, queue, client, up, sEnd>>
  BY DEF SendEcho
<1>2. owed \in 0 .. Banner /\ held \in 0 .. BUFSIZE /\ Banner \in Nat /\ BUFSIZE \in Nat /\ n \in Nat
  BY Current, EchoAssumption
<1>3. owed' \in 0 .. Banner /\ held' \in 0 .. BUFSIZE /\ held' + owed' + n = held + owed
  BY <1>1, <1>2
<1> QED BY <1>1, <1>2, <1>3, PushKeeps

\* After the banner: the echo loop, whose first count is what recv() returned.
LEMMA BannerDoneKeeps ==
    ASSUME EchoInv, BannerDone
    PROVE  EchoInv'
<1> USE EchoAssumption DEF EchoInv
<1>1. UNCHANGED <<cur, held, read, queue, cpc, togo, got, up, down, sEnd, rst>>
  BY DEF BannerDone, client, net
<1>2. /\ spc = "banner" /\ (owed = 0 \/ rst[cur]) /\ owed' = 0
      /\ held > 0 => spc' = "echo"
      /\ ~(held > 0) => spc' = "close"
  BY DEF BannerDone
<1>3. cur \in Clients /\ sEnd[cur] = "open" /\ spc' \in {"echo", "close"}
  BY <1>2, Current DEF Handling
<1>4. TypeOK'
  <2>1. owed' \in 0 .. Banner
    BY <1>2
  <2> QED BY <1>1, <1>3, <2>1 DEF TypeOK
<1>5. Connected'
  BY <1>1, <1>3 DEF Connected, Handling, Over
<1>6. Untouched' /\ Upward' /\ Received'
  BY <1>1, <1>2, <1>3 DEF Untouched, Upward, Received
<1>7. Downward'
  <2>1. \A d \in Clients : Gone(d)' <=> Gone(d)
    BY <1>1 DEF Gone
  <2>2. \A d \in Clients : rst'[d] => Gone(d)'
    BY <1>1, <2>1 DEF Downward
  <2>3. ~Gone(cur) => /\ held > 0 /\ read[cur] > 0 /\ owed = 0
                      /\ Banner + read[cur] = got[cur] + down[cur] + held + owed
    BY <1>2, <1>3 DEF Downward, Handling
  <2>4. spc' = "close" => Gone(cur)
    BY <1>2, <2>3
  <2> QED BY <1>1, <1>2, <1>3, <2>1, <2>2, <2>3, <2>4 DEF Downward, Handling
<1> QED BY <1>4, <1>5, <1>6, <1>7

\* The buffer is out: back to recv().
LEMMA EchoDoneKeeps ==
    ASSUME EchoInv, EchoDone
    PROVE  EchoInv'
<1> USE EchoAssumption DEF EchoInv
<1>1. UNCHANGED <<cur, owed, held, read, queue, cpc, togo, got, up, down, sEnd, rst>>
  BY DEF EchoDone, client, net
<1>2. spc = "echo" /\ held = 0 /\ spc' = "recv"
  BY DEF EchoDone
<1>3. cur \in Clients
  BY <1>2, Current DEF Handling
<1>4. TypeOK'
  BY <1>1, <1>2 DEF TypeOK
<1>5. Connected'
  BY <1>1, <1>2 DEF Connected, Handling, Over
<1>6. Untouched' /\ Upward' /\ Received'
  BY <1>1, <1>2 DEF Untouched, Upward, Received
<1>7. Downward'
  <2>1. \A d \in Clients : Gone(d)' <=> Gone(d)
    BY <1>1 DEF Gone
  <2>2. \A d \in Clients : rst'[d] => Gone(d)'
    BY <1>1, <2>1 DEF Downward
  <2> QED BY <1>1, <1>2, <1>3, <2>1, <2>2 DEF Downward, Handling
<1> QED BY <1>4, <1>5, <1>6, <1>7

\* The end of the server closes every connection.
LEMMA ExitKeeps ==
    ASSUME EchoInv, ServerExit \/ ServerDies \/ Killed
    PROVE  EchoInv'
<1> USE EchoAssumption DEF EchoInv
<1>1. /\ UNCHANGED <<cur, owed, held, read, cpc, togo, got, up, down, rst>>
      /\ queue' = <<>> /\ spc' \in Over
      /\ sEnd' = [c \in Clients |-> IF sEnd[c] = "none" THEN "none" ELSE "closed"]
  BY DEF ServerExit, ServerDies, Killed, Exit, client, Over
<1>2. \A d \in Clients : sEnd'[d] = IF sEnd[d] = "none" THEN "none" ELSE "closed"
  BY <1>1
<1>3. spc' = "exit" => spc \in Handling /\ Gone(cur)
  <2>1. CASE ServerExit
    BY <2>1 DEF ServerExit, Downward, Handling
  <2>2. CASE ServerDies
    <3>1. spc \in Handling /\ rst[cur]
      BY <2>2 DEF ServerDies, Handling
    <3> QED BY <3>1, Current DEF Downward
  <2>3. CASE Killed
    BY <2>3 DEF Killed, Exit
  <2> QED BY <2>1, <2>2, <2>3
<1>4. TypeOK'
  <2>1. sEnd' \in [Clients -> {"none", "open", "closed"}] /\ queue' \in Seq(Clients)
    BY <1>1
  <2> QED BY <1>1, <2>1 DEF TypeOK, Over
<1>5. Connected'
  <2>1. Len(queue') = 0
    BY <1>1
  <2> QED BY <1>1, <1>2, <2>1 DEF Connected, Over, Handling
<1>6. Untouched' /\ Received'
  BY <1>1 DEF Untouched, Received, Over
<1>7. Upward'
  BY <1>1, <1>2 DEF Upward
<1>8. Downward'
  <2>1. \A d \in Clients : Gone(d)' <=> Gone(d)
    BY <1>1 DEF Gone
  <2>2. \A d \in Clients : rst'[d] => Gone(d)'
    BY <1>1, <2>1 DEF Downward
  <2>3. spc' = "exit" => Gone(cur)'
    BY <1>1, <1>3, <2>1, Current
  <2> QED BY <1>1, <2>2, <2>3 DEF Downward, Handling, Over
<1> QED BY <1>4, <1>5, <1>6, <1>7, <1>8

\* A step of somebody else.
LEMMA StutterKeeps ==
    ASSUME EchoInv, UNCHANGED vars
    PROVE  EchoInv'
<1> USE DEF EchoInv, vars, server, client, net
<1>1. TypeOK' /\ Connected'
  BY DEF TypeOK, Connected
<1>2. Untouched' /\ Upward' /\ Received'
  BY DEF Untouched, Upward, Received
<1>3. Downward'
  BY DEF Downward, Gone
<1> QED BY <1>1, <1>2, <1>3

-----------------------------------------------------------------------------
(* The theorems.                                                            *)

\* EchoInv is inductive.
LEMMA EchoStep == EchoInv /\ [Next]_vars => EchoInv'
BY Steps, SetupKeeps, AcceptKeeps, ServerEofKeeps, BannerDoneKeeps, EchoDoneKeeps, ExitKeeps,
   ServerRecvKeeps, SendEchoKeeps, SendBannerKeeps, ConnectKeeps, ClientSentKeeps,
   ClientEndsKeeps, ClientSendKeeps, ClientRecvKeeps, StutterKeeps

\* What holds in every state the two programs reach.
LEMMA EchoInvariant == Spec => []EchoInv
BY EchoInit, EchoStep, PTL DEF Spec

\* However send() and recv() cut the two streams into pieces, whoever dies and
\* however full the kernel's buffers and the accept queue are: while both ends
\* are there, HandleTCPClient() loses, repeats and invents no byte.
THEOREM BytesConserved == Spec => []Conserved
<1>1. EchoInv => Conserved
  <2> SUFFICES ASSUME EchoInv, NEW c \in Clients, sEnd[c] = "open", ~Gone(c)
               PROVE  /\ read[c] + up[c] + togo[c] = StrLen
                      /\ read[c] > 0 => Banner + read[c] = got[c] + down[c] + held + owed
    BY DEF Conserved
  <2>1. read[c] + up[c] + togo[c] = StrLen
    BY DEF EchoInv, Upward
  <2>2. ASSUME read[c] > 0
        PROVE  Banner + read[c] = got[c] + down[c] + held + owed
    <3>1. c = cur /\ spc # "first"
      BY <2>2 DEF EchoInv, Untouched
    <3>2. spc \notin {"setup", "accept", "exit", "killed"}
      BY <3>1, EchoAssumption DEF EchoInv, Connected, Over
    <3>3. spc \in Handling \ {"first"}
      BY <3>1, <3>2 DEF EchoInv, TypeOK, Handling
    <3> QED BY <3>1, <3>3 DEF EchoInv, Downward
  <2> QED BY <2>1, <2>2
<1> QED BY <1>1, EchoInvariant, PTL

\* A client that ends well has as many bytes as its string, all of them sent by
\* the server, and the server, unless it is killed, never ends before the client
\* that it handles.
THEOREM ClientsAreServed == Spec => []DoneMeansEchoed
<1>1. EchoInv => DoneMeansEchoed
  <2> SUFFICES ASSUME EchoInv PROVE DoneMeansEchoed OBVIOUS
  <2>1. ASSUME NEW c \in Clients, cpc[c] = "done"
        PROVE  got[c] >= StrLen /\ got[c] < StrLen + BUFSIZE /\ got[c] <= Banner + read[c]
    <3>1. got[c] \in Nat /\ down[c] \in Nat /\ read[c] \in Nat /\ Banner \in Nat
      BY Current, EchoAssumption
    <3> QED BY <2>1, <3>1 DEF EchoInv, Received
  <2>2. spc = "exit" /\ cur # NoClient => Gone(cur)
    BY DEF EchoInv, Downward
  <2> QED BY <2>1, <2>2 DEF DoneMeansEchoed
<1> QED BY <1>1, EchoInvariant, PTL
=============================================================================
