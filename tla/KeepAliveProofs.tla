--------------------------- MODULE KeepAliveProofs ---------------------------
(***************************************************************************)
(* Proofs about KeepAlive, for every value of its constants.               *)
(***************************************************************************)
EXTENDS KeepAlive, TLAPS

(* A stream as its two ends see it: `want` is the token its reader takes    *)
(* next and `next` the one its writer puts next.                            *)
Alternates(s) == \A i \in 1 .. Len(s) - 1 : s[i] # s[i + 1]
Other(t)      == IF t = "H" THEN "O" ELSE "H"

Stream(s, want, next) ==
    /\ Alternates(s)
    /\ s = <<>> => want = next
    /\ s # <<>> => s[1] = want /\ s[Len(s)] # next

SaWants(k)   == IF spc[k] = "obj" THEN "O" ELSE "H"
SaWrites(k)  == IF spc[k] = "outObj" THEN "O" ELSE "H"
DogWrites(k) == IF kpc[k] = "obj" THEN "O" ELSE "H"
RxWants(k)   == IF rpc[k] = "obj" THEN "O" ELSE "H"

-----------------------------------------------------------------------------
(* The inductive invariant.                                                 *)

\* Connections that were not made yet are untouched.
Untouched ==
    \A k \in Conn : k > cSock =>
        /\ c2s[k] = <<>> /\ s2c[k] = <<>> /\ peer[k] = "up"
        /\ spc[k] = (IF wpc = "exited" THEN "done" ELSE "none")
        /\ kpc[k] = "none" /\ rpc[k] = "none"

\* Accepted or not, a connection has one place: the accept queue is in the
\* order of connecting, behind the connection the ConnWatchDog holds.
Queued ==
    /\ \A i \in 1 .. Len(backlog) :
          backlog[i] <= cSock /\ spc[backlog[i]] = "none"
    /\ \A i, j \in 1 .. Len(backlog) : i < j => backlog[i] < backlog[j]
    /\ wpc = "got" => /\ wConn <= cSock /\ spc[wConn] = "none"
                      /\ \A i \in 1 .. Len(backlog) : wConn < backlog[i]

\* Only the newest pair of dogs is at work, on its own socket.
OnePair ==
    /\ kpc[App] = "none"
    /\ \A d \in Conn :
          /\ d # cSock => kpc[d] \in {"none", "done"} /\ rpc[d] \in {"none", "done"}
          /\ kpc[d] = "obj" => kSock[d] = d
          /\ rpc[d] = "obj" => rSock[d] = d
          /\ kpc[d] \in {"loop", "obj", "stamp"} => peer[d] = "up"
          /\ rpc[d] \in {"loop", "obj"} => peer[d] = "up"
    /\ cRunning => cSock \in Conn /\ kpc[cSock] \in {"loop", "obj", "stamp"}

OpenUnlessDone ==
    /\ \A k \in Conn : k <= cSock /\ spc[k] # "done" => sOpen[k]
    /\ wpc = "exited" => ~sRunning /\ ~ss

\* Both streams of every connection are well framed.  What the writer did
\* last is known only while both ends of the connection are there.
FramedAt(k) ==
    /\ spc[k] # "done" => \E t \in Token : Stream(c2s[k], SaWants(k), t)
    /\ spc[k] # "done" /\ peer[k] = "up" =>
          Stream(c2s[k], SaWants(k), DogWrites(k))
    /\ peer[k] = "up" => \E t \in Token : Stream(s2c[k], RxWants(k), t)
    /\ peer[k] = "up" /\ sOpen[k] => Stream(s2c[k], RxWants(k), SaWrites(k))
InFrame == \A k \in Conn : FramedAt(k)

\* How far the server's clock can be ahead of the client's.
Overdue == \A d \in Conn : kpc[d] \in {"obj", "stamp"} => sinceSend > KeepAliveDelay
TimelyAt(k) ==
    /\ ~HasObject(c2s[k]) /\ kpc[k] # "stamp" => sinceRecv[k] <= sinceSend + Lag
    /\ ~HasObject(c2s[k]) /\ kpc[k] = "stamp" =>
          sinceRecv[k] + KeepAliveDelay + 1 <= sinceSend
    /\ HasObject(c2s[k]) =>
          sinceRecv[k] <= KeepAliveDelay + 1 + 2 * Lag + waitS[k]
InTime == Overdue /\ \A k \in Conn : Live(k) => TimelyAt(k)

FrameInv == TypeOK /\ Untouched /\ Queued /\ OnePair /\ OpenUnlessDone /\ InFrame
Margin   == KeepAliveDelay + 1 + 3 * Lag <= ReceiveTimeDelay
KeptInv  == FrameInv /\ InTime /\ LiveClientKept

-----------------------------------------------------------------------------
(* Reading and writing streams.                                             *)

\* What Tail and Append do to the elements of a stream of tokens.
LEMMA TailFacts ==
    ASSUME NEW s \in Seq(Token), s # <<>>
    PROVE  /\ Tail(s) \in Seq(Token) /\ Len(Tail(s)) = Len(s) - 1 /\ Len(s) > 0
           /\ Head(s) = s[1] /\ s[1] \in Token
           /\ \A i \in 1 .. Len(Tail(s)) : Tail(s)[i] = s[i + 1]
           /\ Tail(s) = <<>> <=> Len(s) = 1
  <1> DEFINE q == Tail(s)
  <1>1. Len(s) \in Nat /\ Len(s) > 0 /\ \A i \in 1 .. Len(s) : s[i] \in Token
    OBVIOUS
  <1>2. q \in Seq(Token) /\ Len(q) = Len(s) - 1 /\ Head(s) = s[1]
    OBVIOUS
  <1>3. \A i \in 1 .. Len(q) : q[i] = s[i + 1]
    OBVIOUS
  <1> HIDE DEF q
  <1>4. q = <<>> <=> Len(s) = 1
    BY <1>1, <1>2
  <1>5. Len(s) > 0 /\ s[1] \in Token
    BY <1>1
  <1> QED
    BY <1>2, <1>3, <1>4, <1>5, Zenon DEF q

\* What writing to a stream does to it.
LEMMA AppendFacts ==
    ASSUME NEW s \in Seq(Token), NEW t \in Token
    PROVE  /\ Append(s, t) \in Seq(Token) /\ Len(Append(s, t)) = Len(s) + 1
           /\ Append(s, t) # <<>> /\ Append(s, t)[Len(s) + 1] = t
           /\ \A i \in 1 .. Len(s) : Append(s, t)[i] = s[i]
           /\ s = <<>> <=> Len(s) = 0
  OBVIOUS

\* Nothing has been written and nothing read.
LEMMA EmptyStream == \A t \in Token : Stream(<<>>, t, t)
  BY DEF Stream, Alternates

\* The head of a well framed stream is the token that its reader wants.
LEMMA ReadStream ==
    ASSUME NEW s \in Seq(Token), s # <<>>, NEW want \in Token,
           NEW next \in Token, Stream(s, want, next)
    PROVE  Head(s) = want /\ Stream(Tail(s), Other(want), next)
  <1> DEFINE q == Tail(s)
  <1>1. /\ q \in Seq(Token) /\ Len(q) = Len(s) - 1 /\ Len(s) > 0
        /\ Head(s) = s[1] /\ Len(s) \in Nat
        /\ \A i \in 1 .. Len(q) : q[i] = s[i + 1]
        /\ q = <<>> <=> Len(s) = 1
        /\ \A i \in 1 .. Len(s) : s[i] \in Token
    BY TailFacts
  <1> HIDE DEF q
  <1>2. Alternates(q)
    BY <1>1 DEF Stream, Alternates
  <1>3. CASE Len(s) = 1
    <2>1. s[1] = want /\ s[1] # next
      BY <1>3 DEF Stream
    <2>2. next = Other(want)
      BY <2>1 DEF Token, Other
    <2> QED
      BY <1>1, <1>2, <1>3, <2>1, <2>2 DEF Stream, q
  <1>4. CASE Len(s) # 1
    <2>1. q[1] = s[2] /\ s[1] # s[2] /\ s[2] \in Token /\ s[1] = want
      BY <1>1, <1>4 DEF Stream, Alternates
    <2>2. q[Len(q)] = s[Len(s)] /\ s[Len(s)] # next
      BY <1>1, <1>4 DEF Stream
    <2>3. q[1] = Other(want)
      BY <2>1 DEF Other, Token
    <2> QED
      BY <1>1, <1>2, <1>4, <2>1, <2>2, <2>3 DEF Stream, q
  <1> QED
    BY <1>3, <1>4

\* Appending the token that the writer owes keeps a stream well framed.
LEMMA WriteStream ==
    ASSUME NEW s \in Seq(Token), NEW want \in Token, NEW next \in Token,
           Stream(s, want, next)
    PROVE  Stream(Append(s, next), want, Other(next))
  <1> DEFINE u == Append(s, next)
  <1>1. /\ u \in Seq(Token) /\ Len(u) = Len(s) + 1 /\ u # <<>>
        /\ u[Len(s) + 1] = next /\ Len(s) \in Nat
        /\ \A i \in 1 .. Len(s) : u[i] = s[i]
        /\ s = <<>> <=> Len(s) = 0
    BY AppendFacts
  <1> HIDE DEF u
  <1>2. next # Other(next)
    BY DEF Other, Token
  <1>3. CASE s = <<>>
    <2>1. want = next /\ Len(u) = 1 /\ u[1] = next
      BY <1>1, <1>3 DEF Stream
    <2>2. Alternates(u)
      BY <2>1 DEF Alternates
    <2> QED
      BY <1>1, <1>2, <2>1, <2>2 DEF Stream, u
  <1>4. CASE s # <<>>
    <2>1. u[1] = s[1] /\ u[Len(s)] = s[Len(s)] /\ s[Len(s)] # next /\ s[1] = want
      BY <1>1, <1>4 DEF Stream
    <2>2. ASSUME NEW i \in 1 .. Len(s) PROVE u[i] # u[i + 1]
      <3>1. CASE i = Len(s)
        BY <1>1, <2>1, <3>1
      <3>2. CASE i # Len(s)
        <4>1. i \in 1 .. Len(s) - 1 /\ i + 1 \in 1 .. Len(s)
          BY <1>1, <3>2
        <4> QED
          BY <1>1, <4>1 DEF Stream, Alternates
      <3> QED
        BY <3>1, <3>2
    <2>3. Alternates(u)
      BY <1>1, <2>2 DEF Alternates
    <2> QED
      BY <1>1, <1>2, <2>1, <2>3 DEF Stream, u
  <1> QED
    BY <1>3, <1>4

\* Only an object makes HasObject true; only reading one can make it false.
LEMMA HasObjectFacts ==
    ASSUME NEW s \in Seq(Token)
    PROVE  /\ HasObject(Append(s, "O"))
           /\ HasObject(Append(s, "H")) => HasObject(s)
           /\ HasObject(s) => HasObject(Append(s, "H"))
           /\ s # <<>> /\ Head(s) = "H" /\ HasObject(s) => HasObject(Tail(s))
           /\ s # <<>> /\ HasObject(Tail(s)) => HasObject(s)
  <1>1. "H" \in Token /\ "O" \in Token
    BY DEF Token
  <1>2. HasObject(Append(s, "O"))
    BY <1>1, AppendFacts DEF HasObject
  <1>3. HasObject(Append(s, "H")) => HasObject(s)
    BY <1>1, AppendFacts DEF HasObject
  <1>4. HasObject(s) => HasObject(Append(s, "H"))
    BY <1>1, AppendFacts DEF HasObject
  <1>5. ASSUME s # <<>>, Head(s) = "H", HasObject(s) PROVE HasObject(Tail(s))
    <2>1. PICK i \in 1 .. Len(s) : s[i] = "O"
      BY <1>5 DEF HasObject
    <2>2. i # 1
      BY <1>5, <2>1, TailFacts
    <2>3. i - 1 \in 1 .. Len(Tail(s)) /\ Tail(s)[i - 1] = s[i]
      BY <1>5, <2>1, <2>2, TailFacts
    <2> QED
      BY <2>1, <2>3 DEF HasObject
  <1>6. s # <<>> /\ HasObject(Tail(s)) => HasObject(s)
    BY TailFacts DEF HasObject
  <1> QED
    BY <1>2, <1>3, <1>4, <1>5, <1>6

-----------------------------------------------------------------------------
(* Type correctness.                                                        *)

\* The numbers of connections and senders, without the intervals.
LEMMA ConnFacts ==
    /\ Conn \subseteq Sender /\ 0 \in Sender /\ App = 0 /\ 0 \notin Conn
    /\ Sender \subseteq Nat
    /\ \A d \in Sender : d # 0 => d \in Conn
    /\ \A d \in Sender : d < MaxConns => d + 1 \in Conn
  BY ConstAssumption DEF Conn, Sender, App

\* A write keeps the client's streams within their buffers.
LEMMA WriteTypes ==
    ASSUME StreamTypes, NEW k \in Sender, NEW t \in Token, Write(k, t), s2c' = s2c
    PROVE  StreamTypes'
  <1> DEFINE q == Append(c2s[k], t)
  <1>1. CASE sOpen[k]
    <2>1. c2s' = [c2s EXCEPT ![k] = q] /\ Len(c2s[k]) < SockBuf
      BY <1>1 DEF Write, CanWrite
    <2>2. k \in Conn => q \in Seq(Token) /\ Len(q) = Len(c2s[k]) + 1
      BY AppendFacts DEF StreamTypes
    <2>3. k \in Conn => Len(c2s[k]) \in Nat
      BY DEF StreamTypes
    <2> HIDE DEF q
    <2>4. c2s' \in [Conn -> Seq(Token)]
      BY <2>1, <2>2 DEF StreamTypes
    <2>5. ASSUME NEW j \in Conn PROVE Len(c2s'[j]) <= SockBuf
      <3>1. CASE j = k
        BY <2>1, <2>2, <2>3, <3>1, ConstAssumption DEF StreamTypes
      <3>2. CASE j # k
        BY <2>1, <3>2 DEF StreamTypes
      <3> QED
        BY <3>1, <3>2
    <2> QED
      BY <2>4, <2>5 DEF StreamTypes
  <1>2. CASE ~sOpen[k]
    BY <1>2 DEF Write, StreamTypes
  <1> QED
    BY <1>1, <1>2

\* A step of the specification by cases: which action it is.
LEMMA StepCases ==
    ASSUME Next
    PROVE  \/ SStart \/ SStop \/ BindOk \/ BindFail \/ Accept \/ Serve
           \/ DogDies \/ AcceptAndDie \/ ServerExit
           \/ \E k \in Conn : \/ SaExit(k) \/ SaTimeout(k) \/ SaHeader(k)
                              \/ SaObj(k) \/ SaReply(k)
           \/ CStart \/ CStop
           \/ \E how \in {"fin", "rst", "silent"} : ClientExit(how)
           \/ \E d \in Sender : \/ SendHeader(d) \/ SendBody(d) \/ SendFails(d)
                                \/ KaStamp(d) \/ KaExit(d)
           \/ \E d \in Conn : RxHeader(d) \/ RxObj(d) \/ RxExit(d)
           \/ Tick
  BY Zenon DEF Next, Step, ServerDog, SocketAction, KeepAliveWatchDog,
               ReceiveWatchDog

\* Every step keeps TypeOK.
LEMMA TypeStep ==
    ASSUME TypeOK, [Next]_vars
    PROVE  TypeOK'
  <1> USE ConstAssumption, ConnFacts
  <1> USE DEF sDogVars, saVars, netVars, sendVars, recvVars
  <1>0. /\ FlagTypes /\ DogTypes /\ QueueTypes /\ SaTypes /\ EndTypes
        /\ StreamTypes /\ ClientTypes
    BY DEF TypeOK
  <1>1. CASE SStart
    <2>1. FlagTypes'
      BY <1>0, <1>1 DEF SStart, FlagTypes
    <2>2. DogTypes'
      BY <1>0, <1>1 DEF SStart, DogTypes
    <2>3. QueueTypes' /\ SaTypes' /\ EndTypes' /\ StreamTypes' /\ ClientTypes'
      BY <1>0, <1>1 DEF SStart, QueueTypes, SaTypes, EndTypes, StreamTypes, ClientTypes
    <2> QED
      BY <2>1, <2>2, <2>3 DEF TypeOK
  <1>2. CASE SStop
    <2>1. FlagTypes'
      BY <1>0, <1>2 DEF SStop, FlagTypes
    <2>2. DogTypes' /\ QueueTypes' /\ SaTypes' /\ EndTypes' /\ StreamTypes' /\ ClientTypes'
      BY <1>0, <1>2 DEF SStop, DogTypes, QueueTypes, SaTypes, EndTypes, StreamTypes, ClientTypes
    <2> QED
      BY <2>1, <2>2 DEF TypeOK
  <1>3. CASE BindOk
    <2>1. FlagTypes'
      BY <1>0, <1>3 DEF BindOk, FlagTypes
    <2>2. DogTypes'
      BY <1>0, <1>3 DEF BindOk, DogTypes
    <2>3. QueueTypes' /\ SaTypes' /\ EndTypes' /\ StreamTypes' /\ ClientTypes'
      BY <1>0, <1>3 DEF BindOk, QueueTypes, SaTypes, EndTypes, StreamTypes, ClientTypes
    <2> QED
      BY <2>1, <2>2, <2>3 DEF TypeOK
  <1>4. CASE BindFail
    <2>1. FlagTypes'
      BY <1>0, <1>4 DEF BindFail, FlagTypes
    <2>2. DogTypes'
      BY <1>0, <1>4 DEF BindFail, DogTypes
    <2>3. QueueTypes' /\ SaTypes' /\ EndTypes' /\ StreamTypes' /\ ClientTypes'
      BY <1>0, <1>4 DEF BindFail, QueueTypes, SaTypes, EndTypes, StreamTypes, ClientTypes
    <2> QED
      BY <2>1, <2>2, <2>3 DEF TypeOK
  <1>5. CASE Accept
    <2>1. DogTypes'
      <3>1. Head(backlog) \in Conn
        BY <1>0, <1>5 DEF Accept, QueueTypes
      <3> QED
        BY <1>0, <1>5, <3>1 DEF Accept, DogTypes
    <2>2. QueueTypes'
      BY <1>0, <1>5 DEF Accept, QueueTypes
    <2>3. FlagTypes' /\ SaTypes' /\ EndTypes' /\ StreamTypes' /\ ClientTypes'
      BY <1>0, <1>5 DEF Accept, FlagTypes, SaTypes, EndTypes, StreamTypes, ClientTypes
    <2> QED
      BY <2>1, <2>2, <2>3 DEF TypeOK
  <1>6. CASE Serve
    <2>1. DogTypes'
      BY <1>0, <1>6 DEF Serve, DogTypes
    <2>2. SaTypes'
      BY <1>0, <1>6 DEF Serve, RecvCap, SaTypes, DogTypes
    <2>3. FlagTypes' /\ QueueTypes' /\ EndTypes' /\ StreamTypes' /\ ClientTypes'
      BY <1>0, <1>6 DEF Serve, FlagTypes, QueueTypes, EndTypes, StreamTypes, ClientTypes
    <2> QED
      BY <2>1, <2>2, <2>3 DEF TypeOK
  <1>7. CASE DogDies
    <2>1. DogTypes'
      BY <1>0, <1>7 DEF DogDies, DogTypes
    <2>2. SaTypes'
      BY <1>0, <1>7 DEF DogDies, SaTypes, DogTypes
    <2>3. FlagTypes' /\ QueueTypes' /\ EndTypes' /\ StreamTypes' /\ ClientTypes'
      BY <1>0, <1>7 DEF DogDies, FlagTypes, QueueTypes, EndTypes, StreamTypes, ClientTypes
    <2> QED
      BY <2>1, <2>2, <2>3 DEF TypeOK
  <1>8. CASE AcceptAndDie
    <2>1. FlagTypes'
      BY <1>0, <1>8 DEF AcceptAndDie, FlagTypes
    <2>2. DogTypes'
      BY <1>0, <1>8 DEF AcceptAndDie, DogTypes
    <2>3. QueueTypes'
      BY <1>0, <1>8 DEF AcceptAndDie, QueueTypes
    <2>4. SaTypes'
      BY <1>0, <1>8 DEF AcceptAndDie, SaTypes, QueueTypes
    <2>5. EndTypes' /\ StreamTypes' /\ ClientTypes'
      BY <1>0, <1>8 DEF AcceptAndDie, EndTypes, StreamTypes, ClientTypes
    <2> QED
      BY <2>1, <2>2, <2>3, <2>4, <2>5 DEF TypeOK
  <1>9. CASE ServerExit
    <2>1. FlagTypes'
      BY <1>0, <1>9 DEF ServerExit, FlagTypes
    <2>2. DogTypes'
      BY <1>0, <1>9 DEF ServerExit, DogTypes
    <2>3. QueueTypes'
      BY <1>0, <1>9 DEF ServerExit, QueueTypes
    <2>4. SaTypes'
      BY <1>0, <1>9 DEF ServerExit, SaTypes
    <2>5. EndTypes'
      BY <1>0, <1>9 DEF ServerExit, EndTypes
    <2>6. StreamTypes' /\ ClientTypes'
      BY <1>0, <1>9 DEF ServerExit, StreamTypes, ClientTypes
    <2> QED
      BY <2>1, <2>2, <2>3, <2>4, <2>5, <2>6 DEF TypeOK
  <1>10. ASSUME NEW k \in Conn, SaExit(k) PROVE TypeOK'
    <2>1. SaTypes'
      BY <1>0, <1>10 DEF SaExit, SaTypes
    <2>2. FlagTypes' /\ DogTypes' /\ QueueTypes' /\ EndTypes' /\ StreamTypes' /\ ClientTypes'
      BY <1>0, <1>10 DEF SaExit, FlagTypes, DogTypes, QueueTypes, EndTypes, StreamTypes, ClientTypes
    <2> QED
      BY <2>1, <2>2 DEF TypeOK
  <1>11. ASSUME NEW k \in Conn, SaTimeout(k) PROVE TypeOK'
    <2>1. SaTypes'
      BY <1>0, <1>11 DEF SaTimeout, Expired, overThis, SaTypes
    <2>2. EndTypes'
      BY <1>0, <1>11 DEF SaTimeout, Expired, overThis, EndTypes
    <2>3. FlagTypes' /\ DogTypes' /\ QueueTypes' /\ StreamTypes' /\ ClientTypes'
      BY <1>0, <1>11 DEF SaTimeout, Expired, FlagTypes, DogTypes, QueueTypes, StreamTypes, ClientTypes
    <2> QED
      BY <2>1, <2>2, <2>3 DEF TypeOK
  <1>12. ASSUME NEW k \in Conn, SaHeader(k) PROVE TypeOK'
    <2>1. SaTypes'
      BY <1>0, <1>12 DEF SaHeader, Expired, overThis, SaTypes
    <2>2. EndTypes'
      BY <1>0, <1>12 DEF SaHeader, Expired, overThis, EndTypes
    <2>3. StreamTypes'
      <3> DEFINE q == Tail(c2s[k])
      <3>1. q \in Seq(Token) /\ Len(q) <= SockBuf
        BY <1>0, <1>12, TailFacts DEF SaHeader, Expired, StreamTypes
      <3>2. c2s' = [c2s EXCEPT ![k] = q] /\ s2c' = s2c
        BY <1>0, <1>12 DEF SaHeader, Expired
      <3> HIDE DEF q
      <3> QED
        BY <1>0, <3>1, <3>2 DEF StreamTypes
    <2>4. FlagTypes' /\ DogTypes' /\ QueueTypes' /\ ClientTypes'
      BY <1>0, <1>12 DEF SaHeader, Expired, FlagTypes, DogTypes, QueueTypes, ClientTypes
    <2> QED
      BY <2>1, <2>2, <2>3, <2>4 DEF TypeOK
  <1>13. ASSUME NEW k \in Conn, SaObj(k) PROVE TypeOK'
    <2>1. SaTypes'
      BY <1>0, <1>13 DEF SaObj, overThis, RecvCap, SaTypes
    <2>2. EndTypes'
      BY <1>0, <1>13 DEF SaObj, overThis, EndTypes
    <2>3. StreamTypes'
      <3> DEFINE q == Tail(c2s[k])
      <3>1. CASE c2s[k] # <<>> /\ Head(c2s[k]) = "O"
        <4>1. q \in Seq(Token) /\ Len(q) <= SockBuf
          BY <1>0, <1>13, <3>1, TailFacts DEF SaObj, StreamTypes, overThis
        <4>2. c2s' = [c2s EXCEPT ![k] = q] /\ s2c' = s2c
          BY <1>0, <1>13, <3>1 DEF SaObj, overThis
        <4> HIDE DEF q
        <4> QED
          BY <1>0, <4>1, <4>2 DEF StreamTypes
      <3>2. CASE ~(c2s[k] # <<>> /\ Head(c2s[k]) = "O")
        BY <1>0, <1>13, <3>2 DEF SaObj, StreamTypes, overThis
      <3> QED
        BY <3>1, <3>2
    <2>4. FlagTypes' /\ DogTypes' /\ QueueTypes' /\ ClientTypes'
      BY <1>0, <1>13 DEF SaObj, FlagTypes, DogTypes, QueueTypes, ClientTypes
    <2> QED
      BY <2>1, <2>2, <2>3, <2>4 DEF TypeOK
  <1>14. ASSUME NEW k \in Conn, SaReply(k) PROVE TypeOK'
    <2>1. SaTypes'
      BY <1>0, <1>14 DEF SaReply, ReplyToken, overThis, SaTypes
    <2>2. EndTypes'
      BY <1>0, <1>14 DEF SaReply, ReplyToken, overThis, EndTypes
    <2>3. StreamTypes'
      <3> DEFINE t == IF spc[k] = "out" THEN "H" ELSE "O"
                 q == Append(s2c[k], t)
      <3>1. q \in Seq(Token) /\ Len(q) = Len(s2c[k]) + 1 /\ Len(s2c[k]) \in Nat
        BY <1>0, AppendFacts DEF StreamTypes, Token
      <3>2. \/ s2c' = [s2c EXCEPT ![k] = q] /\ Len(s2c[k]) < SockBuf
            \/ s2c' = s2c
        BY <1>14 DEF SaReply, ReplyToken
      <3>3. c2s' = c2s
        BY <1>14 DEF SaReply, ReplyToken
      <3> HIDE DEF q
      <3> QED
        BY <1>0, <3>1, <3>2, <3>3, SMTT(20) DEF StreamTypes
    <2>4. FlagTypes' /\ DogTypes' /\ QueueTypes' /\ ClientTypes'
      BY <1>0, <1>14 DEF SaReply, ReplyToken, FlagTypes, DogTypes, QueueTypes, ClientTypes
    <2> QED
      BY <2>1, <2>2, <2>3, <2>4 DEF TypeOK
  <1>15. CASE CStart
    <2>1. FlagTypes'
      BY <1>0, <1>15 DEF CStart, FlagTypes
    <2>2. QueueTypes'
      BY <1>0, <1>15 DEF CStart, QueueTypes, ClientTypes
    <2>3. EndTypes'
      BY <1>0, <1>15 DEF CStart, EndTypes, ClientTypes
    <2>4. ClientTypes'
      BY <1>0, <1>15 DEF CStart, SendCap, ClientTypes
    <2>5. DogTypes' /\ SaTypes' /\ StreamTypes'
      BY <1>0, <1>15 DEF CStart, DogTypes, SaTypes, StreamTypes
    <2> QED
      BY <2>1, <2>2, <2>3, <2>4, <2>5 DEF TypeOK
  <1>16. CASE CStop
    <2>1. FlagTypes'
      BY <1>0, <1>16 DEF CStop, FlagTypes
    <2>2. DogTypes' /\ QueueTypes' /\ SaTypes' /\ EndTypes' /\ StreamTypes' /\ ClientTypes'
      BY <1>0, <1>16 DEF CStop, DogTypes, QueueTypes, SaTypes, EndTypes, StreamTypes, ClientTypes
    <2> QED
      BY <2>1, <2>2 DEF TypeOK
  <1>17. ASSUME NEW how \in {"fin", "rst", "silent"}, ClientExit(how) PROVE TypeOK'
    <2>1. FlagTypes'
      BY <1>0, <1>17 DEF ClientExit, FlagTypes
    <2>2. EndTypes'
      BY <1>0, <1>17 DEF ClientExit, EndTypes
    <2>3. StreamTypes'
      BY <1>0, <1>17 DEF ClientExit, StreamTypes
    <2>4. ClientTypes'
      BY <1>0, <1>17 DEF ClientExit, ClientTypes
    <2>5. DogTypes' /\ QueueTypes' /\ SaTypes'
      BY <1>0, <1>17 DEF ClientExit, DogTypes, QueueTypes, SaTypes
    <2> QED
      BY <2>1, <2>2, <2>3, <2>4, <2>5 DEF TypeOK
  <1>18. ASSUME NEW d \in Sender, SendHeader(d) PROVE TypeOK'
    <2>1. EndTypes'
      BY <1>0, <1>18 DEF SendHeader, Write, CanWrite, EndTypes, ClientTypes
    <2>2. StreamTypes'
      BY <1>0, <1>18, WriteTypes DEF SendHeader, ClientTypes, Token
    <2>3. ClientTypes'
      BY <1>0, <1>18 DEF SendHeader, Write, CanWrite, ClientTypes
    <2>4. FlagTypes' /\ DogTypes' /\ QueueTypes' /\ SaTypes'
      BY <1>0, <1>18 DEF SendHeader, FlagTypes, DogTypes, QueueTypes, SaTypes
    <2> QED
      BY <2>1, <2>2, <2>3, <2>4 DEF TypeOK
  <1>19. ASSUME NEW d \in Sender, SendBody(d) PROVE TypeOK'
    <2>1. EndTypes'
      BY <1>0, <1>19 DEF SendBody, Write, CanWrite, EndTypes, ClientTypes
    <2>2. StreamTypes'
      BY <1>0, <1>19, WriteTypes DEF SendBody, ClientTypes, Token
    <2>3. ClientTypes'
      BY <1>0, <1>19 DEF SendBody, Write, CanWrite, ClientTypes
    <2>4. FlagTypes' /\ DogTypes' /\ QueueTypes' /\ SaTypes'
      BY <1>0, <1>19 DEF SendBody, FlagTypes, DogTypes, QueueTypes, SaTypes
    <2> QED
      BY <2>1, <2>2, <2>3, <2>4 DEF TypeOK
  <1>20. ASSUME NEW d \in Sender, SendFails(d) PROVE TypeOK'
    <2>1. FlagTypes'
      BY <1>0, <1>20 DEF SendFails, RunningAfterFailure, WriteFails, FlagTypes
    <2>2. EndTypes'
      BY <1>0, <1>20 DEF SendFails, RunningAfterFailure, WriteFails, EndTypes
    <2>3. StreamTypes'
      BY <1>0, <1>20 DEF SendFails, RunningAfterFailure, WriteFails, StreamTypes
    <2>4. ClientTypes'
      BY <1>0, <1>20 DEF SendFails, RunningAfterFailure, WriteFails, ClientTypes
    <2>5. DogTypes' /\ QueueTypes' /\ SaTypes'
      BY <1>0, <1>20 DEF SendFails, RunningAfterFailure, DogTypes, QueueTypes, SaTypes
    <2> QED
      BY <2>1, <2>2, <2>3, <2>4, <2>5 DEF TypeOK
  <1>21. ASSUME NEW d \in Sender, KaStamp(d) PROVE TypeOK'
    <2>1. ClientTypes'
      BY <1>0, <1>21 DEF KaStamp, SendCap, ClientTypes
    <2>2. FlagTypes' /\ DogTypes' /\ QueueTypes' /\ SaTypes' /\ EndTypes' /\ StreamTypes'
      BY <1>0, <1>21 DEF KaStamp, FlagTypes, DogTypes, QueueTypes, SaTypes, EndTypes, StreamTypes
    <2> QED
      BY <2>1, <2>2 DEF TypeOK
  <1>22. ASSUME NEW d \in Sender, KaExit(d) PROVE TypeOK'
    <2>1. ClientTypes'
      BY <1>0, <1>22 DEF KaExit, ClientTypes
    <2>2. FlagTypes' /\ DogTypes' /\ QueueTypes' /\ SaTypes' /\ EndTypes' /\ StreamTypes'
      BY <1>0, <1>22 DEF KaExit, FlagTypes, DogTypes, QueueTypes, SaTypes, EndTypes, StreamTypes
    <2> QED
      BY <2>1, <2>2 DEF TypeOK
  <1>23. ASSUME NEW e \in Conn, RxHeader(e) PROVE TypeOK'
    <2>1. FlagTypes'
      BY <1>0, <1>23 DEF RxHeader, FlagTypes
    <2>2. StreamTypes'
      <3> DEFINE q == Tail(s2c[cSock])
      <3>1. cSock \in Conn => q \in Seq(Token) /\ Len(q) <= SockBuf
        BY <1>0, <1>23, TailFacts DEF RxHeader, StreamTypes
      <3>2. s2c' = [s2c EXCEPT ![cSock] = q] /\ c2s' = c2s
        BY <1>0, <1>23 DEF RxHeader
      <3> HIDE DEF q
      <3> QED
        BY <1>0, <3>1, <3>2 DEF StreamTypes
    <2>3. ClientTypes'
      BY <1>0, <1>23 DEF RxHeader, ClientTypes
    <2>4. DogTypes' /\ QueueTypes' /\ SaTypes' /\ EndTypes'
      BY <1>0, <1>23 DEF RxHeader, DogTypes, QueueTypes, SaTypes, EndTypes
    <2> QED
      BY <2>1, <2>2, <2>3, <2>4 DEF TypeOK
  <1>24. ASSUME NEW e \in Conn, RxObj(e) PROVE TypeOK'
    <2>1. FlagTypes'
      BY <1>0, <1>24 DEF RxObj, FlagTypes
    <2>2. StreamTypes'
      <3> DEFINE q == Tail(s2c[rSock[e]])
      <3>1. CASE s2c[rSock[e]] # <<>>
        <4>1. rSock[e] \in Conn => q \in Seq(Token) /\ Len(q) <= SockBuf
          BY <1>0, <1>24, <3>1, TailFacts, SMTT(20) DEF RxObj, StreamTypes
        <4>2. s2c' = [s2c EXCEPT ![rSock[e]] = q] /\ c2s' = c2s
          BY <1>0, <1>24, <3>1 DEF RxObj
        <4> HIDE DEF q
        <4> QED
          BY <1>0, <4>1, <4>2 DEF StreamTypes
      <3>2. CASE ~(s2c[rSock[e]] # <<>>)
        BY <1>0, <1>24, <3>2 DEF RxObj, StreamTypes
      <3> QED
        BY <3>1, <3>2
    <2>3. ClientTypes'
      BY <1>0, <1>24 DEF RxObj, ClientTypes
    <2>4. DogTypes' /\ QueueTypes' /\ SaTypes' /\ EndTypes'
      BY <1>0, <1>24 DEF RxObj, DogTypes, QueueTypes, SaTypes, EndTypes
    <2> QED
      BY <2>1, <2>2, <2>3, <2>4 DEF TypeOK
  <1>25. ASSUME NEW e \in Conn, RxExit(e) PROVE TypeOK'
    <2>1. ClientTypes'
      BY <1>0, <1>25 DEF RxExit, ClientTypes
    <2>2. FlagTypes' /\ DogTypes' /\ QueueTypes' /\ SaTypes' /\ EndTypes' /\ StreamTypes'
      BY <1>0, <1>25 DEF RxExit, FlagTypes, DogTypes, QueueTypes, SaTypes, EndTypes, StreamTypes
    <2> QED
      BY <2>1, <2>2 DEF TypeOK
  <1>26. CASE Tick
    <2>1. SaTypes'
      BY <1>0, <1>26 DEF Tick, Older, RecvCap, SaTypes
    <2>2. ClientTypes'
      BY <1>0, <1>26 DEF Tick, Older, SendCap, ClientTypes
    <2>3. FlagTypes' /\ DogTypes' /\ QueueTypes' /\ EndTypes' /\ StreamTypes'
      BY <1>0, <1>26 DEF Tick, FlagTypes, DogTypes, QueueTypes, EndTypes, StreamTypes
    <2> QED
      BY <2>1, <2>2, <2>3 DEF TypeOK
  <1>27. CASE UNCHANGED vars
    BY <1>0, <1>27 DEF vars, TypeOK, FlagTypes, DogTypes, QueueTypes,
       SaTypes, EndTypes, StreamTypes, ClientTypes
  <1> QED
    BY StepCases, Zenon,
       <1>1, <1>2, <1>3, <1>4, <1>5, <1>6, <1>7, <1>8, <1>9, <1>10, <1>11, <1>12,
       <1>13, <1>14, <1>15, <1>16, <1>17, <1>18, <1>19, <1>20, <1>21, <1>22, <1>23, <1>24,
       <1>25, <1>26, <1>27

\* The initial state is of the right type.
LEMMA TypeInit == Init => TypeOK
  <1> SUFFICES ASSUME Init PROVE TypeOK
    OBVIOUS
  <1> USE ConstAssumption, ConnFacts DEF Init
  <1>1. FlagTypes
    BY DEF FlagTypes
  <1>2. DogTypes
    BY DEF DogTypes
  <1>3. QueueTypes
    BY DEF QueueTypes
  <1>4. SaTypes
    BY DEF SaTypes, RecvCap
  <1>5. EndTypes
    BY DEF EndTypes
  <1>6. StreamTypes
    BY DEF StreamTypes
  <1>7. ClientTypes
    BY DEF ClientTypes, SendCap
  <1> QED
    BY <1>1, <1>2, <1>3, <1>4, <1>5, <1>6, <1>7 DEF TypeOK

\* Server, kernel and client keep every field, thread state, age and buffer
\* within its range, whatever the application does and however threads run.
THEOREM TypeCorrect == Spec => []TypeOK
  BY TypeInit, TypeStep, PTL DEF Spec

-----------------------------------------------------------------------------
(* The parts of FrameInv are kept by every step.                            *)

\* Only start() reaches a connection that was not made yet.
LEMMA UntouchedStep ==
    ASSUME TypeOK, Untouched, Queued, OnePair, [Next]_vars
    PROVE  Untouched'
  <1> USE ConstAssumption, ConnFacts
  <1> USE DEF Untouched, SaTypes, EndTypes, StreamTypes, ClientTypes, sDogVars, saVars, netVars, sendVars, recvVars
  <1>0. /\ SaTypes /\ EndTypes /\ StreamTypes /\ ClientTypes
        /\ DogTypes /\ QueueTypes
    BY DEF TypeOK
  <1>1. CASE SStart
    BY <1>0, <1>1 DEF SStart
  <1>2. CASE SStop
    BY <1>0, <1>2 DEF SStop
  <1>3. CASE BindOk
    BY <1>0, <1>3 DEF BindOk
  <1>4. CASE BindFail
    BY <1>0, <1>4 DEF BindFail
  <1>5. CASE Accept
    BY <1>0, <1>5 DEF Accept
  <1>6. CASE Serve
    <2>1. wConn \in Conn /\ wConn <= cSock
      BY <1>0, <1>6 DEF Serve, Queued, DogTypes
    <2> QED
      BY <1>0, <1>6, <2>1 DEF Serve
  <1>7. CASE DogDies
    <2>1. wpc = "got" => wConn \in Conn /\ wConn <= cSock
      BY <1>0, <1>7 DEF Queued, DogTypes
    <2> QED
      BY <1>0, <1>7, <2>1 DEF DogDies
  <1>8. CASE AcceptAndDie
    <2>1. Head(backlog) \in Conn /\ Head(backlog) <= cSock
      BY <1>0, <1>8 DEF Queued, QueueTypes, AcceptAndDie
    <2>2. spc' = [spc EXCEPT ![Head(backlog)] = "done"] /\ (wpc' = "exited" <=> wpc = "exited")
      BY <1>8 DEF AcceptAndDie
    <2>3. UNCHANGED <<c2s, s2c, peer, kpc, rpc, cSock>>
      BY <1>8 DEF AcceptAndDie
    <2> QED
      BY <1>0, <2>1, <2>2, <2>3
  <1>9. CASE ServerExit
    BY <1>0, <1>9 DEF ServerExit
  <1>10. ASSUME NEW k \in Conn, SaExit(k) PROVE Untouched'
    BY <1>0, <1>10 DEF SaExit
  <1>11. ASSUME NEW k \in Conn, SaTimeout(k) PROVE Untouched'
    BY <1>0, <1>11 DEF SaTimeout, Expired, overThis
  <1>12. ASSUME NEW k \in Conn, SaHeader(k) PROVE Untouched'
    BY <1>0, <1>12 DEF SaHeader, Expired, overThis
  <1>13. ASSUME NEW k \in Conn, SaObj(k) PROVE Untouched'
    BY <1>0, <1>13 DEF SaObj, overThis
  <1>14. ASSUME NEW k \in Conn, SaReply(k) PROVE Untouched'
    BY <1>0, <1>14 DEF SaReply, ReplyToken, overThis
  <1>15. CASE CStart
    BY <1>0, <1>15 DEF CStart, Quiet
  <1>16. CASE CStop
    BY <1>0, <1>16 DEF CStop
  <1>17. ASSUME NEW how \in {"fin", "rst", "silent"}, ClientExit(how) PROVE Untouched'
    <2> SUFFICES ASSUME NEW k \in Conn, k > cSock
                 PROVE  /\ c2s'[k] = <<>> /\ s2c'[k] = <<>> /\ peer'[k] = "up"
                        /\ spc'[k] = (IF wpc' = "exited" THEN "done" ELSE "none")
                        /\ kpc'[k] = "none" /\ rpc'[k] = "none"
      BY <1>17 DEF ClientExit
    <2>1. /\ c2s'[k] = <<>> /\ s2c'[k] = <<>>
          /\ spc'[k] = (IF wpc' = "exited" THEN "done" ELSE "none")
      BY <1>0, <1>17 DEF ClientExit
    <2>2. ~(k <= cSock)
      BY <1>0
    <2>3. peer'[k] = "up" /\ kpc'[k] = "none" /\ rpc'[k] = "none"
      BY <1>0, <2>2, <1>17 DEF ClientExit
    <2> QED
      BY <2>1, <2>3
  <1>18. ASSUME NEW d \in Sender, SendHeader(d) PROVE Untouched'
    BY <1>0, <1>18 DEF SendHeader, Write
  <1>19. ASSUME NEW d \in Sender, SendBody(d) PROVE Untouched'
    <2>1. d \in Conn /\ d = cSock /\ kSock[d] = cSock
      BY <1>0, <1>19 DEF SendBody, OnePair
    <2> QED
      BY <1>0, <1>19, <2>1 DEF SendBody, Write
  <1>20. ASSUME NEW d \in Sender, SendFails(d) PROVE Untouched'
    BY <1>0, <1>20 DEF SendFails, RunningAfterFailure, WriteFails
  <1>21. ASSUME NEW d \in Sender, KaStamp(d) PROVE Untouched'
    BY <1>0, <1>21 DEF KaStamp
  <1>22. ASSUME NEW d \in Sender, KaExit(d) PROVE Untouched'
    BY <1>0, <1>22 DEF KaExit
  <1>23. ASSUME NEW e \in Conn, RxHeader(e) PROVE Untouched'
    BY <1>0, <1>23 DEF RxHeader
  <1>24. ASSUME NEW e \in Conn, RxObj(e) PROVE Untouched'
    BY <1>0, <1>24 DEF RxObj
  <1>25. ASSUME NEW e \in Conn, RxExit(e) PROVE Untouched'
    BY <1>0, <1>25 DEF RxExit
  <1>26. CASE Tick
    BY <1>0, <1>26 DEF Tick
  <1>27. CASE UNCHANGED vars
    BY <1>0, <1>27 DEF vars
  <1> QED
    BY StepCases, Zenon,
       <1>1, <1>2, <1>3, <1>4, <1>5, <1>6, <1>7, <1>8, <1>9, <1>10, <1>11, <1>12,
       <1>13, <1>14, <1>15, <1>16, <1>17, <1>18, <1>19, <1>20, <1>21, <1>22, <1>23, <1>24,
       <1>25, <1>26, <1>27

\* Connections are queued, held and served in the order of connecting.
LEMMA QueuedStep ==
    ASSUME TypeOK, Untouched, Queued, OpenUnlessDone, [Next]_vars
    PROVE  Queued'
  <1> USE ConstAssumption, ConnFacts
  <1> USE DEF Queued, SaTypes, QueueTypes, DogTypes, ClientTypes, sDogVars, saVars, netVars, sendVars, recvVars
  <1>0. SaTypes /\ QueueTypes /\ DogTypes /\ ClientTypes
    BY DEF TypeOK
  <1>a. /\ Len(backlog) \in Nat /\ \A i \in 1 .. Len(backlog) : backlog[i] \in Conn
        /\ \A k \in Conn : k \in Nat
        /\ cSock \in Nat /\ (wpc = "got" => wConn \in Conn)
    BY <1>0
  <1>1. CASE SStart
    BY <1>0, <1>1 DEF SStart
  <1>2. CASE SStop
    BY <1>0, <1>2 DEF SStop
  <1>3. CASE BindOk
    BY <1>0, <1>3 DEF BindOk
  <1>4. CASE BindFail
    BY <1>0, <1>4 DEF BindFail
  <1>5. CASE Accept
    BY <1>0, <1>5 DEF Accept
  <1>6. CASE Serve
    BY <1>0, <1>6 DEF Serve
  <1>7. CASE DogDies
    BY <1>0, <1>7 DEF DogDies
  <1>8. CASE AcceptAndDie
    <2> DEFINE q == Tail(backlog)
    <2>1. /\ q \in Seq(Conn) /\ Len(q) = Len(backlog) - 1 /\ Len(backlog) \in Nat \ {0}
          /\ \A i \in 1 .. Len(q) : q[i] = backlog[i + 1] /\ backlog[i + 1] \in Conn
          /\ Head(backlog) = backlog[1] /\ backlog[1] \in Conn
      BY <1>0, <1>8 DEF AcceptAndDie
    <2>2. /\ backlog' = q /\ spc' = [spc EXCEPT ![backlog[1]] = "done"]
          /\ wpc' = "got" => wpc = "got"
          /\ UNCHANGED <<wConn, cSock>>
      BY <2>1, <1>8 DEF AcceptAndDie
    <2> HIDE DEF q
    <2>3. \A i \in 1 .. Len(q) : backlog[1] < q[i] /\ q[i] <= cSock /\ spc[q[i]] = "none"
      BY <2>1, SMTT(20)
    <2>4. ASSUME NEW i \in 1 .. Len(q) PROVE spc'[q[i]] = "none"
      <3>1. q[i] \in Conn /\ q[i] # backlog[1] /\ spc[q[i]] = "none"
        <4>1. q[i] \in Conn /\ backlog[1] < q[i] /\ spc[q[i]] = "none"
          BY <2>1, <2>3
        <4>2. q[i] \in Nat /\ backlog[1] \in Nat
          BY <1>a, <2>1, <4>1
        <4> QED
          BY <4>1, <4>2
      <3> QED
        BY <1>0, <2>2, <3>1
    <2>5. \A i, j \in 1 .. Len(q) : i < j => q[i] < q[j]
      BY <2>1
    <2>6. wpc' = "got" => /\ wConn <= cSock /\ spc'[wConn] = "none"
                          /\ \A i \in 1 .. Len(q) : wConn < q[i]
      <3> SUFFICES ASSUME wpc' = "got" PROVE /\ wConn <= cSock /\ spc'[wConn] = "none"
                          /\ \A i \in 1 .. Len(q) : wConn < q[i]
        OBVIOUS
      <3>1. wpc = "got" /\ wConn \in Conn /\ wConn < backlog[1]
        BY <1>a, <2>1, <2>2
      <3>2. wConn # backlog[1]
        BY <1>a, <2>1, <3>1
      <3>3. spc'[wConn] = "none"
        BY <1>0, <2>1, <2>2, <3>1, <3>2
      <3>4. \A i \in 1 .. Len(q) : wConn < q[i]
        BY <2>1, <3>1
      <3> QED
        BY <3>1, <3>3, <3>4
    <2> QED
      BY <2>2, <2>3, <2>4, <2>5, <2>6
  <1>9. CASE ServerExit
    BY <1>0, <1>9 DEF ServerExit
  <1>10. ASSUME NEW k \in Conn, SaExit(k) PROVE Queued'
    BY <1>0, <1>10 DEF SaExit
  <1>11. ASSUME NEW k \in Conn, SaTimeout(k) PROVE Queued'
    BY <1>0, <1>11 DEF SaTimeout, Expired, overThis
  <1>12. ASSUME NEW k \in Conn, SaHeader(k) PROVE Queued'
    <2>1. /\ \A j \in Conn : spc[j] = "none" => spc'[j] = "none"
          /\ UNCHANGED <<backlog, wpc, wConn, cSock>>
      BY <1>0, <1>12 DEF SaHeader, Expired, overThis
    <2> QED
      BY <1>a, <2>1
  <1>13. ASSUME NEW k \in Conn, SaObj(k) PROVE Queued'
    <2>1. /\ \A j \in Conn : spc[j] = "none" => spc'[j] = "none"
          /\ UNCHANGED <<backlog, wpc, wConn, cSock>>
      BY <1>0, <1>13 DEF SaObj, overThis
    <2> QED
      BY <1>a, <2>1
  <1>14. ASSUME NEW k \in Conn, SaReply(k) PROVE Queued'
    <2>1. /\ \A j \in Conn : spc[j] = "none" => spc'[j] = "none"
          /\ UNCHANGED <<backlog, wpc, wConn, cSock>>
      BY <1>0, <1>14 DEF SaReply, ReplyToken, overThis
    <2> QED
      BY <1>a, <2>1
  <1>15. CASE CStart
    <2> DEFINE q == Append(backlog, cSock + 1)
               n == Len(backlog)
    <2>1. /\ Len(q) = n + 1 /\ n \in Nat
          /\ \A i \in 1 .. n : q[i] = backlog[i]
          /\ q[n + 1] = cSock + 1 /\ cSock + 1 \in Conn
      BY <1>0, <1>15 DEF CStart
    <2>2. backlog' = q /\ cSock' = cSock + 1 /\ UNCHANGED <<spc, wConn, wpc>>
      BY <1>15 DEF CStart
    <2>3. spc[cSock + 1] = "none"
      BY <1>0, <2>1, <1>15 DEF CStart, Untouched, OpenUnlessDone
    <2>4. /\ \A i \in 1 .. n : /\ backlog[i] \in Nat /\ backlog[i] <= cSock
                              /\ spc[backlog[i]] = "none"
          /\ \A i, j \in 1 .. n : i < j => backlog[i] < backlog[j]
          /\ wpc = "got" => /\ wConn \in Nat /\ wConn <= cSock /\ spc[wConn] = "none"
                            /\ \A i \in 1 .. n : wConn < backlog[i]
      BY <1>a
    <2> HIDE DEF q, n, Queued
    <2>5. ASSUME NEW i \in 1 .. Len(q)
          PROVE  \/ i = n + 1 /\ q[i] = cSock + 1
                 \/ i \in 1 .. n /\ q[i] = backlog[i]
      BY <2>1
    <2>6. ASSUME NEW i \in 1 .. Len(q)
          PROVE  /\ q[i] <= cSock + 1 /\ spc[q[i]] = "none"
                 /\ wpc = "got" => wConn < q[i]
      BY <1>a, <2>3, <2>4, <2>5
    <2>7. ASSUME NEW i \in 1 .. Len(q), NEW j \in 1 .. Len(q), i < j
          PROVE  q[i] < q[j]
      BY <1>a, <2>1, <2>4, <2>5, <2>7
    <2>8. wpc = "got" => wConn <= cSock + 1
      BY <1>a, <2>4
    <2> QED
      BY <2>2, <2>4, <2>6, <2>7, <2>8 DEF Queued
  <1>16. CASE CStop
    BY <1>0, <1>16 DEF CStop
  <1>17. ASSUME NEW how \in {"fin", "rst", "silent"}, ClientExit(how) PROVE Queued'
    BY <1>0, <1>17 DEF ClientExit
  <1>18. ASSUME NEW d \in Sender, SendHeader(d) PROVE Queued'
    BY <1>0, <1>18 DEF SendHeader, Write
  <1>19. ASSUME NEW d \in Sender, SendBody(d) PROVE Queued'
    BY <1>0, <1>19 DEF SendBody, Write
  <1>20. ASSUME NEW d \in Sender, SendFails(d) PROVE Queued'
    BY <1>0, <1>20 DEF SendFails, RunningAfterFailure, WriteFails
  <1>21. ASSUME NEW d \in Sender, KaStamp(d) PROVE Queued'
    BY <1>0, <1>21 DEF KaStamp
  <1>22. ASSUME NEW d \in Sender, KaExit(d) PROVE Queued'
    BY <1>0, <1>22 DEF KaExit
  <1>23. ASSUME NEW e \in Conn, RxHeader(e) PROVE Queued'
    BY <1>0, <1>23 DEF RxHeader
  <1>24. ASSUME NEW e \in Conn, RxObj(e) PROVE Queued'
    BY <1>0, <1>24 DEF RxObj
  <1>25. ASSUME NEW e \in Conn, RxExit(e) PROVE Queued'
    BY <1>0, <1>25 DEF RxExit
  <1>26. CASE Tick
    BY <1>0, <1>26 DEF Tick
  <1>27. CASE UNCHANGED vars
    BY <1>0, <1>27 DEF vars
  <1> QED
    BY StepCases, Zenon,
       <1>1, <1>2, <1>3, <1>4, <1>5, <1>6, <1>7, <1>8, <1>9, <1>10, <1>11, <1>12,
       <1>13, <1>14, <1>15, <1>16, <1>17, <1>18, <1>19, <1>20, <1>21, <1>22, <1>23, <1>24,
       <1>25, <1>26, <1>27

\* An exclusive client has one pair of dogs at work.
LEMMA OnePairStep ==
    ASSUME Exclusive, TypeOK, Untouched, OnePair, [Next]_vars
    PROVE  OnePair'
  <1> USE ConstAssumption, ConnFacts
  <1> USE DEF OnePair, EndTypes, ClientTypes, sDogVars, saVars, netVars, sendVars, recvVars
  <1>0. EndTypes /\ ClientTypes
    BY DEF TypeOK
  <1>1. CASE SStart
    BY <1>0, <1>1 DEF SStart
  <1>2. CASE SStop
    BY <1>0, <1>2 DEF SStop
  <1>3. CASE BindOk
    BY <1>0, <1>3 DEF BindOk
  <1>4. CASE BindFail
    BY <1>0, <1>4 DEF BindFail
  <1>5. CASE Accept
    BY <1>0, <1>5 DEF Accept
  <1>6. CASE Serve
    BY <1>0, <1>6 DEF Serve
  <1>7. CASE DogDies
    BY <1>0, <1>7 DEF DogDies
  <1>8. CASE AcceptAndDie
    BY <1>0, <1>8 DEF AcceptAndDie
  <1>9. CASE ServerExit
    BY <1>0, <1>9 DEF ServerExit
  <1>10. ASSUME NEW k \in Conn, SaExit(k) PROVE OnePair'
    BY <1>0, <1>10 DEF SaExit
  <1>11. ASSUME NEW k \in Conn, SaTimeout(k) PROVE OnePair'
    BY <1>0, <1>11 DEF SaTimeout, Expired, overThis
  <1>12. ASSUME NEW k \in Conn, SaHeader(k) PROVE OnePair'
    BY <1>0, <1>12 DEF SaHeader, Expired, overThis
  <1>13. ASSUME NEW k \in Conn, SaObj(k) PROVE OnePair'
    BY <1>0, <1>13 DEF SaObj, overThis
  <1>14. ASSUME NEW k \in Conn, SaReply(k) PROVE OnePair'
    BY <1>0, <1>14 DEF SaReply, ReplyToken, overThis
  <1>15. CASE CStart
    <2>1. cSock + 1 \in Conn /\ cSock + 1 # cSock /\ peer[cSock + 1] = "up"
      BY <1>0, <1>15 DEF CStart, Untouched
    <2>2. /\ \A d \in Sender : kpc[d] \in {"none", "done"}
          /\ \A d \in Conn : rpc[d] \in {"none", "done"}
      BY <1>15 DEF CStart, Quiet
    <2>3. kpc'[App] = "none"
      BY <1>0, <2>1, <1>15 DEF CStart
    <2>4. kpc'[cSock'] = "loop" /\ cSock' \in Conn /\ peer'[cSock'] = "up"
      BY <1>0, <2>1, <1>15 DEF CStart
    <2>5. ASSUME NEW d \in Conn, d # cSock'
          PROVE  kpc'[d] = kpc[d] /\ rpc'[d] = rpc[d]
      BY <1>0, <2>1, <2>5, <1>15 DEF CStart
    <2>6. rpc'[cSock'] = "loop"
      BY <1>0, <2>1, <1>15 DEF CStart
    <2> QED
      BY <2>2, <2>3, <2>4, <2>5, <2>6
  <1>16. CASE CStop
    BY <1>0, <1>16 DEF CStop
  <1>17. ASSUME NEW how \in {"fin", "rst", "silent"}, ClientExit(how) PROVE OnePair'
    BY <1>0, <1>17 DEF ClientExit
  <1>18. ASSUME NEW d \in Sender, SendHeader(d) PROVE OnePair'
    BY <1>0, <1>18 DEF SendHeader, Write
  <1>19. ASSUME NEW d \in Sender, SendBody(d) PROVE OnePair'
    BY <1>0, <1>19 DEF SendBody, Write
  <1>20. ASSUME NEW d \in Sender, SendFails(d) PROVE OnePair'
    BY <1>0, <1>20 DEF SendFails, RunningAfterFailure, WriteFails
  <1>21. ASSUME NEW d \in Sender, KaStamp(d) PROVE OnePair'
    BY <1>0, <1>21 DEF KaStamp
  <1>22. ASSUME NEW d \in Sender, KaExit(d) PROVE OnePair'
    BY <1>0, <1>22 DEF KaExit
  <1>23. ASSUME NEW e \in Conn, RxHeader(e) PROVE OnePair'
    BY <1>0, <1>23 DEF RxHeader
  <1>24. ASSUME NEW e \in Conn, RxObj(e) PROVE OnePair'
    BY <1>0, <1>24 DEF RxObj
  <1>25. ASSUME NEW e \in Conn, RxExit(e) PROVE OnePair'
    BY <1>0, <1>25 DEF RxExit
  <1>26. CASE Tick
    BY <1>0, <1>26 DEF Tick
  <1>27. CASE UNCHANGED vars
    BY <1>0, <1>27 DEF vars
  <1> QED
    BY StepCases, Zenon,
       <1>1, <1>2, <1>3, <1>4, <1>5, <1>6, <1>7, <1>8, <1>9, <1>10, <1>11, <1>12,
       <1>13, <1>14, <1>15, <1>16, <1>17, <1>18, <1>19, <1>20, <1>21, <1>22, <1>23, <1>24,
       <1>25, <1>26, <1>27

\* Only overThis() and the end of the process close the server's end.
LEMMA OpenStep ==
    ASSUME TypeOK, Untouched, Queued, OpenUnlessDone, [Next]_vars
    PROVE  OpenUnlessDone'
  <1> USE ConstAssumption, ConnFacts
  <1> USE DEF OpenUnlessDone, SaTypes, EndTypes, DogTypes, QueueTypes, ClientTypes, sDogVars, saVars, netVars, sendVars, recvVars
  <1>0. SaTypes /\ EndTypes /\ DogTypes /\ QueueTypes /\ ClientTypes
    BY DEF TypeOK
  <1>1. CASE SStart
    BY <1>0, <1>1 DEF SStart
  <1>2. CASE SStop
    BY <1>0, <1>2 DEF SStop
  <1>3. CASE BindOk
    BY <1>0, <1>3 DEF BindOk
  <1>4. CASE BindFail
    BY <1>0, <1>4 DEF BindFail
  <1>5. CASE Accept
    BY <1>0, <1>5 DEF Accept
  <1>6. CASE Serve
    <2>1. wConn \in Conn /\ sOpen[wConn]
      BY <1>0, <1>6 DEF Serve, Queued
    <2> QED
      BY <1>0, <2>1, <1>6 DEF Serve
  <1>7. CASE DogDies
    BY <1>0, <1>7 DEF DogDies
  <1>8. CASE AcceptAndDie
    BY <1>0, <1>8 DEF AcceptAndDie
  <1>9. CASE ServerExit
    BY <1>0, <1>9 DEF ServerExit
  <1>10. ASSUME NEW k \in Conn, SaExit(k) PROVE OpenUnlessDone'
    BY <1>0, <1>10 DEF SaExit
  <1>11. ASSUME NEW k \in Conn, SaTimeout(k) PROVE OpenUnlessDone'
    BY <1>0, <1>11 DEF SaTimeout, Expired, overThis
  <1>12. ASSUME NEW k \in Conn, SaHeader(k) PROVE OpenUnlessDone'
    BY <1>0, <1>12 DEF SaHeader, Expired, overThis
  <1>13. ASSUME NEW k \in Conn, SaObj(k) PROVE OpenUnlessDone'
    BY <1>0, <1>13 DEF SaObj, overThis
  <1>14. ASSUME NEW k \in Conn, SaReply(k) PROVE OpenUnlessDone'
    BY <1>0, <1>14 DEF SaReply, ReplyToken, overThis
  <1>15. CASE CStart
    BY <1>0, <1>15 DEF CStart, Quiet
  <1>16. CASE CStop
    BY <1>0, <1>16 DEF CStop
  <1>17. ASSUME NEW how \in {"fin", "rst", "silent"}, ClientExit(how) PROVE OpenUnlessDone'
    BY <1>0, <1>17 DEF ClientExit
  <1>18. ASSUME NEW d \in Sender, SendHeader(d) PROVE OpenUnlessDone'
    BY <1>0, <1>18 DEF SendHeader, Write
  <1>19. ASSUME NEW d \in Sender, SendBody(d) PROVE OpenUnlessDone'
    BY <1>0, <1>19 DEF SendBody, Write
  <1>20. ASSUME NEW d \in Sender, SendFails(d) PROVE OpenUnlessDone'
    BY <1>0, <1>20 DEF SendFails, RunningAfterFailure, WriteFails
  <1>21. ASSUME NEW d \in Sender, KaStamp(d) PROVE OpenUnlessDone'
    BY <1>0, <1>21 DEF KaStamp
  <1>22. ASSUME NEW d \in Sender, KaExit(d) PROVE OpenUnlessDone'
    BY <1>0, <1>22 DEF KaExit
  <1>23. ASSUME NEW e \in Conn, RxHeader(e) PROVE OpenUnlessDone'
    BY <1>0, <1>23 DEF RxHeader
  <1>24. ASSUME NEW e \in Conn, RxObj(e) PROVE OpenUnlessDone'
    BY <1>0, <1>24 DEF RxObj
  <1>25. ASSUME NEW e \in Conn, RxExit(e) PROVE OpenUnlessDone'
    BY <1>0, <1>25 DEF RxExit
  <1>26. CASE Tick
    BY <1>0, <1>26 DEF Tick
  <1>27. CASE UNCHANGED vars
    BY <1>0, <1>27 DEF vars
  <1> QED
    BY StepCases, Zenon,
       <1>1, <1>2, <1>3, <1>4, <1>5, <1>6, <1>7, <1>8, <1>9, <1>10, <1>11, <1>12,
       <1>13, <1>14, <1>15, <1>16, <1>17, <1>18, <1>19, <1>20, <1>21, <1>22, <1>23, <1>24,
       <1>25, <1>26, <1>27

\* A step that leaves the streams of k alone keeps them in frame if nobody
\* who is still there changes what it reads or writes next.
LEMMA SameFrame ==
    ASSUME NEW k \in Conn, FramedAt(k),
           c2s'[k] = c2s[k], s2c'[k] = s2c[k],
           spc'[k] # "done" => spc[k] # "done" /\ SaWants(k)' = SaWants(k),
           spc'[k] # "done" /\ peer'[k] = "up" => DogWrites(k)' = DogWrites(k),
           peer'[k] = "up" => peer[k] = "up" /\ RxWants(k)' = RxWants(k),
           peer'[k] = "up" /\ sOpen'[k] =>
               sOpen[k] /\ SaWrites(k)' = SaWrites(k)
    PROVE  FramedAt(k)'
  BY DEF FramedAt

\* A token is one of two, and what an end reads or writes next is one.
LEMMA WantFacts ==
    /\ \A k : /\ SaWants(k) \in Token /\ SaWrites(k) \in Token
              /\ DogWrites(k) \in Token /\ RxWants(k) \in Token
    /\ Other("H") = "O" /\ Other("O") = "H" /\ "H" \in Token /\ "O" \in Token
  BY DEF SaWants, SaWrites, DogWrites, RxWants, Token, Other

\* Reads and writes alternate header and object at both ends.
LEMMA InFrameStep ==
    ASSUME Exclusive, TypeOK, Untouched, Queued, OnePair, OpenUnlessDone,
           InFrame, [Next]_vars
    PROVE  InFrame'
  <1> USE ConstAssumption, ConnFacts
  <1> USE DEF SaTypes, EndTypes, StreamTypes, ClientTypes, sDogVars, saVars, netVars, sendVars, recvVars
  <1>0. /\ SaTypes /\ EndTypes /\ StreamTypes /\ ClientTypes
        /\ DogTypes /\ QueueTypes
    BY DEF TypeOK
  <1>1. CASE SStart
    <2> SUFFICES ASSUME NEW j \in Conn PROVE FramedAt(j)'
      BY DEF InFrame
    <2>1. FramedAt(j)
      BY DEF InFrame
    <2> QED
      BY <1>0, <2>1, <1>1, SameFrame DEF SStart, SaWants, SaWrites, DogWrites, RxWants
  <1>2. CASE SStop
    <2> SUFFICES ASSUME NEW j \in Conn PROVE FramedAt(j)'
      BY DEF InFrame
    <2>1. FramedAt(j)
      BY DEF InFrame
    <2> QED
      BY <1>0, <2>1, <1>2, SameFrame DEF SStop, SaWants, SaWrites, DogWrites, RxWants
  <1>3. CASE BindOk
    <2> SUFFICES ASSUME NEW j \in Conn PROVE FramedAt(j)'
      BY DEF InFrame
    <2>1. FramedAt(j)
      BY DEF InFrame
    <2> QED
      BY <1>0, <2>1, <1>3, SameFrame DEF BindOk, SaWants, SaWrites, DogWrites, RxWants
  <1>4. CASE BindFail
    <2> SUFFICES ASSUME NEW j \in Conn PROVE FramedAt(j)'
      BY DEF InFrame
    <2>1. FramedAt(j)
      BY DEF InFrame
    <2> QED
      BY <1>0, <2>1, <1>4, SameFrame DEF BindFail, SaWants, SaWrites, DogWrites, RxWants
  <1>5. CASE Accept
    <2> SUFFICES ASSUME NEW j \in Conn PROVE FramedAt(j)'
      BY DEF InFrame
    <2>1. FramedAt(j)
      BY DEF InFrame
    <2> QED
      BY <1>0, <2>1, <1>5, SameFrame DEF Accept, SaWants, SaWrites, DogWrites, RxWants
  <1>6. CASE Serve
    <2> SUFFICES ASSUME NEW j \in Conn PROVE FramedAt(j)'
      BY DEF InFrame
    <2>1. FramedAt(j)
      BY DEF InFrame
    <2>2. wConn \in Conn /\ spc[wConn] = "none"
      BY <1>0, <1>6 DEF Serve, Queued, DogTypes
    <2> QED
      BY <1>0, <2>1, <1>6, SameFrame, <2>2 DEF Serve, SaWants, SaWrites, DogWrites, RxWants
  <1>7. CASE DogDies
    <2> SUFFICES ASSUME NEW j \in Conn PROVE FramedAt(j)'
      BY DEF InFrame
    <2>1. FramedAt(j)
      BY DEF InFrame
    <2>2. wpc = "got" => wConn \in Conn /\ spc[wConn] = "none"
      BY <1>0, <1>7 DEF DogDies, Queued, DogTypes
    <2> QED
      BY <1>0, <2>1, <1>7, SameFrame, <2>2 DEF DogDies, SaWants, SaWrites, DogWrites, RxWants
  <1>8. CASE AcceptAndDie
    <2> SUFFICES ASSUME NEW j \in Conn PROVE FramedAt(j)'
      BY DEF InFrame
    <2>1. FramedAt(j)
      BY DEF InFrame
    <2>2. Head(backlog) \in Conn /\ spc[Head(backlog)] = "none"
      BY <1>0, <1>8 DEF AcceptAndDie, Queued, QueueTypes
    <2> QED
      BY <1>0, <2>1, <1>8, SameFrame, <2>2 DEF AcceptAndDie, SaWants, SaWrites, DogWrites, RxWants
  <1>9. CASE ServerExit
    <2> SUFFICES ASSUME NEW j \in Conn PROVE FramedAt(j)'
      BY DEF InFrame
    <2>1. FramedAt(j)
      BY DEF InFrame
    <2> QED
      BY <1>0, <2>1, <1>9, SameFrame DEF ServerExit, SaWants, SaWrites, DogWrites, RxWants
  <1>10. ASSUME NEW k \in Conn, SaExit(k) PROVE InFrame'
    <2> SUFFICES ASSUME NEW j \in Conn PROVE FramedAt(j)'
      BY DEF InFrame
    <2>1. FramedAt(j)
      BY DEF InFrame
    <2> QED
      BY <1>0, <2>1, <1>10, SameFrame DEF SaExit, SaWants, SaWrites, DogWrites, RxWants
  <1>11. ASSUME NEW k \in Conn, SaTimeout(k) PROVE InFrame'
    <2> SUFFICES ASSUME NEW j \in Conn PROVE FramedAt(j)'
      BY DEF InFrame
    <2>1. FramedAt(j)
      BY DEF InFrame
    <2> QED
      BY <1>0, <2>1, <1>11, SameFrame DEF SaTimeout, Expired, overThis, SaWants, SaWrites, DogWrites, RxWants
  <1>12. ASSUME NEW k \in Conn, SaHeader(k) PROVE InFrame'
    <2> SUFFICES ASSUME NEW j \in Conn PROVE FramedAt(j)'
      BY DEF InFrame
    <2>1. FramedAt(j)
      BY DEF InFrame
    <2>2. CASE j # k
      BY <1>0, <2>1, <2>2, <1>12, SameFrame DEF SaHeader, Expired, overThis, SaWants, SaWrites, DogWrites, RxWants
    <2>3. CASE j = k
      <3>1. c2s[k] \in Seq(Token) /\ c2s[k] # <<>> /\ SaWants(k) = "H"
        BY <1>0, <1>12 DEF SaHeader, Expired, SaWants
      <3>2. ASSUME NEW t \in Token, Stream(c2s[k], SaWants(k), t)
            PROVE  Head(c2s[k]) = "H" /\ Stream(Tail(c2s[k]), "O", t)
        BY <3>1, <3>2, ReadStream, WantFacts
      <3>3. PICK t \in Token : Stream(c2s[k], SaWants(k), t)
        BY <2>1, <2>3, <1>12 DEF FramedAt, SaHeader, Expired
      <3>4. Head(c2s[k]) = "H"
        BY <3>2, <3>3
      <3>5. /\ spc' = [spc EXCEPT ![k] = "obj"] /\ c2s'[k] = Tail(c2s[k])
            /\ UNCHANGED <<s2c, sOpen, peer, kpc, rpc>>
        BY <1>0, <3>4, <1>12 DEF SaHeader, Expired
      <3>6. spc'[k] = "obj" /\ spc[k] = "loop"
        BY <1>0, <3>5, <1>12 DEF SaHeader, Expired
      <3>7. SaWants(k)' = "O" /\ SaWrites(k)' = SaWrites(k)
        BY <3>6 DEF SaWants, SaWrites
      <3>8. DogWrites(k)' = DogWrites(k) /\ RxWants(k)' = RxWants(k)
        BY <3>5 DEF DogWrites, RxWants
      <3>9. peer[k] = "up" => Stream(c2s[k], SaWants(k), DogWrites(k))
        BY <2>1, <2>3, <3>6 DEF FramedAt
      <3>10. /\ Stream(c2s'[k], SaWants(k)', t)
             /\ peer[k] = "up" => Stream(c2s'[k], SaWants(k)', DogWrites(k)')
        BY <3>2, <3>3, <3>5, <3>7, <3>8, <3>9, WantFacts
      <3> QED
        BY <2>1, <2>3, <3>5, <3>7, <3>8, <3>10 DEF FramedAt
    <2> QED
      BY <2>2, <2>3
  <1>13. ASSUME NEW k \in Conn, SaObj(k) PROVE InFrame'
    <2> SUFFICES ASSUME NEW j \in Conn PROVE FramedAt(j)'
      BY DEF InFrame
    <2>1. FramedAt(j)
      BY DEF InFrame
    <2>2. CASE j # k
      BY <1>0, <2>1, <2>2, <1>13, SameFrame, ZenonT(20) DEF SaObj, overThis, SaWants, SaWrites, DogWrites, RxWants
    <2>3. CASE j = k
      <3>1. c2s[k] \in Seq(Token) /\ SaWants(k) = "O" /\ spc[k] = "obj"
        BY <1>0, <1>13 DEF SaObj, SaWants
      <3>2. CASE c2s[k] # <<>> /\ Head(c2s[k]) = "O"
        <4>1. ASSUME NEW t \in Token, Stream(c2s[k], SaWants(k), t)
              PROVE  Stream(Tail(c2s[k]), "H", t)
          BY <3>1, <3>2, <4>1, ReadStream, WantFacts
        <4>2. PICK t \in Token : Stream(c2s[k], SaWants(k), t)
          BY <2>1, <2>3, <3>1 DEF FramedAt
        <4>3. /\ spc' = [spc EXCEPT ![k] = "out"] /\ c2s'[k] = Tail(c2s[k])
              /\ UNCHANGED <<s2c, sOpen, peer, kpc, rpc>>
          BY <1>0, <3>2, <1>13 DEF SaObj
        <4>4. SaWants(k)' = "H" /\ SaWrites(k)' = SaWrites(k)
          BY <1>0, <3>1, <4>3 DEF SaWants, SaWrites
        <4>5. DogWrites(k)' = DogWrites(k) /\ RxWants(k)' = RxWants(k)
          BY <4>3 DEF DogWrites, RxWants
        <4>6. peer[k] = "up" => Stream(c2s[k], SaWants(k), DogWrites(k))
          BY <2>1, <2>3, <3>1 DEF FramedAt
        <4>7. /\ Stream(c2s'[k], SaWants(k)', t)
              /\ peer[k] = "up" => Stream(c2s'[k], SaWants(k)', DogWrites(k)')
          BY <4>1, <4>2, <4>3, <4>4, <4>5, <4>6, WantFacts
        <4> QED
          BY <2>1, <2>3, <4>3, <4>4, <4>5, <4>7 DEF FramedAt
      <3>3. CASE ~(c2s[k] # <<>> /\ Head(c2s[k]) = "O")
        BY <1>0, <2>1, <2>3, <3>3, <1>13, SameFrame
           DEF SaObj, overThis, SaWants, SaWrites, DogWrites, RxWants
      <3> QED
        BY <3>2, <3>3
    <2> QED
      BY <2>2, <2>3
  <1>14. ASSUME NEW k \in Conn, SaReply(k) PROVE InFrame'
    <2> SUFFICES ASSUME NEW j \in Conn PROVE FramedAt(j)'
      BY DEF InFrame
    <2>1. FramedAt(j)
      BY DEF InFrame
    <2>2. CASE j # k
      BY <1>0, <2>1, <2>2, <1>14, SameFrame DEF SaReply, ReplyToken, overThis, SaWants, SaWrites, DogWrites, RxWants
    <2>3. CASE j = k /\ peer[k] # "up"
      <3>1. c2s'[k] = c2s[k] /\ peer'[k] = peer[k]
        BY <1>14 DEF SaReply, ReplyToken
      <3>2. spc'[k] # "done" => spc[k] # "done" /\ SaWants(k)' = SaWants(k)
        BY <1>0, <1>14 DEF SaReply, ReplyToken, overThis, SaWants
      <3> QED
        BY <2>1, <2>3, <3>1, <3>2 DEF FramedAt
    <2>4. CASE j = k /\ peer[k] = "up"
      <3>1. /\ s2c'[k] = Append(s2c[k], SaWrites(k)) /\ s2c[k] \in Seq(Token)
            /\ spc[k] \in {"out", "outObj"}
            /\ spc'[k] = IF spc[k] = "out" THEN "outObj" ELSE "loop"
            /\ UNCHANGED <<c2s, sOpen, peer, kpc, rpc>>
        BY <1>0, <2>4, <1>14 DEF SaReply, ReplyToken, SaWrites
      <3>2. SaWants(k)' = SaWants(k) /\ SaWrites(k)' = Other(SaWrites(k))
        BY <3>1 DEF SaWants, SaWrites, Other
      <3>3. DogWrites(k)' = DogWrites(k) /\ RxWants(k)' = RxWants(k)
        BY <3>1 DEF DogWrites, RxWants
      <3>4. k <= cSock
        BY <1>0, <3>1, SMTT(20) DEF Untouched
      <3>5. Stream(s2c[k], RxWants(k), SaWrites(k))
        BY <2>1, <2>4, <3>1, <3>4 DEF FramedAt, OpenUnlessDone
      <3>6. Stream(s2c'[k], RxWants(k)', SaWrites(k)')
        BY <3>1, <3>2, <3>3, <3>5, WriteStream, WantFacts
      <3>7. SaWrites(k)' \in Token
        BY <3>2, WantFacts DEF Other
      <3> QED
        BY <2>1, <2>4, <3>1, <3>2, <3>3, <3>6, <3>7 DEF FramedAt
    <2> QED
      BY <2>2, <2>3, <2>4
  <1>15. CASE CStart
    <2> SUFFICES ASSUME NEW j \in Conn PROVE FramedAt(j)'
      BY DEF InFrame
    <2>1. FramedAt(j)
      BY DEF InFrame
    <2>2. CASE j # cSock + 1
      BY <1>0, <2>1, <2>2, <1>15, SameFrame DEF CStart, SaWants, SaWrites, DogWrites, RxWants
    <2>3. CASE j = cSock + 1
      <3>1. c2s[j] = <<>> /\ s2c[j] = <<>> /\ spc[j] \in {"none", "done"}
        BY <1>0, <2>3 DEF Untouched
      <3>2. c2s'[j] = <<>> /\ s2c'[j] = <<>> /\ spc'[j] = spc[j]
            /\ kpc'[j] = "loop" /\ rpc'[j] = "loop"
        BY <1>0, <2>3, <3>1, <1>15 DEF CStart
      <3>3. SaWants(j)' = "H" /\ SaWrites(j)' = "H" /\ DogWrites(j)' = "H"
            /\ RxWants(j)' = "H"
        BY <3>1, <3>2 DEF SaWants, SaWrites, DogWrites, RxWants
      <3> QED
        BY <3>2, <3>3, EmptyStream, WantFacts DEF FramedAt
    <2> QED
      BY <2>2, <2>3
  <1>16. CASE CStop
    <2> SUFFICES ASSUME NEW j \in Conn PROVE FramedAt(j)'
      BY DEF InFrame
    <2>1. FramedAt(j)
      BY DEF InFrame
    <2> QED
      BY <1>0, <2>1, <1>16, SameFrame DEF CStop, SaWants, SaWrites, DogWrites, RxWants
  <1>17. ASSUME NEW how \in {"fin", "rst", "silent"}, ClientExit(how) PROVE InFrame'
    <2> SUFFICES ASSUME NEW j \in Conn PROVE FramedAt(j)'
      BY DEF InFrame
    <2>1. FramedAt(j)
      BY DEF InFrame
    <2>2. CASE j > cSock
      <3>1. c2s[j] = <<>> /\ kpc[j] = "none" /\ rpc[j] = "none" /\ j # App
        BY <2>2 DEF Untouched
      <3>2. c2s'[j] = <<>> /\ kpc'[j] = "none" /\ rpc'[j] = "none"
        BY <3>1, <1>17 DEF ClientExit
      <3>3. /\ UNCHANGED <<s2c, sOpen, spc>>
            /\ peer'[j] = "up" => peer[j] = "up"
        BY <1>17 DEF ClientExit
      <3> QED
        BY <2>1, <3>1, <3>2, <3>3, SameFrame DEF SaWants, SaWrites, DogWrites, RxWants
    <2>3. CASE j <= cSock
      <3>1. peer'[j] # "up" /\ spc'[j] = spc[j] /\ c2s'[j] \in {c2s[j], <<>>}
        BY <1>0, <2>3, <1>17 DEF ClientExit
      <3>2. SaWants(j)' = SaWants(j) /\ SaWants(j) \in Token
        BY <3>1, WantFacts DEF SaWants
      <3> QED
        BY <2>1, <3>1, <3>2, EmptyStream DEF FramedAt
    <2> QED
      BY <1>0, <2>2, <2>3
  <1>18. ASSUME NEW d \in Sender, SendHeader(d) PROVE InFrame'
    <2>0. d \in Conn /\ d = cSock /\ kpc[d] = "loop"
      BY <1>0, <1>18 DEF SendHeader, OnePair
    <2> SUFFICES ASSUME NEW j \in Conn PROVE FramedAt(j)'
      BY DEF InFrame
    <2>1. FramedAt(j)
      BY DEF InFrame
    <2>2. CASE j # d
      BY <1>0, <2>0, <2>1, <2>2, <1>18, SameFrame DEF SendHeader, Write, SaWants, SaWrites, DogWrites, RxWants
    <2>3. CASE j = d /\ spc[d] = "done"
      <3>1. UNCHANGED <<s2c, sOpen, peer, spc, rpc>>
        BY <1>18 DEF SendHeader
      <3>2. SaWrites(d)' = SaWrites(d) /\ RxWants(d)' = RxWants(d)
        BY <3>1 DEF SaWrites, RxWants
      <3> QED
        BY <2>1, <2>3, <3>1, <3>2 DEF FramedAt
    <2>4. CASE j = d /\ spc[d] # "done"
      <3>1. sOpen[d] /\ peer[d] = "up"
        BY <1>0, <2>0, <2>4 DEF OpenUnlessDone, OnePair
      <3>2. /\ c2s'[d] = Append(c2s[d], DogWrites(d)) /\ c2s[d] \in Seq(Token)
            /\ UNCHANGED <<s2c, sOpen, peer, spc, rpc>>
        BY <1>0, <2>0, <3>1, <1>18 DEF SendHeader, Write, DogWrites
      <3>3. DogWrites(d)' = Other(DogWrites(d)) /\ DogWrites(d)' \in Token
        BY <1>0, <2>0, <1>18 DEF SendHeader, DogWrites, Other, Token
      <3>4. /\ SaWants(d)' = SaWants(d) /\ SaWrites(d)' = SaWrites(d)
            /\ RxWants(d)' = RxWants(d)
        BY <3>2 DEF SaWants, SaWrites, RxWants
      <3>5. Stream(c2s[d], SaWants(d), DogWrites(d))
        BY <2>1, <2>4, <3>1 DEF FramedAt
      <3>6. Stream(c2s'[d], SaWants(d)', DogWrites(d)')
        BY <3>2, <3>3, <3>4, <3>5, WriteStream, WantFacts
      <3> QED
        BY <2>1, <2>4, <3>2, <3>3, <3>4, <3>6 DEF FramedAt
    <2> QED
      BY <2>2, <2>3, <2>4
  <1>19. ASSUME NEW d \in Sender, SendBody(d) PROVE InFrame'
    <2>0. d \in Conn /\ d = cSock /\ kpc[d] = "obj" /\ kSock[d] = d
      BY <1>0, <1>19 DEF SendBody, OnePair
    <2> SUFFICES ASSUME NEW j \in Conn PROVE FramedAt(j)'
      BY DEF InFrame
    <2>1. FramedAt(j)
      BY DEF InFrame
    <2>2. CASE j # d
      BY <1>0, <2>0, <2>1, <2>2, <1>19, SameFrame DEF SendBody, Write, SaWants, SaWrites, DogWrites, RxWants
    <2>3. CASE j = d /\ spc[d] = "done"
      <3>1. UNCHANGED <<s2c, sOpen, peer, spc, rpc>>
        BY <1>19 DEF SendBody
      <3>2. SaWrites(d)' = SaWrites(d) /\ RxWants(d)' = RxWants(d)
        BY <3>1 DEF SaWrites, RxWants
      <3> QED
        BY <2>1, <2>3, <3>1, <3>2 DEF FramedAt
    <2>4. CASE j = d /\ spc[d] # "done"
      <3>1. sOpen[d] /\ peer[d] = "up"
        BY <1>0, <2>0, <2>4 DEF OpenUnlessDone, OnePair
      <3>2. /\ c2s'[d] = Append(c2s[d], DogWrites(d)) /\ c2s[d] \in Seq(Token)
            /\ UNCHANGED <<s2c, sOpen, peer, spc, rpc>>
        BY <1>0, <2>0, <3>1, <1>19 DEF SendBody, Write, DogWrites
      <3>3. DogWrites(d)' = Other(DogWrites(d)) /\ DogWrites(d)' \in Token
        BY <1>0, <2>0, <1>19 DEF SendBody, DogWrites, Other, Token
      <3>4. /\ SaWants(d)' = SaWants(d) /\ SaWrites(d)' = SaWrites(d)
            /\ RxWants(d)' = RxWants(d)
        BY <3>2 DEF SaWants, SaWrites, RxWants
      <3>5. Stream(c2s[d], SaWants(d), DogWrites(d))
        BY <2>1, <2>4, <3>1 DEF FramedAt
      <3>6. Stream(c2s'[d], SaWants(d)', DogWrites(d)')
        BY <3>2, <3>3, <3>4, <3>5, WriteStream, WantFacts
      <3> QED
        BY <2>1, <2>4, <3>2, <3>3, <3>4, <3>6 DEF FramedAt
    <2> QED
      BY <2>2, <2>3, <2>4
  <1>20. ASSUME NEW d \in Sender, SendFails(d) PROVE InFrame'
    <2>0. d \in Conn /\ d = cSock /\ ~sOpen[d] /\ spc[d] = "done"
      BY <1>0, <1>20 DEF SendFails, RunningAfterFailure, WriteFails, OnePair, OpenUnlessDone
    <2> SUFFICES ASSUME NEW j \in Conn PROVE FramedAt(j)'
      BY DEF InFrame
    <2>1. FramedAt(j)
      BY DEF InFrame
    <2> QED
      BY <1>0, <2>0, <2>1, <1>20, SameFrame DEF SendFails, RunningAfterFailure, WriteFails, SaWants, SaWrites, DogWrites, RxWants
  <1>21. ASSUME NEW d \in Sender, KaStamp(d) PROVE InFrame'
    <2> SUFFICES ASSUME NEW j \in Conn PROVE FramedAt(j)'
      BY DEF InFrame
    <2>1. FramedAt(j)
      BY DEF InFrame
    <2> QED
      BY <1>0, <2>1, <1>21, SameFrame DEF KaStamp, SaWants, SaWrites, DogWrites, RxWants
  <1>22. ASSUME NEW d \in Sender, KaExit(d) PROVE InFrame'
    <2> SUFFICES ASSUME NEW j \in Conn PROVE FramedAt(j)'
      BY DEF InFrame
    <2>1. FramedAt(j)
      BY DEF InFrame
    <2> QED
      BY <1>0, <2>1, <1>22, SameFrame DEF KaExit, SaWants, SaWrites, DogWrites, RxWants
  <1>23. ASSUME NEW e \in Conn, RxHeader(e) PROVE InFrame'
    <2>0. e = cSock /\ peer[e] = "up"
      BY <1>0, <1>23 DEF RxHeader, OnePair
    <2> SUFFICES ASSUME NEW j \in Conn PROVE FramedAt(j)'
      BY DEF InFrame
    <2>1. FramedAt(j)
      BY DEF InFrame
    <2>2. CASE j # e
      BY <1>0, <2>0, <2>1, <2>2, <1>23, SameFrame DEF RxHeader, SaWants, SaWrites, DogWrites, RxWants
    <2>3. CASE j = e /\ s2c[e] # <<>>
      <3>1. s2c[e] \in Seq(Token) /\ RxWants(e) = "H"
        BY <1>0, <2>0, <1>23 DEF RxHeader, RxWants
      <3>2. ASSUME NEW t \in Token, Stream(s2c[e], RxWants(e), t)
            PROVE  Head(s2c[e]) = "H" /\ Stream(Tail(s2c[e]), "O", t)
        BY <2>3, <3>1, <3>2, ReadStream, WantFacts
      <3>3. PICK t \in Token : Stream(s2c[e], RxWants(e), t)
        BY <2>0, <2>1, <2>3 DEF FramedAt
      <3>4. Head(s2c[e]) = "H"
        BY <3>2, <3>3
      <3>5. /\ s2c'[e] = Tail(s2c[e]) /\ rpc'[e] = "obj"
            /\ UNCHANGED <<c2s, sOpen, peer, spc, kpc>>
        BY <1>0, <2>0, <2>3, <3>4, <1>23 DEF RxHeader
      <3>6. RxWants(e)' = "O"
        BY <3>5 DEF RxWants
      <3>7. /\ SaWants(e)' = SaWants(e) /\ SaWrites(e)' = SaWrites(e)
            /\ DogWrites(e)' = DogWrites(e)
        BY <3>5 DEF SaWants, SaWrites, DogWrites
      <3>8. /\ Stream(s2c'[e], RxWants(e)', t)
            /\ sOpen[e] => Stream(s2c'[e], RxWants(e)', SaWrites(e)')
        BY <2>0, <2>1, <2>3, <3>2, <3>3, <3>5, <3>6, <3>7, WantFacts DEF FramedAt
      <3> QED
        BY <2>1, <2>3, <3>5, <3>7, <3>8 DEF FramedAt
    <2> QED
      BY <2>0, <2>2, <2>3, <1>23 DEF RxHeader
  <1>24. ASSUME NEW e \in Conn, RxObj(e) PROVE InFrame'
    <2>0. e = cSock /\ rSock[e] = e /\ peer[e] = "up"
      BY <1>0, <1>24 DEF RxObj, OnePair
    <2> SUFFICES ASSUME NEW j \in Conn PROVE FramedAt(j)'
      BY DEF InFrame
    <2>1. FramedAt(j)
      BY DEF InFrame
    <2>2. CASE j # e
      BY <1>0, <2>0, <2>1, <2>2, <1>24, SameFrame DEF RxObj, SaWants, SaWrites, DogWrites, RxWants
    <2>3. CASE j = e /\ s2c[e] # <<>>
      <3>1. s2c[e] \in Seq(Token) /\ RxWants(e) = "O"
        BY <1>0, <2>0, <1>24 DEF RxObj, RxWants
      <3>2. ASSUME NEW t \in Token, Stream(s2c[e], RxWants(e), t)
            PROVE  Head(s2c[e]) = "O" /\ Stream(Tail(s2c[e]), "H", t)
        BY <2>3, <3>1, <3>2, ReadStream, WantFacts
      <3>3. PICK t \in Token : Stream(s2c[e], RxWants(e), t)
        BY <2>0, <2>1, <2>3 DEF FramedAt
      <3>4. Head(s2c[e]) = "O"
        BY <3>2, <3>3
      <3>5. /\ s2c'[e] = Tail(s2c[e]) /\ rpc'[e] = "loop"
            /\ UNCHANGED <<c2s, sOpen, peer, spc, kpc>>
        BY <1>0, <2>0, <2>3, <3>4, <1>24 DEF RxObj
      <3>6. RxWants(e)' = "H"
        BY <3>5 DEF RxWants
      <3>7. /\ SaWants(e)' = SaWants(e) /\ SaWrites(e)' = SaWrites(e)
            /\ DogWrites(e)' = DogWrites(e)
        BY <3>5 DEF SaWants, SaWrites, DogWrites
      <3>8. /\ Stream(s2c'[e], RxWants(e)', t)
            /\ sOpen[e] => Stream(s2c'[e], RxWants(e)', SaWrites(e)')
        BY <2>0, <2>1, <2>3, <3>2, <3>3, <3>5, <3>6, <3>7, WantFacts DEF FramedAt
      <3> QED
        BY <2>1, <2>3, <3>5, <3>7, <3>8 DEF FramedAt
    <2>4. CASE j = e /\ s2c[e] = <<>>
      <3>1. ~sOpen[e] /\ UNCHANGED <<c2s, s2c, sOpen, peer, spc, kpc>>
        BY <2>0, <2>4, <1>24 DEF RxObj
      <3>2. spc[e] = "done"
        BY <1>0, <2>0, <3>1 DEF OpenUnlessDone
      <3>3. s2c'[e] = <<>> /\ RxWants(e)' \in Token
        BY <2>4, <3>1 DEF RxWants, Token
      <3> QED
        BY <2>4, <3>1, <3>2, <3>3, EmptyStream DEF FramedAt
    <2> QED
      BY <2>2, <2>3, <2>4
  <1>25. ASSUME NEW e \in Conn, RxExit(e) PROVE InFrame'
    <2> SUFFICES ASSUME NEW j \in Conn PROVE FramedAt(j)'
      BY DEF InFrame
    <2>1. FramedAt(j)
      BY DEF InFrame
    <2> QED
      BY <1>0, <2>1, <1>25, SameFrame DEF RxExit, SaWants, SaWrites, DogWrites, RxWants
  <1>26. CASE Tick
    <2> SUFFICES ASSUME NEW j \in Conn PROVE FramedAt(j)'
      BY DEF InFrame
    <2>1. FramedAt(j)
      BY DEF InFrame
    <2> QED
      BY <1>0, <2>1, <1>26, SameFrame DEF Tick, SaWants, SaWrites, DogWrites, RxWants
  <1>27. CASE UNCHANGED vars
    <2> SUFFICES ASSUME NEW j \in Conn PROVE FramedAt(j)'
      BY DEF InFrame
    <2>1. FramedAt(j)
      BY DEF InFrame
    <2> QED
      BY <1>0, <2>1, <1>27, SameFrame DEF vars, SaWants, SaWrites, DogWrites, RxWants
  <1> QED
    BY StepCases, Zenon,
       <1>1, <1>2, <1>3, <1>4, <1>5, <1>6, <1>7, <1>8, <1>9, <1>10, <1>11, <1>12,
       <1>13, <1>14, <1>15, <1>16, <1>17, <1>18, <1>19, <1>20, <1>21, <1>22, <1>23, <1>24,
       <1>25, <1>26, <1>27

\* The whole frame invariant is inductive for an exclusive client.
LEMMA FrameStep ==
    ASSUME Exclusive, FrameInv, [Next]_vars
    PROVE  FrameInv'
  BY TypeStep, UntouchedStep, QueuedStep, OnePairStep, OpenStep, InFrameStep
     DEF FrameInv

\* It holds initially.
LEMMA FrameInit == Init => FrameInv
  <1> SUFFICES ASSUME Init PROVE FrameInv
    OBVIOUS
  <1> USE ConnFacts DEF Init
  <1>1. Untouched
    BY DEF Untouched
  <1>2. Queued
    BY DEF Queued
  <1>3. OnePair
    BY DEF OnePair
  <1>4. OpenUnlessDone
    BY DEF OpenUnlessDone
  <1>5. InFrame
    BY EmptyStream, WantFacts
       DEF InFrame, FramedAt, SaWants, SaWrites, DogWrites, RxWants
  <1> QED
    BY TypeInit, <1>1, <1>2, <1>3, <1>4, <1>5 DEF FrameInv

\* With one writer at a time, neither ObjectInputStream ever meets a header
\* where it needs an object or an object where it needs a header: for any
\* number of restarts of the client, any buffer size and any schedule.
THEOREM NeverMixed == Exclusive => (Spec => []Framed)
  <1> SUFFICES ASSUME Exclusive PROVE Spec => []Framed
    OBVIOUS
  <1>1. FrameInv => Framed
    <2> SUFFICES ASSUME FrameInv, NEW k \in Conn
                 PROVE  /\ Serving(k) /\ c2s[k] # <<>> => Head(c2s[k]) = SaWants(k)
                        /\ \A d \in Conn : s2c[k] # <<>> =>
                             /\ rpc[d] = "obj" /\ rSock[d] = k =>
                                  Head(s2c[k]) = "O"
                             /\ rpc[d] = "loop" /\ cRunning /\ cSock = k =>
                                  Head(s2c[k]) = "H"
      BY DEF Framed, SaWants
    <2>1. c2s[k] \in Seq(Token) /\ s2c[k] \in Seq(Token) /\ FramedAt(k)
      BY DEF FrameInv, TypeOK, StreamTypes, InFrame
    <2>2. Serving(k) /\ c2s[k] # <<>> => Head(c2s[k]) = SaWants(k)
      BY <2>1, ReadStream, WantFacts DEF FramedAt, Serving
    <2>3. ASSUME peer[k] = "up", s2c[k] # <<>> PROVE Head(s2c[k]) = RxWants(k)
      BY <2>1, <2>3, ReadStream, WantFacts DEF FramedAt
    <2>4. ASSUME NEW d \in Conn, s2c[k] # <<>>, rpc[d] = "obj", rSock[d] = k
          PROVE  Head(s2c[k]) = "O"
      BY <2>3, <2>4 DEF FrameInv, OnePair, RxWants
    <2>5. ASSUME NEW d \in Conn, s2c[k] # <<>>, rpc[d] = "loop", cSock = k
          PROVE  Head(s2c[k]) = "H"
      BY <2>3, <2>5 DEF FrameInv, OnePair, RxWants
    <2> QED
      BY <2>2, <2>4, <2>5
  <1> QED
    BY <1>1, FrameInit, FrameStep, PTL DEF Spec

-----------------------------------------------------------------------------
(* Timing.                                                                  *)

\* The bounds of InTime leave the receive timeout out of reach.
LEMMA NotLate ==
    ASSUME Margin, TypeOK, InTime, NEW k \in Conn, Live(k)
    PROVE  sinceRecv[k] <= ReceiveTimeDelay
  <1>1. /\ sinceRecv[k] \in Nat /\ waitS[k] \in 0 .. Lag
        /\ sinceSend \in Nat /\ sinceSend <= KeepAliveDelay + 1 + Lag
    BY ConstAssumption DEF TypeOK, SaTypes, ClientTypes, SendCap, RecvCap
  <1>2. TimelyAt(k)
    BY DEF InTime
  <1> QED
    BY <1>1, <1>2, ConstAssumption DEF TimelyAt, Margin

\* A step that changes no clock, no stream and no dog of k keeps k in time.
LEMMA SameTime ==
    ASSUME NEW k \in Conn, Live(k) => TimelyAt(k), Live(k)' => Live(k),
           UNCHANGED <<c2s[k], kpc[k], sinceRecv[k], sinceSend, waitS[k]>>
    PROVE  Live(k)' => TimelyAt(k)'
  BY DEF TimelyAt

\* A punctual step by cases.
LEMMA PunctualCases ==
    ASSUME PunctualNext
    PROVE  \/ SStart \/ SStop \/ BindOk \/ BindFail \/ Accept \/ Serve
           \/ DogDies \/ AcceptAndDie \/ ServerExit
           \/ \E k \in Conn : \/ SaExit(k) \/ SaTimeout(k) \/ SaHeader(k)
                              \/ SaObj(k) \/ SaReply(k)
           \/ CStart \/ CStop
           \/ \E how \in {"fin", "rst", "silent"} : ClientExit(how)
           \/ \E d \in Sender : \/ SendHeader(d) \/ SendBody(d) \/ SendFails(d)
                                \/ KaStamp(d) \/ KaExit(d)
           \/ \E d \in Conn : RxHeader(d) \/ RxObj(d) \/ RxExit(d)
           \/ Punctual /\ Tick
  BY Zenon DEF PunctualNext, Step, ServerDog, SocketAction, KeepAliveWatchDog,
               ReceiveWatchDog

\* Punctual threads keep the server's clock close to the client's.
LEMMA InTimeStep ==
    ASSUME Exclusive, FrameInv, InTime, [PunctualNext]_vars
    PROVE  InTime'
  <1> USE ConstAssumption, ConnFacts
  <1> USE DEF SaTypes, EndTypes, StreamTypes, ClientTypes, RecvCap, sDogVars, saVars, netVars, sendVars, recvVars
  <1>0. SaTypes /\ EndTypes /\ StreamTypes /\ ClientTypes
    BY DEF FrameInv, TypeOK
  <1>00. Untouched /\ OnePair /\ OpenUnlessDone
    BY DEF FrameInv
  <1>a. Overdue /\ \A k \in Conn : Live(k) => TimelyAt(k)
    BY DEF InTime
  <1>b. /\ sinceSend \in Nat /\ sinceSend <= KeepAliveDelay + 1 + Lag
        /\ \A k \in Conn : sinceRecv[k] \in Nat /\ waitS[k] \in Nat
    BY <1>0 DEF SendCap
  <1>1. CASE SStart
    <2>1. Overdue'
      BY <1>0, <1>a, <1>1 DEF Overdue, SStart
    <2>2. ASSUME NEW j \in Conn PROVE Live(j)' => TimelyAt(j)'
      <3>1. Live(j) => TimelyAt(j)
        BY <1>a
      <3>2. Live(j)' => Live(j)
        BY <1>0, <1>1 DEF Live, Serving, SStart
      <3>3. UNCHANGED <<c2s[j], kpc[j], sinceRecv[j], sinceSend, waitS[j]>>
        BY <1>0, <1>1 DEF SStart
      <3> QED
        BY <3>1, <3>2, <3>3, SameTime
    <2> QED
      BY <2>1, <2>2 DEF InTime
  <1>2. CASE SStop
    <2>1. Overdue'
      BY <1>0, <1>a, <1>2 DEF Overdue, SStop
    <2>2. ASSUME NEW j \in Conn PROVE Live(j)' => TimelyAt(j)'
      <3>1. Live(j) => TimelyAt(j)
        BY <1>a
      <3>2. Live(j)' => Live(j)
        BY <1>0, <1>2 DEF Live, Serving, SStop
      <3>3. UNCHANGED <<c2s[j], kpc[j], sinceRecv[j], sinceSend, waitS[j]>>
        BY <1>0, <1>2 DEF SStop
      <3> QED
        BY <3>1, <3>2, <3>3, SameTime
    <2> QED
      BY <2>1, <2>2 DEF InTime
  <1>3. CASE BindOk
    <2>1. Overdue'
      BY <1>0, <1>a, <1>3 DEF Overdue, BindOk
    <2>2. ASSUME NEW j \in Conn PROVE Live(j)' => TimelyAt(j)'
      <3>1. Live(j) => TimelyAt(j)
        BY <1>a
      <3>2. Live(j)' => Live(j)
        BY <1>0, <1>3 DEF Live, Serving, BindOk
      <3>3. UNCHANGED <<c2s[j], kpc[j], sinceRecv[j], sinceSend, waitS[j]>>
        BY <1>0, <1>3 DEF BindOk
      <3> QED
        BY <3>1, <3>2, <3>3, SameTime
    <2> QED
      BY <2>1, <2>2 DEF InTime
  <1>4. CASE BindFail
    <2>1. Overdue'
      BY <1>0, <1>a, <1>4 DEF Overdue, BindFail
    <2>2. ASSUME NEW j \in Conn PROVE Live(j)' => TimelyAt(j)'
      <3>1. Live(j) => TimelyAt(j)
        BY <1>a
      <3>2. Live(j)' => Live(j)
        BY <1>0, <1>4 DEF Live, Serving, BindFail
      <3>3. UNCHANGED <<c2s[j], kpc[j], sinceRecv[j], sinceSend, waitS[j]>>
        BY <1>0, <1>4 DEF BindFail
      <3> QED
        BY <3>1, <3>2, <3>3, SameTime
    <2> QED
      BY <2>1, <2>2 DEF InTime
  <1>5. CASE Accept
    <2>1. Overdue'
      BY <1>0, <1>a, <1>5 DEF Overdue, Accept
    <2>2. ASSUME NEW j \in Conn PROVE Live(j)' => TimelyAt(j)'
      <3>1. Live(j) => TimelyAt(j)
        BY <1>a
      <3>2. Live(j)' => Live(j)
        BY <1>0, <1>5 DEF Live, Serving, Accept
      <3>3. UNCHANGED <<c2s[j], kpc[j], sinceRecv[j], sinceSend, waitS[j]>>
        BY <1>0, <1>5 DEF Accept
      <3> QED
        BY <3>1, <3>2, <3>3, SameTime
    <2> QED
      BY <2>1, <2>2 DEF InTime
  <1>6. CASE Serve
    <2>1. Overdue'
      BY <1>0, <1>a, <1>6 DEF Overdue, Serve
    <2>2. ASSUME NEW j \in Conn, Live(j)' PROVE TimelyAt(j)'
      <3>1. CASE j # wConn
        <4>1. Live(j) /\ UNCHANGED <<c2s[j], kpc[j], sinceRecv[j], sinceSend, waitS[j]>>
          BY <1>0, <2>2, <3>1, <1>6 DEF Serve, Live, Serving
        <4> QED
          BY <1>a, <2>2, <4>1, SameTime
      <3>2. CASE j = wConn
        <4>1. /\ sinceRecv'[j] = 0
              /\ UNCHANGED <<c2s, kpc, sinceSend, waitS>>
          BY <1>0, <3>2, <1>6 DEF Serve
        <4>2. kpc[j] = "stamp" => sinceSend > KeepAliveDelay
          BY <1>a DEF Overdue
        <4> QED
          BY <1>b, <4>1, <4>2 DEF TimelyAt
      <3> QED
        BY <3>1, <3>2
    <2> QED
      BY <2>1, <2>2 DEF InTime
  <1>7. CASE DogDies
    <2>1. Overdue'
      BY <1>0, <1>a, <1>7 DEF Overdue, DogDies
    <2>2. ASSUME NEW j \in Conn PROVE Live(j)' => TimelyAt(j)'
      <3>1. Live(j) => TimelyAt(j)
        BY <1>a
      <3>2. Live(j)' => Live(j)
        BY <1>0, <1>7 DEF Live, Serving, DogDies
      <3>3. UNCHANGED <<c2s[j], kpc[j], sinceRecv[j], sinceSend, waitS[j]>>
        BY <1>0, <1>7 DEF DogDies
      <3> QED
        BY <3>1, <3>2, <3>3, SameTime
    <2> QED
      BY <2>1, <2>2 DEF InTime
  <1>8. CASE AcceptAndDie
    <2>1. Overdue'
      BY <1>0, <1>a, <1>8 DEF Overdue, AcceptAndDie
    <2>2. ASSUME NEW j \in Conn PROVE Live(j)' => TimelyAt(j)'
      <3>1. Live(j) => TimelyAt(j)
        BY <1>a
      <3>2. Live(j)' => Live(j)
        BY <1>0, <1>8 DEF Live, Serving, AcceptAndDie
      <3>3. UNCHANGED <<c2s[j], kpc[j], sinceRecv[j], sinceSend, waitS[j]>>
        BY <1>0, <1>8 DEF AcceptAndDie
      <3> QED
        BY <3>1, <3>2, <3>3, SameTime
    <2> QED
      BY <2>1, <2>2 DEF InTime
  <1>9. CASE ServerExit
    <2>1. Overdue'
      BY <1>0, <1>a, <1>9 DEF Overdue, ServerExit
    <2>2. ASSUME NEW j \in Conn PROVE Live(j)' => TimelyAt(j)'
      <3>1. Live(j) => TimelyAt(j)
        BY <1>a
      <3>2. Live(j)' => Live(j)
        BY <1>0, <1>9 DEF Live, Serving, ServerExit
      <3>3. UNCHANGED <<c2s[j], kpc[j], sinceRecv[j], sinceSend, waitS[j]>>
        BY <1>0, <1>9 DEF ServerExit
      <3> QED
        BY <3>1, <3>2, <3>3, SameTime
    <2> QED
      BY <2>1, <2>2 DEF InTime
  <1>10. ASSUME NEW k \in Conn, SaExit(k) PROVE InTime'
    <2>1. Overdue'
      BY <1>0, <1>a, <1>10 DEF Overdue, SaExit
    <2>2. ASSUME NEW j \in Conn PROVE Live(j)' => TimelyAt(j)'
      <3>1. Live(j) => TimelyAt(j)
        BY <1>a
      <3>2. Live(j)' => Live(j)
        BY <1>0, <1>10 DEF Live, Serving, SaExit
      <3>3. UNCHANGED <<c2s[j], kpc[j], sinceRecv[j], sinceSend, waitS[j]>>
        BY <1>0, <1>10 DEF SaExit
      <3> QED
        BY <3>1, <3>2, <3>3, SameTime
    <2> QED
      BY <2>1, <2>2 DEF InTime
  <1>11. ASSUME NEW k \in Conn, SaTimeout(k) PROVE InTime'
    <2>1. Overdue'
      BY <1>0, <1>a, <1>11 DEF Overdue, SaTimeout, Expired, overThis
    <2>2. ASSUME NEW j \in Conn PROVE Live(j)' => TimelyAt(j)'
      <3>1. Live(j) => TimelyAt(j)
        BY <1>a
      <3>2. Live(j)' => Live(j)
        BY <1>0, <1>11 DEF Live, Serving, SaTimeout, Expired, overThis
      <3>3. UNCHANGED <<c2s[j], kpc[j], sinceRecv[j], sinceSend, waitS[j]>>
        BY <1>0, <1>11 DEF SaTimeout, Expired, overThis
      <3> QED
        BY <3>1, <3>2, <3>3, SameTime
    <2> QED
      BY <2>1, <2>2 DEF InTime
  <1>12. ASSUME NEW k \in Conn, SaHeader(k) PROVE InTime'
    <2>1. Overdue'
      BY <1>0, <1>a, <1>12 DEF Overdue, SaHeader, Expired
    <2>2. ASSUME NEW j \in Conn, Live(j)' PROVE TimelyAt(j)'
      <3>1. Live(j) /\ TimelyAt(j)
        BY <1>0, <1>a, <2>2, <1>12 DEF SaHeader, Expired, overThis, Live, Serving
      <3>2. UNCHANGED <<kpc, sinceRecv, sinceSend, waitS>>
        BY <1>12 DEF SaHeader, Expired
      <3>3. HasObject(c2s[j]) <=> HasObject(c2s'[j])
        <4>1. CASE j # k
          BY <1>0, <4>1, <1>12 DEF SaHeader, Expired
        <4>2. CASE j = k
          <5>1. c2s'[k] = Tail(c2s[k]) /\ Head(c2s[k]) = "H" /\ c2s[k] # <<>>
            BY <1>0, <2>2, <4>2, <1>12 DEF SaHeader, Expired, overThis, Live, Serving
          <5>2. c2s[k] \in Seq(Token)
            BY <1>0
          <5> QED
            BY <4>2, <5>1, <5>2, HasObjectFacts
        <4> QED
          BY <4>1, <4>2
      <3> QED
        BY <3>1, <3>2, <3>3 DEF TimelyAt
    <2> QED
      BY <2>1, <2>2 DEF InTime
  <1>13. ASSUME NEW k \in Conn, SaObj(k) PROVE InTime'
    <2>1. Overdue'
      BY <1>0, <1>a, <1>13 DEF Overdue, SaObj
    <2>2. ASSUME NEW j \in Conn, Live(j)' PROVE TimelyAt(j)'
      <3>1. Live(j) /\ TimelyAt(j)
        BY <1>0, <1>a, <2>2, <1>13 DEF SaObj, overThis, Live, Serving
      <3>2. CASE j # k
        <4>1. UNCHANGED <<c2s[j], kpc[j], sinceRecv[j], sinceSend, waitS[j]>>
          BY <1>0, <3>2, <1>13 DEF SaObj
        <4> QED
          BY <3>1, <2>2, <4>1, SameTime
      <3>3. CASE j = k
        <4>1. sinceRecv'[j] = 0 /\ waitS'[j] = 0 /\ UNCHANGED <<kpc, sinceSend>>
          BY <1>0, <2>2, <3>3, <1>13 DEF SaObj, overThis, Live, Serving
        <4>2. kpc[j] = "stamp" => sinceSend > KeepAliveDelay
          BY <1>a DEF Overdue
        <4> QED
          BY <1>b, <4>1, <4>2 DEF TimelyAt
      <3> QED
        BY <3>2, <3>3
    <2> QED
      BY <2>1, <2>2 DEF InTime
  <1>14. ASSUME NEW k \in Conn, SaReply(k) PROVE InTime'
    <2>1. Overdue'
      BY <1>0, <1>a, <1>14 DEF Overdue, SaReply, ReplyToken, overThis
    <2>2. ASSUME NEW j \in Conn PROVE Live(j)' => TimelyAt(j)'
      <3>1. Live(j) => TimelyAt(j)
        BY <1>a
      <3>2. Live(j)' => Live(j)
        BY <1>0, <1>14 DEF Live, Serving, SaReply, ReplyToken, overThis
      <3>3. UNCHANGED <<c2s[j], kpc[j], sinceRecv[j], sinceSend, waitS[j]>>
        BY <1>0, <1>14 DEF SaReply, ReplyToken, overThis
      <3> QED
        BY <3>1, <3>2, <3>3, SameTime
    <2> QED
      BY <2>1, <2>2 DEF InTime
  <1>15. CASE CStart
    <2>1. \A d \in Conn : kpc'[d] \notin {"obj", "stamp"}
      BY <1>0, <1>15 DEF CStart, Quiet
    <2>3. Overdue'
      BY <2>1 DEF Overdue
    <2>4. ASSUME NEW j \in Conn, Live(j)' PROVE FALSE
      <3>1. j = cSock + 1 /\ spc'[j] = spc[j] /\ spc'[j] \notin {"none", "done"}
        BY <2>4, <1>15 DEF Live, Serving, CStart
      <3> QED
        BY <1>0, <1>00, <2>4, <3>1 DEF Untouched
    <2> QED
      BY <2>3, <2>4 DEF InTime
  <1>16. CASE CStop
    <2>1. Overdue'
      BY <1>0, <1>a, <1>16 DEF Overdue, CStop
    <2>2. ASSUME NEW j \in Conn PROVE Live(j)' => TimelyAt(j)'
      <3>1. Live(j) => TimelyAt(j)
        BY <1>a
      <3>2. Live(j)' => Live(j)
        BY <1>0, <1>16 DEF Live, Serving, CStop
      <3>3. UNCHANGED <<c2s[j], kpc[j], sinceRecv[j], sinceSend, waitS[j]>>
        BY <1>0, <1>16 DEF CStop
      <3> QED
        BY <3>1, <3>2, <3>3, SameTime
    <2> QED
      BY <2>1, <2>2 DEF InTime
  <1>17. ASSUME NEW how \in {"fin", "rst", "silent"}, ClientExit(how) PROVE InTime'
    <2>1. ~cRunning' /\ \A d \in Conn : kpc'[d] \in {"none", "done"}
      BY <1>0, <1>17 DEF ClientExit
    <2> QED
      BY <2>1 DEF InTime, Overdue, Live
  <1>18. ASSUME NEW d \in Sender, SendHeader(d) PROVE InTime'
    <2>0. d \in Conn /\ d = cSock /\ kpc[d] = "loop"
      BY <1>0, <1>00, <1>18 DEF SendHeader, OnePair
    <2>1. Overdue'
      BY <1>0, <1>a, <2>0, <1>18 DEF Overdue, SendHeader
    <2>2. ASSUME NEW j \in Conn, Live(j)' PROVE TimelyAt(j)'
      <3>1. Live(j) /\ TimelyAt(j) /\ j = d
        BY <1>0, <1>a, <2>0, <2>2, <1>18 DEF SendHeader, Live, Serving
      <3>2. UNCHANGED <<sinceRecv, sinceSend, waitS>> /\ kpc'[d] = "obj"
        BY <1>0, <2>0, <1>18 DEF SendHeader
      <3>3. c2s'[d] = c2s[d] \/ c2s'[d] = Append(c2s[d], "H")
        BY <1>0, <2>0, <1>18 DEF SendHeader, Write
      <3>4. HasObject(c2s[d]) <=> HasObject(c2s'[d])
        <4>1. c2s[d] \in Seq(Token)
          BY <1>0, <2>0
        <4>2. HasObject(Append(c2s[d], "H")) <=> HasObject(c2s[d])
          BY <4>1, HasObjectFacts, Zenon
        <4> QED
          BY <3>3, <4>2, Zenon
      <3> QED
        BY <2>0, <3>1, <3>2, <3>4 DEF TimelyAt
    <2> QED
      BY <2>1, <2>2 DEF InTime
  <1>19. ASSUME NEW d \in Sender, SendBody(d) PROVE InTime'
    <2>0. d \in Conn /\ d = cSock /\ kSock[d] = d /\ kpc[d] = "obj"
      BY <1>0, <1>00, <1>19 DEF SendBody, OnePair
    <2>1. Overdue'
      BY <1>0, <1>a, <2>0, <1>19 DEF Overdue, SendBody
    <2>2. ASSUME NEW j \in Conn, Live(j)' PROVE TimelyAt(j)'
      <3>1. Live(j) /\ TimelyAt(j) /\ j = d
        BY <1>0, <1>a, <2>0, <2>2, <1>19 DEF SendBody, Live, Serving
      <3>2. UNCHANGED <<sinceRecv, sinceSend, waitS>>
        BY <1>19 DEF SendBody
      <3>3. sOpen[d]
        <4>1. spc[d] # "done" /\ d <= cSock
          <5>1. d \in Nat /\ d = cSock
            BY <2>0
          <5>2. spc[d] # "done"
            BY <3>1 DEF Live, Serving
          <5> QED
            BY <5>1, <5>2
        <4> QED
          BY <1>0, <1>00, <2>0, <4>1 DEF OpenUnlessDone
      <3>4. c2s'[d] = Append(c2s[d], "O")
        BY <1>0, <2>0, <3>3, <1>19 DEF SendBody, Write
      <3>5. HasObject(c2s'[d])
        <4>1. c2s[d] \in Seq(Token)
          BY <1>0, <2>0
        <4>2. HasObject(Append(c2s[d], "O"))
          BY <4>1, HasObjectFacts, Zenon
        <4> QED
          BY <3>4, <4>2, Zenon
      <3> QED
        BY <1>b, <2>0, <3>1, <3>2, <3>5 DEF TimelyAt
    <2> QED
      BY <2>1, <2>2 DEF InTime
  <1>20. ASSUME NEW d \in Sender, SendFails(d) PROVE InTime'
    <2>0. d \in Conn /\ d = cSock
      BY <1>0, <1>00, <1>20 DEF SendFails, RunningAfterFailure, OnePair
    <2>1. Overdue'
      BY <1>0, <1>a, <2>0, <1>20 DEF Overdue, SendFails, RunningAfterFailure
    <2>2. ~cRunning'
      BY <1>0, <2>0, <1>20 DEF SendFails, RunningAfterFailure
    <2> QED
      BY <2>1, <2>2 DEF InTime, Live
  <1>21. ASSUME NEW d \in Sender, KaStamp(d) PROVE InTime'
    <2>0. d \in Conn /\ d = cSock /\ kpc[d] = "stamp"
      BY <1>0, <1>00, <1>21 DEF KaStamp, OnePair
    <2>1. Overdue'
      BY <1>0, <1>00, <2>0, <1>21 DEF Overdue, KaStamp, OnePair
    <2>2. ASSUME NEW j \in Conn, Live(j)' PROVE TimelyAt(j)'
      <3>1. Live(j) /\ TimelyAt(j) /\ j = d
        BY <1>0, <1>a, <2>0, <2>2, <1>21 DEF KaStamp, Live, Serving
      <3>2. /\ UNCHANGED <<c2s, sinceRecv, waitS>>
            /\ kpc'[d] = "loop" /\ sinceSend' = 0
        BY <1>0, <2>0, <1>21 DEF KaStamp
      <3> QED
        BY <1>b, <2>0, <3>1, <3>2 DEF TimelyAt
    <2> QED
      BY <2>1, <2>2 DEF InTime
  <1>22. ASSUME NEW d \in Sender, KaExit(d) PROVE InTime'
    <2>1. Overdue'
      BY <1>0, <1>a, <1>22 DEF Overdue, KaExit
    <2>2. ASSUME NEW j \in Conn, Live(j)' PROVE TimelyAt(j)'
      <3>1. Live(j) /\ ~cRunning
        BY <2>2, <1>22 DEF KaExit, Live, Serving
      <3> QED
        BY <3>1 DEF Live
    <2> QED
      BY <2>1, <2>2 DEF InTime
  <1>23. ASSUME NEW e \in Conn, RxHeader(e) PROVE InTime'
    <2>1. Overdue'
      BY <1>0, <1>a, <1>23 DEF Overdue, RxHeader
    <2>2. ASSUME NEW j \in Conn PROVE Live(j)' => TimelyAt(j)'
      <3>1. Live(j) => TimelyAt(j)
        BY <1>a
      <3>2. Live(j)' => Live(j)
        BY <1>0, <1>23 DEF Live, Serving, RxHeader
      <3>3. UNCHANGED <<c2s[j], kpc[j], sinceRecv[j], sinceSend, waitS[j]>>
        BY <1>0, <1>23 DEF RxHeader
      <3> QED
        BY <3>1, <3>2, <3>3, SameTime
    <2> QED
      BY <2>1, <2>2 DEF InTime
  <1>24. ASSUME NEW e \in Conn, RxObj(e) PROVE InTime'
    <2>1. Overdue'
      BY <1>0, <1>a, <1>24 DEF Overdue, RxObj
    <2>2. ASSUME NEW j \in Conn PROVE Live(j)' => TimelyAt(j)'
      <3>1. Live(j) => TimelyAt(j)
        BY <1>a
      <3>2. Live(j)' => Live(j)
        BY <1>0, <1>24 DEF Live, Serving, RxObj
      <3>3. UNCHANGED <<c2s[j], kpc[j], sinceRecv[j], sinceSend, waitS[j]>>
        BY <1>0, <1>24 DEF RxObj
      <3> QED
        BY <3>1, <3>2, <3>3, SameTime
    <2> QED
      BY <2>1, <2>2 DEF InTime
  <1>25. ASSUME NEW e \in Conn, RxExit(e) PROVE InTime'
    <2>1. Overdue'
      BY <1>0, <1>a, <1>25 DEF Overdue, RxExit
    <2>2. ASSUME NEW j \in Conn PROVE Live(j)' => TimelyAt(j)'
      <3>1. Live(j) => TimelyAt(j)
        BY <1>a
      <3>2. Live(j)' => Live(j)
        BY <1>0, <1>25 DEF Live, Serving, RxExit
      <3>3. UNCHANGED <<c2s[j], kpc[j], sinceRecv[j], sinceSend, waitS[j]>>
        BY <1>0, <1>25 DEF RxExit
      <3> QED
        BY <3>1, <3>2, <3>3, SameTime
    <2> QED
      BY <2>1, <2>2 DEF InTime
  <1>26. CASE Punctual /\ Tick
    <2>1. Overdue'
      BY <1>0, <1>a, <1>b, <1>26 DEF Overdue, Tick, Older
    <2>2. ASSUME NEW j \in Conn, Live(j)' PROVE TimelyAt(j)'
      <3>1. Live(j) /\ TimelyAt(j) /\ Serving(j) /\ cRunning
        BY <1>a, <2>2, <1>26 DEF Tick, Live, Serving
      <3>2. sinceSend < SendCap /\ (HasObject(c2s[j]) => waitS[j] < Lag)
        BY <3>1, <1>26 DEF Punctual
      <3>3. UNCHANGED <<c2s, kpc>> /\ sinceSend' = sinceSend + 1
        BY <3>1, <3>2, <1>26 DEF Tick, Older
      <3>4. sinceRecv'[j] <= sinceRecv[j] + 1 /\ sinceRecv'[j] \in Nat
        BY <1>b, <3>1, <1>26 DEF Tick, Older
      <3>5. HasObject(c2s[j]) => waitS'[j] = waitS[j] + 1
        BY <3>1, <3>2, <1>26 DEF Tick, Older
      <3> QED
        BY <1>b, <3>1, <3>3, <3>4, <3>5 DEF TimelyAt
    <2> QED
      BY <2>1, <2>2 DEF InTime
  <1>27. CASE UNCHANGED vars
    <2>1. Overdue'
      BY <1>0, <1>a, <1>27 DEF Overdue, vars
    <2>2. ASSUME NEW j \in Conn PROVE Live(j)' => TimelyAt(j)'
      <3>1. Live(j) => TimelyAt(j)
        BY <1>a
      <3>2. Live(j)' => Live(j)
        BY <1>0, <1>27 DEF Live, Serving, vars
      <3>3. UNCHANGED <<c2s[j], kpc[j], sinceRecv[j], sinceSend, waitS[j]>>
        BY <1>0, <1>27 DEF vars
      <3> QED
        BY <3>1, <3>2, <3>3, SameTime
    <2> QED
      BY <2>1, <2>2 DEF InTime
  <1> QED
    BY PunctualCases, Zenon,
       <1>1, <1>2, <1>3, <1>4, <1>5, <1>6, <1>7, <1>8, <1>9, <1>10, <1>11, <1>12,
       <1>13, <1>14, <1>15, <1>16, <1>17, <1>18, <1>19, <1>20, <1>21, <1>22, <1>23, <1>24,
       <1>25, <1>26, <1>27

\* While the invariant holds no step of the server closes the connection of
\* a running client.
LEMMA KeptStep ==
    ASSUME Exclusive, Margin, KeptInv, [PunctualNext]_vars
    PROVE  LiveClientKept'
  <1> SUFFICES ASSUME NEW k \in Conn, cRunning', cSock' = k, wpc' # "exited"
               PROVE  sOpen'[k]
    BY DEF LiveClientKept
  <1> USE ConnFacts
  <1>0. SaTypes /\ EndTypes /\ StreamTypes /\ ClientTypes /\ TypeOK
    BY DEF KeptInv, FrameInv, TypeOK
  <1>1. CASE CStart
    BY <1>0, <1>1 DEF CStart, EndTypes, ClientTypes
  <1>2. CASE ~CStart
    <2>1. \/ cRunning /\ cSock = k /\ wpc # "exited"
          \/ SStart /\ UNCHANGED <<cRunning, cSock, sOpen>>
      BY <1>2, PunctualCases
         DEF SStart, SStop, BindOk, BindFail, Accept, Serve, DogDies, AcceptAndDie,
             ServerExit, SaExit, SaTimeout, Expired, SaHeader, Expired, SaObj, SaReply, ReplyToken, CStop,
             ClientExit, SendHeader, SendBody, SendFails, RunningAfterFailure, KaStamp, KaExit,
             RxHeader, RxObj, RxExit, Tick, vars, sDogVars
    <2>2. cRunning /\ cSock = k /\ wpc # "exited"
      BY <2>1 DEF SStart
    <2>3. sOpen[k] /\ peer[k] = "up" /\ FramedAt(k)
      BY <2>2 DEF KeptInv, LiveClientKept, FrameInv, OnePair, InFrame
    <2>4. CASE ServerExit
      BY <2>4 DEF ServerExit
    <2>5. CASE SaTimeout(k)
      <3>1. Live(k) /\ sinceRecv[k] > ReceiveTimeDelay
        BY <2>2, <2>5 DEF Live, Serving, SaTimeout, Expired
      <3>2. sinceRecv[k] \in Nat
        BY <1>0, ConstAssumption DEF SaTypes, RecvCap
      <3> QED
        BY <1>0, <3>1, <3>2, NotLate, ConstAssumption DEF KeptInv
    <2>6. CASE SaHeader(k)
      <3>1. Head(c2s[k]) = "H"
        <4>1. PICK t \in Token : Stream(c2s[k], SaWants(k), t)
          BY <2>3, <2>6 DEF FramedAt, SaHeader, Expired
        <4>2. c2s[k] \in Seq(Token) /\ c2s[k] # <<>> /\ SaWants(k) = "H"
          BY <1>0, <2>6 DEF SaHeader, Expired, StreamTypes, SaWants
        <4> QED
          BY <4>1, <4>2, ReadStream, WantFacts
      <3> QED
        BY <2>3, <2>6, <3>1 DEF SaHeader, Expired
    <2>7. CASE SaObj(k)
      <3>1. c2s[k] # <<>> => Head(c2s[k]) = "O"
        <4>1. PICK t \in Token : Stream(c2s[k], SaWants(k), t)
          BY <2>3, <2>7 DEF FramedAt, SaObj
        <4>2. c2s[k] \in Seq(Token) /\ SaWants(k) = "O"
          BY <1>0, <2>7 DEF SaObj, StreamTypes, SaWants
        <4> QED
          BY <4>1, <4>2, ReadStream, WantFacts
      <3> QED
        BY <2>3, <2>7, <3>1 DEF SaObj
    <2>8. CASE SaReply(k)
      BY <2>3, <2>8 DEF SaReply, ReplyToken
    <2>9. ASSUME NEW j \in Conn, j # k,
                 SaTimeout(j) \/ SaHeader(j) \/ SaObj(j) \/ SaReply(j)
          PROVE  sOpen'[k] = sOpen[k]
      BY <1>0, <2>9 DEF SaTimeout, Expired, SaHeader, Expired, SaObj, SaReply, ReplyToken, overThis, EndTypes
    <2>10. CASE sOpen' = sOpen
      BY <2>3, <2>10
    <2>11. \/ sOpen' = sOpen \/ ServerExit
           \/ \E j \in Conn : SaTimeout(j) \/ SaHeader(j) \/ SaObj(j) \/ SaReply(j)
      BY <1>2, PunctualCases
         DEF SStart, SStop, BindOk, BindFail, Accept, Serve, DogDies, AcceptAndDie,
             SaExit, CStop, ClientExit, SendHeader, SendBody, SendFails, RunningAfterFailure, KaStamp,
             KaExit, RxHeader, RxObj, RxExit, Tick, vars, netVars
    <2> QED
      BY <2>3, <2>4, <2>5, <2>6, <2>7, <2>8, <2>9, <2>10, <2>11
  <1> QED
    BY <1>1, <1>2

\* A heartbeat every KeepAliveDelay keeps the connection of a running client
\* open, for every choice of delays that leaves room for three lags, any
\* buffer sizes, and any number of restarts of either side.
THEOREM HeartbeatKeepsConnection ==
    Exclusive /\ Margin => (PunctualSpec => []LiveClientKept)
  <1> SUFFICES ASSUME Exclusive, Margin PROVE PunctualSpec => []LiveClientKept
    OBVIOUS
  <1>1. Init => KeptInv
    <2> SUFFICES ASSUME Init PROVE KeptInv
      OBVIOUS
    <2>1. InTime
      BY ConnFacts DEF Init, InTime, Overdue, Live
    <2>2. LiveClientKept
      BY DEF Init, LiveClientKept
    <2> QED
      BY FrameInit, <2>1, <2>2 DEF KeptInv
  <1>2. KeptInv /\ [PunctualNext]_vars => KeptInv'
    <2>1. [PunctualNext]_vars => [Next]_vars
      BY DEF PunctualNext, Next
    <2> QED
      BY <2>1, FrameStep, InTimeStep, KeptStep DEF KeptInv
  <1>3. KeptInv => LiveClientKept
    BY DEF KeptInv
  <1> QED
    BY <1>1, <1>2, <1>3, PTL DEF PunctualSpec
=============================================================================
