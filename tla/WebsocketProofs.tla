--------------------------- MODULE WebsocketProofs ---------------------------
(***************************************************************************)
(* A websocket and what test-server's mirror protocol makes of it.         *)
(*                                                                         *)
(* One direction of a websocket implements the stream that its two         *)
(* applications are promised, for messages of any number and length, any   *)
(* socket buffer and any receive buffer.  The argument: read by the        *)
(* receiver's parser from where it stands, what it has kept back, what is  *)
(* on the wire and what the sender has stored are frames that fit          *)
(* together, count on the payload from where it is, and end where the      *)
(* sender stands.                                                          *)
(*                                                                         *)
(* The ring of the mirror, for any number of clients and any length of the *)
(* ring: who is overrun misses whole rings.                                *)
(***************************************************************************)
EXTENDS MirrorServer, WsLink, SequenceTheorems, WellFoundedInduction, TLAPS

-----------------------------------------------------------------------------
(* Reading tokens.                                                          *)

Value == {"DATA", "PONG"} \cup Nat
Tok == {"op", "len", "key", "pay"} \X Value

\* Where a parser stands: its state, the frame's opcode, what is left of the
\* frame, and how much of the application's payload it has seen.
Place == [parse : {"NEW", "LEN", "KEY", "PAYLOAD"}, op : {"DATA", "PONG"}, left : Nat, seen : Nat]
At(parse, op, left, seen) == [parse |-> parse, op |-> op, left |-> left, seen |-> seen]

\* The token fits: the payload goes on where it was.
Fits(p, v) ==
    CASE p.parse = "NEW" -> v \in {"DATA", "PONG"}
      [] p.parse = "LEN" -> v \in Nat \ {0} /\ (p.op = "PONG" => v = 1)
      [] p.parse = "KEY" -> p.left > 0 /\ (p.op = "PONG" => p.left = 1)
      [] OTHER -> IF p.op = "DATA" THEN p.left > 0 /\ v = p.seen + 1 ELSE p.left = 1 /\ v = 0

After(m, p, v) ==
    CASE p.parse = "NEW" -> At("LEN", v, p.left, p.seen)
      [] p.parse = "LEN" -> At(IF m THEN "KEY" ELSE "PAYLOAD", p.op, v, p.seen)
      [] p.parse = "KEY" -> At("PAYLOAD", p.op, p.left, p.seen)
      [] OTHER -> At(IF p.left = 1 THEN "NEW" ELSE "PAYLOAD", p.op, p.left - 1,
                     IF p.op = "DATA" THEN p.seen + 1 ELSE p.seen)

\* The tokens lead from one place to another; m says whether frames have keys.
Leads(m, p, toks, q) ==
    \E f \in [1 .. Len(toks) + 1 -> Place] :
        /\ f[1] = p /\ f[Len(toks) + 1] = q
        /\ \A i \in 1 .. Len(toks) : Fits(f[i], toks[i][2]) /\ f[i + 1] = After(m, f[i], toks[i][2])
        /\ \A i \in 1 .. Len(toks) + 1 : f[i].seen <= q.seen

\* A token that fits leads to a place, and never backwards.
LEMMA AfterIsPlace ==
    ASSUME NEW m \in BOOLEAN, NEW p \in Place, NEW v, Fits(p, v)
    PROVE  After(m, p, v) \in Place /\ p.seen <= After(m, p, v).seen
<1>1. CASE p.parse = "NEW"
  <2>1. After(m, p, v) = At("LEN", v, p.left, p.seen) /\ v \in {"DATA", "PONG"}
    BY <1>1 DEF After, Fits
  <2> QED BY <2>1 DEF At, Place
<1>2. CASE p.parse = "LEN"
  <2>1. After(m, p, v) = At(IF m THEN "KEY" ELSE "PAYLOAD", p.op, v, p.seen) /\ v \in Nat
    BY <1>2 DEF After, Fits
  <2> QED BY <2>1 DEF At, Place
<1>3. CASE p.parse = "KEY"
  <2>1. After(m, p, v) = At("PAYLOAD", p.op, p.left, p.seen) BY <1>3 DEF After
  <2> QED BY <2>1 DEF At, Place
<1>4. CASE p.parse = "PAYLOAD"
  <2> DEFINE x == IF p.left = 1 THEN "NEW" ELSE "PAYLOAD"
             n == IF p.op = "DATA" THEN p.seen + 1 ELSE p.seen
             l == p.left - 1
  <2>1. After(m, p, v) = At(x, p.op, l, n) BY <1>4 DEF After
  <2>2. p.left \in Nat /\ p.left >= 1 BY <1>4 DEF Fits, Place
  <2>3. x \in {"NEW", "PAYLOAD"} /\ n \in Nat /\ p.seen <= n /\ l \in Nat BY <2>2 DEF Place
  <2> HIDE DEF x, n, l
  <2> QED BY <2>1, <2>3 DEF At, Place
<1> QED BY <1>1, <1>2, <1>3, <1>4 DEF Place

\* No token leads from a place to itself.
LEMMA LeadsNowhere == ASSUME NEW m, NEW p \in Place PROVE Leads(m, p, <<>>, p)
<1> DEFINE f == [i \in 1 .. 1 |-> p]
<1>1. f \in [1 .. Len(<<>>) + 1 -> Place] /\ f[1] = p /\ f[Len(<<>>) + 1] = p OBVIOUS
<1>2. p.seen <= p.seen BY DEF Place
<1> HIDE DEF f
<1> QED BY <1>1, <1>2 DEF Leads

\* One token leads to the place after it.
LEMMA LeadsOne ==
    ASSUME NEW m \in BOOLEAN, NEW p \in Place, NEW t, Fits(p, t[2])
    PROVE  Leads(m, p, <<t>>, After(m, p, t[2]))
<1> DEFINE q == After(m, p, t[2])
           f == [i \in 1 .. 2 |-> IF i = 1 THEN p ELSE q]
           s == <<t>>
<1>1. q \in Place /\ p.seen <= q.seen /\ q.seen <= q.seen BY AfterIsPlace DEF Place
<1>2. q = After(m, p, t[2]) OBVIOUS
<1> HIDE DEF q
<1>3. f \in [1 .. 2 -> Place] /\ f[1] = p /\ f[2] = q BY <1>1
<1>4. Len(s) = 1 /\ s[1] = t OBVIOUS
<1> HIDE DEF f, s
<1>5. Leads(m, p, s, q) BY <1>1, <1>2, <1>3, <1>4 DEF Leads
<1> QED BY <1>5 DEF s, q

\* Sequences of tokens lead on from each other.
LEMMA LeadsOn ==
    ASSUME NEW m, NEW p, NEW q, NEW r, NEW s \in Seq(Tok), NEW t \in Seq(Tok),
           Leads(m, p, s, q), Leads(m, q, t, r)
    PROVE  Leads(m, p, s \o t, r)
<1> DEFINE Path(f, u, x, y) ==
             /\ f \in [1 .. Len(u) + 1 -> Place] /\ f[1] = x /\ f[Len(u) + 1] = y
             /\ \A i \in 1 .. Len(u) : Fits(f[i], u[i][2]) /\ f[i + 1] = After(m, f[i], u[i][2])
             /\ \A i \in 1 .. Len(u) + 1 : f[i].seen <= y.seen
<1>1. PICK f : Path(f, s, p, q) BY DEF Leads
<1>2. PICK g : Path(g, t, q, r) BY DEF Leads
<1> DEFINE n == Len(s)
           k == Len(t)
           u == s \o t
           h == [i \in 1 .. n + k + 1 |-> IF i <= n THEN f[i] ELSE g[i - n]]
<1>3. /\ n \in Nat /\ k \in Nat /\ u \in Seq(Tok) /\ Len(u) = n + k
      /\ \A i \in 1 .. n : u[i] = s[i]
      /\ \A i \in n + 1 .. n + k : u[i] = t[i - n]
  OBVIOUS
<1>4. /\ f \in [1 .. n + 1 -> Place] /\ f[1] = p /\ f[n + 1] = q
      /\ \A i \in 1 .. n : Fits(f[i], s[i][2]) /\ f[i + 1] = After(m, f[i], s[i][2])
      /\ \A i \in 1 .. n + 1 : f[i].seen <= q.seen
  BY <1>1
<1>5. /\ g \in [1 .. k + 1 -> Place] /\ g[1] = q /\ g[k + 1] = r
      /\ \A i \in 1 .. k : Fits(g[i], t[i][2]) /\ g[i + 1] = After(m, g[i], t[i][2])
      /\ \A i \in 1 .. k + 1 : g[i].seen <= r.seen
  BY <1>2
<1> HIDE DEF n, k, u
<1>6. h \in [1 .. n + k + 1 -> Place]
  <2> SUFFICES ASSUME NEW i \in 1 .. n + k + 1 PROVE (IF i <= n THEN f[i] ELSE g[i - n]) \in Place OBVIOUS
  <2>1. CASE i <= n
    <3>1. i \in 1 .. n + 1 BY <1>3, <2>1
    <3> QED BY <1>4, <2>1, <3>1
  <2>2. CASE ~(i <= n)
    <3>1. i - n \in 1 .. k + 1 BY <1>3, <2>2
    <3> QED BY <1>5, <2>2, <3>1
  <2> QED BY <2>1, <2>2
<1>7. \A i \in 1 .. n + k + 1 : (i <= n + 1 => h[i] = f[i]) /\ (i > n => h[i] = g[i - n])
  <2> SUFFICES ASSUME NEW i \in 1 .. n + k + 1
               PROVE  (i <= n + 1 => h[i] = f[i]) /\ (i > n => h[i] = g[i - n])
    OBVIOUS
  <2>1. h[i] = IF i <= n THEN f[i] ELSE g[i - n] OBVIOUS
  <2>2. i = n + 1 => f[i] = g[i - n]
    <3>1. i = n + 1 => i - n = 1 BY <1>3
    <3> QED BY <1>4, <1>5, <3>1
  <2> HIDE DEF h
  <2> QED BY <1>3, <2>1, <2>2
<1> HIDE DEF h
<1>8. h[1] = p /\ h[n + k + 1] = r
  <2>1. 1 \in 1 .. n + k + 1 /\ 1 <= n + 1 BY <1>3
  <2>2. n + k + 1 \in 1 .. n + k + 1 /\ n + k + 1 > n /\ n + k + 1 - n = k + 1 BY <1>3
  <2>3. h[1] = f[1] BY <1>7, <2>1, <2>2
  <2>4. h[n + k + 1] = g[k + 1]
    <3>1. ASSUME NEW e, e = n + k + 1 PROVE h[e] = g[k + 1]
      <4>1. e \in 1 .. n + k + 1 /\ e > n /\ e - n = k + 1 BY <1>3, <3>1
      <4> QED BY <1>7, <4>1
    <3> QED BY <3>1
  <2> QED BY <1>4, <1>5, <2>2, <2>3, <2>4
<1>9. ASSUME NEW i \in 1 .. n + k PROVE Fits(h[i], u[i][2]) /\ h[i + 1] = After(m, h[i], u[i][2])
  <2>1. CASE i <= n
    <3>1. /\ i \in 1 .. n /\ i \in 1 .. n + k + 1 /\ i + 1 \in 1 .. n + k + 1
          /\ i <= n + 1 /\ i + 1 <= n + 1
      BY <1>3, <2>1
    <3>2. h[i] = f[i] /\ h[i + 1] = f[i + 1] BY <1>7, <3>1
    <3>3. u[i] = s[i] BY <1>3, <3>1
    <3> QED BY <1>4, <3>1, <3>2, <3>3
  <2>2. CASE ~(i <= n)
    <3>1. /\ i - n \in 1 .. k /\ h[i] = g[i - n] /\ h[i + 1] = g[(i - n) + 1] /\ u[i] = t[i - n]
      <4>1. i - n \in 1 .. k /\ i + 1 \in 1 .. n + k + 1 /\ i + 1 > n /\ i > n /\ i \in n + 1 .. n + k
            /\ (i + 1) - n = (i - n) + 1
        BY <1>3, <2>2
      <4> QED BY <1>3, <1>7, <4>1
    <3> QED BY <1>5, <3>1
  <2> QED BY <2>1, <2>2
<1>10. ASSUME NEW i \in 1 .. n + k + 1 PROVE h[i].seen <= r.seen
  <2>1. CASE i <= n
    <3>1. i \in 1 .. n + 1 /\ 1 \in 1 .. k + 1 /\ k + 1 \in 1 .. k + 1 BY <1>3, <2>1
    <3>2. f[i].seen <= q.seen /\ q.seen <= r.seen BY <1>4, <1>5, <3>1
    <3>3. f[i].seen \in Nat /\ q.seen \in Nat /\ r.seen \in Nat BY <1>4, <1>5, <3>1 DEF Place
    <3>4. h[i] = f[i] BY <1>3, <1>7, <2>1
    <3> QED BY <3>2, <3>3, <3>4
  <2>2. CASE ~(i <= n)
    <3>1. i - n \in 1 .. k + 1 /\ h[i] = g[i - n] BY <1>3, <1>7, <2>2
    <3> QED BY <1>5, <3>1
  <2> QED BY <2>1, <2>2
<1>11. Leads(m, p, u, r) BY <1>3, <1>6, <1>8, <1>9, <1>10 DEF Leads
<1> QED BY <1>11 DEF u

\* The first token, and the others.
LEMMA LeadsHead ==
    ASSUME NEW m \in BOOLEAN, NEW p, NEW q, NEW t \in Tok, NEW s \in Seq(Tok), Leads(m, p, <<t>> \o s, q)
    PROVE  p \in Place /\ Fits(p, t[2]) /\ Leads(m, After(m, p, t[2]), s, q)
<1> DEFINE u == <<t>> \o s
           n == Len(s)
<1>1. u \in Seq(Tok) /\ n \in Nat /\ Len(u) = n + 1 /\ u[1] = t /\ \A i \in 1 .. n : u[i + 1] = s[i]
  OBVIOUS
<1>2. Leads(m, p, u, q) OBVIOUS
<1> HIDE DEF u, n
<1>3. PICK f \in [1 .. n + 2 -> Place] :
        /\ f[1] = p /\ f[n + 2] = q
        /\ \A i \in 1 .. n + 1 : Fits(f[i], u[i][2]) /\ f[i + 1] = After(m, f[i], u[i][2])
        /\ \A i \in 1 .. n + 2 : f[i].seen <= q.seen
  <2>1. Len(u) + 1 = n + 2 /\ Len(u) = n + 1 BY <1>1
  <2>2. PICK f \in [1 .. Len(u) + 1 -> Place] :
          /\ f[1] = p /\ f[Len(u) + 1] = q
          /\ \A i \in 1 .. Len(u) : Fits(f[i], u[i][2]) /\ f[i + 1] = After(m, f[i], u[i][2])
          /\ \A i \in 1 .. Len(u) + 1 : f[i].seen <= q.seen
    BY <1>2 DEF Leads
  <2>3. f \in [1 .. n + 2 -> Place] /\ f[n + 2] = q BY <2>1, <2>2
  <2>4. \A i \in 1 .. n + 1 : Fits(f[i], u[i][2]) /\ f[i + 1] = After(m, f[i], u[i][2]) BY <2>1, <2>2
  <2>5. \A i \in 1 .. n + 2 : f[i].seen <= q.seen BY <2>1, <2>2
  <2> QED BY <2>2, <2>3, <2>4, <2>5
<1> DEFINE g == [i \in 1 .. n + 1 |-> f[i + 1]]
<1>4. g \in [1 .. n + 1 -> Place] /\ \A i \in 1 .. n + 1 : g[i] = f[i + 1]
  <2>1. \A i \in 1 .. n + 1 : i + 1 \in 1 .. n + 2 BY <1>1
  <2> QED BY <2>1
<1> HIDE DEF g
<1>5. p \in Place /\ Fits(p, t[2]) /\ f[2] = After(m, p, t[2])
  <2>1. 1 \in 1 .. n + 1 /\ 1 \in 1 .. n + 2 /\ 1 + 1 = 2 BY <1>1
  <2>2. p \in Place BY <1>3, <2>1
  <2>3. Fits(f[1], u[1][2]) /\ f[1 + 1] = After(m, f[1], u[1][2]) BY <1>3, <2>1
  <2> QED BY <1>1, <1>3, <2>1, <2>2, <2>3
<1>6. g[1] = f[2] /\ g[n + 1] = q
  <2>1. 1 \in 1 .. n + 1 /\ n + 1 \in 1 .. n + 1 /\ (n + 1) + 1 = n + 2 BY <1>1
  <2> QED BY <1>3, <1>4, <2>1
<1>7. ASSUME NEW i \in 1 .. n PROVE Fits(g[i], s[i][2]) /\ g[i + 1] = After(m, g[i], s[i][2])
  <2>1. i \in 1 .. n + 1 /\ i + 1 \in 1 .. n + 1 BY <1>1
  <2>2. g[i] = f[i + 1] /\ g[i + 1] = f[(i + 1) + 1] /\ u[i + 1] = s[i] BY <1>1, <1>4, <2>1
  <2> QED BY <1>3, <2>1, <2>2
<1>8. ASSUME NEW i \in 1 .. n + 1 PROVE g[i].seen <= q.seen
  <2>1. i + 1 \in 1 .. n + 2 BY <1>1
  <2> QED BY <1>3, <1>4, <2>1
<1>9. Leads(m, f[2], s, q) BY <1>4, <1>6, <1>7, <1>8 DEF Leads, n
<1> QED BY <1>5, <1>9

\* What leads somewhere begins and ends at a place, and never goes backwards.
LEMMA LeadsForward ==
    ASSUME NEW m, NEW p, NEW q, NEW s \in Seq(Tok), Leads(m, p, s, q)
    PROVE  p \in Place /\ q \in Place /\ p.seen <= q.seen
<1>1. PICK f \in [1 .. Len(s) + 1 -> Place] :
        /\ f[1] = p /\ f[Len(s) + 1] = q
        /\ \A i \in 1 .. Len(s) + 1 : f[i].seen <= q.seen
  BY DEF Leads
<1>2. 1 \in 1 .. Len(s) + 1 /\ Len(s) + 1 \in 1 .. Len(s) + 1 OBVIOUS
<1> QED BY <1>1, <1>2

\* A frame's header.
LEMMA LeadsHeader ==
    ASSUME masked \in BOOLEAN, NEW p \in Place, p.parse = "NEW", NEW op \in {"DATA", "PONG"},
           NEW n \in Nat \ {0}, op = "PONG" => n = 1
    PROVE  /\ Header(op, n) \in Seq(Tok)
           /\ Leads(masked, p, Header(op, n), At("PAYLOAD", op, n, p.seen))
<1> DEFINE a == <<"op", op>>
           b == <<"len", n>>
           c == <<"key", n>>
           pa == At("LEN", op, p.left, p.seen)
           pb == At(IF masked THEN "KEY" ELSE "PAYLOAD", op, n, p.seen)
           pc == At("PAYLOAD", op, n, p.seen)
<1>1. a \in Tok /\ b \in Tok /\ c \in Tok /\ a[2] = op /\ b[2] = n /\ c[2] = n BY DEF Tok, Value
<1>2. p.left \in Nat /\ p.seen \in Nat BY DEF Place
<1>3. pa \in Place /\ pb \in Place /\ pc \in Place BY <1>2 DEF Place, At
<1>4. Fits(p, op) /\ After(masked, p, op) = pa BY DEF Fits, After
<1>5. Fits(pa, n) /\ After(masked, pa, n) = pb
  <2>1. pa.parse = "LEN" /\ pa.op = op /\ pa.seen = p.seen BY DEF At
  <2> HIDE DEF pa
  <2> QED BY <2>1 DEF Fits, After
<1>6. masked => Fits(pb, n) /\ After(masked, pb, n) = pc
  <2>1. masked => pb.parse = "KEY" /\ pb.op = op /\ pb.left = n /\ pb.seen = p.seen BY DEF At
  <2> HIDE DEF pb
  <2> QED BY <2>1 DEF Fits, After
<1>7. ~masked => pb = pc OBVIOUS
<1>8. Header(op, n) = <<a, b>> \o (IF masked THEN <<c>> ELSE <<>>) BY DEF Header
<1> HIDE DEF a, b, c, pa, pb, pc
<1>9. Leads(masked, p, <<a>>, pa) /\ Leads(masked, pa, <<b>>, pb) BY <1>1, <1>3, <1>4, <1>5, LeadsOne
<1>10. <<a>> \in Seq(Tok) /\ <<b>> \in Seq(Tok) /\ <<c>> \in Seq(Tok) /\ <<a>> \o <<b>> = <<a, b>>
       /\ <<a, b>> \in Seq(Tok)
  <2>1. a \in Tok /\ b \in Tok /\ c \in Tok BY <1>1
  <2>2. <<a, b>> \in Seq(Tok) BY <2>1
  <2>3. <<a>> \in Seq(Tok) /\ <<b>> \in Seq(Tok) /\ <<c>> \in Seq(Tok) BY <2>1
  <2>4. <<a>> \o <<b>> = <<a, b>>
    <3> DEFINE u == <<a>> \o <<b>>
               w == <<a, b>>
    <3>1. u \in Seq(Tok) /\ w \in Seq(Tok) /\ Len(u) = 2 /\ Len(w) = 2 BY <2>1
    <3>2. u[1] = a /\ u[2] = b /\ w[1] = a /\ w[2] = b BY <2>1
    <3> HIDE DEF u, w
    <3>3. \A i \in 1 .. 2 : u[i] = w[i] BY <3>2
    <3>4. u = w BY <3>1, <3>3, SeqEqual
    <3> QED BY <3>4 DEF u, w
  <2> QED BY <2>2, <2>3, <2>4
<1>11. Leads(masked, p, <<a, b>>, pb) BY <1>9, <1>10, LeadsOn
<1>12. CASE masked
  <2>1. Leads(masked, pb, <<c>>, pc) BY <1>1, <1>3, <1>6, <1>12, LeadsOne
  <2>2. Leads(masked, p, <<a, b>> \o <<c>>, pc) BY <1>10, <1>11, <2>1, LeadsOn
  <2>3. Header(op, n) = <<a, b>> \o <<c>> BY <1>8, <1>12
  <2>4. <<a, b>> \o <<c>> \in Seq(Tok) BY <1>10
  <2> QED BY <2>2, <2>3, <2>4 DEF pc
<1>13. CASE ~masked
  <2>1. Header(op, n) = <<a, b>> BY <1>8, <1>10, <1>13
  <2> QED BY <1>7, <1>10, <1>11, <1>13, <2>1 DEF pc
<1> QED BY <1>12, <1>13

\* The next j units of a message's n.
Payload(c, j) == [i \in 1 .. j |-> <<"pay", c + i>>]

\* The first j bytes of a payload lead j bytes on.
LEMMA LeadsPayload ==
    ASSUME NEW m \in BOOLEAN, NEW n \in Nat \ {0}, NEW c \in Nat, NEW j \in 0 .. n
    PROVE  /\ Payload(c, j) \in Seq(Tok) /\ Len(Payload(c, j)) = j
           /\ Leads(m, At("PAYLOAD", "DATA", n, c), Payload(c, j),
                    At(IF j = n THEN "NEW" ELSE "PAYLOAD", "DATA", n - j, c + j))
<1> DEFINE s == Payload(c, j)
           e(i) == At(IF i = n + 1 THEN "NEW" ELSE "PAYLOAD", "DATA", n + 1 - i, c + i - 1)
           f == [i \in 1 .. j + 1 |-> e(i)]
<1>1. \A i \in 1 .. j : <<"pay", c + i>> \in Tok /\ <<"pay", c + i>>[2] = c + i BY DEF Tok, Value
<1>2. s \in Seq(Tok) /\ Len(s) = j /\ \A i \in 1 .. j : s[i][2] = c + i BY <1>1 DEF Payload
<1> HIDE DEF s
<1>3. ASSUME NEW i \in 1 .. j + 1
      PROVE  /\ e(i) \in Place /\ e(i).parse = (IF i = n + 1 THEN "NEW" ELSE "PAYLOAD") /\ e(i).op = "DATA"
             /\ e(i).left = n + 1 - i /\ e(i).seen = c + i - 1
  <2>1. n + 1 - i \in Nat /\ c + i - 1 \in Nat OBVIOUS
  <2> QED BY <2>1 DEF At, Place
<1>4. ASSUME NEW i \in 1 .. j PROVE Fits(e(i), c + i) /\ e(i + 1) = After(m, e(i), c + i)
  <2>1. i \in 1 .. j + 1 /\ i # n + 1 /\ n + 1 - i > 0 /\ (c + i - 1) + 1 = c + i OBVIOUS
  <2>2. e(i).parse = "PAYLOAD" /\ e(i).op = "DATA" /\ e(i).left = n + 1 - i /\ e(i).seen = c + i - 1
    BY <1>3, <2>1
  <2>3. e(i + 1) = At(IF n + 1 - i = 1 THEN "NEW" ELSE "PAYLOAD", "DATA", (n + 1 - i) - 1, (c + i - 1) + 1)
    <3>1. (i + 1 = n + 1) = (n + 1 - i = 1) /\ n + 1 - (i + 1) = (n + 1 - i) - 1
          /\ c + (i + 1) - 1 = (c + i - 1) + 1
      OBVIOUS
    <3> QED BY <3>1
  <2> HIDE DEF e
  <2>4. Fits(e(i), c + i) BY <2>1, <2>2 DEF Fits
  <2>5. After(m, e(i), c + i) = At(IF n + 1 - i = 1 THEN "NEW" ELSE "PAYLOAD", "DATA", (n + 1 - i) - 1,
                                   (c + i - 1) + 1)
    BY <2>2 DEF After
  <2> QED BY <2>3, <2>4, <2>5
<1>5. e(1) = At("PAYLOAD", "DATA", n, c)
      /\ e(j + 1) = At(IF j = n THEN "NEW" ELSE "PAYLOAD", "DATA", n - j, c + j)
  <2>1. 1 # n + 1 /\ n + 1 - 1 = n /\ c + 1 - 1 = c OBVIOUS
  <2>2. (j + 1 = n + 1) = (j = n) /\ n + 1 - (j + 1) = n - j /\ c + (j + 1) - 1 = c + j OBVIOUS
  <2> QED BY <2>1, <2>2
<1> HIDE DEF e
<1>6. f \in [1 .. j + 1 -> Place] /\ \A i \in 1 .. j + 1 : f[i] = e(i) BY <1>3
<1> HIDE DEF f
<1>7. f[1] = e(1) /\ f[j + 1] = e(j + 1) BY <1>6
<1>8. ASSUME NEW i \in 1 .. j PROVE Fits(f[i], s[i][2]) /\ f[i + 1] = After(m, f[i], s[i][2])
  <2>1. i \in 1 .. j + 1 /\ i + 1 \in 1 .. j + 1 OBVIOUS
  <2> QED BY <1>2, <1>4, <1>6, <2>1
<1>9. ASSUME NEW i \in 1 .. j + 1 PROVE f[i].seen <= e(j + 1).seen
  <2>1. j + 1 \in 1 .. j + 1 OBVIOUS
  <2>2. f[i].seen = c + i - 1 /\ e(j + 1).seen = c + (j + 1) - 1 BY <1>3, <1>6, <2>1
  <2> QED BY <2>2
<1>10. Leads(m, e(1), s, e(j + 1)) BY <1>2, <1>6, <1>7, <1>8, <1>9 DEF Leads
<1> QED BY <1>2, <1>5, <1>10 DEF s

-----------------------------------------------------------------------------
(* Sequences.                                                               *)

\* Two parts of a sequence make up the whole.
LEMMA CutAndJoin ==
    ASSUME NEW S, NEW a \in Seq(S), NEW k \in 0 .. Len(a)
    PROVE  /\ SubSeq(a, 1, k) \in Seq(S) /\ SubSeq(a, k + 1, Len(a)) \in Seq(S)
           /\ Len(SubSeq(a, 1, k)) = k /\ Len(SubSeq(a, k + 1, Len(a))) = Len(a) - k
           /\ SubSeq(a, 1, k) \o SubSeq(a, k + 1, Len(a)) = a
<1> DEFINE u == SubSeq(a, 1, k)
           w == SubSeq(a, k + 1, Len(a))
           x == u \o w
<1>1. u \in Seq(S) /\ Len(u) = k /\ \A i \in 1 .. k : u[i] = a[i] OBVIOUS
<1>2. w \in Seq(S) /\ Len(w) = Len(a) - k /\ \A i \in 1 .. Len(a) - k : w[i] = a[k + i] OBVIOUS
<1> HIDE DEF u, w
<1>3. x \in Seq(S) /\ Len(x) = Len(u) + Len(w) BY <1>1, <1>2, SMTT(20)
<1>4. ASSUME NEW i \in 1 .. Len(a) PROVE x[i] = a[i]
  <2>1. CASE i <= k
    <3>1. i \in 1 .. k BY <2>1
    <3>2. x[i] = u[i] BY <1>1, <1>2, <3>1
    <3> QED BY <1>1, <3>1, <3>2
  <2>2. CASE ~(i <= k)
    <3>1. i - k \in 1 .. Len(a) - k /\ k + (i - k) = i BY <2>2
    <3>2. x[i] = w[i - k] BY <1>1, <1>2, <2>2
    <3> QED BY <1>2, <3>1, <3>2
  <2> QED BY <2>1, <2>2
<1> HIDE DEF x
<1>5. x \in Seq(S) /\ Len(x) = Len(a) BY <1>1, <1>2, <1>3
<1>6. x = a BY <1>4, <1>5, SeqEqual
<1> QED BY <1>1, <1>2, <1>6 DEF x, u, w

\* A sequence that counts from 1, and one that goes on counting.
LEMMA CountOn ==
    ASSUME NEW a \in Seq(Nat), NEW b \in Seq(Nat), \A i \in 1 .. Len(a) : a[i] = i,
           \A i \in 1 .. Len(b) : b[i] = Len(a) + i
    PROVE  /\ a \o b \in Seq(Nat) /\ Len(a \o b) = Len(a) + Len(b) /\ Len(a) <= Len(a \o b)
           /\ \A i \in 1 .. Len(a \o b) : (a \o b)[i] = i
<1>1. Len(a) \in Nat /\ Len(b) \in Nat /\ a \o b \in Seq(Nat) /\ Len(a \o b) = Len(a) + Len(b) OBVIOUS
<1>2. ASSUME NEW i \in 1 .. Len(a) + Len(b) PROVE (a \o b)[i] = i
  <2>1. CASE i <= Len(a)
    <3>1. i \in 1 .. Len(a) /\ (a \o b)[i] = a[i] BY <2>1
    <3> QED BY <3>1
  <2>2. CASE ~(i <= Len(a))
    <3>1. i - Len(a) \in 1 .. Len(b) /\ (a \o b)[i] = b[i - Len(a)] BY <2>2
    <3>2. b[i - Len(a)] = Len(a) + (i - Len(a)) BY <3>1
    <3> QED BY <1>1, <3>1, <3>2
  <2> QED BY <2>1, <2>2
<1> QED BY <1>1, <1>2

\* The rest of a sequence is an element and the rest after it.
LEMMA FirstAndRest ==
    ASSUME NEW S, NEW a \in Seq(S), NEW i \in 1 .. Len(a)
    PROVE  /\ SubSeq(a, i, Len(a)) = <<a[i]>> \o SubSeq(a, i + 1, Len(a))
           /\ SubSeq(a, i, Len(a)) \in Seq(S) /\ SubSeq(a, i + 1, Len(a)) \in Seq(S) /\ a[i] \in S
<1>1. Len(a) \in Nat /\ Len(a) \in i .. Len(a) BY LenProperties
<1>2. SubSeq(a, i, Len(a)) = <<a[i]>> \o SubSeq(a, i + 1, Len(a)) BY <1>1, SubSeqRecursiveFirst
<1>3. a[i] \in S BY ElementOfSeq
<1>4. SubSeq(a, i, Len(a)) \in Seq(S) /\ SubSeq(a, i + 1, Len(a)) \in Seq(S) OBVIOUS
<1> QED BY <1>2, <1>3, <1>4

-----------------------------------------------------------------------------
(* The receiver.                                                            *)

Rx == [parse : {"NEW", "LEN", "KEY", "PAYLOAD"}, opcode : {"DATA", "PONG"}, left : Nat,
       buf : Seq(Nat), got : Seq(Nat), allow : BOOLEAN, change : BOOLEAN, cache : Seq(Tok),
       pollin : BOOLEAN, pollout : BOOLEAN, pongs : Nat]

Here(r) == At(r.parse, r.opcode, r.left, Len(r.got) + Len(r.buf))

\* What was handed over and what waits in the rx buffer count on; only a data
\* frame's payload waits; and a server that stopped rx does not poll for it.
Sound(r) ==
    /\ r \in Rx
    /\ \A i \in 1 .. Len(r.got) : r.got[i] = i
    /\ \A i \in 1 .. Len(r.buf) : r.buf[i] = Len(r.got) + i
    /\ r.parse # "PAYLOAD" \/ r.opcode = "PONG" => r.buf = <<>>
    /\ masked /\ ~r.allow => ~r.pollin

\* Something is kept back only when rx is stopped: while input is read, and
\* in between.
Reading(r) == r.cache # <<>> => masked /\ ~r.allow
Resting(r) == r.cache # <<>> => masked /\ ~r.pollin

\* Nothing but rx flow control has changed.
OnlyFlow(r, s) ==
    /\ s \in Rx /\ s.parse = r.parse /\ s.opcode = r.opcode /\ s.left = r.left
    /\ s.buf = r.buf /\ s.got = r.got /\ s.cache = r.cache

\* libwebsocket_rx_flow_control changes the flow only.
LEMMA FlowControlKeeps ==
    ASSUME NEW r \in Rx, NEW e \in BOOLEAN
    PROVE  LET s == FlowControl(r, e)
           IN  /\ OnlyFlow(r, s) /\ s.allow = e /\ s.pollin = r.pollin
               /\ IF e = r.allow THEN s.change = r.change ELSE s.change
<1>1. CASE e = r.allow
  BY <1>1 DEF FlowControl, OnlyFlow, Rx
<1>2. CASE e # r.allow
  <2> DEFINE s == [r EXCEPT !.change = TRUE, !.allow = e]
  <2>1. FlowControl(r, e) = s BY <1>2 DEF FlowControl
  <2>2. /\ s \in Rx /\ s.parse = r.parse /\ s.opcode = r.opcode /\ s.left = r.left /\ s.buf = r.buf
        /\ s.got = r.got /\ s.cache = r.cache /\ s.allow = e /\ s.pollin = r.pollin /\ s.change
    BY DEF Rx
  <2> HIDE DEF s
  <2> QED BY <1>2, <2>1, <2>2 DEF OnlyFlow
<1> QED BY <1>1, <1>2

\* _libwebsocket_rx_flow_control changes the flow only.
LEMMA AppliedKeeps ==
    ASSUME NEW r \in Rx
    PROVE  LET s == Applied(r)
           IN  /\ OnlyFlow(r, s) /\ s.allow = r.allow
               /\ IF r.change /\ r.cache = <<>> THEN s.pollin = r.allow ELSE s.pollin = r.pollin
<1>0. r.change \in BOOLEAN /\ r.allow \in BOOLEAN BY DEF Rx
<1>1. CASE ~r.change
  BY <1>1 DEF Applied, OnlyFlow, Rx
<1>2. CASE r.change /\ r.cache # <<>>
  <2> DEFINE s == [r EXCEPT !.pollout = TRUE]
  <2>1. Applied(r) = s BY <1>2 DEF Applied
  <2>2. /\ s \in Rx /\ s.parse = r.parse /\ s.opcode = r.opcode /\ s.left = r.left /\ s.buf = r.buf
        /\ s.got = r.got /\ s.cache = r.cache /\ s.allow = r.allow /\ s.pollin = r.pollin
    BY DEF Rx
  <2> HIDE DEF s
  <2> QED BY <1>2, <2>1, <2>2 DEF OnlyFlow
<1>3. CASE r.change /\ r.cache = <<>>
  <2> DEFINE a == r.allow
             s == [r EXCEPT !.change = FALSE, !.pollin = a]
  <2>1. Applied(r) = s BY <1>3 DEF Applied
  <2>2. a \in BOOLEAN /\ a = r.allow BY <1>0
  <2> HIDE DEF a
  <2>3. /\ s \in Rx /\ s.parse = r.parse /\ s.opcode = r.opcode /\ s.left = r.left /\ s.buf = r.buf
        /\ s.got = r.got /\ s.cache = r.cache /\ s.allow = r.allow /\ s.pollin = a
    BY <2>2 DEF Rx
  <2> HIDE DEF s
  <2> QED BY <1>3, <2>1, <2>2, <2>3 DEF OnlyFlow
<1> QED BY <1>0, <1>1, <1>2, <1>3

\* Only how the receiver polls has changed: what was said of it still holds.
LEMMA FlowIsSound ==
    ASSUME NEW r, NEW s, Sound(r), OnlyFlow(r, s), masked /\ ~s.allow => ~s.pollin
    PROVE  Sound(s) /\ Here(s) = Here(r)
BY DEF Sound, OnlyFlow, Here

\* spill of a buffer that goes on where the payload was.
LEMMA SpillKeeps ==
    ASSUME masked \in BOOLEAN, NEW r \in Rx, r.opcode = "DATA", r.cache = <<>>, masked => r.allow,
           \A i \in 1 .. Len(r.got) : r.got[i] = i,
           \A i \in 1 .. Len(r.buf) : r.buf[i] = Len(r.got) + i,
           NEW s \in Spill(r)
    PROVE  /\ Sound(s) /\ s.cache = <<>> /\ Here(s) = Here(r) /\ Len(r.got) <= Len(s.got)
<1> DEFINE none == <<>>
           g == r.got \o r.buf
           empty == [r EXCEPT !.buf = none]
           given == [empty EXCEPT !.got = g]
<1>1. PICK e \in {r.allow, FALSE} :
         s = IF masked THEN Applied(FlowControl(given, e)) ELSE FlowControl(given, e)
  <2>1. s \in {IF masked THEN Applied(FlowControl(given, e)) ELSE FlowControl(given, e) : e \in {r.allow, FALSE}}
    BY DEF Spill, Rx
  <2> HIDE DEF given
  <2> QED BY <2>1
<1>2. /\ r.got \in Seq(Nat) /\ r.buf \in Seq(Nat) /\ r.allow \in BOOLEAN BY DEF Rx
<1>3. none \in Seq(Nat) /\ Len(none) = 0 /\ none = <<>> OBVIOUS
<1>4. /\ g \in Seq(Nat) /\ Len(g) = Len(r.got) + Len(r.buf)
      /\ Len(r.got) <= Len(g) /\ \A i \in 1 .. Len(g) : g[i] = i
  BY <1>2, CountOn
<1> HIDE DEF none, g
<1>5. empty \in Rx /\ empty.buf = none /\ empty.got = r.got /\ empty.parse = r.parse /\ empty.opcode = r.opcode
      /\ empty.left = r.left /\ empty.cache = r.cache /\ empty.allow = r.allow
  BY <1>3 DEF Rx
<1> HIDE DEF empty
<1>6. given \in Rx /\ given.buf = none /\ given.got = g /\ given.parse = r.parse /\ given.opcode = r.opcode
      /\ given.left = r.left /\ given.cache = r.cache /\ given.allow = r.allow
  BY <1>4, <1>5 DEF Rx
<1> HIDE DEF given
<1> DEFINE f == FlowControl(given, e)
<1>7. e \in BOOLEAN BY <1>2
<1>8. /\ OnlyFlow(given, f) /\ f.allow = e /\ (e # given.allow => f.change)
  BY <1>6, <1>7, FlowControlKeeps
<1> HIDE DEF f
<1>9. f \in Rx BY <1>8 DEF OnlyFlow
<1>10. OnlyFlow(given, s) /\ s.allow = e
  <2>1. CASE masked
    <3>1. s = Applied(f) BY <1>1, <2>1 DEF f
    <3>2. OnlyFlow(f, s) /\ s.allow = f.allow BY <1>9, <3>1, AppliedKeeps
    <3> QED BY <1>8, <3>2 DEF OnlyFlow
  <2>2. CASE ~masked
    BY <1>1, <1>8, <2>2 DEF f
  <2> QED BY <2>1, <2>2
<1>11. masked /\ ~s.allow => ~s.pollin
  <2> SUFFICES ASSUME masked, ~s.allow PROVE ~s.pollin OBVIOUS
  <2>1. s = Applied(f) BY <1>1 DEF f
  <2>2. ~e /\ given.allow BY <1>6, <1>10
  <2>3. f.change /\ f.cache = <<>> /\ ~f.allow BY <1>6, <1>8, <2>2 DEF OnlyFlow
  <2> QED BY <1>9, <2>1, <2>3, AppliedKeeps
<1>12. /\ s \in Rx /\ s.buf = none /\ s.got = g /\ s.parse = r.parse /\ s.opcode = r.opcode
       /\ s.left = r.left /\ s.cache = <<>>
  BY <1>6, <1>10 DEF OnlyFlow
<1>13. Sound(s)
  <2>1. \A i \in 1 .. Len(s.buf) : FALSE BY <1>3, <1>12
  <2>2. s.buf = <<>> BY <1>3, <1>12
  <2>3. \A i \in 1 .. Len(s.got) : s.got[i] = i BY <1>4, <1>12
  <2> QED BY <1>11, <1>12, <2>1, <2>2, <2>3 DEF Sound
<1>14. Len(s.got) + Len(s.buf) = Len(r.got) + Len(r.buf) /\ Len(r.got) <= Len(s.got)
  <2>1. Len(s.got) = Len(g) /\ Len(s.buf) = 0 BY <1>3, <1>12
  <2> DEFINE j == Len(g)
             k == Len(r.got)
             l == Len(r.buf)
  <2>2. j \in Nat /\ k \in Nat /\ l \in Nat BY <1>2, <1>4, LenProperties
  <2>3. j = k + l /\ k <= j BY <1>4
  <2> HIDE DEF j, k, l
  <2>4. j + 0 = k + l /\ k <= j BY <2>2, <2>3
  <2> QED BY <2>1, <2>4 DEF j, k, l
<1>15. Here(s) = Here(r) BY <1>12, <1>14 DEF Here
<1> QED BY <1>12, <1>13, <1>14, <1>15

\* Which token fits inside a payload.
LEMMA FitsPayload ==
    ASSUME NEW p, NEW v, Fits(p, v), p.parse = "PAYLOAD", p.left \in Nat, p.seen \in Nat, p.op \in {"DATA", "PONG"}
    PROVE  v \in Nat /\ p.left > 0 /\ (p.op = "PONG" => p.left = 1) /\ (p.op = "DATA" => v = p.seen + 1)
BY DEF Fits

\* The receive state machine takes the step that the token stands for.
LEMMA RxSmKeeps ==
    ASSUME masked \in BOOLEAN, NEW r, Sound(r), r.cache = <<>>, masked => r.allow,
           NEW tok \in Tok, Fits(Here(r), tok[2]), NEW x \in RxSm(r, tok)
    PROVE  /\ Sound(x) /\ x.cache = <<>> /\ Here(x) = After(masked, Here(r), tok[2])
           /\ Len(r.got) <= Len(x.got)
<1> DEFINE v == tok[2]
           n == Len(r.got)
           b == Len(r.buf)
           p == Here(r)
<1>1. /\ r \in Rx /\ r.got \in Seq(Nat) /\ r.buf \in Seq(Nat) /\ r.left \in Nat
      /\ r.parse \in {"NEW", "LEN", "KEY", "PAYLOAD"} /\ r.opcode \in {"DATA", "PONG"}
  BY DEF Sound, Rx
<1>2. n \in Nat /\ b \in Nat /\ n <= n BY <1>1, LenProperties
<1>3. p.parse = r.parse /\ p.op = r.opcode /\ p.left = r.left /\ p.seen = n + b BY DEF Here, At
<1>4. Fits(p, v) OBVIOUS
<1> HIDE DEF v, p
<1>5. CASE r.parse = "NEW"
  <2>1. x = RxFirst(r, v) BY <1>5 DEF RxSm, v
  <2>2. v \in {"DATA", "PONG"} /\ After(masked, p, v) = At("LEN", v, r.left, n + b)
    BY <1>3, <1>4, <1>5 DEF Fits, After
  <2>3. /\ x \in Rx /\ x.opcode = v /\ x.parse = "LEN" /\ x.left = r.left /\ x.buf = r.buf /\ x.got = r.got
        /\ x.allow = r.allow /\ x.pollin = r.pollin /\ x.cache = r.cache
    BY <1>1, <2>1, <2>2 DEF RxFirst, Rx
  <2>4. r.buf = <<>> BY <1>5 DEF Sound
  <2>5. Here(x) = At("LEN", v, r.left, n + b) BY <2>3 DEF Here
  <2>6. Sound(x) BY <2>3, <2>4 DEF Sound
  <2> QED BY <1>2, <2>2, <2>3, <2>5, <2>6 DEF v, p
<1>6. CASE r.parse = "LEN"
  <2> DEFINE z == IF masked THEN "KEY" ELSE "PAYLOAD"
  <2>0. z \in {"KEY", "PAYLOAD"} OBVIOUS
  <2>1. x = RxLen(r, v) BY <1>6 DEF RxSm, v
  <2>2. v \in Nat /\ After(masked, p, v) = At(z, r.opcode, v, n + b)
    BY <1>3, <1>4, <1>6 DEF Fits, After
  <2>3. x = [r EXCEPT !.left = v, !.parse = z] BY <2>1 DEF RxLen
  <2> HIDE DEF z
  <2>4. /\ x \in Rx /\ x.opcode = r.opcode /\ x.parse = z /\ x.left = v /\ x.buf = r.buf /\ x.got = r.got
        /\ x.allow = r.allow /\ x.pollin = r.pollin /\ x.cache = r.cache
    BY <1>1, <2>0, <2>2, <2>3 DEF Rx
  <2>5. r.buf = <<>> BY <1>6 DEF Sound
  <2>6. Here(x) = At(z, r.opcode, v, n + b) BY <2>4 DEF Here
  <2>7. Sound(x) BY <2>4, <2>5 DEF Sound
  <2> QED BY <1>2, <2>2, <2>4, <2>6, <2>7 DEF v, p
<1>7. CASE r.parse = "KEY"
  <2>1. x = [r EXCEPT !.parse = "PAYLOAD"] BY <1>7 DEF RxSm, RxKey
  <2>2. After(masked, p, v) = At("PAYLOAD", r.opcode, r.left, n + b) BY <1>3, <1>7 DEF After
  <2>3. /\ x \in Rx /\ x.opcode = r.opcode /\ x.parse = "PAYLOAD" /\ x.left = r.left /\ x.buf = r.buf
        /\ x.got = r.got /\ x.allow = r.allow /\ x.pollin = r.pollin /\ x.cache = r.cache
    BY <1>1, <2>1 DEF Rx
  <2>4. r.buf = <<>> BY <1>7 DEF Sound
  <2>5. Here(x) = At("PAYLOAD", r.opcode, r.left, n + b) BY <2>3 DEF Here
  <2>6. Sound(x) BY <2>3, <2>4 DEF Sound
  <2> QED BY <1>2, <2>2, <2>3, <2>5, <2>6 DEF v, p
<1>8. CASE r.parse = "PAYLOAD"
  <2> DEFINE z == IF r.left = 1 THEN "NEW" ELSE "PAYLOAD"
             l == r.left - 1
             w == Append(r.buf, v)
             s == [r EXCEPT !.buf = w, !.left = l, !.parse = z]
  <2>1. x \in (IF s.left = 0 \/ Len(s.buf) = RxBuffer THEN Spill(s) ELSE {s})
    <3>1. x \in RxPayload(r, v) BY <1>8 DEF RxSm, v
    <3> QED BY <1>8, <3>1 DEF RxPayload
  <2>2. v \in Nat /\ r.left > 0 /\ (r.opcode = "PONG" => r.left = 1) /\ (r.opcode = "DATA" => v = (n + b) + 1)
    <3> HIDE DEF n, b
    <3>1. p.left \in Nat /\ p.op \in {"DATA", "PONG"} /\ p.parse = "PAYLOAD" /\ n + b \in Nat
      BY <1>1, <1>2, <1>3, <1>8
    <3>2. v \in Nat /\ p.left > 0 /\ (p.op = "PONG" => p.left = 1) /\ (p.op = "DATA" => v = p.seen + 1)
      BY <1>3, <1>4, <3>1, FitsPayload
    <3> QED BY <1>3, <3>2
  <2>3. After(masked, p, v) = At(z, r.opcode, l, IF r.opcode = "DATA" THEN (n + b) + 1 ELSE n + b)
    BY <1>3, <1>8 DEF After
  <2>4. l \in Nat /\ z \in {"NEW", "PAYLOAD"} /\ (r.left = 1 <=> l = 0) /\ (r.left = 1 <=> z = "NEW")
    BY <1>1, <2>2
  <2>5. /\ w \in Seq(Nat) /\ Len(w) = b + 1 /\ w[b + 1] = v /\ \A i \in 1 .. b : w[i] = r.buf[i]
    BY <1>1, <2>2, AppendProperties
  <2> HIDE DEF z, l, w
  <2>6. /\ s \in Rx /\ s.opcode = r.opcode /\ s.parse = z /\ s.left = l /\ s.buf = w /\ s.got = r.got
        /\ s.allow = r.allow /\ s.pollin = r.pollin /\ s.cache = r.cache
    BY <1>1, <2>4, <2>5 DEF Rx
  <2> HIDE DEF s
  <2>7. CASE r.opcode = "PONG"
    <3> DEFINE none == <<>>
               e == [s EXCEPT !.buf = none]
               k == s.pongs + 1
               y == [e EXCEPT !.pongs = k]
    <3>1. l = 0 /\ z = "NEW" BY <2>2, <2>4, <2>7
    <3>2. x = y
      <4>1. x \in Spill(s) BY <2>1, <2>6, <3>1
      <4>2. e.pongs = s.pongs BY <2>6 DEF Rx
      <4> QED BY <2>6, <2>7, <4>1, <4>2 DEF Spill
    <3>3. none \in Seq(Nat) /\ none = <<>> /\ Len(none) = 0 OBVIOUS
    <3>4. s.pongs \in Nat /\ k \in Nat BY <2>6 DEF Rx
    <3> HIDE DEF none, k
    <3>5. /\ e \in Rx /\ e.opcode = r.opcode /\ e.parse = z /\ e.left = l /\ e.buf = none /\ e.got = r.got
          /\ e.allow = r.allow /\ e.pollin = r.pollin /\ e.cache = r.cache
      BY <2>6, <3>3 DEF Rx
    <3> HIDE DEF e
    <3>6. /\ y \in Rx /\ y.opcode = r.opcode /\ y.parse = z /\ y.left = l /\ y.buf = none /\ y.got = r.got
          /\ y.allow = r.allow /\ y.pollin = r.pollin /\ y.cache = r.cache
      BY <3>4, <3>5 DEF Rx
    <3> HIDE DEF y
    <3>7. r.buf = <<>> /\ b = 0 BY <2>7 DEF Sound
    <3>8. Here(x) = At(z, r.opcode, l, n + b) BY <3>2, <3>3, <3>6, <3>7 DEF Here
    <3>9. Sound(x) BY <3>2, <3>3, <3>6 DEF Sound
    <3>10. After(masked, p, v) = At(z, r.opcode, l, n + b) BY <2>3, <2>7
    <3>11. x.cache = <<>> /\ Len(r.got) <= Len(x.got) BY <1>2, <3>2, <3>6
    <3> QED BY <3>8, <3>9, <3>10, <3>11 DEF v, p
  <2>8. CASE r.opcode = "DATA"
    <3>1. \A i \in 1 .. Len(s.got) : s.got[i] = i BY <2>6 DEF Sound
    <3>2. \A i \in 1 .. Len(s.buf) : s.buf[i] = Len(s.got) + i
      <4>1. \A i \in 1 .. b : r.buf[i] = n + i BY DEF Sound
      <4> HIDE DEF n, b
      <4>2. ASSUME NEW i \in 1 .. b + 1 PROVE w[i] = n + i
        <5>1. CASE i = b + 1
          BY <1>2, <2>2, <2>5, <2>8, <5>1
        <5>2. CASE i # b + 1
          <6>1. i \in 1 .. b BY <1>2, <5>2
          <6> QED BY <2>5, <4>1, <6>1
        <5> QED BY <5>1, <5>2
      <4> QED BY <2>5, <2>6, <4>2 DEF n
    <3>3. Here(s) = At(z, r.opcode, l, (n + b) + 1)
      <4> HIDE DEF n, b
      <4>1. n + (b + 1) = (n + b) + 1 BY <1>2
      <4> QED BY <2>5, <2>6, <4>1 DEF Here, n
    <3>4. After(masked, p, v) = Here(s) BY <2>3, <2>8, <3>3
    <3>5. CASE x \in Spill(s)
      <4>1. Sound(x) /\ x.cache = <<>> /\ Here(x) = Here(s) /\ Len(s.got) <= Len(x.got)
        BY <2>6, <2>8, <3>1, <3>2, <3>5, SpillKeeps
      <4> QED BY <2>6, <3>4, <4>1 DEF v, p
    <3>6. CASE x = s /\ l # 0
      <4>1. z = "PAYLOAD" BY <2>4, <3>6
      <4>2. Sound(s) BY <2>6, <2>8, <3>1, <3>2, <4>1 DEF Sound
      <4> QED BY <1>2, <2>6, <3>4, <3>6, <4>2 DEF v, p
    <3> QED BY <2>1, <2>6, <3>5, <3>6
  <2> QED BY <1>1, <2>7, <2>8
<1> QED BY <1>1, <1>5, <1>6, <1>7, <1>8

\* A token that arrives is kept back or read: what is then to be read has not
\* changed where it ends.
LEMMA TakeKeeps ==
    ASSUME masked \in BOOLEAN, NEW r, Sound(r), Reading(r), NEW tok \in Tok, NEW s \in Seq(Tok), NEW q,
           Leads(masked, Here(r), r.cache \o (<<tok>> \o s), q), NEW x \in Take(r, tok)
    PROVE  /\ Sound(x) /\ Reading(x) /\ Leads(masked, Here(x), x.cache \o s, q)
           /\ Len(r.got) <= Len(x.got)
<1>1. r \in Rx /\ r.cache \in Seq(Tok) /\ r.allow \in BOOLEAN /\ r.got \in Seq(Nat) BY DEF Sound, Rx
<1>2. <<tok>> \in Seq(Tok) /\ <<tok>> \o s \in Seq(Tok) BY ConcatProperties
<1>3. CASE Keeps(r)
  <2> DEFINE c == Append(r.cache, tok)
  <2>1. x = [r EXCEPT !.cache = c] BY <1>3 DEF Take
  <2>2. c \in Seq(Tok) /\ c = r.cache \o <<tok>> BY <1>1, AppendProperties, AppendIsConcat
  <2>3. c \o s = r.cache \o (<<tok>> \o s)
    <3> DEFINE k == r.cache
               o == <<tok>>
    <3>1. k \in Seq(Tok) /\ o \in Seq(Tok) /\ c = k \o o BY <1>1, <1>2, <2>2
    <3> HIDE DEF k, o, c
    <3>2. (k \o o) \o s = k \o (o \o s) BY <3>1, ConcatAssociative
    <3> QED BY <3>1, <3>2 DEF k, o
  <2> HIDE DEF c
  <2>4. /\ x \in Rx /\ x.cache = c /\ x.parse = r.parse /\ x.opcode = r.opcode /\ x.left = r.left
        /\ x.buf = r.buf /\ x.got = r.got /\ x.allow = r.allow /\ x.pollin = r.pollin
    BY <1>1, <2>1, <2>2 DEF Rx
  <2>5. Sound(x) /\ Here(x) = Here(r) BY <2>4 DEF Sound, Here
  <2>6. Reading(x) BY <1>3, <2>4 DEF Reading, Keeps
  <2>7. Len(r.got) <= Len(x.got)
    <3>1. Len(r.got) \in Nat BY <1>1, LenProperties
    <3> QED BY <2>4, <3>1
  <2> QED BY <2>3, <2>4, <2>5, <2>6, <2>7
<1>4. CASE ~Keeps(r)
  <2>1. r.cache = <<>> /\ (masked => r.allow) BY <1>4 DEF Reading, Keeps
  <2>2. r.cache \o (<<tok>> \o s) = <<tok>> \o s BY <1>2, <2>1, ConcatEmptySeq
  <2>3. Fits(Here(r), tok[2]) /\ Leads(masked, After(masked, Here(r), tok[2]), s, q)
    BY <2>2, LeadsHead
  <2>4. x \in RxSm(r, tok) BY <1>4 DEF Take
  <2>5. /\ Sound(x) /\ x.cache = <<>> /\ Here(x) = After(masked, Here(r), tok[2])
        /\ Len(r.got) <= Len(x.got)
    BY <2>1, <2>3, <2>4, RxSmKeeps
  <2>6. x.cache \o s = s BY <2>5, ConcatEmptySeq
  <2> QED BY <2>3, <2>5, <2>6 DEF Reading
<1> QED BY <1>3, <1>4

-----------------------------------------------------------------------------
(* Reading a run of tokens.                                                 *)

\* A set of naturals has a first element.
LEMMA FirstOf ==
    ASSUME NEW T, T \subseteq Nat, T # {}
    PROVE  \E n \in T : \A m \in T : n <= m
<1>1. PICK x \in T : \A y \in T : ~(<<y, x>> \in OpToRel(<, Nat))
  BY NatLessThanWellFounded, WFMin
<1>2. ASSUME NEW y \in T PROVE x <= y
  <2>1. x \in Nat /\ y \in Nat OBVIOUS
  <2>2. ~(y < x) BY <1>1, <2>1 DEF OpToRel
  <2> QED BY <2>1, <2>2
<1> QED BY <1>2

\* What Interpret computes, token by token.
Move(S, tok) == UNION {Take(s, tok) : s \in S}
Course(r, toks, f, n) == f = [i \in 0 .. n |-> IF i = 0 THEN {r} ELSE Move(f[i - 1], toks[i])]

\* The receiver's way through any tokens exists, as a function of how far it
\* is.
LEMMA CourseExists ==
    ASSUME NEW r, NEW toks, NEW n \in Nat
    PROVE  \E f : Course(r, toks, f, n)
<1> DEFINE T == {k \in Nat : ~\E f : Course(r, toks, f, k)}
<1> SUFFICES ASSUME T # {} PROVE FALSE OBVIOUS
<1>1. PICK k \in T : \A m \in T : k <= m BY FirstOf
<1>2. k # 0
  <2> DEFINE f == [i \in 0 .. 0 |-> {r}]
  <2>1. f = [i \in 0 .. 0 |-> IF i = 0 THEN {r} ELSE Move(f[i - 1], toks[i])] OBVIOUS
  <2> HIDE DEF f
  <2>2. Course(r, toks, f, 0) BY <2>1 DEF Course
  <2> QED BY <2>2
<1>3. k - 1 \in Nat /\ ~(k <= k - 1) BY <1>2
<1>4. PICK f : Course(r, toks, f, k - 1) BY <1>1, <1>3
<1> DEFINE e == Move(f[k - 1], toks[k])
           g == [i \in 0 .. k |-> IF i = k THEN e ELSE f[i]]
           h == [i \in 0 .. k |-> IF i = 0 THEN {r} ELSE Move(g[i - 1], toks[i])]
<1>5. \A i \in 0 .. k - 1 : f[i] = IF i = 0 THEN {r} ELSE Move(f[i - 1], toks[i])
  BY <1>4 DEF Course
<1>6. \A i \in 0 .. k : g[i] = IF i = k THEN e ELSE f[i] OBVIOUS
<1>7. ASSUME NEW i \in 0 .. k PROVE g[i] = IF i = 0 THEN {r} ELSE Move(g[i - 1], toks[i])
  <2> HIDE DEF g, e
  <2>1. CASE i = 0
    <3>1. i # k /\ i \in 0 .. k - 1 BY <1>2, <1>3, <2>1
    <3> QED BY <1>5, <1>6, <2>1, <3>1
  <2>2. CASE i = k
    <3>1. g[i] = e BY <1>6, <2>2
    <3>2. k - 1 \in 0 .. k /\ k - 1 # k BY <1>3
    <3>3. g[k - 1] = f[k - 1] BY <1>6, <3>2
    <3> QED BY <1>2, <2>2, <3>1, <3>3 DEF e
  <2>3. CASE i # 0 /\ i # k
    <3>1. i \in 0 .. k - 1 /\ i - 1 \in 0 .. k /\ i - 1 # k BY <2>3
    <3>2. g[i] = f[i] /\ g[i - 1] = f[i - 1] BY <1>6, <2>3, <3>1
    <3> QED BY <1>5, <2>3, <3>1, <3>2
  <2> QED BY <2>1, <2>2, <2>3
<1>8. g = h
  <2> HIDE DEF e
  <2>1. \A i \in 0 .. k : g[i] = h[i] BY <1>7
  <2> QED BY <2>1
<1>9. Course(r, toks, g, k)
  <2> HIDE DEF g
  <2> QED BY <1>8 DEF Course
<1> QED BY <1>9

\* Interpret yields the ends of such a way.
LEMMA InterpretIs ==
    ASSUME NEW r, NEW toks \in Seq(Tok)
    PROVE  \E f : Course(r, toks, f, Len(toks)) /\ Interpret(r, toks) = f[Len(toks)]
<1> DEFINE f == CHOOSE f : Course(r, toks, f, Len(toks))
<1>1. Len(toks) \in Nat BY LenProperties
<1>2. Course(r, toks, f, Len(toks)) BY <1>1, CourseExists
<1>3. Interpret(r, toks) = f[Len(toks)] BY DEF Interpret, Course, Move
<1> QED BY <1>2, <1>3

\* The receiver reads, or keeps back, what leads on from where it stands: it
\* stays sound, and what is left leads on from there.
LEMMA InterpretKeeps ==
    ASSUME masked \in BOOLEAN, NEW r, Sound(r), Reading(r), NEW toks \in Seq(Tok), NEW s \in Seq(Tok), NEW q,
           Leads(masked, Here(r), r.cache \o (toks \o s), q), NEW x \in Interpret(r, toks)
    PROVE  /\ Sound(x) /\ Reading(x) /\ Leads(masked, Here(x), x.cache \o s, q)
           /\ Len(r.got) <= Len(x.got)
<1> DEFINE n == Len(toks)
           rest(i) == SubSeq(toks, i + 1, n)
           Good(y, i) == /\ Sound(y) /\ Reading(y) /\ Leads(masked, Here(y), y.cache \o (rest(i) \o s), q)
                         /\ Len(r.got) <= Len(y.got)
<1>1. PICK f : Course(r, toks, f, n) /\ Interpret(r, toks) = f[n] BY InterpretIs
<1>2. n \in Nat BY LenProperties
<1>3. \A i \in 0 .. n : f[i] = IF i = 0 THEN {r} ELSE Move(f[i - 1], toks[i]) BY <1>1 DEF Course
<1>4. rest(n) = <<>> /\ rest(0) = toks BY <1>2, SubSeqEmpty, SubSeqFull
<1>5. Good(r, 0)
  <2>1. Len(r.got) <= Len(r.got)
    <3>1. Len(r.got) \in Nat BY LenProperties DEF Sound, Rx
    <3> QED BY <3>1
  <2> QED BY <1>4, <2>1
<1>6. ASSUME NEW i \in 1 .. n, NEW y, Good(y, i - 1), NEW z \in Take(y, toks[i]) PROVE Good(z, i)
  <2> DEFINE t == toks[i]
             a == rest(i) \o s
  <2>1. rest(i - 1) = <<t>> \o rest(i) /\ rest(i) \in Seq(Tok) /\ t \in Tok
    <3>1. (i - 1) + 1 = i BY <1>2
    <3> QED BY <3>1, FirstAndRest
  <2>2. <<t>> \in Seq(Tok) BY <2>1
  <2> HIDE DEF rest, t
  <2>3. (<<t>> \o rest(i)) \o s = <<t>> \o (rest(i) \o s) BY <2>1, <2>2, ConcatAssociative
  <2>4. a \in Seq(Tok) BY <2>1, ConcatProperties
  <2>5. Leads(masked, Here(y), y.cache \o (<<t>> \o a), q) BY <1>6, <2>1, <2>3
  <2>6. z \in Take(y, t) BY DEF t
  <2> HIDE DEF a
  <2>7. Sound(z) /\ Reading(z) /\ Leads(masked, Here(z), z.cache \o a, q) /\ Len(y.got) <= Len(z.got)
    BY <1>6, <2>1, <2>4, <2>5, <2>6, TakeKeeps
  <2>8. Len(r.got) <= Len(z.got)
    <3> DEFINE lr == Len(r.got)
               ly == Len(y.got)
               lz == Len(z.got)
    <3>1. lr \in Nat /\ ly \in Nat /\ lz \in Nat BY <1>6, <2>7, LenProperties DEF Sound, Rx
    <3>2. lr <= ly /\ ly <= lz BY <1>6, <2>7
    <3> HIDE DEF lr, ly, lz
    <3>3. lr <= lz BY <3>1, <3>2
    <3> QED BY <3>3 DEF lr, lz
  <2> QED BY <2>7, <2>8 DEF a
<1> HIDE DEF Good
<1>7. \A i \in 0 .. n : \A y \in f[i] : Good(y, i)
  <2> DEFINE T == {i \in 0 .. n : ~\A y \in f[i] : Good(y, i)}
  <2> SUFFICES ASSUME T # {} PROVE FALSE OBVIOUS
  <2>1. PICK k \in T : \A m \in T : k <= m
    <3>1. T \subseteq Nat BY <1>2
    <3> HIDE DEF T
    <3> QED BY <3>1, FirstOf
  <2>2. k \in 0 .. n /\ k \in Nat BY <1>2
  <2>3. k # 0 BY <1>3, <1>5, <2>2
  <2>4. k - 1 \in 0 .. n /\ ~(k <= k - 1) /\ k \in 1 .. n BY <1>2, <2>2, <2>3
  <2>5. \A y \in f[k - 1] : Good(y, k - 1) BY <2>1, <2>4
  <2>6. f[k] = Move(f[k - 1], toks[k]) BY <1>3, <2>2, <2>3
  <2>7. ASSUME NEW z \in f[k] PROVE Good(z, k)
    <3>1. PICK y \in f[k - 1] : z \in Take(y, toks[k]) BY <2>6 DEF Move
    <3> QED BY <1>6, <2>4, <2>5, <3>1
  <2> QED BY <2>7
<1>8. Good(x, n)
  <2>1. n \in 0 .. n BY <1>2
  <2> QED BY <1>1, <1>7, <2>1
<1>9. rest(n) \o s = s BY <1>4, ConcatEmptySeq
<1> QED BY <1>8, <1>9 DEF Good

\* Joining sequences of tokens.
LEMMA TokensJoin ==
    /\ \A s1, s2 \in Seq(Tok) : s1 \o s2 \in Seq(Tok)
    /\ \A s1, s2, s3 \in Seq(Tok) : (s1 \o s2) \o s3 = s1 \o (s2 \o s3)
    /\ \A s1 \in Seq(Tok) : s1 \o <<>> = s1 /\ <<>> \o s1 = s1
BY ConcatProperties, ConcatAssociative, ConcatEmptySeq

-----------------------------------------------------------------------------
(* The inductive invariant.                                                 *)

Tx == [msg : Nat \ {0}, off : Nat, told : Nat, inside : BOOLEAN, stored : Seq(Tok), ping : BOOLEAN,
       pollout : BOOLEAN, closed : BOOLEAN]

\* Where the sender stands.
Ends(t, q) ==
    IF t.inside THEN q = At("PAYLOAD", "DATA", Lens[t.msg] - t.off, t.told)
    ELSE q.parse = "NEW" /\ q.seen = t.told

\* Sender, wire and receiver fit together.
Working(t, w, r) ==
    /\ t \in Tx /\ w \in Seq(Tok) /\ Sound(r) /\ Resting(r)
    /\ t.inside => t.stored = <<>> /\ t.msg <= Len(Lens) /\ t.off < Lens[t.msg]
    /\ ~t.inside => t.off = 0
    /\ \E q : Leads(masked, Here(r), r.cache \o (w \o t.stored), q) /\ Ends(t, q)

LinkInv ==
    /\ masked \in BOOLEAN /\ ext \in BOOLEAN /\ asks \in BOOLEAN
    /\ garbled \in BOOLEAN /\ tx.closed \in BOOLEAN
    /\ Up => Working(tx, wire, rx)

\* A connection in order stays so in the primed state.
LEMMA WorkingStays ==
    ASSUME masked' = masked, Working(tx', wire', rx')
    PROVE  Working(tx, wire, rx)'
BY DEF Working, Sound, Resting

\* What the sender writes next goes after the rest.
LEMMA WrittenKeeps ==
    ASSUME masked \in BOOLEAN, NEW t, NEW w, NEW r, Working(t, w, r), t.stored = <<>>,
           NEW toks \in Seq(Tok), NEW p, NEW u \in Tx, NEW z \in Seq(Tok), z \o u.stored = w \o toks,
           \A q : Ends(t, q) /\ q \in Place => Leads(masked, q, toks, p),
           Ends(u, p), u.inside => u.stored = <<>> /\ u.msg <= Len(Lens) /\ u.off < Lens[u.msg],
           ~u.inside => u.off = 0
    PROVE  Working(u, z, r)
<1>1. w \in Seq(Tok) /\ r.cache \in Seq(Tok) /\ u.stored \in Seq(Tok) BY DEF Working, Sound, Rx, Tx
<1>2. PICK q : Leads(masked, Here(r), r.cache \o (w \o t.stored), q) /\ Ends(t, q) BY DEF Working
<1>3. w \o t.stored = w BY <1>1, ConcatEmptySeq
<1> DEFINE c == r.cache
<1>4. Leads(masked, Here(r), c \o w, q) BY <1>2, <1>3
<1>5. c \in Seq(Tok) BY <1>1
<1> HIDE DEF c
<1>6. c \o w \in Seq(Tok) /\ (c \o w) \o toks = c \o (w \o toks)
  <2>1. c \o w \in Seq(Tok) BY <1>1, <1>5, ConcatProperties
  <2>2. w \in Seq(Tok) /\ toks \in Seq(Tok) BY <1>1
  <2>3. (c \o w) \o toks = c \o (w \o toks) BY <1>5, <2>2, TokensJoin, ZenonT(20)
  <2> QED BY <2>1, <2>3
<1>7. q \in Place BY <1>4, <1>6, LeadsForward
<1>8. Leads(masked, q, toks, p) BY <1>2, <1>7
<1>9. Leads(masked, Here(r), (c \o w) \o toks, p) BY <1>4, <1>6, <1>8, LeadsOn
<1>10. Leads(masked, Here(r), c \o (z \o u.stored), p) BY <1>6, <1>9
<1> QED BY <1>10 DEF Working, c

\* What the receiver has read does not go beyond what the sender was told.
LEMMA ReadKeeps ==
    ASSUME masked \in BOOLEAN, NEW t, NEW w, NEW r, Working(t, w, r), NEW x, Sound(x), Resting(x), NEW z \in Seq(Tok),
           NEW q, Leads(masked, Here(x), x.cache \o (z \o t.stored), q), Ends(t, q)
    PROVE  Working(t, z, x) /\ Len(x.got) <= t.told
<1>1. t \in Tx /\ t.stored \in Seq(Tok) /\ t.told \in Nat BY DEF Working, Tx
<1>2. x.cache \in Seq(Tok) /\ x.got \in Seq(Nat) /\ x.buf \in Seq(Nat) BY DEF Sound, Rx
<1>3. Working(t, z, x) BY DEF Working
<1>4. x.cache \o (z \o t.stored) \in Seq(Tok)
  <2>1. z \o t.stored \in Seq(Tok) BY <1>1, ConcatProperties
  <2> QED BY <1>2, <2>1, ConcatProperties
<1>5. q \in Place /\ Here(x).seen <= q.seen BY <1>4, LeadsForward
<1>6. q.seen = t.told BY DEF Ends, At
<1> DEFINE n == Len(x.got)
           b == Len(x.buf)
<1>7. n \in Nat /\ b \in Nat BY <1>2, LenProperties
<1>8. Here(x).seen = n + b BY DEF Here, At
<1> HIDE DEF n, b
<1>9. n <= t.told BY <1>1, <1>5, <1>6, <1>7, <1>8
<1> QED BY <1>3, <1>9 DEF n

-----------------------------------------------------------------------------
(* The sender's steps.                                                      *)

\* Sending what lws_issue_raw stored keeps the connection in order.
LEMMA StoredKeeps ==
    ASSUME masked \in BOOLEAN, Working(tx, wire, rx), tx.stored # <<>>, IssueStored
    PROVE  Working(tx', wire', rx) /\ tx'.told = tx.told /\ tx'.closed = tx.closed
<1> DEFINE a == tx.stored
<1>1. tx \in Tx /\ a \in Seq(Tok) /\ wire \in Seq(Tok) /\ ~tx.inside BY DEF Working, Tx
<1>2. PICK k \in Taken(a) : /\ wire' = wire \o SubSeq(a, 1, k)
                            /\ tx' = [tx EXCEPT !.stored = SubSeq(a, k + 1, Len(a))]
  BY <1>1 DEF IssueStored, Tx
<1>3. k \in 0 .. Len(a) BY DEF Taken
<1> DEFINE u == SubSeq(a, 1, k)
           v == SubSeq(a, k + 1, Len(a))
<1>4. u \in Seq(Tok) /\ v \in Seq(Tok) /\ u \o v = a BY <1>1, <1>3, CutAndJoin
<1>5. wire' = wire \o u /\ tx' = [tx EXCEPT !.stored = v] BY <1>2
<1> HIDE DEF u, v
<1>6. /\ tx' \in Tx /\ tx'.stored = v /\ tx'.msg = tx.msg /\ tx'.off = tx.off /\ tx'.told = tx.told
      /\ tx'.inside = tx.inside /\ tx'.closed = tx.closed
  BY <1>1, <1>4, <1>5 DEF Tx
<1>7. wire' \o tx'.stored = wire \o a
  <2> HIDE DEF a
  <2>1. wire \in Seq(Tok) /\ u \in Seq(Tok) /\ v \in Seq(Tok) BY <1>1, <1>4
  <2>2. (wire \o u) \o v = wire \o (u \o v) BY <2>1, TokensJoin
  <2> QED BY <1>4, <1>5, <1>6, <2>2
<1>8. wire' \in Seq(Tok) BY <1>1, <1>4, <1>5, ConcatProperties
<1>9. PICK q : Leads(masked, Here(rx), rx.cache \o (wire \o a), q) /\ Ends(tx, q) BY DEF Working
<1>10. Ends(tx', q) BY <1>6, <1>9 DEF Ends
<1>11. Leads(masked, Here(rx), rx.cache \o (wire' \o tx'.stored), q) BY <1>7, <1>9
<1>12. Sound(rx) /\ Resting(rx) /\ (~tx.inside => tx.off = 0) BY DEF Working
<1> QED BY <1>1, <1>6, <1>8, <1>10, <1>11, <1>12 DEF Working

\* Nothing that is sent has changed.
LEMMA UnsentKeeps ==
    ASSUME Working(tx, wire, rx), NEW u \in Tx, u.msg = tx.msg, u.off = tx.off, u.told = tx.told,
           u.inside = tx.inside, u.stored = tx.stored
    PROVE  Working(u, wire, rx)
BY DEF Working, Ends

\* Two parts of a sequence of tokens, and when one is empty.
LEMMA CutTokens ==
    ASSUME NEW toks \in Seq(Tok), NEW k \in 0 .. Len(toks)
    PROVE  /\ SubSeq(toks, 1, k) \in Seq(Tok) /\ SubSeq(toks, k + 1, Len(toks)) \in Seq(Tok)
           /\ SubSeq(toks, 1, k) \o SubSeq(toks, k + 1, Len(toks)) = toks
           /\ k < Len(toks) => SubSeq(toks, k + 1, Len(toks)) # <<>>
           /\ k = Len(toks) => SubSeq(toks, k + 1, Len(toks)) = <<>>
<1> DEFINE u == SubSeq(toks, 1, k)
           v == SubSeq(toks, k + 1, Len(toks))
<1>1. u \in Seq(Tok) /\ v \in Seq(Tok) /\ u \o v = toks /\ Len(v) = Len(toks) - k BY CutAndJoin
<1>2. Len(toks) \in Nat BY LenProperties
<1>3. k = Len(toks) => v = <<>> BY <1>2, SubSeqEmpty
<1> HIDE DEF u, v
<1>4. k < Len(toks) => Len(v) # 0 BY <1>1, <1>2
<1> QED BY <1>1, <1>3, <1>4, EmptySeq DEF u, v

\* What was sent and what is left are what was to be sent.
LEMMA Issued ==
    ASSUME NEW w \in Seq(Tok), NEW toks \in Seq(Tok), NEW k \in 0 .. Len(toks)
    PROVE  /\ w \o SubSeq(toks, 1, k) \in Seq(Tok)
           /\ (w \o SubSeq(toks, 1, k)) \o SubSeq(toks, k + 1, Len(toks)) = w \o toks
<1> DEFINE u == SubSeq(toks, 1, k)
           v == SubSeq(toks, k + 1, Len(toks))
<1>1. u \in Seq(Tok) /\ v \in Seq(Tok) BY CutTokens
<1>2. u \o v = toks BY CutTokens
<1> HIDE DEF u, v
<1>3. w \o u \in Seq(Tok) BY <1>1, TokensJoin
<1>4. (w \o u) \o v = w \o (u \o v) BY <1>1, TokensJoin, ZenonT(20)
<1> QED BY <1>2, <1>3, <1>4 DEF u, v

\* What lws_issue_raw leaves of the sender's books, when k tokens were taken.
Issuing(t, toks, k, clean, u) ==
    /\ u \in Tx /\ u.msg = t.msg /\ u.off = t.off /\ u.told = t.told /\ u.inside = t.inside
    /\ u.closed = t.closed
    /\ IF k = Len(toks) \/ k = 0 \/ ~clean THEN u.stored = SubSeq(toks, k + 1, Len(toks))
       ELSE u.stored = <<>>
    /\ k < Len(toks) /\ (k = 0 \/ ~clean) <=> u.stored # <<>>

\* lws_issue_raw puts part of the tokens on the wire and stores the rest.
LEMMA IssueRawKeeps ==
    ASSUME NEW t \in Tx, t.stored = <<>>, NEW toks \in Seq(Tok), NEW k \in 0 .. Len(toks), NEW clean \in BOOLEAN
    PROVE  Issuing(t, toks, k, clean, IssueRaw(t, toks, k, clean))
<1> DEFINE v == SubSeq(toks, k + 1, Len(toks))
<1>1. v \in Seq(Tok) /\ (k < Len(toks) => v # <<>>) /\ (k = Len(toks) => v = <<>>)
  BY CutTokens
<1>2. Len(toks) \in Nat BY LenProperties
<1> HIDE DEF v
<1>3. CASE k < Len(toks) /\ (k = 0 \/ ~clean)
  <2> DEFINE u == [t EXCEPT !.stored = v, !.pollout = TRUE]
  <2>1. IssueRaw(t, toks, k, clean) = u BY <1>3 DEF IssueRaw, MustStore, v
  <2>2. /\ u \in Tx /\ u.msg = t.msg /\ u.off = t.off /\ u.told = t.told /\ u.inside = t.inside
        /\ u.closed = t.closed /\ u.stored = v
    BY <1>1 DEF Tx
  <2> HIDE DEF u
  <2> QED BY <1>1, <1>3, <2>1, <2>2 DEF v, Issuing
<1>4. CASE ~(k < Len(toks) /\ (k = 0 \/ ~clean))
  <2>1. IssueRaw(t, toks, k, clean) = t BY <1>4 DEF IssueRaw, MustStore
  <2>2. k < Len(toks) \/ k = Len(toks) BY <1>2
  <2> QED BY <1>1, <1>4, <2>1, <2>2 DEF v, Issuing
<1> QED BY <1>3, <1>4

\* A pong that is not cut and not inside a frame is a frame of its own.
LEMMA PongKeeps ==
    ASSUME masked \in BOOLEAN, Working(tx, wire, rx), tx.stored = <<>>, WritePong
    PROVE  /\ garbled' \in BOOLEAN /\ tx'.told = tx.told /\ tx'.closed = tx.closed
           /\ ~garbled' => Working(tx', wire', rx)
<1> DEFINE one == <<"pay", 0>>
           front == IF tx.inside THEN <<>> ELSE Header("PONG", 1)
           toks == front \o <<one>>
           d == tx.told
           pa == At("PAYLOAD", "PONG", 1, d)
           pb == At("NEW", "PONG", 0, d)
<1>1. PICK k \in Taken(toks) :
         /\ wire' = wire \o SubSeq(toks, 1, k)
         /\ tx' = [IssueRaw(tx, toks, k, TRUE) EXCEPT !.ping = FALSE]
         /\ garbled' = (tx.inside \/ (k < Len(toks) /\ k > 0))
  BY DEF WritePong
<1>2. tx \in Tx /\ wire \in Seq(Tok) /\ d \in Nat /\ tx.inside \in BOOLEAN BY DEF Working, Tx
<1>3. one \in Tok /\ one[2] = 0 BY DEF Tok, Value
<1>4. pa \in Place /\ pb \in Place /\ pa.parse = "PAYLOAD" /\ pa.op = "PONG" /\ pa.left = 1 /\ pa.seen = d
      /\ pb.parse = "NEW" /\ pb.seen = d
  BY <1>2 DEF At, Place
<1>5. Fits(pa, 0) /\ After(masked, pa, 0) = pb
  <2>1. Fits(pa, 0)
    <3> HIDE DEF pa
    <3> QED BY <1>4 DEF Fits
  <2>2. 1 - 1 = 0 OBVIOUS
  <2>3. After(masked, pa, 0) = At("NEW", "PONG", 1 - 1, d)
    <3> HIDE DEF pa
    <3> QED BY <1>4 DEF After
  <2> QED BY <2>1, <2>2, <2>3
<1> HIDE DEF one, pb, d
<1>6. ASSUME NEW q \in Place, q.parse = "NEW", q.seen = d
      PROVE  Header("PONG", 1) \in Seq(Tok) /\ Leads(masked, q, Header("PONG", 1), pa)
  BY <1>6, LeadsHeader
<1> HIDE DEF pa
<1>7. Header("PONG", 1) \in Seq(Tok)
  <2> DEFINE q == At("NEW", "PONG", 0, d)
  <2>1. q \in Place /\ q.parse = "NEW" /\ q.seen = d BY <1>4 DEF pb
  <2> QED BY <1>6, <2>1
<1>8. <<one>> \in Seq(Tok) /\ front \in Seq(Tok) BY <1>3, <1>7, EmptySeq
<1>9. Leads(masked, pa, <<one>>, pb) BY <1>3, <1>4, <1>5, LeadsOne
<1> DEFINE t == IssueRaw(tx, toks, k, TRUE)
<1>10. toks \in Seq(Tok) BY <1>8, TokensJoin
<1>11. k \in 0 .. Len(toks) BY DEF Taken
<1>12. ~tx.inside => toks = Header("PONG", 1) \o <<one>> OBVIOUS
<1> HIDE DEF front, toks
<1>13. /\ t \in Tx /\ t.msg = tx.msg /\ t.off = tx.off /\ t.told = tx.told /\ t.inside = tx.inside
       /\ t.closed = tx.closed
       /\ k = Len(toks) \/ k = 0 => t.stored = SubSeq(toks, k + 1, Len(toks))
  <2>1. Issuing(tx, toks, k, TRUE, t) BY <1>2, <1>10, <1>11, IssueRawKeeps
  <2> HIDE DEF t
  <2> QED BY <2>1 DEF Issuing
<1> HIDE DEF t
<1>14. tx' = [t EXCEPT !.ping = FALSE] BY <1>1 DEF t
<1>15. /\ tx' \in Tx /\ tx'.msg = tx.msg /\ tx'.off = tx.off /\ tx'.told = tx.told /\ tx'.inside = tx.inside
       /\ tx'.closed = tx.closed /\ tx'.stored = t.stored
  BY <1>13, <1>14 DEF Tx
<1>16. garbled' \in BOOLEAN BY <1>1, <1>2
<1>17. ASSUME ~garbled' PROVE Working(tx', wire', rx)
  <2>1. ~tx.inside /\ (k = Len(toks) \/ k = 0)
    <3>1. ~tx.inside /\ ~(k < Len(toks) /\ k > 0) BY <1>1, <1>17
    <3>2. Len(toks) \in Nat BY <1>10, LenProperties
    <3> QED BY <1>11, <3>1, <3>2
  <2>2. wire' \in Seq(Tok) /\ wire' \o tx'.stored = wire \o toks
    <3>1. wire' = wire \o SubSeq(toks, 1, k) BY <1>1
    <3>2. tx'.stored = SubSeq(toks, k + 1, Len(toks)) BY <1>13, <1>15, <2>1
    <3>3. wire \in Seq(Tok) BY <1>2
    <3> QED BY <3>1, <3>2, <3>3, <1>10, <1>11, Issued
  <2>3. ASSUME NEW q, Ends(tx, q), q \in Place PROVE Leads(masked, q, toks, pb)
    <3>1. q.parse = "NEW" /\ q.seen = d BY <2>1, <2>3 DEF Ends, d
    <3>2. Leads(masked, q, Header("PONG", 1), pa) BY <1>6, <2>3, <3>1
    <3> QED BY <1>7, <1>8, <1>9, <1>12, <2>1, <3>2, LeadsOn
  <2>4. Ends(tx', pb) BY <1>4, <1>15, <2>1 DEF Ends, d
  <2>5. ~tx'.inside /\ tx'.off = 0 BY <1>15, <2>1 DEF Working
  <2> QED BY <1>10, <1>15, <2>2, <2>3, <2>4, <2>5, WrittenKeeps
<1> QED BY <1>15, <1>16, <1>17

\* A cut behind the head of a frame cuts its payload.
LEMMA CutAfterHead ==
    ASSUME NEW a \in Seq(Tok), NEW c \in Nat, NEW n \in Nat, NEW k \in Len(a) .. Len(a) + n
    PROVE  SubSeq(a \o Payload(c, n), 1, k) = a \o Payload(c, k - Len(a))
<1> DEFINE b == Payload(c, n)
           j == k - Len(a)
           d == Payload(c, j)
           u == a \o b
           x == SubSeq(u, 1, k)
           y == a \o d
           l == Len(a)
<1>1. l \in Nat BY LenProperties
<1>2. j \in Nat /\ k \in Nat /\ j <= n /\ k = l + j BY <1>1
<1>3. \A i \in Nat : <<"pay", c + i>> \in Tok BY DEF Tok, Value
<1> HIDE DEF j
<1>4. b \in Seq(Tok) /\ Len(b) = n /\ \A i \in 1 .. n : b[i] = <<"pay", c + i>> BY <1>3 DEF Payload
<1>5. d \in Seq(Tok) /\ Len(d) = j /\ \A i \in 1 .. j : d[i] = <<"pay", c + i>> BY <1>2, <1>3 DEF Payload
<1> HIDE DEF b, d
<1>6. u \in Seq(Tok) /\ Len(u) = l + n /\ \A i \in 1 .. l + n : u[i] = IF i <= l THEN a[i] ELSE b[i - l]
  BY <1>4, ConcatProperties
<1>7. y \in Seq(Tok) /\ Len(y) = l + j /\ \A i \in 1 .. l + j : y[i] = IF i <= l THEN a[i] ELSE d[i - l]
  BY <1>5, ConcatProperties
<1> HIDE DEF u, y, l
<1>8. x \in Seq(Tok) /\ Len(x) = k /\ \A i \in 1 .. k : x[i] = u[i]
  <2>1. k \in 0 .. Len(u) BY <1>1, <1>2, <1>6
  <2> QED BY <1>6, <2>1
<1> HIDE DEF x
<1>9. ASSUME NEW i \in 1 .. k PROVE x[i] = y[i]
  <2>1. i \in 1 .. l + n /\ i \in 1 .. l + j BY <1>1, <1>2
  <2>2. CASE i <= l
    BY <1>6, <1>7, <1>8, <2>1, <2>2
  <2>3. CASE ~(i <= l)
    <3>1. i - l \in 1 .. n /\ i - l \in 1 .. j BY <1>1, <1>2, <2>3
    <3>2. b[i - l] = d[i - l] BY <1>4, <1>5, <3>1
    <3> QED BY <1>6, <1>7, <1>8, <2>1, <2>3, <3>2
  <2> QED BY <2>2, <2>3
<1>10. x = y BY <1>2, <1>7, <1>8, <1>9, SeqEqual
<1> QED BY <1>10 DEF x, y, u, b, d, j

\* What libwebsocket_write leaves of them.
Returning(t, n, toks, pre, k, u) ==
    /\ u \in Tx /\ u.stored = t.stored
    /\ CASE k = Len(toks) \/ t.stored # <<>> ->
              ~u.inside /\ u.off = 0 /\ u.told = t.told + n /\ u.closed = t.closed
         [] ~(k = Len(toks) \/ t.stored # <<>>) /\ k < pre -> u.closed /\ u.told = t.told
         [] OTHER -> /\ u.inside /\ u.msg = t.msg /\ u.off = t.off + (k - pre)
                     /\ u.told = t.told + (k - pre) /\ u.closed = t.closed

\* What lws_write leaves of the message to the caller.
LEMMA WriteReturnsKeeps ==
    ASSUME NEW t \in Tx, NEW n \in Nat, n = Lens[t.msg] - t.off, NEW toks, NEW pre \in Nat, NEW k \in Nat
    PROVE  Returning(t, n, toks, pre, k, WriteReturns(t, toks, pre, k))
<1> DEFINE m == t.msg + 1
           s == t.told + n
           j == k - pre
           o == t.off + j
           d == t.told + j
           done == k = Len(toks) \/ t.stored # <<>>
<1>1. t.msg \in Nat \ {0} /\ t.off \in Nat /\ t.told \in Nat BY DEF Tx
<1>2. CASE done
  <2> DEFINE u == [t EXCEPT !.inside = FALSE, !.msg = m, !.off = 0, !.told = s]
  <2>1. WriteReturns(t, toks, pre, k) = u BY <1>2 DEF WriteReturns, Tx
  <2>2. m \in Nat \ {0} /\ s \in Nat BY <1>1
  <2> HIDE DEF m, s
  <2>3. u \in Tx /\ ~u.inside /\ u.off = 0 /\ u.told = s /\ u.closed = t.closed /\ u.stored = t.stored
    BY <2>2 DEF Tx
  <2> HIDE DEF u
  <2> QED BY <1>2, <2>1, <2>2, <2>3 DEF s, Returning
<1>3. CASE ~done /\ k < pre
  <2> DEFINE u == [t EXCEPT !.closed = TRUE, !.inside = TRUE]
  <2>1. WriteReturns(t, toks, pre, k) = u BY <1>3 DEF WriteReturns
  <2>2. u \in Tx /\ u.closed /\ u.told = t.told /\ u.stored = t.stored BY DEF Tx
  <2> HIDE DEF u
  <2> QED BY <1>1, <1>3, <2>1, <2>2 DEF Returning
<1>4. CASE ~done /\ ~(k < pre)
  <2> DEFINE u == [t EXCEPT !.inside = TRUE, !.off = o, !.told = d]
  <2>1. WriteReturns(t, toks, pre, k) = u BY <1>4 DEF WriteReturns, Tx
  <2>2. o \in Nat /\ d \in Nat
    <3>1. j \in Nat BY <1>4
    <3> QED BY <1>1, <3>1
  <2> HIDE DEF o, d
  <2>3. /\ u \in Tx /\ u.inside /\ u.msg = t.msg /\ u.off = o /\ u.told = d /\ u.closed = t.closed
        /\ u.stored = t.stored
    BY <2>2 DEF Tx
  <2> HIDE DEF u, done
  <2> QED BY <1>4, <2>1, <2>2, <2>3 DEF o, d, done, Returning
<1> QED BY <1>2, <1>3, <1>4

\* A message, or the rest of one, written whole, stored in part, or cut.
LEMMA DataKeeps ==
    ASSUME LinkAssumption, masked \in BOOLEAN, ext \in BOOLEAN, asks \in BOOLEAN, Working(tx, wire, rx),
           tx.stored = <<>>, tx.msg <= Len(Lens), ~tx.closed, WriteData
    PROVE  /\ tx'.told \in Nat /\ tx.told <= tx'.told /\ tx'.closed \in BOOLEAN /\ garbled' = garbled
           /\ ~tx'.closed => Working(tx', wire', rx)
<1> DEFINE d == tx.told
           n == Lens[tx.msg] - tx.off
           front == IF tx.inside THEN <<>> ELSE Header("DATA", n)
           pay == Payload(d, n)
           toks == front \o pay
           pre == Len(front)
           pa == At("PAYLOAD", "DATA", n, d)
           pb == At("NEW", "DATA", 0, d + n)
<1>0. pay = Units(tx) BY DEF Units, Payload
<1>1. PICK k \in Taken(toks) :
         LET t == WriteReturns(IssueRaw(tx, toks, k, ~ext), toks, pre, k)
         IN  /\ wire' = wire \o SubSeq(toks, 1, k)
             /\ tx' = [t EXCEPT !.pollout = t.stored # <<>> \/ (t.msg <= Len(Lens) /\ (asks \/ ~t.inside))]
             /\ garbled' = garbled
  BY <1>0, ZenonT(30) DEF WriteData
<1>2. /\ tx \in Tx /\ wire \in Seq(Tok) /\ d \in Nat /\ tx.inside \in BOOLEAN /\ tx.msg \in Nat \ {0}
      /\ tx.off \in Nat
  BY DEF Working, Tx
<1>3. n \in Nat \ {0} /\ tx.off < Lens[tx.msg] /\ Lens[tx.msg] \in Nat
  <2>1. tx.msg \in 1 .. Len(Lens) /\ Lens \in Seq(Nat \ {0})
    <3>1. Len(Lens) \in Nat BY LenProperties DEF LinkAssumption
    <3> QED BY <1>2, <3>1 DEF LinkAssumption
  <2>2. Lens[tx.msg] \in Nat \ {0} BY <2>1, ElementOfSeq
  <2>3. tx.off < Lens[tx.msg] BY <1>2, <2>2 DEF Working
  <2> QED BY <1>2, <2>2, <2>3
<1> DEFINE t == IssueRaw(tx, toks, k, ~ext)
           u == WriteReturns(t, toks, pre, k)
           po == u.stored # <<>> \/ (u.msg <= Len(Lens) /\ (asks \/ ~u.inside))
<1>4. wire' = wire \o SubSeq(toks, 1, k) /\ tx' = [u EXCEPT !.pollout = po] /\ garbled' = garbled BY <1>1
<1> HIDE DEF po
<1>5. ASSUME NEW q \in Place, q.parse = "NEW", q.seen = d
      PROVE  Header("DATA", n) \in Seq(Tok) /\ Leads(masked, q, Header("DATA", n), pa)
  BY <1>3, <1>5, LeadsHeader
<1>6. Header("DATA", n) \in Seq(Tok)
  <2> DEFINE q == At("NEW", "DATA", 0, d)
  <2>1. q \in Place /\ q.parse = "NEW" /\ q.seen = d BY <1>2 DEF At, Place
  <2> QED BY <1>5, <2>1
<1>7. front \in Seq(Tok) /\ pre \in Nat BY <1>6, EmptySeq, LenProperties
<1>8. \A j \in 0 .. n :
         /\ Payload(d, j) \in Seq(Tok) /\ Len(Payload(d, j)) = j
         /\ Leads(masked, pa, Payload(d, j), At(IF j = n THEN "NEW" ELSE "PAYLOAD", "DATA", n - j, d + j))
  BY <1>2, <1>3, LeadsPayload
<1>9. /\ pay \in Seq(Tok) /\ Len(pay) = n /\ Leads(masked, pa, pay, pb)
  <2>1. n \in 0 .. n /\ n - n = 0 BY <1>3
  <2> QED BY <1>8, <2>1
<1>10. pb.parse = "NEW" /\ pb.seen = d + n BY DEF At
<1>11. ASSUME NEW q, Ends(tx, q), q \in Place PROVE Leads(masked, q, front, pa)
  <2>1. CASE tx.inside
    <3>1. q = pa BY <1>11, <2>1 DEF Ends
    <3>2. front = <<>> BY <2>1
    <3> QED BY <1>11, <3>1, <3>2, LeadsNowhere
  <2>2. CASE ~tx.inside
    <3>1. q.parse = "NEW" /\ q.seen = d BY <1>11, <2>2 DEF Ends
    <3> QED BY <1>5, <1>11, <2>2, <3>1
  <2> QED BY <2>1, <2>2
<1> HIDE DEF front, pa, pb
<1>12. toks \in Seq(Tok) /\ Len(toks) = pre + n
  <2> HIDE DEF pay, n
  <2>1. pay \in Seq(Tok) /\ Len(pay) = n /\ front \in Seq(Tok) BY <1>7, <1>9
  <2> QED BY <2>1, ConcatProperties
<1>13. k \in 0 .. Len(toks) /\ k \in Nat
  <2>1. k \in 0 .. Len(toks) BY DEF Taken
  <2> QED BY <2>1
<1> HIDE DEF toks
<1>14. /\ t \in Tx /\ t.msg = tx.msg /\ t.off = tx.off /\ t.told = tx.told /\ t.inside = tx.inside
       /\ t.closed = tx.closed
       /\ IF k = Len(toks) \/ k = 0 \/ ext THEN t.stored = SubSeq(toks, k + 1, Len(toks)) ELSE t.stored = <<>>
       /\ k < Len(toks) /\ (k = 0 \/ ext) <=> t.stored # <<>>
  <2> DEFINE e == ~ext
  <2>1. e \in BOOLEAN OBVIOUS
  <2>2. t = IssueRaw(tx, toks, k, e) OBVIOUS
  <2> HIDE DEF e, t
  <2>3. toks \in Seq(Tok) /\ k \in 0 .. Len(toks) /\ tx \in Tx BY <1>2, <1>12, <1>13
  <2>4. Issuing(tx, toks, k, e, t) BY <2>1, <2>2, <2>3, IssueRawKeeps
  <2> QED BY <2>4 DEF Issuing, e
<1> HIDE DEF t
<1> DEFINE done == k = Len(toks) \/ t.stored # <<>>
<1>15. /\ u \in Tx /\ u.stored = t.stored
       /\ done => ~u.inside /\ u.off = 0 /\ u.told = d + n /\ ~u.closed
       /\ ~done /\ k < pre => u.closed /\ u.told = d
       /\ ~done /\ ~(k < pre) => /\ u.inside /\ u.msg = tx.msg /\ u.off = tx.off + (k - pre)
                                 /\ u.told = d + (k - pre) /\ ~u.closed
  <2>1. n \in Nat /\ n = Lens[t.msg] - t.off BY <1>3, <1>14
  <2> HIDE DEF n, pre
  <2>2. t \in Tx /\ pre \in Nat /\ k \in Nat BY <1>7, <1>13, <1>14
  <2>3. Returning(t, n, toks, pre, k, u) BY <2>1, <2>2, WriteReturnsKeeps
  <2> HIDE DEF u
  <2> QED BY <1>14, <2>3 DEF Returning
<1> HIDE DEF u
<1>16. /\ tx' \in Tx /\ tx'.stored = u.stored /\ tx'.told = u.told /\ tx'.closed = u.closed /\ tx'.inside = u.inside
       /\ tx'.off = u.off /\ tx'.msg = u.msg
  <2>1. po \in BOOLEAN BY DEF po
  <2> QED BY <1>4, <1>15, <2>1 DEF Tx
<1>17. CASE done
  <2>1. t.stored = SubSeq(toks, k + 1, Len(toks)) BY <1>13, <1>14, <1>17
  <2>2. wire' \in Seq(Tok) /\ wire' \o tx'.stored = wire \o toks
    <3>1. wire' = wire \o SubSeq(toks, 1, k) BY <1>4
    <3>2. tx'.stored = SubSeq(toks, k + 1, Len(toks)) BY <1>15, <1>16, <2>1
    <3>3. wire \in Seq(Tok) BY <1>2
    <3> QED BY <3>1, <3>2, <3>3, <1>12, <1>13, Issued, ZenonT(20)
  <2>3. ASSUME NEW q, Ends(tx, q), q \in Place PROVE Leads(masked, q, toks, pb)
    <3>1. Leads(masked, q, front, pa) BY <1>11, <2>3
    <3> HIDE DEF pay
    <3> QED BY <1>7, <1>9, <3>1, LeadsOn DEF toks
  <2>4. /\ ~tx'.inside /\ tx'.off = 0 /\ tx'.told = d + n /\ tx'.closed = FALSE
    BY <1>15, <1>16, <1>17 DEF Tx
  <2>5. Ends(tx', pb) BY <1>10, <2>4 DEF Ends
  <2>6. Working(tx', wire', rx) BY <1>12, <1>16, <2>2, <2>3, <2>4, <2>5, WrittenKeeps
  <2>7. d + n \in Nat /\ d <= d + n BY <1>2, <1>3
  <2> QED BY <1>4, <2>4, <2>6, <2>7
<1>18. CASE ~done /\ k < pre
  <2>1. u.closed = TRUE /\ u.told = d BY <1>15, <1>18 DEF Tx
  <2>2. tx'.closed = TRUE /\ tx'.told = d /\ garbled' = garbled BY <1>4, <1>16, <2>1
  <2>3. d \in Nat /\ d <= d BY <1>2
  <2> QED BY <2>2, <2>3
<1>19. CASE ~done /\ ~(k < pre)
  <2> DEFINE j == k - pre
             c == At("PAYLOAD", "DATA", n - j, d + j)
             part == Payload(d, j)
             shown == front \o part
  <2>1. j \in 0 .. n /\ j # n /\ j < n /\ j \in Nat
    <3> HIDE DEF n, pre
    <3>1. k < pre + n /\ pre <= k BY <1>3, <1>7, <1>12, <1>13, <1>19
    <3> QED BY <1>3, <1>7, <1>13, <3>1
  <2>2. /\ u.inside /\ u.msg = tx.msg /\ u.off = tx.off + j /\ u.told = d + j /\ ~u.closed
        /\ u.stored = <<>>
    BY <1>15, <1>19
  <2>3. /\ tx'.inside /\ tx'.msg = tx.msg /\ tx'.off = tx.off + j /\ tx'.told = d + j /\ ~tx'.closed
        /\ tx'.stored = <<>>
    BY <1>16, <2>2
  <2>4. SubSeq(toks, 1, k) = shown
    <3>1. k \in Len(front) .. Len(front) + n BY <1>3, <1>7, <1>12, <1>13, <1>19
    <3> QED BY <1>2, <1>3, <1>7, <3>1, CutAfterHead DEF toks
  <2>5. part \in Seq(Tok) /\ Leads(masked, pa, part, c) BY <1>8, <2>1
  <2>6. Lens[tx'.msg] - tx'.off = n - j /\ tx'.off < Lens[tx'.msg]
    BY <1>2, <1>3, <2>1, <2>3
  <2>7. Ends(tx', c) BY <2>3, <2>6 DEF Ends
  <2> HIDE DEF c, part, j, pay, n
  <2>8. shown \in Seq(Tok) BY <1>7, <2>5, TokensJoin
  <2>9. ASSUME NEW q, Ends(tx, q), q \in Place PROVE Leads(masked, q, shown, c)
    <3>1. Leads(masked, q, front, pa) BY <1>11, <2>9
    <3> QED BY <1>7, <2>5, <3>1, LeadsOn
  <2> HIDE DEF shown
  <2>10. wire' = wire \o shown BY <1>4, <2>4
  <2>11. wire' \in Seq(Tok)
    <3>1. wire \in Seq(Tok) BY <1>2
    <3> QED BY <2>8, <2>10, <3>1, TokensJoin
  <2>12. wire' \o tx'.stored = wire \o shown BY <2>3, <2>10, <2>11, TokensJoin
  <2>13. tx'.msg <= Len(Lens) BY <2>3
  <2>14. Working(tx', wire', rx)
    BY <1>16, <2>3, <2>6, <2>7, <2>8, <2>9, <2>11, <2>12, <2>13, WrittenKeeps
  <2>15. d + j \in Nat /\ d <= d + j BY <1>2, <2>1
  <2>16. tx'.closed \in BOOLEAN BY <1>16 DEF Tx
  <2> QED BY <1>4, <2>3, <2>14, <2>15, <2>16
<1> QED BY <1>17, <1>18, <1>19

-----------------------------------------------------------------------------
(* The receiver's steps.                                                    *)

\* The receiver that has read with rx on, or has stopped it, may rest.
LEMMA ReadingRests == ASSUME NEW x, Sound(x), Reading(x) PROVE Resting(x)
BY DEF Sound, Reading, Resting

\* The receiver's turn keeps the connection in order, and it only gains what
\* the sender was told.
LEMMA PollinKeeps ==
    ASSUME masked \in BOOLEAN, Working(tx, wire, rx), RxPollin
    PROVE  Working(tx, wire', rx') /\ Len(rx.got) <= Len(rx'.got) /\ Len(rx'.got) <= tx.told
<1>1. PICK j \in 1 .. Len(wire) : /\ wire' = SubSeq(wire, j + 1, Len(wire))
                                  /\ rx' \in Interpret(rx, SubSeq(wire, 1, j))
  BY DEF RxPollin
<1>2. wire \in Seq(Tok) /\ tx.stored \in Seq(Tok) /\ Sound(rx) BY DEF Working, Tx
<1>3. rx.cache = <<>>
  <2>1. rx.pollin BY DEF RxPollin
  <2> QED BY <2>1 DEF Working, Resting
<1>4. Reading(rx) BY <1>3 DEF Reading
<1> DEFINE a == SubSeq(wire, 1, j)
           b == SubSeq(wire, j + 1, Len(wire))
           s == tx.stored
           x == rx'
<1>5. a \in Seq(Tok) /\ b \in Seq(Tok) /\ a \o b = wire
  <2>1. j \in 0 .. Len(wire) OBVIOUS
  <2> QED BY <1>2, <2>1, CutTokens
<1>6. wire' = b /\ x \in Interpret(rx, a) BY <1>1
<1>7. PICK q : Leads(masked, Here(rx), rx.cache \o (wire \o s), q) /\ Ends(tx, q) BY DEF Working
<1>8. s \in Seq(Tok) BY <1>2
<1> HIDE DEF a, b, s, x
<1>9. wire \o s = a \o (b \o s) /\ b \o s \in Seq(Tok)
  <2>1. (a \o b) \o s = a \o (b \o s) BY <1>5, <1>8, TokensJoin, ZenonT(20)
  <2>2. b \o s \in Seq(Tok) BY <1>5, <1>8, TokensJoin
  <2> QED BY <1>5, <2>1, <2>2
<1>10. Leads(masked, Here(rx), rx.cache \o (a \o (b \o s)), q) BY <1>7, <1>9
<1>11. Sound(x) /\ Reading(x) /\ Leads(masked, Here(x), x.cache \o (b \o s), q) /\ Len(rx.got) <= Len(x.got)
  BY <1>2, <1>4, <1>5, <1>6, <1>9, <1>10, InterpretKeeps
<1>12. Resting(x) BY <1>11, ReadingRests
<1>13. Working(tx, b, x) /\ Len(x.got) <= tx.told BY <1>5, <1>7, <1>11, <1>12, ReadKeeps DEF s
<1> QED BY <1>6, <1>11, <1>13 DEF x

\* rx flow control does not touch what was read.
LEMMA FlowKeeps ==
    ASSUME masked \in BOOLEAN, Working(tx, wire, rx), NEW x, OnlyFlow(rx, x),
           masked /\ ~x.allow => ~x.pollin, Resting(x)
    PROVE  Working(tx, wire, x) /\ x.got = rx.got
<1>1. Sound(rx) /\ wire \in Seq(Tok) BY DEF Working
<1>2. Sound(x) /\ Here(x) = Here(rx) BY <1>1, FlowIsSound
<1>3. x.cache = rx.cache /\ x.got = rx.got BY DEF OnlyFlow
<1> QED BY <1>2, <1>3 DEF Working

\* Letting the receiver read again keeps the connection in order.
LEMMA ResumeKeeps ==
    ASSUME masked \in BOOLEAN, Working(tx, wire, rx), rx' = [FlowControl(rx, TRUE) EXCEPT !.pollout = TRUE]
    PROVE  Working(tx, wire, rx') /\ rx'.got = rx.got
<1> DEFINE f == FlowControl(rx, TRUE)
           x == rx'
<1>1. rx \in Rx /\ Resting(rx) BY DEF Working, Sound
<1>2. OnlyFlow(rx, f) /\ f.allow = TRUE /\ f.pollin = rx.pollin BY <1>1, FlowControlKeeps
<1>3. x = [f EXCEPT !.pollout = TRUE] OBVIOUS
<1> HIDE DEF f, x
<1>4. /\ x \in Rx /\ x.parse = f.parse /\ x.opcode = f.opcode /\ x.left = f.left /\ x.buf = f.buf /\ x.got = f.got
      /\ x.cache = f.cache /\ x.allow = f.allow /\ x.pollin = f.pollin
  BY <1>2, <1>3 DEF OnlyFlow, Rx
<1>5. OnlyFlow(rx, x) /\ x.allow = TRUE /\ x.pollin = rx.pollin BY <1>2, <1>4 DEF OnlyFlow
<1>6. Resting(x) BY <1>1, <1>5 DEF Resting, OnlyFlow
<1>7. Working(tx, wire, x) /\ x.got = rx.got BY <1>5, <1>6, FlowKeeps
<1> QED BY <1>7 DEF x

\* The writeable callback, then the drain of what was kept back.
LEMMA PolloutKeeps ==
    ASSUME masked \in BOOLEAN, Working(tx, wire, rx), rx' \in Drained(Applied([rx EXCEPT !.pollout = FALSE]))
    PROVE  Working(tx, wire, rx') /\ Len(rx.got) <= Len(rx'.got) /\ Len(rx'.got) <= tx.told
<1> DEFINE e == [rx EXCEPT !.pollout = FALSE]
           r == Applied(e)
           x == rx'
           s == tx.stored
<1>1. rx \in Rx /\ Sound(rx) /\ Resting(rx) /\ wire \in Seq(Tok) BY DEF Working, Sound
<1>2. s \in Seq(Tok) BY DEF Working, Tx
<1>3. x \in Drained(r) OBVIOUS
<1>4. /\ e \in Rx /\ e.parse = rx.parse /\ e.opcode = rx.opcode /\ e.left = rx.left /\ e.buf = rx.buf
      /\ e.got = rx.got /\ e.cache = rx.cache /\ e.allow = rx.allow /\ e.pollin = rx.pollin
  BY <1>1 DEF Rx
<1> HIDE DEF e, x
<1>5. /\ OnlyFlow(e, r) /\ r.allow = e.allow
      /\ IF e.change /\ e.cache = <<>> THEN r.pollin = e.allow ELSE r.pollin = e.pollin
  BY <1>4, AppliedKeeps
<1> HIDE DEF r
<1>6. OnlyFlow(rx, r) BY <1>4, <1>5 DEF OnlyFlow
<1>7. masked /\ ~r.allow => ~r.pollin BY <1>1, <1>4, <1>5 DEF Sound
<1>8. Resting(r) BY <1>1, <1>4, <1>5 DEF Resting, OnlyFlow
<1>9. Working(tx, wire, r) /\ r.got = rx.got BY <1>6, <1>7, <1>8, FlowKeeps
<1>10. Sound(r) BY <1>9 DEF Working
<1>11. PICK q : Leads(masked, Here(r), r.cache \o (wire \o s), q) /\ Ends(tx, q) BY <1>9 DEF Working
<1>12. CASE x = r
  <2>1. Len(r.got) <= tx.told BY <1>1, <1>8, <1>9, <1>10, <1>11, ReadKeeps
  <2>2. Len(rx.got) \in Nat BY <1>1, LenProperties DEF Rx
  <2>3. Len(rx.got) <= Len(r.got) BY <1>9, <2>2
  <2> QED BY <1>9, <1>12, <2>1, <2>3 DEF x
<1>13. CASE r.cache # <<>> /\ r.allow /\ x # r
  <2> DEFINE none == <<>>
             d == [r EXCEPT !.cache = none]
             c == r.cache
  <2>1. PICK y \in Interpret(d, c) : x = Applied(y) BY <1>3, <1>13 DEF Drained
  <2>2. none \in Seq(Tok) /\ none = <<>> BY EmptySeq
  <2>3. c \in Seq(Tok) /\ r \in Rx BY <1>10 DEF Sound, Rx
  <2> HIDE DEF none
  <2>4. /\ d \in Rx /\ d.parse = r.parse /\ d.opcode = r.opcode /\ d.left = r.left /\ d.buf = r.buf
        /\ d.got = r.got /\ d.cache = none /\ d.allow = r.allow /\ d.pollin = r.pollin
    BY <2>2, <2>3 DEF Rx
  <2> HIDE DEF d, c
  <2>5. Sound(d) /\ Here(d) = Here(r) BY <1>10, <2>4 DEF Sound, Here
  <2>6. Reading(d) BY <2>2, <2>4 DEF Reading
  <2>7. wire \o s \in Seq(Tok) /\ c \o (wire \o s) \in Seq(Tok)
    <3>1. wire \in Seq(Tok) BY <1>1
    <3>2. wire \o s \in Seq(Tok) BY <1>2, <3>1, TokensJoin
    <3> QED BY <2>3, <3>2, TokensJoin
  <2>8. d.cache \o (c \o (wire \o s)) = c \o (wire \o s) BY <2>2, <2>4, <2>7, TokensJoin
  <2>9. Leads(masked, Here(d), d.cache \o (c \o (wire \o s)), q) BY <1>11, <2>5, <2>8 DEF c
  <2>10. /\ Sound(y) /\ Reading(y) /\ Leads(masked, Here(y), y.cache \o (wire \o s), q)
         /\ Len(d.got) <= Len(y.got)
    BY <2>1, <2>3, <2>5, <2>6, <2>7, <2>9, InterpretKeeps
  <2>11. y \in Rx BY <2>10 DEF Sound
  <2>12. /\ OnlyFlow(y, x) /\ x.allow = y.allow
         /\ IF y.change /\ y.cache = <<>> THEN x.pollin = y.allow ELSE x.pollin = y.pollin
    BY <2>1, <2>11, AppliedKeeps
  <2>13. masked /\ ~x.allow => ~x.pollin BY <2>10, <2>12 DEF Sound
  <2>14. Sound(x) /\ Here(x) = Here(y) BY <2>10, <2>12, <2>13, FlowIsSound
  <2>15. Resting(y) BY <2>10, ReadingRests
  <2>16. Resting(x) BY <2>12, <2>15 DEF Resting, OnlyFlow
  <2>17. x.cache = y.cache /\ x.got = y.got BY <2>12 DEF OnlyFlow
  <2>18. Leads(masked, Here(x), x.cache \o (wire \o s), q) BY <2>10, <2>14, <2>17
  <2>19. Working(tx, wire, x) /\ Len(x.got) <= tx.told
    BY <1>1, <1>9, <1>11, <2>14, <2>16, <2>18, ReadKeeps DEF s
  <2>20. Len(rx.got) <= Len(x.got) BY <1>9, <2>4, <2>10, <2>17
  <2> QED BY <2>19, <2>20 DEF x
<1>14. r.cache = <<>> \/ ~r.allow => x = r BY <1>3 DEF Drained
<1> QED BY <1>12, <1>13, <1>14

-----------------------------------------------------------------------------
(* The stream.                                                              *)

\* Of two sequences that count from 1, the shorter begins the other.
LEMMA CountsBegin ==
    ASSUME NEW s \in Seq(Nat), NEW t \in Seq(Nat), \A i \in 1 .. Len(s) : s[i] = i,
           \A i \in 1 .. Len(t) : t[i] = i, Len(s) <= Len(t)
    PROVE  Promise!IsPrefix(s, t) /\ (Len(s) = Len(t) => s = t)
<1>1. Len(s) \in Nat /\ Len(t) \in Nat BY LenProperties
<1> DEFINE n == Len(s)
           a == SubSeq(s, 1, n)
           b == SubSeq(t, 1, n)
<1>2. a \in Seq(Nat) /\ Len(a) = n /\ \A i \in 1 .. n : a[i] = s[i] BY <1>1
<1>3. b \in Seq(Nat) /\ Len(b) = n /\ \A i \in 1 .. n : b[i] = t[i] BY <1>1
<1>4. \A i \in 1 .. n : s[i] = t[i] BY <1>1
<1> HIDE DEF a, b
<1>5. \A i \in 1 .. Len(a) : a[i] = b[i] BY <1>2, <1>3, <1>4
<1>6. a = b BY <1>2, <1>3, <1>5, SeqEqual
<1>7. Len(s) = Len(t) => s = t BY <1>4, SeqEqual
<1> QED BY <1>6, <1>7 DEF a, b, Promise!IsPrefix

\* As the application was told 1, 2, 3, ...
Told(n) == [i \in 1 .. n |-> i]

\* The bytes told of are those from 1 on.
LEMMA ToldCounts ==
    ASSUME NEW n \in Nat
    PROVE  Told(n) \in Seq(Nat) /\ Len(Told(n)) = n /\ \A i \in 1 .. Len(Told(n)) : Told(n)[i] = i
BY DEF Told

\* More bytes told of begin with the fewer.
LEMMA TellsMore ==
    ASSUME NEW m \in Nat, NEW n \in Nat, m <= n
    PROVE  Promise!IsPrefix(Told(m), Told(n)) /\ (m # n => Promise!IsStrictPrefix(Told(m), Told(n)))
<1> DEFINE s == Told(m)
           t == Told(n)
<1>1. s \in Seq(Nat) /\ Len(s) = m /\ \A i \in 1 .. Len(s) : s[i] = i BY ToldCounts
<1>2. t \in Seq(Nat) /\ Len(t) = n /\ \A i \in 1 .. Len(t) : t[i] = i BY ToldCounts
<1> HIDE DEF s, t
<1>3. Promise!IsPrefix(s, t) BY <1>1, <1>2, CountsBegin
<1>4. m # n => s # t BY <1>1, <1>2
<1> QED BY <1>3, <1>4 DEF s, t, Promise!IsStrictPrefix

\* What the stream sees.
Seen == <<Accepted, rx.got, garbled \/ tx.closed>>

\* The sender's application was told more, or nothing, and the connection
\* goes on or breaks.
LEMMA SenderSteps ==
    ASSUME Up, tx.told \in Nat, tx'.told \in Nat, tx.told <= tx'.told, rx'.got = rx.got
    PROVE  [Promise!Next]_Seen
<1>1. Accepted = Told(tx.told) /\ Accepted' = Told(tx'.told) BY DEF Accepted, Told
<1>2. Promise!IsPrefix(Accepted, Accepted') BY <1>1, TellsMore
<1>3. tx'.told # tx.told => Promise!IsStrictPrefix(Accepted, Accepted') BY <1>1, TellsMore
<1>4. tx'.told = tx.told => Accepted' = Accepted BY <1>1
<1>5. ~(garbled \/ tx.closed) BY DEF Up
<1>6. CASE (garbled \/ tx.closed)'
  <2>1. Promise!Break BY <1>2, <1>5, <1>6 DEF Promise!Break
  <2> QED BY <2>1 DEF Promise!Next
<1>7. CASE ~(garbled \/ tx.closed)' /\ tx'.told # tx.told
  <2>1. Promise!Accept BY <1>3, <1>5, <1>7 DEF Promise!Accept
  <2> QED BY <2>1 DEF Promise!Next
<1>8. CASE ~(garbled \/ tx.closed)' /\ tx'.told = tx.told
  <2>1. UNCHANGED Seen BY <1>4, <1>5, <1>8 DEF Seen
  <2> QED BY <2>1
<1> QED BY <1>6, <1>7, <1>8

\* The receiver's application was handed more, or nothing.
LEMMA ReceiverSteps ==
    ASSUME Up, tx' = tx, garbled' = garbled, tx.told \in Nat, Sound(rx), Sound(rx'),
           Len(rx.got) <= Len(rx'.got), Len(rx'.got) <= tx.told
    PROVE  [Promise!Next]_Seen
<1> DEFINE a == rx.got
           b == rx'.got
           s == Told(tx.told)
<1>1. a \in Seq(Nat) /\ \A i \in 1 .. Len(a) : a[i] = i BY DEF Sound, Rx
<1>2. b \in Seq(Nat) /\ \A i \in 1 .. Len(b) : b[i] = i BY DEF Sound, Rx
<1>3. s \in Seq(Nat) /\ Len(s) = tx.told /\ \A i \in 1 .. Len(s) : s[i] = i BY ToldCounts
<1>4. Accepted = s /\ Accepted' = s BY DEF Accepted, Told
<1>5. Len(a) <= Len(b) /\ Len(b) <= Len(s) BY <1>3
<1>6. (garbled \/ tx.closed)' = (garbled \/ tx.closed) /\ ~(garbled \/ tx.closed) BY DEF Up
<1>7. rx.got = a /\ rx'.got = b OBVIOUS
<1> HIDE DEF a, b, s
<1>8. Promise!IsPrefix(a, b) /\ Promise!IsPrefix(b, s) BY <1>1, <1>2, <1>3, <1>5, CountsBegin
<1>9. CASE a = b
  <2>1. UNCHANGED Seen BY <1>4, <1>6, <1>7, <1>9 DEF Seen
  <2> QED BY <2>1
<1>10. CASE a # b
  <2>1. Promise!IsStrictPrefix(a, b) BY <1>8, <1>10 DEF Promise!IsStrictPrefix
  <2>2. Promise!HandOver BY <1>4, <1>6, <1>7, <1>8, <2>1 DEF Promise!HandOver
  <2> QED BY <2>2 DEF Promise!Next
<1> QED BY <1>9, <1>10

\* The invariant, and the promised stream, hold at the start.
LEMMA LinkStarts == LinkInit => LinkInv /\ Promise!Init
<1> SUFFICES ASSUME LinkInit PROVE LinkInv /\ Promise!Init OBVIOUS
<1> DEFINE none == <<>>
<1>0. none = <<>> /\ none \in Seq(Tok) /\ none \in Seq(Nat) /\ Len(none) = 0 BY EmptySeq
<1>1. PICK asked \in BOOLEAN :
        tx = [msg |-> 1, off |-> 0, told |-> 0, inside |-> FALSE, stored |-> none, ping |-> FALSE,
              pollout |-> asked, closed |-> FALSE]
  BY DEF LinkInit
<1>2. rx = [parse |-> "NEW", opcode |-> "DATA", left |-> 0, buf |-> none, got |-> none,
            allow |-> TRUE, change |-> FALSE, cache |-> none, pollin |-> TRUE,
            pollout |-> FALSE, pongs |-> 0]
  BY DEF LinkInit
<1>3. /\ masked \in BOOLEAN /\ ext \in BOOLEAN /\ asks \in BOOLEAN /\ wire = none /\ garbled = FALSE
  BY DEF LinkInit
<1> HIDE DEF none
<1>4. /\ tx \in Tx /\ tx.off = 0 /\ tx.told = 0 /\ tx.inside = FALSE /\ tx.stored = none /\ tx.closed = FALSE
  BY <1>0, <1>1 DEF Tx
<1>5. /\ rx \in Rx /\ rx.parse = "NEW" /\ rx.opcode = "DATA" /\ rx.left = 0 /\ rx.buf = none /\ rx.got = none
      /\ rx.allow = TRUE /\ rx.cache = none
  BY <1>0, <1>2 DEF Rx
<1>6. Sound(rx) /\ Resting(rx) BY <1>0, <1>5 DEF Sound, Resting
<1>7. Here(rx) = At("NEW", "DATA", 0, 0) BY <1>0, <1>5 DEF Here
<1>8. Here(rx) \in Place /\ Here(rx).parse = "NEW" /\ Here(rx).seen = 0 BY <1>7 DEF At, Place
<1>9. rx.cache \o (wire \o tx.stored) = <<>>
  <2>1. none \o (none \o none) = <<>> BY <1>0, TokensJoin
  <2> QED BY <1>3, <1>4, <1>5, <2>1
<1>10. Leads(masked, Here(rx), rx.cache \o (wire \o tx.stored), Here(rx)) BY <1>8, <1>9, LeadsNowhere
<1>11. Ends(tx, Here(rx)) BY <1>4, <1>8 DEF Ends
<1>12. Working(tx, wire, rx) BY <1>0, <1>3, <1>4, <1>6, <1>10, <1>11 DEF Working
<1>13. LinkInv BY <1>3, <1>4, <1>12 DEF LinkInv
<1>14. Accepted = <<>>
  <2>1. Told(0) \in Seq(Nat) /\ Len(Told(0)) = 0 BY ToldCounts
  <2>2. Told(0) = <<>> BY <2>1, EmptySeq
  <2> QED BY <1>4, <2>2 DEF Accepted, Told
<1>15. Promise!Init BY <1>0, <1>3, <1>4, <1>5, <1>14 DEF Promise!Init
<1> QED BY <1>13, <1>15

\* Each step keeps the invariant, and is a step of the promised stream or
\* none.
LEMMA LinkSteps ==
    ASSUME LinkAssumption, LinkInv, [LinkNext]_vars
    PROVE  LinkInv' /\ [Promise!Next]_Seen
<1>1. CASE UNCHANGED vars
  <2>1. LinkInv' BY <1>1, Zenon DEF LinkInv, Up, Working, Sound, Resting, vars
  <2>2. UNCHANGED Seen BY <1>1 DEF vars, Seen, Accepted
  <2> QED BY <2>1, <2>2
<1> SUFFICES ASSUME LinkNext PROVE LinkInv' /\ [Promise!Next]_Seen BY <1>1
<1>2. Up BY DEF LinkNext, TxPollout, TxPing, ClientPing, TxClose, RxPollin, RxPollout, Resume
<1>3. /\ masked' = masked /\ ext' = ext /\ asks' = asks
  BY DEF LinkNext, TxPollout, TxPing, ClientPing, TxClose, RxPollin, RxPollout, Resume
<1>4. /\ Working(tx, wire, rx) /\ masked \in BOOLEAN /\ ext \in BOOLEAN /\ asks \in BOOLEAN
      /\ garbled \in BOOLEAN /\ garbled = FALSE /\ tx.closed \in BOOLEAN /\ tx.closed = FALSE
  BY <1>2 DEF LinkInv, Up
<1>5. tx \in Tx /\ tx.told \in Nat /\ Sound(rx) /\ tx.told <= tx.told BY <1>4 DEF Working, Tx
\* How a step of the sender, and one of the receiver, is shown.
<1>6. ASSUME rx' = rx, tx'.told \in Nat, tx.told <= tx'.told, tx'.closed \in BOOLEAN, garbled' \in BOOLEAN,
             ~garbled' /\ ~tx'.closed => Working(tx', wire', rx)
      PROVE  LinkInv' /\ [Promise!Next]_Seen
  <2>1. [Promise!Next]_Seen BY <1>2, <1>5, <1>6, SenderSteps
  <2>2. Up' => Working(tx, wire, rx)'
    <3> SUFFICES ASSUME Up' PROVE Working(tx, wire, rx)' OBVIOUS
    <3>1. Working(tx', wire', rx') BY <1>6 DEF Up
    <3> QED BY <1>3, <3>1, WorkingStays
  <2> QED BY <1>3, <1>4, <1>6, <2>1, <2>2 DEF LinkInv
<1>7. ASSUME tx' = tx, garbled' = garbled, Working(tx, wire', rx'),
             Len(rx.got) <= Len(rx'.got), Len(rx'.got) <= tx.told
      PROVE  LinkInv' /\ [Promise!Next]_Seen
  <2>1. Sound(rx') BY <1>7 DEF Working
  <2>2. [Promise!Next]_Seen BY <1>2, <1>5, <1>7, <2>1, ReceiverSteps
  <2>3. Working(tx', wire', rx') BY <1>7
  <2>4. Working(tx, wire, rx)' BY <1>3, <2>3, WorkingStays
  <2> QED BY <1>3, <1>4, <1>7, <2>2, <2>4 DEF LinkInv
<1>8. CASE TxPollout
  <2>1. rx' = rx BY <1>8 DEF TxPollout
  <2>2. CASE tx.stored # <<>>
    <3>0. IssueStored BY <1>8, <2>2 DEF TxPollout
    <3>1. IssueStored /\ garbled' = garbled BY <3>0 DEF IssueStored
    <3>2. Working(tx', wire', rx) /\ tx'.told = tx.told /\ tx'.closed = tx.closed
      BY <1>4, <2>2, <3>1, StoredKeeps
    <3> QED BY <1>4, <1>5, <1>6, <2>1, <3>1, <3>2
  <2>3. CASE tx.stored = <<>> /\ tx.ping
    <3>1. WritePong BY <1>8, <2>3 DEF TxPollout
    <3>2. /\ garbled' \in BOOLEAN /\ tx'.told = tx.told /\ tx'.closed = tx.closed
          /\ ~garbled' => Working(tx', wire', rx)
      BY <1>4, <2>3, <3>1, PongKeeps
    <3> QED BY <1>4, <1>5, <1>6, <2>1, <3>2
  <2>4. CASE tx.stored = <<>> /\ ~tx.ping /\ tx.msg <= Len(Lens)
    <3>1. WriteData BY <1>8, <2>4 DEF TxPollout
    <3>2. /\ tx'.told \in Nat /\ tx.told <= tx'.told /\ tx'.closed \in BOOLEAN /\ garbled' = garbled
          /\ ~tx'.closed => Working(tx', wire', rx)
      BY <1>4, <2>4, <3>1, DataKeeps
    <3> QED BY <1>4, <1>6, <2>1, <3>2
  <2>5. CASE tx.stored = <<>> /\ ~tx.ping /\ ~(tx.msg <= Len(Lens))
    <3>1. tx' = [tx EXCEPT !.pollout = FALSE] /\ wire' = wire /\ garbled' = garbled
      BY <1>8, <2>5 DEF TxPollout
    <3>2. /\ tx' \in Tx /\ tx'.msg = tx.msg /\ tx'.off = tx.off /\ tx'.told = tx.told
          /\ tx'.inside = tx.inside /\ tx'.stored = tx.stored /\ tx'.closed = tx.closed
      BY <1>5, <3>1 DEF Tx
    <3>3. Working(tx', wire', rx) BY <1>4, <3>1, <3>2, UnsentKeeps
    <3> QED BY <1>4, <1>5, <1>6, <2>1, <3>1, <3>2, <3>3
  <2> QED BY <2>2, <2>3, <2>4, <2>5
<1>9. CASE TxPing
  <2>1. rx' = rx /\ wire' = wire /\ garbled' = garbled BY <1>9 DEF TxPing
  <2>2. tx' = IF tx.ping THEN tx ELSE [tx EXCEPT !.ping = TRUE, !.pollout = TRUE] BY <1>9 DEF TxPing
  <2>3. /\ tx' \in Tx /\ tx'.msg = tx.msg /\ tx'.off = tx.off /\ tx'.told = tx.told
        /\ tx'.inside = tx.inside /\ tx'.stored = tx.stored /\ tx'.closed = tx.closed
    BY <1>5, <2>2 DEF Tx
  <2>4. Working(tx', wire', rx) BY <1>4, <2>1, <2>3, UnsentKeeps
  <2> QED BY <1>4, <1>5, <1>6, <2>1, <2>3, <2>4
<1>10. CASE ClientPing
  <2>1. rx' = rx /\ tx.stored = <<>> /\ WritePong BY <1>10 DEF ClientPing
  <2>2. /\ garbled' \in BOOLEAN /\ tx'.told = tx.told /\ tx'.closed = tx.closed
        /\ ~garbled' => Working(tx', wire', rx)
    BY <1>4, <2>1, PongKeeps
  <2> QED BY <1>4, <1>5, <1>6, <2>1, <2>2
<1>11. CASE TxClose
  <2>1. rx' = rx /\ tx' = [tx EXCEPT !.closed = TRUE] /\ garbled' = garbled BY <1>11 DEF TxClose
  <2>2. tx'.told = tx.told /\ tx'.closed = TRUE BY <1>5, <2>1 DEF Tx
  <2> QED BY <1>4, <1>5, <1>6, <2>1, <2>2
<1>12. CASE RxPollin
  <2>1. tx' = tx /\ garbled' = garbled BY <1>12 DEF RxPollin
  <2>2. Working(tx, wire', rx') /\ Len(rx.got) <= Len(rx'.got) /\ Len(rx'.got) <= tx.told
    BY <1>4, <1>12, PollinKeeps
  <2> QED BY <1>7, <2>1, <2>2
<1>13. CASE RxPollout
  <2>1. tx' = tx /\ garbled' = garbled /\ wire' = wire BY <1>13 DEF RxPollout
  <2>2. Working(tx, wire, rx') /\ Len(rx.got) <= Len(rx'.got) /\ Len(rx'.got) <= tx.told
    BY <1>4, <1>13, PolloutKeeps DEF RxPollout
  <2> QED BY <1>7, <2>1, <2>2
<1>14. CASE Resume
  <2>1. tx' = tx /\ garbled' = garbled /\ wire' = wire BY <1>14 DEF Resume
  <2>2. Working(tx, wire, rx') /\ rx'.got = rx.got BY <1>4, <1>14, ResumeKeeps DEF Resume
  <2>3. tx'.told = tx.told /\ tx'.closed = tx.closed BY <2>1
  <2>4. [Promise!Next]_Seen BY <1>2, <1>5, <2>2, <2>3, SenderSteps
  <2>5. Working(tx', wire', rx') BY <2>1, <2>2
  <2>6. Working(tx, wire, rx)' BY <1>3, <2>5, WorkingStays
  <2> QED BY <1>3, <1>4, <2>1, <2>3, <2>4, <2>6 DEF LinkInv
<1> QED BY <1>8, <1>9, <1>10, <1>11, <1>12, <1>13, <1>14 DEF LinkNext

\* A websocket link, with its partial writes, stored rests, full receive
\* buffers and stopped and drained input, implements the stream that its
\* applications are promised (libwebsocket_write and lws_issue_raw in
\* output.c; libwebsocket_rx_sm and libwebsocket_client_rx_sm in parsers.c
\* and client-parser.c).
THEOREM LinkIsAStream ==
    ASSUME LinkAssumption
    PROVE  LinkSpec => ImplementsStream
<1>1. LinkInit => LinkInv /\ Promise!Init BY LinkStarts
<1>2. LinkInv /\ [LinkNext]_vars => LinkInv' /\ [Promise!Next]_Seen BY LinkSteps
<1> QED BY <1>1, <1>2, PTL DEF LinkSpec, ImplementsStream, Promise!Spec, Seen


-----------------------------------------------------------------------------
(* Arithmetic modulo the length of the ring.                                *)

\* Quotients and remainders are unique.
LEMMA DivisionUnique ==
    ASSUME NEW q \in Nat, q > 0, NEW d \in Int, NEW e \in Int, NEW r \in 0 .. q - 1, NEW s \in 0 .. q - 1,
           q * d + r = q * e + s
    PROVE  d = e /\ r = s
<1>1. ASSUME NEW x \in Int, NEW y \in Int, x > y PROVE q * x >= q * y + q
  <2>1. x - y - 1 \in Nat
    BY <1>1
  <2>2. q * (x - y - 1) >= 0
    BY <2>1
  <2>3. q * (x - y - 1) = q * x - q * y - q /\ q * x \in Int /\ q * y \in Int
    BY <1>1
  <2> QED BY <2>2, <2>3
<1>2. q * d \in Int /\ q * e \in Int
  OBVIOUS
<1>3. ~ (d > e) /\ ~ (e > d)
  BY <1>1, <1>2
<1> QED BY <1>2, <1>3

\* Every number has a quotient and a remainder.
LEMMA Division ==
    ASSUME NEW a \in Int, NEW q \in Nat, q > 0
    PROVE  \E d \in Int, r \in 0 .. q - 1 : a = q * d + r /\ a % q = r
OBVIOUS

\* The remainder is what is left of a multiple.
LEMMA Remainder ==
    ASSUME NEW q \in Nat, q > 0, NEW d \in Int, NEW r \in 0 .. q - 1
    PROVE  (q * d + r) % q = r
<1>1. q * d + r \in Int
  OBVIOUS
<1>2. PICK e \in Int, s \in 0 .. q - 1 : q * d + r = q * e + s /\ (q * d + r) % q = s
  BY <1>1, Division
<1> QED BY <1>2, DivisionUnique

\* Multiples of the length add up.
LEMMA Distribute ==
    ASSUME NEW q \in Int, NEW d \in Int, NEW e \in Int
    PROVE  /\ q * (d + e) = q * d + q * e /\ q * (d - e) = q * d - q * e
           /\ q * d \in Int /\ q * e \in Int
OBVIOUS

\* Numbers that differ by a multiple have the same remainder.
LEMMA SameRemainder ==
    ASSUME NEW q \in Nat, q > 0, NEW a \in Int, NEW b \in Int, NEW d \in Int, a = b + q * d
    PROVE  a % q = b % q
<1>1. PICK e \in Int, r \in 0 .. q - 1 : b = q * e + r /\ b % q = r
  BY Division
<1>2. q * (e + d) = q * e + q * d /\ q * d \in Int /\ q * e \in Int
  BY Distribute
<1>3. a = q * (e + d) + r
  BY <1>1, <1>2
<1> QED BY <1>1, <1>3, Remainder

\* Counting on from a slot.
LEMMA SlotPlus ==
    ASSUME NEW q \in Nat, q > 0, NEW a \in Int, NEW i \in Int
    PROVE  ((a % q) + i) % q = (a + i) % q
<1>1. PICK d \in Int, r \in 0 .. q - 1 : a = q * d + r /\ a % q = r
  BY Division
<1>2. q * d \in Int
  OBVIOUS
<1>3. PICK x \in Int, y \in Int : x = a + i /\ y = r + i /\ x = y + q * d
  BY <1>1, <1>2
<1>4. x % q = y % q
  BY <1>3, SameRemainder
<1> QED BY <1>1, <1>3, <1>4

\* The distance between two slots.
LEMMA SlotMinus ==
    ASSUME NEW q \in Nat, q > 0, NEW a \in Int, NEW b \in Int
    PROVE  ((a % q) - (b % q)) % q = (a - b) % q
<1>1. PICK d \in Int, r \in 0 .. q - 1 : a = q * d + r /\ a % q = r
  BY Division
<1>2. PICK e \in Int, s \in 0 .. q - 1 : b = q * e + s /\ b % q = s
  BY Division
<1>3. q * (d - e) = q * d - q * e /\ q * d \in Int /\ q * e \in Int
  BY Distribute
<1>4. PICK x \in Int, y \in Int, z \in Int : x = a - b /\ y = r - s /\ z = d - e /\ x = y + q * z
  BY <1>1, <1>2, <1>3
<1>5. x % q = y % q
  BY <1>4, SameRemainder, ZenonT(20)
<1> QED BY <1>1, <1>2, <1>4, <1>5

\* Less than a ring apart, different numbers have different slots.
LEMMA SlotsDiffer ==
    ASSUME NEW q \in Nat, q > 0, NEW a \in Int, NEW b \in Int, a > b, a - b < q
    PROVE  a % q # b % q
<1> SUFFICES ASSUME a % q = b % q PROVE FALSE
  OBVIOUS
<1>1. PICK d \in Int, r \in 0 .. q - 1 : a = q * d + r /\ a % q = r
  BY Division
<1>2. PICK e \in Int, s \in 0 .. q - 1 : b = q * e + s /\ b % q = s
  BY Division
<1>3. q * (d - e) = q * d - q * e /\ q * d \in Int /\ q * e \in Int
  BY Distribute
<1>4. r = s
  BY <1>1, <1>2
<1>5. q * (d - e) + 0 = q * 0 + (a - b) /\ a - b \in 0 .. q - 1 /\ 0 \in 0 .. q - 1 /\ d - e \in Int
  BY <1>1, <1>2, <1>3, <1>4
<1>6. a - b = 0
  BY <1>5, DivisionUnique
<1> QED BY <1>6

-----------------------------------------------------------------------------
(* The inductive invariant.                                                 *)

Session == [up : BOOLEAN, tail : Nat, writable : BOOLEAN, allow : BOOLEAN, pending : BOOLEAN,
            last : Nat, alone : BOOLEAN, whole : BOOLEAN]

\* The type invariant.
Typed == /\ ring \in [0 .. Queue - 1 -> Nat] /\ head \in 0 .. Queue - 1 /\ posted \in Nat
         /\ cl \in [Clients -> Session]

\* The ring holds the last Queue messages, each in its slot.
RingIsRecent ==
    /\ head = posted % Queue
    /\ \A m \in 1 .. posted : m > posted - Queue => ring[(m - 1) % Queue] = m

\* A session's tail is the slot after the last message it was sent.
Follows(r, p) == /\ r.whole
                 /\ r.up => r.last \in 0 .. p /\ r.tail = r.last % Queue

MirrorInv == Typed /\ RingIsRecent /\ \A c \in Clients : Follows(cl[c], posted)

\* What a step leaves alone that is not about what a client was sent.
SameProgress(r, s) == s.up = r.up /\ s.tail = r.tail /\ s.last = r.last /\ s.whole = r.whole

-----------------------------------------------------------------------------
(* Sessions.                                                                *)

\* Flow control, requests for a callback and marks do not touch the progress.
LEMMA RecordSteps ==
    ASSUME NEW r \in Session, NEW b \in BOOLEAN
    PROVE  /\ Flow(r, b) \in Session /\ SameProgress(r, Flow(r, b))
           /\ Settled(r) \in Session /\ SameProgress(r, Settled(r))
           /\ [r EXCEPT !.writable = b] \in Session /\ SameProgress(r, [r EXCEPT !.writable = b])
           /\ [r EXCEPT !.alone = b] \in Session /\ SameProgress(r, [r EXCEPT !.alone = b])
BY DEF Session, SameProgress, Flow, Settled

\* Two steps in a row.
LEMMA ProgressTrans ==
    ASSUME NEW r, NEW s, NEW t, SameProgress(r, s), SameProgress(s, t)
    PROVE  SameProgress(r, t)
BY DEF SameProgress

\* on_writable_all_protocol touches no progress.
LEMMA AskAllSteps ==
    ASSUME NEW f \in [Clients -> Session]
    PROVE  /\ AskAll(f) \in [Clients -> Session]
           /\ \A d \in Clients : SameProgress(f[d], AskAll(f)[d])
<1>1. ASSUME NEW d \in Clients
      PROVE  AskAll(f)[d] \in Session /\ SameProgress(f[d], AskAll(f)[d])
  <2>1. f[d] \in Session
    OBVIOUS
  <2>2. /\ [f[d] EXCEPT !.writable = TRUE] \in Session
        /\ SameProgress(f[d], [f[d] EXCEPT !.writable = TRUE])
    BY <2>1, RecordSteps
  <2>3. SameProgress(f[d], f[d])
    BY DEF SameProgress
  <2>4. AskAll(f)[d] = IF f[d].up THEN [f[d] EXCEPT !.writable = TRUE] ELSE f[d]
    BY DEF AskAll
  <2> QED BY <2>1, <2>2, <2>3, <2>4
<1>2. AskAll(f) = [d \in Clients |-> AskAll(f)[d]]
  BY DEF AskAll
<1> QED BY <1>1, <1>2

\* Progress that is the same follows the same messages, and more of them.
LEMMA FollowsStays ==
    ASSUME NEW r \in Session, NEW s, SameProgress(r, s), NEW p \in Nat, NEW t \in Nat, t >= p, Follows(r, p)
    PROVE  Follows(s, t)
BY DEF Follows, SameProgress, Session

-----------------------------------------------------------------------------
(* The actions.                                                             *)

\* Nobody is connected and the ring is empty.
LEMMA MirrorInit ==
    ASSUME Queue \in Nat, Queue > 0, Init
    PROVE  MirrorInv
<1>1. Idle \in Session /\ Idle.whole = TRUE /\ Idle.up = FALSE
  BY DEF Idle, Session
<1>2. Typed
  BY <1>1 DEF Typed, Init
<1>3. 0 % Queue = 0
  <2>1. Queue * 0 + 0 = 0 /\ 0 \in 0 .. Queue - 1
    OBVIOUS
  <2> QED BY <2>1, Remainder
<1>4. RingIsRecent
  BY <1>3 DEF RingIsRecent, Init
<1>5. \A c \in Clients : Follows(cl[c], posted)
  BY <1>1 DEF Follows, Init
<1> QED BY <1>2, <1>4, <1>5 DEF MirrorInv

\* ESTABLISHED: a session begins at the head.
LEMMA EstablishedKeeps ==
    ASSUME Queue \in Nat, Queue > 0, MirrorInv, NEW c \in Clients, Established(c)
    PROVE  MirrorInv'
<1> DEFINE new == [Idle EXCEPT !.up = TRUE, !.tail = head, !.pending = TRUE, !.last = posted]
<1>1. UNCHANGED <<ring, head, posted>> /\ cl' = [cl EXCEPT ![c] = new]
  BY DEF Established
<1>2. posted \in Nat /\ head \in Nat /\ head = posted % Queue
  BY DEF MirrorInv, Typed, RingIsRecent
<1>3. new \in Session /\ new.whole = TRUE /\ new.last = posted /\ new.tail = head
  BY <1>2 DEF Session, Idle
<1> HIDE DEF new
<1>4. Typed'
  BY <1>1, <1>3 DEF MirrorInv, Typed
<1>5. RingIsRecent'
  BY <1>1 DEF MirrorInv, RingIsRecent
<1>6. \A d \in Clients : Follows(cl'[d], posted)
  <2>1. Follows(new, posted)
    BY <1>2, <1>3 DEF Follows
  <2>2. cl'[c] = new /\ \A d \in Clients : d # c => cl'[d] = cl[d]
    BY <1>1 DEF MirrorInv, Typed
  <2> QED BY <2>1, <2>2 DEF MirrorInv
<1> QED BY <1>1, <1>4, <1>5, <1>6 DEF MirrorInv

\* The end of a session.
LEMMA ClosedKeeps ==
    ASSUME Queue \in Nat, Queue > 0, MirrorInv, NEW c \in Clients, Closed(c)
    PROVE  MirrorInv'
<1> DEFINE old == [Idle EXCEPT !.up = FALSE]
<1>1. UNCHANGED <<ring, head, posted>> /\ cl' = [cl EXCEPT ![c] = old]
  BY DEF Closed
<1>2. old \in Session /\ old.whole = TRUE /\ old.up = FALSE
  BY DEF Session, Idle
<1> HIDE DEF old
<1>3. Typed'
  BY <1>1, <1>2 DEF MirrorInv, Typed
<1>4. RingIsRecent'
  BY <1>1 DEF MirrorInv, RingIsRecent
<1>5. \A d \in Clients : Follows(cl'[d], posted)
  BY <1>1, <1>2 DEF MirrorInv, Typed, Follows
<1> QED BY <1>1, <1>3, <1>4, <1>5 DEF MirrorInv

\* A message takes the slot of the one that is a ring older.
LEMMA PostKeepsRing ==
    ASSUME Queue \in Nat, Queue > 0, MirrorInv, ring' = [ring EXCEPT ![head] = posted + 1],
           posted' = posted + 1, head' = Step(head)
    PROVE  RingIsRecent' /\ ring' \in [0 .. Queue - 1 -> Nat] /\ head' \in 0 .. Queue - 1 /\ posted' \in Nat
<1>1. /\ posted \in Nat /\ head \in 0 .. Queue - 1 /\ head = posted % Queue
      /\ ring \in [0 .. Queue - 1 -> Nat]
  BY DEF MirrorInv, Typed, RingIsRecent
<1>2. ring' \in [0 .. Queue - 1 -> Nat] /\ head' \in 0 .. Queue - 1 /\ posted' \in Nat
  BY <1>1 DEF Step
<1>3. head' = posted' % Queue
  <2>0. posted \in Int
    BY <1>1
  <2>1. PICK d \in Int, r \in 0 .. Queue - 1 : posted = Queue * d + r /\ posted % Queue = r
    BY <2>0, Division
  <2>2. CASE r = Queue - 1
    <3>1. Queue * (d + 1) = Queue * d + Queue * 1 /\ Queue * d \in Int /\ d + 1 \in Int
      BY <2>1, Distribute
    <3>2. posted' = Queue * (d + 1) + 0
      BY <1>1, <2>1, <2>2, <3>1
    <3>3. (Queue * (d + 1) + 0) % Queue = 0
      BY <3>1, Remainder
    <3> QED BY <1>1, <2>1, <2>2, <3>2, <3>3 DEF Step
  <2>3. CASE r # Queue - 1
    <3>1. PICK s \in 0 .. Queue - 1 : s = r + 1
      BY <2>3
    <3>2. (Queue * d + s) % Queue = s
      BY Remainder
    <3>3. Queue * d \in Int
      OBVIOUS
    <3>4. posted' = Queue * d + s
      BY <1>1, <2>1, <3>1, <3>3
    <3>5. head' = s
      BY <1>1, <2>1, <2>3, <3>1 DEF Step
    <3> QED BY <3>2, <3>4, <3>5
  <2> QED BY <2>2, <2>3
<1>4. ASSUME NEW m \in 1 .. posted', m > posted' - Queue
      PROVE  ring'[(m - 1) % Queue] = m
  <2>1. PICK a \in Int : a = m - 1
    OBVIOUS
  <2>2. a % Queue \in 0 .. Queue - 1
    BY Division
  <2>3. CASE a = posted
    BY <1>1, <2>1, <2>3
  <2>4. CASE a # posted
    <3>1. posted > a /\ posted - a < Queue /\ m \in 1 .. posted /\ m > posted - Queue
      BY <1>1, <1>4, <2>1, <2>4
    <3>2. a % Queue # head
      <4>1. posted \in Int
        BY <1>1
      <4>2. posted % Queue # a % Queue
        BY <3>1, <4>1, SlotsDiffer
      <4> QED BY <1>1, <4>2
    <3>3. ring[a % Queue] = m
      BY <2>1, <3>1 DEF MirrorInv, RingIsRecent
    <3> QED BY <1>1, <2>1, <2>2, <3>2, <3>3
  <2> QED BY <2>3, <2>4
<1> QED BY <1>2, <1>3, <1>4 DEF RingIsRecent

\* Choking the sender and marking the others touches no progress.
LEMMA ChokeSteps ==
    ASSUME NEW f \in [Clients -> Session], NEW c \in Clients, NEW b \in BOOLEAN, NEW g,
           g = [f EXCEPT ![c] = Settled(IF b THEN Flow([@ EXCEPT !.alone = TRUE], FALSE) ELSE @)]
    PROVE  g \in [Clients -> Session] /\ \A d \in Clients : SameProgress(f[d], g[d])
<1> DEFINE one == [f[c] EXCEPT !.alone = TRUE]
           two == IF b THEN Flow(one, FALSE) ELSE f[c]
<1>1. f[c] \in Session
  OBVIOUS
<1>2. one \in Session /\ SameProgress(f[c], one)
  BY <1>1, RecordSteps
<1> HIDE DEF one
<1>3. two \in Session /\ SameProgress(f[c], two)
  <2>1. Flow(one, FALSE) \in Session /\ SameProgress(one, Flow(one, FALSE))
    BY <1>2, RecordSteps
  <2>2. SameProgress(f[c], f[c])
    BY DEF SameProgress
  <2>3. SameProgress(f[c], Flow(one, FALSE))
    BY <1>2, <2>1, ProgressTrans
  <2> QED BY <1>1, <2>1, <2>2, <2>3
<1>4. g = [f EXCEPT ![c] = Settled(two)]
  BY DEF one
<1> HIDE DEF two
<1>5. Settled(two) \in Session /\ SameProgress(f[c], Settled(two))
  BY <1>3, RecordSteps, ProgressTrans
<1>6. \A d \in Clients : g[d] = IF d = c THEN Settled(two) ELSE f[d]
  BY <1>4
<1>7. \A d \in Clients : SameProgress(f[d], f[d])
  BY DEF SameProgress
<1> QED BY <1>4, <1>5, <1>6, <1>7

\* Where every session keeps its progress, all follow what was posted.
LEMMA AllFollow ==
    ASSUME MirrorInv, posted' \in Nat, posted' >= posted, cl' \in [Clients -> Session],
           \A d \in Clients : SameProgress(cl[d], cl'[d])
    PROVE  \A d \in Clients : Follows(cl'[d], posted')
<1>1. posted \in Nat /\ \A d \in Clients : cl[d] \in Session /\ Follows(cl[d], posted)
  BY DEF MirrorInv, Typed
<1> QED BY <1>1, FollowsStays

\* RECEIVE: the message is dropped, or posted.
LEMMA ReceiveKeeps ==
    ASSUME Queue \in Nat, Queue > 0, MirrorInv, NEW c \in Clients, Receive(c)
    PROVE  MirrorInv'
<1> DEFINE Choked(b) == [cl EXCEPT ![c] = Settled(IF b THEN Flow([@ EXCEPT !.alone = TRUE], FALSE) ELSE @)]
           Others(f) == [d \in Clients |-> IF d = c THEN f[d] ELSE [f[d] EXCEPT !.alone = FALSE]]
           Near == Fill(cl[c].tail, Step(head)) = Queue - 2
<1>1. \/ cl' = AskAll(Choked(TRUE)) /\ UNCHANGED <<ring, head, posted>>
      \/ /\ cl' = AskAll(Others(Choked(Near)))
         /\ ring' = [ring EXCEPT ![head] = posted + 1] /\ posted' = posted + 1 /\ head' = Step(head)
  BY DEF Receive
<1>2. \A b \in BOOLEAN : /\ Choked(b) \in [Clients -> Session]
                         /\ \A d \in Clients : SameProgress(cl[d], Choked(b)[d])
  <2> TAKE b \in BOOLEAN
  <2>1. cl \in [Clients -> Session]
    BY DEF MirrorInv, Typed
  <2> QED BY <2>1, ChokeSteps
<1>3. ASSUME NEW f \in [Clients -> Session]
      PROVE  /\ Others(f) \in [Clients -> Session]
             /\ \A d \in Clients : SameProgress(f[d], Others(f)[d])
  <2>1. ASSUME NEW d \in Clients
        PROVE  Others(f)[d] \in Session /\ SameProgress(f[d], Others(f)[d])
    <3>1. f[d] \in Session
      OBVIOUS
    <3>2. [f[d] EXCEPT !.alone = FALSE] \in Session /\ SameProgress(f[d], [f[d] EXCEPT !.alone = FALSE])
      BY <3>1, RecordSteps
    <3>3. SameProgress(f[d], f[d])
      BY DEF SameProgress
    <3> QED BY <3>1, <3>2, <3>3
  <2>2. Others(f) = [d \in Clients |-> Others(f)[d]]
    OBVIOUS
  <2> HIDE DEF Others
  <2> QED BY <2>1, <2>2
<1>4. Near \in BOOLEAN /\ TRUE \in BOOLEAN
  OBVIOUS
<1> HIDE DEF Choked, Others, Near
<1>5. CASE cl' = AskAll(Choked(TRUE)) /\ UNCHANGED <<ring, head, posted>>
  <2>1. cl' \in [Clients -> Session] /\ \A d \in Clients : SameProgress(Choked(TRUE)[d], cl'[d])
    BY <1>2, <1>4, <1>5, AskAllSteps
  <2>2. \A d \in Clients : SameProgress(cl[d], cl'[d])
    BY <1>2, <1>4, <2>1, ProgressTrans
  <2>3. posted' \in Nat /\ posted' >= posted
    BY <1>5 DEF MirrorInv, Typed
  <2>4. Typed' /\ RingIsRecent'
    BY <1>5, <2>1 DEF MirrorInv, Typed, RingIsRecent
  <2> QED BY <2>1, <2>2, <2>3, <2>4, AllFollow DEF MirrorInv
<1>6. CASE /\ cl' = AskAll(Others(Choked(Near)))
           /\ ring' = [ring EXCEPT ![head] = posted + 1] /\ posted' = posted + 1 /\ head' = Step(head)
  <2>1. Choked(Near) \in [Clients -> Session] /\ \A d \in Clients : SameProgress(cl[d], Choked(Near)[d])
    BY <1>2, <1>4
  <2>2. /\ Others(Choked(Near)) \in [Clients -> Session]
        /\ \A d \in Clients : SameProgress(Choked(Near)[d], Others(Choked(Near))[d])
    BY <1>3, <2>1
  <2>3. cl' \in [Clients -> Session] /\ \A d \in Clients : SameProgress(Others(Choked(Near))[d], cl'[d])
    BY <1>6, <2>2, AskAllSteps
  <2>4. \A d \in Clients : SameProgress(cl[d], cl'[d])
    BY <2>1, <2>2, <2>3, ProgressTrans
  <2>5. posted' \in Nat /\ posted' >= posted
    BY <1>6 DEF MirrorInv, Typed
  <2>6. RingIsRecent' /\ ring' \in [0 .. Queue - 1 -> Nat] /\ head' \in 0 .. Queue - 1
    BY <1>6, PostKeepsRing
  <2> QED BY <2>3, <2>4, <2>5, <2>6, AllFollow DEF MirrorInv, Typed
<1> QED BY <1>1, <1>5, <1>6

\* What a session that is up has before it: `behind' messages, the last ones that
\* were posted, after a gap of whole rings.
LEMMA Backlog ==
    ASSUME Queue \in Nat, Queue > 0, MirrorInv, NEW c \in Clients, cl[c].up
    PROVE  LET b == Fill(cl[c].tail, head)
           IN  /\ b \in 0 .. Queue - 1 /\ b \in 0 .. posted
               /\ \E e \in Nat : posted - b = cl[c].last + Queue * e
               /\ \A i \in 0 .. b - 1 : ring[(cl[c].tail + i) % Queue] = posted - b + i + 1
               /\ \A i \in Nat : (cl[c].tail + i) % Queue = (posted - b + i) % Queue
<1> DEFINE b == Fill(cl[c].tail, head)
<1>1. /\ posted \in Nat /\ head = posted % Queue /\ cl[c] \in Session
      /\ \A m \in 1 .. posted : m > posted - Queue => ring[(m - 1) % Queue] = m
  BY DEF MirrorInv, Typed, RingIsRecent
<1>2. PICK l \in 0 .. posted : l = cl[c].last /\ cl[c].tail = l % Queue
  BY DEF MirrorInv, Follows
<1>3. PICK p \in Int, x \in Int : p = posted /\ x = p - l /\ l \in Int /\ x >= 0
  BY <1>1
<1>4. b = x % Queue
  <2>0. head = p % Queue /\ cl[c].tail = l % Queue
    BY <1>1, <1>2, <1>3
  <2>1. b = ((p % Queue) - (l % Queue)) % Queue
    BY <2>0 DEF Fill
  <2>2. ((p % Queue) - (l % Queue)) % Queue = (p - l) % Queue
    BY <1>3, SlotMinus
  <2> QED BY <1>3, <2>1, <2>2
<1> HIDE DEF b
<1>5. PICK e \in Int, r \in 0 .. Queue - 1 : x = Queue * e + r /\ x % Queue = r
  BY Division
<1>6. b = r /\ b \in 0 .. Queue - 1
  BY <1>4, <1>5
<1>7. e \in Nat
  <2> SUFFICES ASSUME e < 0 PROVE FALSE
    OBVIOUS
  <2>1. PICK f \in Nat : f = 0 - e - 1
    OBVIOUS
  <2>2. Queue * f >= 0 /\ Queue * f \in Nat
    BY <2>1
  <2>3. Queue * (0 - (f + 1)) = 0 - (Queue * f + Queue)
    BY <2>1
  <2>4. e = 0 - (f + 1)
    BY <2>1
  <2> QED BY <1>3, <1>5, <2>2, <2>3, <2>4
<1>8. PICK z \in Nat : z = Queue * e
  BY <1>7
<1>9. posted - b = l + z /\ b \in 0 .. posted
  BY <1>1, <1>3, <1>5, <1>6, <1>8
<1>10. ASSUME NEW i \in Nat
       PROVE  (cl[c].tail + i) % Queue = (posted - b + i) % Queue
  <2>1. PICK u \in Int, v \in Int : u = posted - b + i /\ v = l + i /\ u = v + Queue * e
    BY <1>2, <1>6, <1>8, <1>9
  <2>2. u % Queue = v % Queue
    BY <2>1, SameRemainder, ZenonT(20)
  <2>3. ((l % Queue) + i) % Queue = (l + i) % Queue
    <3>1. i \in Int /\ l \in Int
      BY <1>3
    <3> QED BY <3>1, SlotPlus
  <2> QED BY <1>2, <2>1, <2>2, <2>3
<1>11. ASSUME NEW i \in 0 .. b - 1
       PROVE  ring[(cl[c].tail + i) % Queue] = posted - b + i + 1
  <2>1. PICK m \in Int : m = posted - b + i + 1 /\ m - 1 = posted - b + i
    BY <1>1, <1>6
  <2>2. m \in 1 .. posted /\ m > posted - Queue
    BY <1>1, <1>6, <1>9, <2>1
  <2>3. i \in Nat
    BY <1>6
  <2> QED BY <1>1, <1>10, <2>1, <2>2, <2>3
<1>12. b \in 0 .. Queue - 1 /\ b \in 0 .. posted /\ \E k \in Nat : posted - b = cl[c].last + Queue * k
  BY <1>2, <1>6, <1>7, <1>8, <1>9
<1> QED BY <1>10, <1>11, <1>12 DEF b

\* SERVER_WRITEABLE of k messages out of the backlog.
LEMMA WrittenFollows ==
    ASSUME Queue \in Nat, Queue > 0, MirrorInv, NEW c \in Clients, cl[c].up,
           NEW s \in Session, SameProgress(cl[c], s), NEW k \in 1 .. Fill(cl[c].tail, head)
    PROVE  Written(s, k) \in Session /\ Follows(Written(s, k), posted)
<1> DEFINE b == Fill(cl[c].tail, head)
           at(i) == (s.tail + i) % Queue
           nums == [i \in 0 .. k - 1 |-> ring[at(i)]]
           Gap(i) == nums[i] - (IF i = 0 THEN s.last ELSE nums[i - 1])
<1>1. /\ b \in 0 .. Queue - 1 /\ b \in 0 .. posted /\ k \in 1 .. b
      /\ \E e \in Nat : posted - b = cl[c].last + Queue * e
      /\ \A i \in 0 .. b - 1 : ring[(cl[c].tail + i) % Queue] = posted - b + i + 1
      /\ \A i \in Nat : (cl[c].tail + i) % Queue = (posted - b + i) % Queue
  BY Backlog
<1>2. /\ s.tail = cl[c].tail /\ s.last = cl[c].last /\ s.last \in Nat /\ s.whole = TRUE /\ posted \in Nat
  <2>1. cl[c].whole /\ posted \in Nat /\ cl[c] \in Session
    BY DEF MirrorInv, Typed, Follows
  <2> QED BY <2>1 DEF SameProgress, Session
<1> HIDE DEF b
<1>3a. PICK e \in Nat : posted - b = s.last + Queue * e
  BY <1>1, <1>2
<1>3. PICK z \in Nat : z = Queue * e /\ posted - b = s.last + z
  BY <1>3a
<1>4. \A i \in 0 .. k - 1 : nums[i] = posted - b + i + 1
  <2> TAKE i \in 0 .. k - 1
  <2>1. i \in 0 .. b - 1
    BY <1>1
  <2> QED BY <1>1, <1>2, <2>1
<1>5. Written(s, k) = [s EXCEPT !.tail = at(k), !.last = nums[k - 1],
                        !.whole = @ /\ \A i \in 0 .. k - 1 : Gap(i) > 0 /\ (Gap(i) - 1) % Queue = 0]
  BY DEF Written
<1>6. at(k) = (posted - b + k) % Queue /\ at(k) \in Nat
  <2>1. k \in Nat
    BY <1>1
  <2>2. at(k) = (posted - b + k) % Queue
    BY <1>1, <1>2, <2>1
  <2>3. PICK u \in Int : u = posted - b + k
    BY <1>1, <1>2
  <2>4. u % Queue \in Nat
    BY Division
  <2> QED BY <2>2, <2>3, <2>4
<1>7. nums[k - 1] = posted - b + k /\ nums[k - 1] \in 0 .. posted
  <2> HIDE DEF nums
  <2>1. k - 1 \in 0 .. k - 1
    BY <1>1
  <2>2. nums[k - 1] = posted - b + (k - 1) + 1
    BY <1>4, <2>1
  <2> QED BY <1>1, <1>2, <2>2
<1>8. \A i \in 0 .. k - 1 : Gap(i) > 0 /\ (Gap(i) - 1) % Queue = 0
  <2> TAKE i \in 0 .. k - 1
  <2>1. CASE i = 0
    <3>1. Gap(i) = z + 1
      BY <1>1, <1>2, <1>3, <1>4, <2>1
    <3>2. 0 \in 0 .. Queue - 1 /\ z = Queue * e + 0
      BY <1>3
    <3>3. z % Queue = 0
      BY <3>2, Remainder
    <3> QED BY <3>1, <3>3
  <2>2. CASE i # 0
    <3>1. i \in 0 .. k - 1 /\ i - 1 \in 0 .. k - 1
      BY <1>1, <2>2
    <3>2. nums[i] = posted - b + i + 1 /\ nums[i - 1] = posted - b + (i - 1) + 1
      BY <1>4, <3>1
    <3>3. Gap(i) = 1
      BY <1>1, <1>2, <2>2, <3>1, <3>2
    <3>4. 0 \in 0 .. Queue - 1 /\ 0 = Queue * 0 + 0
      OBVIOUS
    <3>5. 0 % Queue = 0
      BY <3>4, Remainder
    <3> QED BY <3>3, <3>5
  <2> QED BY <2>1, <2>2
<1> HIDE DEF at, nums, Gap
<1>9. /\ Written(s, k) \in Session /\ Written(s, k).whole = TRUE
      /\ Written(s, k).last = nums[k - 1] /\ Written(s, k).tail = at(k)
  <2>1. nums[k - 1] \in Nat
    BY <1>2, <1>7
  <2>2. Written(s, k) = [s EXCEPT !.tail = at(k), !.last = nums[k - 1], !.whole = TRUE]
    BY <1>2, <1>5, <1>8
  <2> QED BY <1>6, <2>1, <2>2 DEF Session
<1> QED BY <1>6, <1>7, <1>9 DEF Follows

\* SERVER_WRITEABLE: one client moves on, flow control may change for all.
LEMMA WriteableKeeps ==
    ASSUME Queue \in Nat, Queue > 0, MirrorInv, NEW c \in Clients, Writeable(c)
    PROVE  MirrorInv'
<1> DEFINE behind == Fill(cl[c].tail, head)
           asked == [cl EXCEPT ![c].writable = FALSE]
           Moved(k, choked) == [asked EXCEPT ![c] = [Written(@, k) EXCEPT !.writable = choked]]
           AllowAll(f) == [d \in Clients |-> IF f[d].up THEN Flow(f[d], TRUE) ELSE f[d]]
<1>1. UNCHANGED <<ring, head, posted>> /\ cl[c].up
  BY DEF Writeable
<1>2. \/ cl' = [asked EXCEPT ![c] = Settled(@)]
      \/ \E k \in 1 .. behind, choked \in BOOLEAN :
            \E f \in {Moved(k, choked), AllowAll(Moved(k, choked))} : cl' = [f EXCEPT ![c] = Settled(@)]
  BY ZenonT(20) DEF Writeable
<1>3. cl \in [Clients -> Session] /\ posted \in Nat /\ \A d \in Clients : Follows(cl[d], posted)
  BY DEF MirrorInv, Typed
<1>3a. ASSUME NEW r \in Session, NEW t, SameProgress(r, t), Follows(r, posted)
       PROVE  Follows(t, posted)
  BY <1>3, <1>3a DEF Follows, SameProgress
<1> DEFINE s == [cl[c] EXCEPT !.writable = FALSE]
<1>4. s \in Session /\ SameProgress(cl[c], s)
  BY <1>3, RecordSteps
<1>5. asked = [cl EXCEPT ![c] = s]
  BY <1>3
<1> HIDE DEF s, asked
<1>6. asked \in [Clients -> Session] /\ asked[c] = s /\ \A d \in Clients : d # c => asked[d] = cl[d]
  BY <1>3, <1>4, <1>5
<1>7. \A d \in Clients : Follows(asked[d], posted)
  BY <1>3, <1>4, <1>6, FollowsStays
<1> DEFINE Good(f) == f \in [Clients -> Session] /\ \A d \in Clients : Follows(f[d], posted)
<1>8. ASSUME NEW f, Good(f)
      PROVE  Good([f EXCEPT ![c] = Settled(@)]) /\ Good(AllowAll(f))
  <2>1. f \in [Clients -> Session] /\ \A d \in Clients : f[d] \in Session /\ Follows(f[d], posted)
    BY <1>8
  <2>2. Settled(f[c]) \in Session /\ Follows(Settled(f[c]), posted)
    BY <1>3a, <2>1, RecordSteps
  <2>3. Good([f EXCEPT ![c] = Settled(@)])
    BY <2>1, <2>2
  <2>4. \A d \in Clients : Flow(f[d], TRUE) \in Session /\ Follows(Flow(f[d], TRUE), posted)
    BY <1>3a, <2>1, RecordSteps
  <2>5. Good(AllowAll(f))
    BY <2>1, <2>4
  <2> QED BY <2>3, <2>5
<1>9. ASSUME NEW k \in 1 .. behind, NEW choked \in BOOLEAN
      PROVE  Good(Moved(k, choked))
  <2>1. Written(s, k) \in Session /\ Follows(Written(s, k), posted)
    BY <1>1, <1>4, WrittenFollows
  <2>2. [Written(s, k) EXCEPT !.writable = choked] \in Session
        /\ Follows([Written(s, k) EXCEPT !.writable = choked], posted)
    BY <1>3a, <2>1, RecordSteps
  <2>3. Moved(k, choked) = [asked EXCEPT ![c] = [Written(s, k) EXCEPT !.writable = choked]]
    BY <1>6
  <2> QED BY <1>6, <1>7, <2>2, <2>3
<1>10. Good(asked)
  BY <1>6, <1>7
<1> HIDE DEF Good, Moved, AllowAll, behind
<1>11. Good(cl')
  BY <1>2, <1>8, <1>9, <1>10
<1>12. cl' \in [Clients -> Session] /\ \A d \in Clients : Follows(cl'[d], posted)
  BY <1>11 DEF Good
<1>13. Typed' /\ RingIsRecent'
  BY <1>1, <1>12 DEF MirrorInv, Typed, RingIsRecent
<1> QED BY <1>1, <1>12, <1>13 DEF MirrorInv

\* The other protocol of the server, and steps of somebody else.
LEMMA RestKeeps ==
    ASSUME MirrorInv, UNCHANGED <<ring, head, posted, cl>>
    PROVE  MirrorInv'
BY DEF MirrorInv, Typed, RingIsRecent

-----------------------------------------------------------------------------
(* The theorem.                                                             *)

\* MirrorInv is inductive.
LEMMA MirrorStep ==
    ASSUME Queue \in Nat, Queue > 0, MirrorInv, [Next]_mirror
    PROVE  MirrorInv'
<1>1. CASE UNCHANGED mirror
  BY <1>1, RestKeeps DEF mirror
<1>2. CASE Increment \/ Reset
  BY <1>2, RestKeeps DEF Increment, Reset
<1>3. ASSUME NEW c \in Clients, Established(c) \/ Receive(c) \/ Writeable(c) \/ Closed(c)
      PROVE  MirrorInv'
  BY <1>3, EstablishedKeeps, ReceiveKeeps, WriteableKeeps, ClosedKeeps
<1> QED BY <1>1, <1>2, <1>3 DEF Next

\* However many clients post and read, at whatever pace, and whatever the length
\* of the ring (MAX_MESSAGE_QUEUE): callback_lws_mirror sends a client messages
\* in the order in which they came, none twice, and what an overrun client
\* misses is a multiple of the ring.
THEOREM OverrunsLoseWholeRings == Spec => []MissesWholeRings
<1>0. Queue \in Nat /\ Queue > 0
  BY QueueAssumption
<1>1. Init => MirrorInv
  BY <1>0, MirrorInit
<1>2. MirrorInv /\ [Next]_mirror => MirrorInv'
  BY <1>0, MirrorStep
<1>3. MirrorInv => MissesWholeRings
  BY DEF MirrorInv, MissesWholeRings, Follows
<1> QED BY <1>1, <1>2, <1>3, PTL DEF Spec
=============================================================================
