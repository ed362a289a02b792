------------------------------- MODULE Inflate -------------------------------
(***************************************************************************)
(* The state machine of inflate() (win32port/zlib/inflate.c), its fast     *)
(* loop (inffast.c) and its sliding window, called with whatever input and *)
(* room the caller has at hand.                                            *)
(*                                                                         *)
(* The input is a sequence of items, an item being what one NEEDBITS or    *)
(* one code asks for: [k, v, ok] is its kind, its value and whether it is  *)
(* one that the format allows.  The caller cuts its input between items.   *)
(***************************************************************************)
EXTENDS Integers, Sequences, FiniteSets, SequencesExt

CONSTANTS Streams,      \* records [wraps, items]: what may be decoded, and as what
          Dictionary,   \* the bytes that the caller may set as dictionary
          Window,       \* 1 << wbits
          FastIn,       \* items in the longest length/distance pair (6 bytes)
          FastOut,      \* the longest match (258)
          Gives, Rooms, \* what the caller offers in a call
          MaxResets     \* bound: resets and synchronizations

VARIABLES z,            \* struct inflate_state
          rest,         \* the input that was not taken
          call,         \* the call of inflate() that runs
          made,         \* what was output since the start of the stream
          from          \* the input and the history that it is decoded from

infvars == <<z, rest, call, made, from>>

Item(k, v) == [k |-> k, v |-> v, ok |-> TRUE]
Wrong(i) == [i EXCEPT !.ok = FALSE]

-----------------------------------------------------------------------------
(* The window *)

\* inflateReset: an allocated window is kept, but not in use.
Reset(s) == [s EXCEPT !.mode = "HEAD", !.last = FALSE, !.havedict = FALSE, !.total = 0,
                      !.wsize = 0, !.whave = 0, !.wnext = 0]

\* bytes p+1 .. p+n of s become those from slot w on
Stored(win, w, s, p, n) == [j \in DOMAIN win |-> IF j \in w .. w + n - 1 THEN s[p + j - w + 1] ELSE win[j]]

\* updatewindow, for the last n bytes that were made.
UpdateWindow(s, n) ==
    LET u == IF s.wsize = 0 THEN [s EXCEPT !.wsize = Window, !.wnext = 0, !.whave = 0] ELSE s
        d == IF Window - u.wnext > n THEN n ELSE Window - u.wnext
        first == Stored(u.window, u.wnext, made, Len(made) - n, d)
    IN  IF n >= Window
        THEN [u EXCEPT !.window = Stored(@, 0, made, Len(made) - Window, Window),
                       !.wnext = 0, !.whave = Window]
        ELSE IF d < n
        THEN [u EXCEPT !.window = Stored(first, 0, made, Len(made) - (n - d), n - d),
                       !.wnext = n - d, !.whave = Window]
        ELSE [u EXCEPT !.window = first, !.wnext = (@ + d) % Window,
                       !.whave = IF @ < Window THEN @ + d ELSE @]

TooFarAway(c) == c >= z.whave
\* a distance that reaches c bytes into the window, or not so far if c is negative
TooFar(c) == c > z.whave

Slots(w, n) == [i \in 1 .. n |-> z.window[w + i - 1]]
\* n bytes that repeat what is d bytes back
Back(s, d, n) == [i \in 1 .. n |-> s[Len(s) - d + ((i - 1) % d) + 1]]

-----------------------------------------------------------------------------
(* A call *)

Init ==
    /\ \E s \in Streams : \E w \in s.wraps :
          /\ rest = s.items /\ from = [items |-> s.items, hist |-> <<>>, synced |-> FALSE]
          /\ z = Reset([mode |-> "HEAD", last |-> FALSE, havedict |-> FALSE, total |-> 0, wsize |-> 0,
                        whave |-> 0, wnext |-> 0, window |-> [j \in 0 .. Window - 1 |-> "?"],
                        alloc |-> FALSE, wrap |-> w, flags |-> {}, check |-> <<>>, length |-> 0,
                        offset |-> 0, extra |-> FALSE, resets |-> 0])
    /\ call = [on |-> FALSE, ret |-> "none"] /\ made = <<>>

\* inflate(): at a block's end, the test of flush is skipped on entry.
Begin ==
    /\ ~call.on /\ z.mode \notin {"MEM", "SYNC"}
    /\ \E have \in Gives, left \in Rooms, flush \in {"none", "block", "trees", "finish"} :
          /\ have <= Len(rest)
          /\ call' = [on |-> TRUE, have |-> have, in |-> have, left |-> left, out |-> left, flush |-> flush]
    /\ z' = IF z.mode = "TYPE" THEN [z EXCEPT !.mode = "TYPEDO"] ELSE z
    /\ UNCHANGED <<rest, made, from>>

Bytes == call.out - call.left        \* made in this call
\* UPDATE(check, ...): the check value stands for all the bytes that it covers
Checked(s) == IF s.wrap = 0 THEN s ELSE [s EXCEPT !.check = @ \o SubSeq(made, Len(made) - Bytes + 1, Len(made))]

After == {"CHECK", "LENGTH", "DONE", "BAD"}

\* inf_leave.  The window may not be there to be had.
Leave(ret) ==
    LET windowed == z.wsize > 0 \/ (z.mode \notin After /\ Bytes > 0)
        s == [Checked(IF windowed THEN UpdateWindow([z EXCEPT !.alloc = TRUE], Bytes) ELSE z)
              EXCEPT !.total = @ + Bytes]
        idle == call.in = call.have /\ Bytes = 0
    IN  /\ UNCHANGED <<rest, made, from>>
        /\ \/ /\ z' = s
              /\ call' = [on |-> FALSE, ret |-> IF ret = "OK" /\ (idle \/ call.flush = "finish")
                                                THEN "BUF_ERROR" ELSE ret]
           \/ /\ windowed /\ ~z.alloc
              /\ z' = [z EXCEPT !.mode = "MEM"] /\ call' = [on |-> FALSE, ret |-> "MEM_ERROR"]

\* NEEDBITS, or a code: the item at the front, if the caller gave it.
Starved == call.have = 0
Take(s) == /\ call' = [call EXCEPT !.have = @ - 1] /\ rest' = Tail(rest) /\ z' = s /\ UNCHANGED <<made, from>>
Move(s) == z' = s /\ UNCHANGED <<rest, call, made, from>>
Bad == [z EXCEPT !.mode = "BAD"]
In(mode) == call.on /\ z.mode = mode
Coming == Head(rest)
Need(mode, s) == In(mode) /\ IF Starved THEN Leave("OK") ELSE Take(s)

-----------------------------------------------------------------------------
(* Headers *)

Header ==
    LET i == Coming
        ok == i.k = "zlib" /\ i.ok /\ z.wrap \in {1, 3} /\ i.v.window <= Window
    IN  \/ In("HEAD") /\ z.wrap = 0 /\ Move([z EXCEPT !.mode = "TYPEDO"])
        \/ /\ z.wrap # 0
           /\ Need("HEAD", IF i.k = "gzip" /\ z.wrap \in {2, 3} THEN [z EXCEPT !.mode = "FLAGS"]
                           ELSE IF ~ok THEN [Bad EXCEPT !.flags = {}]
                           ELSE [z EXCEPT !.mode = IF i.v.dict THEN "DICTID" ELSE "TYPE",
                                          !.flags = {}, !.check = <<>>])

\* gzip: FLAGS, TIME and OS, then the fields that the flags announce.
Fixed ==
    \/ Need("FLAGS", IF Coming.ok THEN [z EXCEPT !.mode = "TIME", !.flags = Coming.v \cup {"gzip"}] ELSE Bad)
    \/ Need("TIME", [z EXCEPT !.mode = "OS"])
    \/ Need("OS", [z EXCEPT !.mode = "EXLEN"])

Extra ==
    \/ In("EXLEN") /\ "extra" \notin z.flags /\ Move([z EXCEPT !.mode = "NAME"])
    \/ "extra" \in z.flags /\ Need("EXLEN", [z EXCEPT !.mode = "EXTRA", !.length = Coming.v])
    \/ In("EXTRA") /\ z.length = 0 /\ Move([z EXCEPT !.mode = "NAME"])
    \/ z.length > 0 /\ Need("EXTRA", [z EXCEPT !.length = @ - 1])

\* A string ends at its zero.
Text(mode, flag, next) ==
    \/ In(mode) /\ flag \notin z.flags /\ Move([z EXCEPT !.mode = next])
    \/ flag \in z.flags /\ Need(mode, IF Coming.v = 0 THEN [z EXCEPT !.mode = next] ELSE z)

HeaderCrc ==
    LET done == [z EXCEPT !.mode = "TYPE", !.check = <<>>]
    IN  \/ In("HCRC") /\ "hcrc" \notin z.flags /\ Move(done)
        \/ "hcrc" \in z.flags /\ Need("HCRC", IF Coming.ok THEN done ELSE Bad)

\* DICTID, DICT: returned at once, past inf_leave.
Dict ==
    \/ Need("DICTID", [z EXCEPT !.mode = "DICT", !.check = Coming.v])
    \/ In("DICT") /\ z.havedict /\ Move([z EXCEPT !.mode = "TYPE", !.check = <<>>])
    \/ /\ In("DICT") /\ ~z.havedict /\ call' = [on |-> FALSE, ret |-> "NEED_DICT"]
       /\ UNCHANGED <<z, rest, made, from>>

\* inflateSetDictionary: the end of the dictionary at the end of the window.
SetDictionary ==
    LET n == Len(Dictionary)
        u == UpdateWindow([z EXCEPT !.alloc = TRUE], 0)
        kept == IF n > Window THEN Window ELSE n
    IN  /\ ~call.on /\ (z.mode = "DICT" \/ (z.mode = "HEAD" /\ z.wrap = 0)) /\ ~z.havedict
        /\ z.mode = "DICT" => z.check = Dictionary
        /\ UNCHANGED <<rest, call, made>>
        /\ \/ /\ z' = [u EXCEPT !.window = Stored(@, Window - kept, Dictionary, n - kept, kept),
                                !.whave = kept, !.havedict = TRUE]
              /\ from' = [from EXCEPT !.hist = Dictionary]
           \/ ~z.alloc /\ z' = [z EXCEPT !.mode = "MEM"] /\ UNCHANGED from

-----------------------------------------------------------------------------
(* Blocks *)

Type ==
    \/ In("TYPE") /\ call.flush \in {"block", "trees"} /\ Leave("OK")
    \/ In("TYPE") /\ call.flush \notin {"block", "trees"} /\ Move([z EXCEPT !.mode = "TYPEDO"])
    \/ In("TYPEDO") /\ z.last /\ Move([z EXCEPT !.mode = "CHECK"])
    \/ /\ ~z.last
       /\ Need("TYPEDO", IF ~Coming.ok THEN [Bad EXCEPT !.last = Coming.v.last]
                         ELSE [z EXCEPT !.last = Coming.v.last, !.mode = Coming.v.type])

\* A part of the description of a block.
Described(mode, next) ==
    Need(mode, IF Coming.ok THEN [z EXCEPT !.mode = next, !.length = Coming.v] ELSE Bad)

StoredBlock ==
    \/ Described("STORED", "COPY_")
    \/ In("COPY") /\ z.length = 0 /\ Move([z EXCEPT !.mode = "TYPE"])
    \/ /\ In("COPY") /\ z.length > 0
       /\ IF Starved \/ call.left = 0 THEN Leave("OK")
          ELSE LET n == CHOOSE n \in 1 .. z.length :
                           /\ n <= call.have /\ n <= call.left
                           /\ n = z.length \/ n = call.have \/ n = call.left
               IN  /\ made' = made \o [i \in 1 .. n |-> rest[i].v]
                   /\ rest' = SubSeq(rest, n + 1, Len(rest))
                   /\ call' = [call EXCEPT !.have = @ - n, !.left = @ - n]
                   /\ z' = [z EXCEPT !.length = @ - n] /\ UNCHANGED from

\* TABLE, LENLENS, CODELENS: a code that is not complete, lacks the end of
\* block or repeats beyond its end is refused.
DynamicBlock ==
    \/ Described("TABLE", "LENLENS") \/ Described("LENLENS", "CODELENS") \/ Described("CODELENS", "LEN_")

\* COPY_, LEN_: a call under Z_TREES that comes here ends, unless it began here.
Arrived == call.flush = "trees" /\ call.in > call.have
AtTrees ==
    \/ call.on /\ z.mode \in {"COPY_", "LEN_"} /\ Arrived /\ Leave("OK")
    \/ In("COPY_") /\ ~Arrived /\ Move([z EXCEPT !.mode = "COPY"])
    \/ In("LEN_") /\ ~Arrived /\ Move([z EXCEPT !.mode = "LEN"])

-----------------------------------------------------------------------------
(* Codes *)

Room == call.on /\ call.have >= FastIn /\ call.left >= FastOut
Emit(s, bytes) ==
    /\ made' = made \o bytes /\ z' = s /\ UNCHANGED <<rest, from>>
    /\ call' = [call EXCEPT !.left = @ - Len(bytes)]

LenCode ==
    /\ ~Room
    /\ Need("LEN", CASE ~Coming.ok -> Bad
                     [] Coming.ok /\ Coming.k = "lit" -> [z EXCEPT !.mode = "LIT", !.length = Coming.v]
                     [] Coming.ok /\ Coming.k = "eob" -> [z EXCEPT !.mode = "TYPE"]
                     [] OTHER -> [z EXCEPT !.mode = "LENEXT", !.length = Coming.v.base, !.extra = Coming.v.extra])

LenExt ==
    \/ In("LENEXT") /\ ~z.extra /\ Move([z EXCEPT !.mode = "DIST"])
    \/ z.extra /\ Need("LENEXT", [z EXCEPT !.mode = "DIST", !.length = @ + Coming.v])

Dist ==
    Need("DIST", IF ~Coming.ok THEN Bad
                 ELSE [z EXCEPT !.mode = "DISTEXT", !.offset = Coming.v.base, !.extra = Coming.v.extra])

DistExt ==
    \/ In("DISTEXT") /\ ~z.extra /\ Move([z EXCEPT !.mode = "MATCH"])
    \/ z.extra /\ Need("DISTEXT", [z EXCEPT !.mode = "MATCH", !.offset = @ + Coming.v])

\* MATCH: from the window as far as it goes in one piece, or from the output.
Match ==
    LET c == z.offset - Bytes
        w == IF c > z.wnext THEN z.wsize - (c - z.wnext) ELSE z.wnext - c
        piece == IF c > z.wnext THEN c - z.wnext ELSE c
        n == Min({z.length, call.left} \cup IF c > 0 THEN {piece} ELSE {})
        s == [z EXCEPT !.length = @ - n, !.mode = IF n = z.length THEN "LEN" ELSE @]
    IN  /\ In("MATCH")
        /\ CASE call.left = 0           -> Leave("OK")
             [] call.left > 0 /\ TooFar(c) -> Move(Bad)
             [] OTHER                   -> Emit(s, IF c > 0 THEN Slots(w, n) ELSE Back(made, z.offset, n))

Lit == In("LIT") /\ IF call.left = 0 THEN Leave("OK") ELSE Emit([z EXCEPT !.mode = "LEN"], <<z.length>>)

\* The pieces that inflate_fast copies from the window, c bytes back in it.
FastFromWindow(len, c) ==
    LET tail == Min({len, c - z.wnext})
        head == Min({len - tail, z.wnext})
    IN  IF z.wnext = 0 THEN Slots(z.wsize - c, Min({len, c}))
        ELSE IF z.wnext < c THEN Slots(z.wsize + z.wnext - c, tail) \o Slots(0, head)
        ELSE Slots(z.wnext - c, Min({len, c}))

\* One round of inflate_fast: a literal, an end, or a whole pair.
Fast ==
    LET pair == LET l == rest[1].v.extra
                    j == IF l THEN 3 ELSE 2
                    d == rest[j].v.extra
                IN  [len |-> rest[1].v.base + (IF l THEN rest[2].v ELSE 0), at |-> j,
                     dist |-> rest[j].v.base + (IF d THEN rest[j + 1].v ELSE 0),
                     items |-> IF d THEN j + 1 ELSE j]
        taken(n, left) == /\ rest' = SubSeq(rest, n + 1, Len(rest)) /\ UNCHANGED from
                          /\ call' = [call EXCEPT !.have = @ - n, !.left = @ - left]
    IN  /\ In("LEN") /\ Room
        /\ IF ~Coming.ok \/ Coming.k = "eob"
           THEN /\ z' = IF Coming.ok THEN [z EXCEPT !.mode = "TYPE"] ELSE Bad
                /\ taken(1, 0) /\ UNCHANGED made
           ELSE IF Coming.k = "lit" THEN made' = Append(made, Coming.v) /\ taken(1, 1) /\ UNCHANGED z
           ELSE IF ~rest[pair.at].ok THEN z' = Bad /\ taken(pair.at, 0) /\ UNCHANGED made
           ELSE LET c == pair.dist - Bytes
                    w == IF c > 0 THEN FastFromWindow(pair.len, c) ELSE <<>>
                IN  IF TooFar(c) THEN z' = Bad /\ taken(pair.items, 0) /\ UNCHANGED made
                    ELSE /\ made' = made \o w \o Back(made \o w, pair.dist, pair.len - Len(w))
                         /\ taken(pair.items, pair.len) /\ UNCHANGED z

-----------------------------------------------------------------------------
(* The end of the stream *)

\* CHECK: what was made in this call is counted and summed here, and out is
\* set so that inf_leave does not do it again.
Check ==
    LET s == [Checked(z) EXCEPT !.total = @ + Bytes]
    IN  \/ In("CHECK") /\ z.wrap = 0 /\ Move([z EXCEPT !.mode = "LENGTH"])
        \/ In("CHECK") /\ z.wrap # 0 /\ Starved /\ Leave("OK")
        \/ /\ In("CHECK") /\ z.wrap # 0 /\ ~Starved
           /\ z' = [s EXCEPT !.mode = IF Coming.v = s.check THEN "LENGTH" ELSE "BAD"]
           /\ call' = [call EXCEPT !.have = @ - 1, !.out = call.left]
           /\ rest' = Tail(rest) /\ UNCHANGED <<made, from>>

Length ==
    \/ In("LENGTH") /\ (z.wrap = 0 \/ "gzip" \notin z.flags) /\ Move([z EXCEPT !.mode = "DONE"])
    \/ /\ z.wrap # 0 /\ "gzip" \in z.flags
       /\ Need("LENGTH", [z EXCEPT !.mode = IF Coming.v = z.total THEN "DONE" ELSE "BAD"])

Done == In("DONE") /\ Leave("STREAM_END")
IsBad == In("BAD") /\ Leave("DATA_ERROR")

-----------------------------------------------------------------------------
(* inflateReset, and inflateSync: past the next empty stored block.  The     *)
(* check value goes on from where it was.                                    *)

Restart ==
    /\ ~call.on /\ z.resets < MaxResets /\ z.mode \in {"DONE", "BAD"}
    /\ \E s \in Streams :
          /\ z.wrap \in s.wraps /\ rest' = s.items
          /\ from' = [items |-> s.items, hist |-> <<>>, synced |-> FALSE]
    /\ z' = [Reset(z) EXCEPT !.resets = @ + 1] /\ made' = <<>> /\ UNCHANGED call

Points == {i \in DOMAIN rest : rest[i].k = "stored" /\ rest[i].ok /\ rest[i].v = 0}
Sync ==
    /\ ~call.on /\ z.resets < MaxResets /\ z.mode = "BAD" /\ rest # <<>>
    /\ IF Points = {} THEN rest' = <<>> /\ z' = [z EXCEPT !.mode = "SYNC"] /\ UNCHANGED <<made, from>>
       ELSE /\ rest' = SubSeq(rest, Min(Points) + 1, Len(rest))
            /\ z' = [Reset(z) EXCEPT !.mode = "TYPE", !.resets = @ + 1]
            /\ made' = <<>> /\ from' = [items |-> rest', hist |-> <<>>, synced |-> TRUE]
    /\ UNCHANGED call

Next ==
    \/ Begin \/ Header \/ Fixed \/ Extra \/ Text("NAME", "name", "COMMENT") \/ Text("COMMENT", "comment", "HCRC")
    \/ HeaderCrc \/ Dict \/ SetDictionary \/ Type \/ StoredBlock \/ DynamicBlock \/ AtTrees
    \/ LenCode \/ LenExt \/ Dist \/ DistExt \/ Match \/ Lit \/ Fast \/ Check \/ Length \/ Done \/ IsBad
    \/ Restart \/ Sync

-----------------------------------------------------------------------------
(* What a stream stands for *)

Copied(a, d, n) == [a EXCEPT !.out = @ \o Back(a.hist \o @, d, n), !.far = @ \/ d > Window]

Expanded(a, i) ==
    IF a.bad \/ ~i.ok THEN [a EXCEPT !.bad = TRUE]
    ELSE CASE i.k \in {"lit", "byte"} -> [a EXCEPT !.out = Append(@, i.v)]
           [] i.k = "len"  -> [a EXCEPT !.len = i.v.base]
           [] i.k = "lext" -> [a EXCEPT !.len = @ + i.v]
           [] i.k \in {"dist", "dext"} ->
                LET d == IF i.k = "dist" THEN i.v.base ELSE a.dist + i.v
                IN  IF i.k = "dist" /\ i.v.extra THEN [a EXCEPT !.dist = d]
                    ELSE IF d > Len(a.hist) + Len(a.out) THEN [a EXCEPT !.bad = TRUE]
                    ELSE Copied(a, d, a.len)
           [] i.k = "check"  -> [a EXCEPT !.bad = i.v # a.out]
           [] i.k = "length" -> [a EXCEPT !.bad = i.v # Len(a.out)]
           [] i.k = "zlib"   -> [a EXCEPT !.bad = i.v.window > Window]
           [] OTHER -> a

Meaning == FoldLeft(Expanded, [out |-> <<>>, hist |-> from.hist, len |-> 0, dist |-> 0, bad |-> FALSE,
                               far |-> FALSE], from.items)

-----------------------------------------------------------------------------
(* Properties *)

\* However the input and the room for output are cut into calls, and wherever
\* in the window the history lies, what inflate() makes is the beginning of
\* what the stream stands for, and at the end all of it.
MakesMeaning ==
    LET m == Meaning
    IN  IsPrefix(made, m.out) /\ (z.mode = "DONE" => made = m.out)

\* inflate() takes no stream with something wrong in it, and refuses one only
\* if something is wrong, or a distance reaches beyond the window: that one is
\* refused or not as the call's output happens to hold what it points to.
\* After a synchronization the check value covers what came before it.
Verdict ==
    LET m == Meaning
    IN  /\ z.mode = "DONE" => ~m.bad
        /\ z.mode = "BAD" => m.bad \/ m.far \/ from.synced
=============================================================================
