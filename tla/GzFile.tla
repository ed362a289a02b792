------------------------------- MODULE GzFile -------------------------------
(***************************************************************************)
(* Files in gzip format, read and written through one handle               *)
(* (win32port/zlib: gzlib.c, gzread.c, gzwrite.c, gzclose.c).              *)
(*                                                                         *)
(* A file is a sequence of units: the two magic bytes, method and flags    *)
(* ("cm"), the rest of the header ("hd"), compressed data ("z"), the end   *)
(* of the deflate stream, the trailer ("tr", or "bad" if its check fails)  *)
(* and bytes that are no gzip ("raw"); b is what a unit decompresses to.   *)
(* A loop of the code is a sequence of steps of the call.  What inflate    *)
(* and deflate do with these units is external.  Memory is never short,    *)
(* and a read that fails has read nothing.                                 *)
(***************************************************************************)
EXTENDS Integers, Sequences, FiniteSetsExt, SequencesExt

CONSTANTS Files,       \* files to be read; each may still be growing
          Wants,       \* buffer sizes that gzbuffer is called with
          Lens,        \* lengths that gzread and gzwrite are called with
          MaxPos,      \* bound: positions that are sought, bytes written
          MaxUnits,    \* bound: length of a file to which more is written
          MaxFailures  \* bound: calls of read and write that fail

VARIABLES file,        \* what is on disk
          rest,        \* what another process will append to it
          gz,          \* the gz_state; its err is never "ok" once it was closed
          call,        \* the call in progress, or the last one
          written,     \* the bytes that the user wrote
          ghost        \* what happened so far

gzvars == <<file, rest, gz, call, written, ghost>>

Unit(k, b) == [k |-> k, b |-> b]
Magic      == Unit("31", <<"1f">>)
Header     == <<Magic, Unit("139", <<>>), Unit("cm", <<>>), Unit("hd", <<>>)>>
End        == <<Unit("end", <<>>), Unit("tr", <<>>)>>

\* What the file decompresses to.
Plain(f) ==
    LET isRaw(i) == f[i].k = "31" /\ (i = Len(f) \/ f[i + 1].k # "139")
    IN  FlattenSeq([i \in DOMAIN f |->
            IF f[i].k \in {"z", "raw"} \/ isRaw(i) THEN f[i].b ELSE <<>>])

\* The byte before position p; "c" is what the user pushes back where the file
\* has none.
Byte(p) == IF p \in DOMAIN Plain(file) THEN Plain(file)[p] ELSE "c"
Agrees(p, bytes) == \A i \in DOMAIN bytes : bytes[i] = Byte(p + i)

FirstN(s, n) == SubSeq(s, 1, n)
Without(s, n) == SubSeq(s, n + 1, Len(s))
Least(a, b)  == IF a < b THEN a ELSE b

-----------------------------------------------------------------------------
(* The handle *)

\* gz_reset; a pending seek is a skip that is not zero.
Reset(g) ==
    [g EXCEPT !.out = <<>>, !.eof = FALSE, !.how = "LOOK", !.direct = TRUE, !.skip = 0,
              !.err = "ok", !.pos = 0, !.inb = <<>>]

\* gz_open, and gzbuffer
Opened(mode, want) ==
    Reset([mode |-> mode, want |-> want, size |-> 0, out |-> <<>>, eof |-> FALSE, how |-> "LOOK", direct |-> TRUE,
           skip |-> 0, err |-> "ok", pos |-> 0, inb |-> <<>>, fpos |-> 0, raw |-> 0, fails |-> FALSE,
           pend |-> <<>>, done |-> FALSE, begun |-> FALSE])

Failed(g, e) == [g EXCEPT !.err = e]
Ready(mode)  == gz.mode = mode /\ gz.err = "ok" /\ call.op = "idle"
Return(r)    == call' = [op |-> "idle", len |-> 0, ret |-> r]
Note(what)   == ghost' = ghost \cup what
Silent       == UNCHANGED <<file, rest, written>>

-----------------------------------------------------------------------------
(* Reading: gzread.c *)

\* gz_load, of n bytes: [g, got]
Load(g, n) ==
    LET take == IF g.fpos >= Len(file) THEN 0 ELSE Least(n, Len(file) - g.fpos)
    IN  IF g.fails THEN [g |-> [Failed(g, "errno") EXCEPT !.fails = FALSE], got |-> <<>>]
        ELSE [g |-> [g EXCEPT !.fpos = @ + take, !.eof = @ \/ take < n],
              got |-> SubSeq(file, g.fpos + 1, g.fpos + take)]

\* gz_avail, when the input buffer is empty
Buffered(l) == [l.g EXCEPT !.inb = l.got]
Avail(g) == IF g.inb # <<>> \/ g.err # "ok" \/ g.eof THEN g ELSE Buffered(Load(g, g.size))

Drop(g) == [g EXCEPT !.inb = Tail(@)]
Sees(g, k) == g.inb # <<>> /\ g.inb[1].k = k

Contents(units) == FlattenSeq([i \in DOMAIN units |-> units[i].b])

\* The end of gz_head: direct copying, of what was read already.
Raw(g, first) ==
    [g EXCEPT !.raw = g.pos, !.out = first \o Contents(g.inb),
              !.inb = <<>>, !.how = "COPY", !.direct = TRUE]

\* After the magic bytes.  That the rest of the header is missing is not
\* noticed, unless the method or the flags are.
Expecting(hd) == [(IF Sees(hd, "hd") THEN Drop(hd) ELSE hd)
                     EXCEPT !.how = "GZIP", !.direct = FALSE, !.pend = <<>>, !.done = FALSE]
GzHeader(cm) == IF Sees(cm, "cm") THEN Expecting(Avail(Drop(cm))) ELSE Failed(cm, "data")

\* gz_head: one byte of the magic, and the other
SecondByte(b) == IF b.err # "ok" THEN b
             ELSE IF Sees(b, "139") THEN GzHeader(Avail(Drop(b)))
             ELSE Raw(b, Magic.b)
FirstByte(a) == IF a.err # "ok" \/ a.inb = <<>> THEN a
            ELSE IF Sees(a, "31") THEN SecondByte(Avail(Drop(a)))
            ELSE Raw(a, <<>>)
GzHead(g) == FirstByte(Avail([g EXCEPT !.size = g.want]))

\* inflate takes a unit when nothing of the last one is pending.
Take(s, u) ==
    IF s.stop \/ s.g.pend # <<>> THEN [s EXCEPT !.stop = TRUE]
    ELSE LET n == Least(Len(u.b), s.room - Len(s.made))
         IN  IF s.g.done THEN [s EXCEPT !.stop = TRUE]
             ELSE CASE u.k = "end" -> [s EXCEPT !.g = [Drop(@) EXCEPT !.done = TRUE]]
                    [] u.k = "z"   -> [s EXCEPT !.g = [Drop(@) EXCEPT !.pend = Without(u.b, n)],
                                                !.made = @ \o FirstN(u.b, n)]
                    [] OTHER       -> [s EXCEPT !.stop = TRUE, !.g = Failed(@, "data")]

Inflate(g, made, room) ==
    LET n == Least(Len(g.pend), room - Len(made))
        s == [g |-> [g EXCEPT !.pend = Without(@, n)], made |-> made \o FirstN(g.pend, n),
              room |-> room, stop |-> FALSE]
    IN  FoldLeft(Take, s, g.inb)

\* The trailer, by gz_next4 twice.
Trailer(a) ==
    IF Sees(a, "tr") THEN [Drop(a) EXCEPT !.how = "LOOK"]
    ELSE Failed(IF a.inb = <<>> THEN a ELSE Drop(a), "data")

\* gz_decomp: its loop, as often as the input buffer may have to be filled;
\* what a failing one has made is lost.
Turn(s, a) ==
    IF a.err # "ok" THEN [s EXCEPT !.g = a]
    ELSE IF a.inb = <<>> THEN [s EXCEPT !.g = Failed(a, "data")]
    ELSE Inflate(a, s.made, s.room)
Round(s, i) ==
    IF s.g.err # "ok" \/ (i > 1 /\ (Len(s.made) = s.room \/ s.g.done)) THEN s ELSE Turn(s, Avail(s.g))

Ended(s) ==
    [g    |-> IF s.g.err = "ok" /\ s.g.done THEN Trailer(Avail(s.g)) ELSE s.g,
     made |-> IF s.g.err = "ok" THEN s.made ELSE <<>>]
GzDecomp(g, room) ==
    Ended(FoldLeft(Round, [g |-> g, made |-> <<>>, room |-> room, stop |-> FALSE], [i \in 1 .. Len(file) |-> i]))

\* Direct copying
Copied(l) == [g |-> l.g, made |-> Contents(l.got)]
Produce(g, n) == IF g.how = "COPY" THEN Copied(Load(g, n)) ELSE GzDecomp(g, n)

\* gz_make
Held(r) == [r.g EXCEPT !.out = r.made]
Make(h) == IF h.err # "ok" \/ h.out # <<>> \/ h.how = "LOOK" THEN h ELSE Held(Produce(h, 2 * h.size))
GzMake(g) == Make(IF g.how = "LOOK" THEN GzHead(g) ELSE g)

AtEndTooSoon(g) == g.eof
AtEnd(g)    == g.eof /\ g.inb = <<>>
Consumed(g, n) == [g EXCEPT !.out = Without(@, n), !.pos = @ + n]

\* A failing call returns -1 and its data stay where they are.
Continue(g) ==
    /\ gz' = g /\ UNCHANGED ghost
    /\ IF g.err = "ok" THEN UNCHANGED call ELSE Return("error")

\* gz_skip, for a seek that is pending when a call begins.
Skip ==
    /\ call.op \in {"read", "gets", "unget"} /\ gz.mode = "r" /\ gz.skip > 0 /\ Silent
    /\ \/ \E n \in {Least(Len(gz.out), gz.skip)} :
             gz.out # <<>> /\ Continue([Consumed(gz, n) EXCEPT !.skip = @ - n])
       \/ gz.out = <<>> /\ AtEnd(gz) /\ Continue([gz EXCEPT !.skip = 0])
       \/ /\ gz.out = <<>> /\ ~AtEnd(gz)
          /\ \E m \in {GzMake(gz)} : Continue(IF m.err = "ok" THEN m ELSE [m EXCEPT !.skip = 0])

\* The user gets these bytes, of which the call returns when it has enough.
Deliver(g, bytes, enough) ==
    /\ gz' = [g EXCEPT !.pos = @ + Len(bytes)]
    /\ Note(IF Agrees(gz.pos, bytes) THEN {} ELSE {"wrong"})
    /\ IF enough THEN Return("full")
       ELSE call' = [call EXCEPT !.len = @ - Len(bytes)]

\* gzread: from the output buffer, or over it, or straight into the user's
\* buffer, where what precedes a wrong trailer stays undelivered.
Read ==
    /\ call.op = "read" /\ gz.skip = 0 /\ Silent
    /\ \/ \E n \in {Least(Len(gz.out), call.len)} :
             gz.out # <<>> /\ Deliver([gz EXCEPT !.out = Without(@, n)], FirstN(gz.out, n), n = call.len)
       \/ gz.out = <<>> /\ AtEnd(gz) /\ Return("short") /\ UNCHANGED <<gz, ghost>>
       \/ /\ gz.out = <<>> /\ ~AtEnd(gz)
          /\ IF gz.how = "LOOK" \/ call.len < 2 * gz.size THEN Continue(GzMake(gz))
             ELSE \E r \in {Produce(gz, call.len)} :
                    IF r.g.err # "ok" THEN Continue(Held(r))
                    ELSE Deliver(r.g, r.made, Len(r.made) = call.len)

\* gzgets: data that gz_make does not bring are the end of the file.
Gets ==
    /\ call.op = "gets" /\ gz.skip = 0 /\ Silent
    /\ \/ /\ gz.out # <<>>
          /\ LET n == Least(Len(gz.out), call.len)
                 Eol == {i \in 1 .. n : gz.out[i] = "nl"}
             IN  \E k \in {IF Eol = {} THEN n ELSE Min(Eol)} :
                    Deliver([gz EXCEPT !.out = Without(@, k)], FirstN(gz.out, k), k = call.len \/ Eol # {})
       \/ /\ gz.out = <<>>
          /\ \E m \in {GzMake(gz)} :
                IF m.err # "ok" \/ m.out # <<>> THEN Continue(m)
                ELSE /\ gz' = m /\ Return("short")
                     /\ Note(IF m.how = "LOOK" /\ ~AtEnd(m) THEN {"emptyMember"} ELSE {})

\* gzungetc
Unget ==
    /\ call.op = "unget" /\ gz.skip = 0 /\ Silent /\ UNCHANGED ghost
    /\ IF Len(gz.out) = 2 * gz.size THEN gz' = Failed(gz, "buf") /\ Return("error")
       ELSE gz' = [gz EXCEPT !.out = <<Byte(gz.pos)>> \o @, !.pos = @ - 1] /\ Return("full")

\* gzgetc takes what is in the output buffer without a look at a pending seek,
\* and otherwise is a gzread of one.
Getc ==
    /\ Ready("r") /\ gz.out # <<>> /\ Silent /\ Return("full")
    /\ gz' = Consumed(gz, 1)
    /\ Note((IF gz.skip > 0 THEN {"seekPassed"} ELSE {})
            \cup (IF Agrees(gz.pos, FirstN(gz.out, 1)) THEN {} ELSE {"wrong"}))

\* Calls.  Nothing is pushed back before the first
\* read, when there is no buffer yet.
Call ==
    /\ Ready("r") /\ Silent /\ UNCHANGED <<gz, ghost>>
    /\ \E op \in {"read", "gets", "unget"}, n \in Lens :
          /\ op = "unget" => gz.size > 0 /\ gz.pos >= 0
          /\ call' = [op |-> op, len |-> n, ret |-> "none"]

\* gzdirect looks for the header, whatever else is pending.
Direct ==
    /\ gz.mode = "r" /\ call.op = "idle" /\ gz.err # "closed" /\ gz.how = "LOOK" /\ gz.out = <<>>
    /\ gz' = GzHead(gz) /\ Silent /\ Return("direct")
    /\ Note(IF gz.skip > 0 THEN {"directOnSeek"} ELSE {})

\* gzclearerr
Clearerr ==
    /\ gz.err # "closed" /\ call.op = "idle"
    /\ gz' = [gz EXCEPT !.eof = FALSE, !.err = "ok"]
    /\ Return("none") /\ Silent /\ Note(IF gz.err = "ok" THEN {} ELSE {"cleared"})

\* gzrewind
Rewind == Ready("r") /\ gz' = [Reset(gz) EXCEPT !.fpos = 0] /\ Return("none") /\ Silent /\ UNCHANGED ghost

\* gzseek64 within the raw area: the file's own position is ahead of ours by
\* what is in the output buffer.
SeekRaw(g, offset) ==
    [g EXCEPT !.fpos = @ + offset - Len(g.out), !.out = <<>>, !.eof = FALSE, !.inb = <<>>,
              !.pos = @ + offset]

\* gzseek64 when the file is read otherwise
SeekRead(g, offset) ==
    LET r == IF offset < 0 THEN [Reset(g) EXCEPT !.fpos = 0] ELSE g
        o == IF offset < 0 THEN offset + g.pos ELSE offset
        n == Least(Len(r.out), o)
    IN  [Consumed(r, n) EXCEPT !.skip = o - n]

\* gzseek64 to a position; SEEK_CUR, which counts from where a pending seek
\* leads, comes to the same.
Seek ==
    /\ Ready(gz.mode) /\ Silent /\ UNCHANGED ghost
    /\ \E to \in 0 .. MaxPos :
          LET offset == to - gz.pos
              g == [gz EXCEPT !.skip = 0]
          IN  IF gz.mode = "r" /\ gz.how = "COPY" /\ gz.pos + offset >= gz.raw
              THEN gz' = SeekRaw(g, offset) /\ Return("none")
              ELSE IF gz.mode = "w"
              THEN IF offset < 0 THEN gz' = g /\ Return("refused")
                   ELSE gz' = [g EXCEPT !.skip = offset] /\ Return("none")
              ELSE gz' = SeekRead(g, offset) /\ Return("none")

-----------------------------------------------------------------------------
(* Writing: gzwrite.c.  inb holds the input buffer's bytes, pend what        *)
(* deflate has taken, out the units that are not written yet.  Operators     *)
(* take and give the handle with the file, s.g and s.f; -1 is an error in g. *)

Good(s) == s.g.err = "ok"
Then(outcomes, Op(_)) == UNION {IF Good(s) THEN Op(s) ELSE {s} : s \in outcomes}

\* gz_comp.  deflate keeps what it likes unless it is flushed; the buffer is
\* written when it is full or flushed, and stays as it is when write fails.
Comp(s, flush) ==
    LET g    == s.g
        i    == [g EXCEPT !.size = g.want, !.begun = flush # "finish", !.inb = <<>>]
        all  == g.pend \o g.inb
        head == IF g.begun THEN <<>> ELSE Header
        Made(k) == g.out \o head \o (IF k = 0 THEN <<>> ELSE <<Unit("z", FirstN(all, k))>>)
        units   == Made(Len(all)) \o (IF flush = "finish" THEN End ELSE <<>>)
        Taken(k, units0, f) == [g |-> [i EXCEPT !.pend = Without(all, k), !.out = units0], f |-> f]
        Short(k) == [g |-> Failed([i EXCEPT !.out = units, !.pend = <<>>, !.fails = FALSE], "errno"),
                     f |-> s.f \o FirstN(units, k)]
        Kept(k) == Taken(k, Made(k), s.f)
        Some    == {0, Len(all) \div 2, Len(all)}
    IN  (IF flush = "no" THEN {Kept(k) : k \in Some} ELSE {})
        \cup (IF g.fails /\ units # <<>> THEN {Short(0), Short(1)}
              ELSE IF flush = "no" THEN {Taken(k, <<>>, s.f \o Made(k)) : k \in Some}
              ELSE {Taken(Len(all), <<>>, s.f \o units)})

\* "consume whatever's left in the input buffer"
Drained(s) == IF s.g.inb = <<>> THEN {s} ELSE Comp(s, "no")

\* gz_zero, if a seek is pending.  Without a buffer the zeros are not set: the
\* first round of its loop is one of none.
Zero(s) ==
    LET n == s.g.skip
        zeros == [i \in 1 .. n |-> IF s.g.size = 0 THEN "?" ELSE "0"]
        Zeros(q) == Comp([q EXCEPT !.g = [@ EXCEPT !.inb = zeros, !.pos = @ + n]], "no")
    IN  IF n = 0 THEN {s} ELSE Then(Drained([s EXCEPT !.g.skip = 0]), Zeros)

Initialized(s) == [s EXCEPT !.g.size = s.g.want]      \* gz_init
Put(s, bytes)  == [s EXCEPT !.g = [@ EXCEPT !.inb = @ \o bytes, !.pos = @ + Len(bytes)]]

\* gzwrite: less than a buffer goes to the input buffer, which is compressed
\* when there is more; a whole one is compressed at once.
GzWrite(s, bytes) ==
    LET n == Least(s.g.size - Len(s.g.inb), Len(bytes))
        More(r) == {Put(r, Without(bytes, n))}
        All(r)  == Comp(Put(r, bytes), "no")
    IN  IF Len(bytes) >= s.g.size THEN Then(Drained(s), All)
        ELSE IF n = Len(bytes) THEN {Put(s, bytes)}
        ELSE Then(Comp(Put(s, FirstN(bytes, n)), "no"), More)

\* gzputc: a buffer that does not exist has no room.
GzPutc(s, bytes) ==
    IF Len(s.g.inb) < s.g.size THEN {Put(s, bytes)} ELSE GzWrite(Initialized(s), bytes)

\* gzprintf: the input buffer is compressed first, and then holds the result,
\* unless that has no room in it.
GzPrintf(s, bytes) ==
    LET Printed(r) == {IF Len(bytes) >= r.g.size THEN r ELSE Put(r, bytes)}
    IN  Then(Drained(s), Printed)

\* The user's calls; each deals with a pending seek first.
Bytes(n)  == [i \in 1 .. n |-> IF (Len(written) + i) % 2 = 0 THEN "a" ELSE "b"]
Results(op, n) ==
    LET s == [g |-> gz, f |-> file]
        Do(r) == CASE op = "write"  -> GzWrite(r, Bytes(n))
                   [] op = "putc"   -> GzPutc(r, Bytes(1))
                   [] op = "printf" -> GzPrintf(r, Bytes(n))
                   [] op = "flush"  -> Comp(r, "sync")
                   [] op = "finish" -> Comp(r, "finish")
                   [] op = "params" -> IF r.g.size = 0 \/ r.g.inb = <<>> THEN {r} ELSE Comp(r, "sync")
    IN  Then(Zero(IF op \in {"write", "printf"} THEN Initialized(s) ELSE s), Do)

Given(op, n) ==
    CASE op = "write" \/ (op = "printf" /\ n < gz.want) -> Bytes(n)
      [] op = "putc" -> Bytes(1)
      [] OTHER       -> <<>>

WriteCall ==
    /\ Ready("w") /\ UNCHANGED rest
    /\ \E op \in {"write", "putc", "printf", "flush", "finish", "params"}, n \in Lens :
          /\ gz.pos + gz.skip + n <= MaxPos /\ Len(file) + Len(gz.out) < MaxUnits
          /\ \E r \in Results(op, n) :
                /\ gz' = r.g /\ file' = r.f
                /\ IF Good(r) THEN Return("full") /\ UNCHANGED ghost
                   ELSE Return("error") /\ Note({"failed"})
                /\ written' = written \o [i \in 1 .. gz.skip |-> "0"] \o Given(op, n)

CloseForgetsSeek == {[g |-> [gz EXCEPT !.skip = 0], f |-> file]}
\* What gzclose_w does with a pending seek
ClosingSeek == Zero([g |-> gz, f |-> file])

\* gzclose_r and gzclose_w, which goes on after an error.
Close ==
    /\ call.op = "idle" /\ gz.err # "closed" /\ UNCHANGED rest
    /\ gz' = Failed(gz, "closed")
    /\ IF gz.mode = "r" THEN Return("none") /\ UNCHANGED <<file, written, ghost>>
       ELSE \E z \in ClosingSeek : \E r \in Comp(z, "finish") :
              /\ file' = r.f /\ written' = written \o [i \in 1 .. gz.skip |-> "0"]
              /\ IF Good(r) /\ Good(z) THEN Return("closed") /\ UNCHANGED ghost
                 ELSE Return("error") /\ Note({"failed"})

-----------------------------------------------------------------------------
\* The next read or write will fail; another process appends to the file.
WillFail ==
    /\ ~gz.fails /\ call.op = "idle" /\ "fault" \notin ghost /\ MaxFailures > 0
    /\ gz' = [gz EXCEPT !.fails = TRUE] /\ Note({"fault"}) /\ UNCHANGED <<file, rest, call, written>>

Grow ==
    /\ rest # <<>> /\ call.op = "idle"
    /\ file' = file \o rest /\ rest' = <<>>
    /\ Return("none") /\ Note(IF gz.fpos < Len(file) THEN {} ELSE {"grown"})
    /\ UNCHANGED <<gz, written>>

Init ==
    /\ \E f \in Files, k \in {0, 2} :
          k <= Len(f) /\ file = FirstN(f, Len(f) - k) /\ rest = Without(f, Len(f) - k)
    /\ \E want \in Wants : gz = Opened(IF file \o rest = <<>> THEN "w" ELSE "r", want)
    /\ call = [op |-> "idle", len |-> 0, ret |-> "none"]
    /\ written = <<>> /\ ghost = {}

Next ==
    \/ Call \/ Skip \/ Read \/ Getc \/ Gets \/ Unget \/ Direct \/ Clearerr \/ Rewind \/ Seek
    \/ WriteCall \/ Close \/ WillFail \/ Grow

Spec == Init /\ [][Next]_gzvars

-----------------------------------------------------------------------------
(* Properties *)

\* Whatever is read, sought, pushed back and read again, in whatever pieces the
\* buffers allow: the bytes that the user gets, and those that wait in the
\* output buffer, are those of the file's contents at the position that the
\* handle has, as long as no error was cleared and the file did not grow after
\* it was read to its end.  gzgetc passes over no pending seek, unless
\* gzdirect filled the output buffer meanwhile.
DeliversContents ==
    gz.mode = "r" /\ ghost \cap {"cleared", "grown"} = {} =>
        /\ "wrong" \notin ghost /\ (gz.err # "closed" => Agrees(gz.pos, gz.out))
        /\ "seekPassed" \in ghost => "directOnSeek" \in ghost

\* A call that comes back short without an error is at the end of the file's
\* contents: unless the file ends within a gzip stream, or gzgets met a stream
\* without contents.
ShortMeansEnd ==
    gz.mode = "r" /\ call.ret = "short" /\ ghost \cap {"cleared", "grown", "emptyMember"} = {} =>
        gz.pos >= Len(Plain(file)) \/ (file # <<>> /\ Last(file).k \notin {"tr", "raw", "31"})

\* When every call and gzclose succeeded, what is in the file is what was
\* written, with zeros where the user sought ahead; only if that came before
\* all writing is it whatever the memory held.
ClosedIsComplete ==
    call.ret = "closed" /\ "failed" \notin ghost =>
        LET f == Plain(file)
        IN  /\ Len(f) = Len(written)
            /\ \A i \in DOMAIN f : f[i] = written[i] \/ (f[i] = "?" /\ written[i] = "0")
=============================================================================
