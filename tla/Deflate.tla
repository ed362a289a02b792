------------------------------- MODULE Deflate -------------------------------
(***************************************************************************)
(* deflate() (win32port/zlib/deflate.c): how input goes through a sliding  *)
(* window of twice w_size, hash chains find matches in it, and blocks of   *)
(* literals and matches leave as the caller makes room.                    *)
(*                                                                         *)
(* A block counts as two units of output, so that it may leave in part; a  *)
(* header, a trailer and an empty block count as one.  trees.c only        *)
(* decides whether a block leaves as it was found in the window (stored)   *)
(* or as literals and matches.                                             *)
(***************************************************************************)
EXTENDS Integers, Sequences, FiniteSets, SequencesExt

CONSTANTS Inputs,       \* the inputs to compress, sequences over Bytes
          Bytes,        \* the bytes that occur
          Funcs,        \* ways to compress: stored, fast, slow, rle, huff
          WSize,        \* w_size
          MaxMatch,     \* MAX_MATCH (258)
          LitBuf,       \* lit_bufsize
          MaxBlock,     \* the longest stored block (max_block_size)
          MaxChain, GoodMatch, NiceMatch, MaxLazy, TooFar,  \* configuration_table
          Gives, Rooms, \* input and room that the caller offers in a call
          MaxCalls      \* bound: calls

VARIABLES ds,           \* struct deflate_state and the stream's counters
          sent,         \* the blocks that left, decoded
          input         \* the whole input

defvars == <<ds, sent, input>>

MinMatch == 3
MinLookahead == MaxMatch + MinMatch + 1
MaxDist == WSize - MinLookahead
Rank(flush) == CASE flush = "none" -> 0 [] flush = "sync" -> 2 [] flush = "full" -> 3
                 [] flush = "finish" -> 4 [] flush = "block" -> 5
Keys == [1 .. 3 -> Bytes \cup {0}]

\* deflateInit2_, deflateReset, lm_init.  What was never written to the window
\* reads as zero (high_water).
Init ==
    /\ input \in Inputs /\ sent = <<>>
    /\ ds \in [func : Funcs, wrap : BOOLEAN, pc : {"idle"}, status : {"init"}, lastFlush : {0}, flush : {"none"},
               window : {[i \in 0 .. 2 * WSize - 1 |-> 0]}, head : {[k \in Keys |-> 0]},
               prev : {[i \in 0 .. WSize - 1 |-> 0]}, insh : {<<0, 0, 0>>},
               strstart : {0}, start : {0}, look : {0}, mlen : {MinMatch - 1}, mstart : {0},
               plen : {MinMatch - 1}, avail : {FALSE}, tokens : {<<>>}, pending : {<<>>},
               fed : {0}, in : {0}, room : {0}, ret : {"none"}, then : {"none"}, calls : {0}, torn : {FALSE}]

-----------------------------------------------------------------------------
(* Output *)

\* What a block's literals and matches stand for, after what came before it
Expand(s, before) ==
    FoldLeft(LAMBDA o, t : IF t.dist = 0 THEN Append(o, t.lc)
                           ELSE o \o [i \in 1 .. t.lc |-> o[Len(o) - t.dist + ((i - 1) % t.dist) + 1]],
             before, s.tokens)

\* flush_pending
FlushPending(s) ==
    LET n == IF Len(s.pending) > s.room THEN s.room ELSE Len(s.pending)
    IN  [s EXCEPT !.pending = SubSeq(@, n + 1, Len(@)), !.room = @ - n]
Put(s, unit) == [s EXCEPT !.pending = Append(@, unit)]

\* FLUSH_BLOCK_ONLY: stored blocks are copied from the window, if they are
\* still there.
FlushBlockOnly(s) == FlushPending([Put(Put(s, "block"), "block") EXCEPT !.start = s.strstart, !.tokens = <<>>])
Stores(s) == IF s.start < 0 THEN {FALSE} ELSE IF s.func = "stored" THEN {TRUE} ELSE BOOLEAN
BlockBytes(s, stored) ==
    IF stored THEN sent \o [i \in 1 .. s.strstart - s.start |-> s.window[s.start + i - 1]]
    ELSE Expand(s, sent)

Tally(s, dist, lc) == [s EXCEPT !.tokens = Append(@, [dist |-> dist, lc |-> lc])]
\* deflate_stored puts a block out before the slide can reach it.
IsFull(s) == IF s.func = "stored" THEN s.strstart - s.start >= MaxBlock \/ s.strstart - s.start >= MaxDist
             ELSE Len(s.tokens) = LitBuf - 1

-----------------------------------------------------------------------------
(* Input *)

SlideKeepsStart(s) ==
    LET down(p) == IF p >= WSize THEN p - WSize ELSE 0
    IN  [s EXCEPT !.window = [i \in DOMAIN @ |-> IF i < WSize THEN @[i + WSize] ELSE @[i]],
                  !.mstart = @ - WSize, !.strstart = @ - WSize,
                  !.head = [k \in DOMAIN @ |-> down(@[k])], !.prev = [i \in DOMAIN @ |-> down(@[i])]]

\* The upper half of the window moves to the lower one.
Slide(s) ==
    LET down(p) == IF p >= WSize THEN p - WSize ELSE 0
    IN  [s EXCEPT !.window = [i \in DOMAIN @ |-> IF i < WSize THEN @[i + WSize] ELSE @[i]],
                  !.mstart = @ - WSize, !.strstart = @ - WSize, !.start = @ - WSize,
                  !.head = [k \in DOMAIN @ |-> down(@[k])], !.prev = [i \in DOMAIN @ |-> down(@[i])]]

\* read_buf, and the hash of the next two bytes.
ReadBuf(s) ==
    LET more == 2 * WSize - s.look - s.strstart
        n == IF s.in > more THEN more ELSE s.in
        at == s.strstart + s.look
        r == [s EXCEPT !.window = [i \in DOMAIN @ |-> IF i \in at .. at + n - 1 THEN input[s.fed + i - at + 1]
                                                      ELSE @[i]],
                       !.look = @ + n, !.fed = @ + n, !.in = @ - n]
    IN  IF r.look >= MinMatch
        THEN [r EXCEPT !.insh = <<0, r.window[r.strstart], r.window[r.strstart + 1]>>] ELSE r

\* fill_window.  With 32 bits its loop runs once.
FillWindow(s) ==
    LET t == IF s.strstart >= WSize + MaxDist THEN Slide(s) ELSE s
    IN  IF s.in = 0 THEN t ELSE ReadBuf(t)

-----------------------------------------------------------------------------
(* Matches *)

\* INSERT_STRING; the head of the chain before is prev of the string.
Insert(s, str) ==
    LET h == <<s.insh[2], s.insh[3], s.window[str + 2]>>
    IN  [s EXCEPT !.insh = h, !.prev[str % WSize] = s.head[h], !.head[h] = str]
InsertAll(s, first, last) == FoldLeft(Insert, s, [i \in 1 .. last - first + 1 |-> first + i - 1])
Found(s) == IF s.look >= MinMatch THEN Insert(s, s.strstart) ELSE s
HashHead(s, t) == IF s.look >= MinMatch THEN t.prev[s.strstart % WSize] ELSE 0

\* How far the strings at p and strstart agree; their third bytes are not
\* compared, since they have the same hash.
Agree(s, p, best) ==
    LET w == s.window
        q == s.strstart
        same(j) == w[p + j] = w[q + j]
    IN  IF ~(same(best) /\ same(best - 1) /\ same(0) /\ same(1)) THEN 0
        ELSE CHOOSE n \in 3 .. MaxMatch : /\ \A j \in 3 .. n - 1 : same(j)
                                          /\ n = MaxMatch \/ ~same(n)

\* longest_match: along the chain, past the last bytes of the input, but no
\* longer than what there is.
LongestMatch(s, first) ==
    LET limit == IF s.strstart > MaxDist THEN s.strstart - MaxDist ELSE 0
        nice == IF NiceMatch > s.look THEN s.look ELSE NiceMatch
        chain == IF s.plen >= GoodMatch THEN MaxChain \div 4 ELSE MaxChain
        look(m, n, next) ==
            [best |-> IF n > m.best THEN n ELSE m.best, start |-> IF n > m.best THEN m.cur ELSE m.start,
             cur |-> next, on |-> ~(n > m.best /\ n >= nice) /\ next > limit]
        step(m, i) == IF ~m.on THEN m ELSE look(m, Agree(s, m.cur, m.best), s.prev[m.cur % WSize])
        result(m) == [s EXCEPT !.mlen = IF m.best <= s.look THEN m.best ELSE s.look, !.mstart = m.start]
    IN  result(FoldLeft(step, [cur |-> first, best |-> s.plen, start |-> s.mstart, on |-> TRUE],
                        [i \in 1 .. chain |-> i]))

Near(s, head) == head # 0 /\ s.strstart - head <= MaxDist
\* A literal
Literal(s) == [Tally(s, 0, s.window[s.strstart]) EXCEPT !.look = @ - 1, !.strstart = @ + 1]

-----------------------------------------------------------------------------
(* One turn of each loop; the lookahead is there. *)

\* deflate_fast
FastMatch(t, h) == IF Near(t, h) THEN LongestMatch(t, h) ELSE t
FastTake(m) ==
    LET u == [Tally(m, m.strstart - m.mstart, m.mlen) EXCEPT !.look = @ - m.mlen, !.mlen = 0]
        end == m.strstart + m.mlen
    IN  IF m.mlen < MinMatch THEN Literal(m)
        ELSE IF m.mlen <= MaxLazy /\ u.look >= MinMatch
             THEN [InsertAll(u, m.strstart + 1, end - 1) EXCEPT !.strstart = end]
             ELSE [u EXCEPT !.strstart = end, !.insh = <<0, m.window[end], m.window[end + 1]>>]
FastTurn(s) == FastTake(FastMatch(Found(s), HashHead(s, Found(s))))

\* deflate_slow: a short match far away is worse than literals; the match of
\* the position before is taken unless this one's is longer.
SlowMatch(p, h) == IF Near(p, h) /\ p.plen < MaxLazy THEN LongestMatch(p, h) ELSE p
Worth(l) == IF l.mlen = MinMatch /\ l.strstart - l.mstart > TooFar THEN [l EXCEPT !.mlen = MinMatch - 1] ELSE l
SlowTake(s, m) ==
    LET end == s.strstart - 1 + m.plen
        top == s.strstart + s.look - MinMatch
        last == IF end - 1 < top THEN end - 1 ELSE top
        taken == [Tally(m, m.strstart - 1 - s.mstart, m.plen) EXCEPT !.look = @ - (m.plen - 1)]
        lit == IF m.avail THEN Tally(m, 0, m.window[m.strstart - 1]) ELSE m
    IN  IF m.plen >= MinMatch /\ m.mlen <= m.plen
        THEN [InsertAll(taken, s.strstart + 1, last) EXCEPT !.strstart = end, !.plen = 0, !.avail = FALSE,
                                                            !.mlen = MinMatch - 1]
        ELSE [lit EXCEPT !.avail = TRUE, !.strstart = @ + 1, !.look = @ - 1]
SlowTurn(s) ==
    SlowTake(s, Worth(SlowMatch([Found(s) EXCEPT !.plen = s.mlen, !.mlen = MinMatch - 1], HashHead(s, Found(s)))))

\* deflate_rle
RleTurn(s) ==
    LET w == s.window
        q == s.strstart
        run == CHOOSE n \in 0 .. MaxMatch : /\ \A j \in 0 .. n - 1 : w[q + j] = w[q - 1]
                                            /\ n = MaxMatch \/ w[q + n] # w[q - 1]
        n == IF s.look >= MinMatch /\ q > 0 /\ run >= MinMatch THEN IF run > s.look THEN s.look ELSE run ELSE 0
    IN  IF n >= MinMatch THEN [Tally(s, 1, n) EXCEPT !.look = @ - n, !.strstart = @ + n, !.mlen = 0]
        ELSE [Literal(s) EXCEPT !.mlen = 0]

\* deflate_huff
HuffTurn(s) == [Literal(s) EXCEPT !.mlen = 0]

Turn(s) == CASE s.func = "fast" -> FastTurn(s) [] s.func = "slow" -> SlowTurn(s)
             [] s.func = "rle" -> RleTurn(s)   [] s.func = "huff" -> HuffTurn(s)

\* deflate_stored takes all there is, up to a block's size; then a block that
\* may be reached by the slide leaves.
StoredTurn(s) ==
    LET all == s.strstart + s.look
        max == s.start + MaxBlock
    IN  IF all >= max THEN [s EXCEPT !.strstart = max, !.look = all - max]
        ELSE [s EXCEPT !.strstart = all, !.look = 0]

FillBelow(f) == CASE f = "stored" -> 2 [] f = "huff" -> 1 [] f = "rle" -> MaxMatch [] OTHER -> MinLookahead
MoreBelow(f) == IF f = "stored" THEN 1 ELSE FillBelow(f)

-----------------------------------------------------------------------------
(* deflate() *)

\* deflateParams changes the level when the call that it made returns, with
\* whatever result.
Return(s, ret) ==
    [s EXCEPT !.pc = "idle", !.ret = ret, !.in = 0, !.then = "none",
              !.func = IF s.then = "none" THEN @ ELSE s.then,
              !.torn = @ \/ (s.then \notin {"none", "slow"} /\ s.func = "slow" /\ s.avail)]
Choked(s) == [Return(s, "OK") EXCEPT !.lastFlush = -1]

\* After the loop: trailer and result.
Trailer(s) ==
    LET t == FlushPending(Put(s, "trailer"))
    IN  CASE s.flush # "finish" -> Return(s, "OK")
          [] s.flush = "finish" /\ ~s.wrap -> Return(s, "STREAM_END")
          [] OTHER -> [Return(t, IF t.pending = <<>> THEN "STREAM_END" ELSE "OK") EXCEPT !.wrap = FALSE]

BlockDoneUnflushed(s) == Trailer(IF s.flush = "block" THEN s ELSE Put(s, "empty"))

\* A flush that is not a finish ends with an empty block; a full one forgets.
BlockDone(s) ==
    LET e == IF s.flush = "block" THEN s ELSE Put(s, "empty")
        f == IF s.flush # "full" THEN e
             ELSE [e EXCEPT !.head = [k \in Keys |-> 0],
                            !.strstart = IF s.look = 0 THEN 0 ELSE @, !.start = IF s.look = 0 THEN 0 ELSE @]
        g == FlushPending(f)
    IN  IF g.room = 0 THEN Choked(g) ELSE Trailer(g)

NeedMore(s) == IF s.room = 0 THEN Choked(s) ELSE Return(s, "OK")

\* The caller, or deflateParams, calls deflate().
Enter(s) ==
    LET h == IF s.status # "init" THEN s ELSE [IF s.wrap THEN Put(s, "header") ELSE s EXCEPT !.status = "busy"]
        f == FlushPending(h)
        idle == s.in = 0 /\ Rank(s.flush) <= s.lastFlush /\ s.flush # "finish"
        n == [f EXCEPT !.lastFlush = Rank(s.flush)]
    IN  IF h.pending # <<>> /\ f.room = 0 THEN Choked(n)
        ELSE IF h.pending = <<>> /\ idle THEN Return(n, "BUF_ERROR")
        ELSE IF s.status = "finish" /\ s.in # 0 THEN Return(n, "BUF_ERROR")
        ELSE IF s.in # 0 \/ s.look # 0 \/ (s.flush # "none" /\ s.status # "finish") THEN [n EXCEPT !.pc = "loop"]
        ELSE Trailer(n)

Call ==
    /\ ds.pc = "idle" /\ ds.ret # "STREAM_END" /\ ds.calls < MaxCalls
    /\ \E give \in Gives, room \in Rooms, flush \in {"none", "sync", "full", "finish"} :
          LET left == Len(input) - ds.fed
              n == IF give > left THEN left ELSE give
          IN  /\ ds.status = "finish" => flush = "finish" /\ n = 0
              /\ flush = "finish" => n = left
              /\ ds' = Enter([ds EXCEPT !.in = n, !.room = room, !.flush = flush, !.calls = @ + 1])
    /\ UNCHANGED <<sent, input>>

\* deflateParams; what was taken so far, if anything, is flushed under the
\* old level.
Params ==
    /\ ds.pc = "idle" /\ ds.status # "finish" /\ ds.calls < MaxCalls
    /\ \E f \in Funcs \ {ds.func}, room \in Rooms :
          ds' = IF ds.fed = 0 THEN [ds EXCEPT !.func = f, !.calls = @ + 1]
                ELSE Enter([ds EXCEPT !.room = room, !.flush = "block", !.then = f, !.calls = @ + 1])
    /\ UNCHANGED <<sent, input>>

\* The turn of the loop that comes next, after fill_window.
Filled == IF ds.look < FillBelow(ds.func) THEN FillWindow(ds) ELSE ds
Starved(s) == s.look < MoreBelow(s.func) /\ s.flush = "none"

\* The loop waits for input (need_more).
Starve ==
    /\ ds.pc = "loop" /\ UNCHANGED <<sent, input>>
    /\ \E s \in {Filled} : Starved(s) /\ ds' = NeedMore(s)

\* The block of s leaves, t is what that leaves behind, and then comes next;
\* or the call returns for want of room.
Leaves(s, t, next) ==
    /\ \E stored \in Stores(s) : sent' = BlockBytes(s, stored)
    /\ ds' = IF t.room = 0 THEN Choked(t) ELSE next

\* One turn.  A block that is full leaves; deflate_slow has then tallied the
\* byte before strstart, so strstart moves on after it.
Advance ==
    LET at(t) == [t EXCEPT !.strstart = @ - (IF t.func = "slow" /\ t.avail THEN 1 ELSE 0)]
        after(t) == [FlushBlockOnly(at(t)) EXCEPT !.strstart = t.strstart]
    IN  /\ ds.pc = "loop" /\ UNCHANGED input
        /\ \E s \in {Filled} :
              /\ ~Starved(s) /\ s.look # 0
              /\ \E t \in {IF s.func = "stored" THEN StoredTurn(s) ELSE Turn(s)} :
                    IF IsFull(t) THEN Leaves(at(t), after(t), after(t)) ELSE ds' = t /\ UNCHANGED sent

\* The lookahead is used up: what is left of the block leaves.
Flush ==
    LET held(s) == IF s.func = "slow" /\ s.avail
                   THEN [Tally(s, 0, s.window[s.strstart - 1]) EXCEPT !.avail = FALSE] ELSE s
        done(b) == IF b.flush = "finish" THEN [b EXCEPT !.status = "finish"] ELSE b
    IN  /\ ds.pc = "loop" /\ UNCHANGED input
        /\ \E s \in {Filled} :
              /\ ~Starved(s) /\ s.look = 0
              /\ \E b \in {done(FlushBlockOnly(held(s)))} :
                    Leaves(held(s), b, IF b.flush = "finish" THEN Trailer(b) ELSE BlockDone(b))

Next == Call \/ Params \/ Starve \/ Advance \/ Flush

-----------------------------------------------------------------------------
(* Properties *)

\* Whatever slides, flushes and chokes happen on the way, the blocks decode to
\* the input, all of it at the end, and no match reaches further back than
\* MAX_DIST.  (Unless deflateParams changed the level between a byte and its
\* match: see torn.)
DecodesBack ==
    ~ds.torn => /\ IsPrefix(sent, input) /\ (ds.ret = "STREAM_END" => sent = input)
                /\ \A i \in DOMAIN ds.tokens : ds.tokens[i].dist <= MaxDist

\* A call with Z_SYNC_FLUSH or Z_FULL_FLUSH that returns with room left has
\* put out everything it was ever given.
FlushDelivers ==
    ds.pc = "idle" /\ ds.flush \in {"sync", "full"} /\ ds.ret = "OK" /\ ds.room > 0 /\ ~ds.torn
        => sent = SubSeq(input, 1, ds.fed) /\ ds.pending = <<>>
=============================================================================
