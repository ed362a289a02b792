------------------------------- MODULE Huffman -------------------------------
(***************************************************************************)
(* Huffman codes in zlib: how the compressor builds one from frequencies   *)
(* and sends its lengths (trees.c), and how the decompressor reads them    *)
(* and builds its decoding tables (inftrees.c, CODELENS in inflate.c).     *)
(*                                                                         *)
(* Three jobs, each over all its inputs: a tree is built node by node; a   *)
(* table is made for a set of lengths; a row of lengths is sent.           *)
(***************************************************************************)
EXTENDS Integers, Sequences, FiniteSets, FiniteSetsExt, SequencesExt

CONSTANTS Elems,        \* number of symbols of a tree (elems)
          Freqs,        \* frequencies that a symbol may have
          MaxLength,    \* the longest code that build_tree may give (max_length)
          Codes,        \* number of symbols of a table (codes)
          MaxBits,      \* the longest code (MAXBITS)
          RootBits,     \* index bits asked for a root table (*bits)
          Runs,         \* lengths of the runs in a row of lengths
          LongRuns      \* and of a run of zeros

VARIABLES hf            \* the job, its input and how far it is

Symbols == 0 .. Elems - 1
Kraft(lens, S) == FoldSet(LAMBDA s, a : a + 2 ^ (MaxBits - lens[s]), 0, S)
Total(f, S) == FoldSet(LAMBDA x, a : a + f[x], 0, S)

\* bi_reverse
Reversed(c, len) == FoldSet(LAMBDA k, a : a + (((c \div 2 ^ k) % 2) * 2 ^ (len - 1 - k)), 0, 0 .. len - 1)

-----------------------------------------------------------------------------
(* build_tree *)

\* The symbols that occur, at least two.
Forced(f) ==
    LET used == {s \in Symbols : f[s] > 0}
        top == IF used = {} THEN -1 ELSE Max(used)
        one == IF top < 2 THEN top + 1 ELSE 0
    IN  CASE Cardinality(used) >= 2 -> used
          [] Cardinality(used) = 1  -> used \cup {one}
          [] OTHER                  -> {0, 1}

Tree(f) ==
    LET heap == Forced(f)
    IN  [job |-> "tree", freq |-> [n \in Symbols |-> IF n \in heap /\ f[n] = 0 THEN 1 ELSE f[n]],
         input |-> f, depth |-> [n \in heap |-> 0], heap |-> heap, order |-> <<>>, dad |-> <<>>, node |-> Elems]

\* smaller: depth decides among equal frequencies.
Smaller(n, m) == \/ hf.freq[n] < hf.freq[m]
                 \/ hf.freq[n] = hf.freq[m] /\ hf.depth[n] <= hf.depth[m]
Least(S) == {n \in S : \A m \in S : Smaller(n, m)}

\* pqremove twice, whichever of the least nodes the heap has on top.
Combine ==
    /\ hf.job = "tree" /\ Cardinality(hf.heap) >= 2
    /\ \E n \in Least(hf.heap) : \E m \in Least(hf.heap \ {n}) :
          LET new == hf.node
              deeper == IF hf.depth[n] >= hf.depth[m] THEN hf.depth[n] ELSE hf.depth[m]
              grown(f, v) == [x \in DOMAIN f \cup {new} |-> IF x = new THEN v ELSE f[x]]
          IN  hf' = [hf EXCEPT !.freq = grown(@, @[n] + @[m]), !.depth = grown(@, deeper + 1),
                               !.heap = (@ \ {n, m}) \cup {new}, !.order = <<m, n>> \o @,
                               !.dad = [x \in DOMAIN @ \cup {n, m} |-> IF x \in {n, m} THEN new ELSE @[x]],
                               !.node = @ + 1]

\* gen_bitlen, first pass: from the root on, no longer than max_length.
FirstPass(h) ==
    LET root == CHOOSE n \in h.heap : TRUE
        len[n \in DOMAIN h.dad \cup {root}] ==
            IF n = root THEN 0 ELSE IF len[h.dad[n]] < MaxLength THEN len[h.dad[n]] + 1 ELSE MaxLength
    IN  [len |-> len, over |-> Cardinality({n \in DOMAIN h.dad : len[h.dad[n]] = MaxLength})]

Unfixed(count, over) == count
\* One leaf moves down, and an overflow item becomes its brother.
Fix(count, over) ==
    LET move(c, i) == LET b == Max({b \in 1 .. MaxLength - 1 : c[b] > 0})
                      IN  [[[c EXCEPT ![b] = @ - 1] EXCEPT ![b + 1] = @ + 2] EXCEPT ![MaxLength] = @ - 1]
    IN  FoldLeft(move, count, [i \in 1 .. (over + 1) \div 2 |-> i])

\* Second pass: the longest lengths to the least frequent.
Relengthened(h, count) ==
    LET leaves == SelectSeq(Reverse(h.order), LAMBDA n : n < Elems)
        longer(b) == Total(count, b .. MaxLength)
    IN  [n \in Symbols |-> IF n \notin Range(leaves) THEN 0
                           ELSE LET k == CHOOSE k \in DOMAIN leaves : leaves[k] = n
                                IN  Max({b \in 1 .. MaxLength : longer(b) >= k})]

GenBitlen ==
    /\ hf.job = "tree" /\ Cardinality(hf.heap) = 1
    /\ LET p == FirstPass(hf)
           leaf == {n \in Symbols : n \in DOMAIN p.len}
           count == [b \in 1 .. MaxLength |-> Cardinality({n \in leaf : p.len[n] = b})]
           len == IF p.over = 0 THEN [n \in Symbols |-> IF n \in leaf THEN p.len[n] ELSE 0]
                  ELSE Relengthened(hf, Fix(count, p.over))
           cost == FoldSet(LAMBDA n, a : a + hf.freq[n] * len[n], 0, leaf)
           forced == Cardinality({n \in leaf : hf.input[n] = 0})
       IN  hf' = [job |-> "built", input |-> hf.input, len |-> len, over |-> p.over, optlen |-> cost - forced]

-----------------------------------------------------------------------------
(* Codes and tables *)

Counts(lens) == [b \in 1 .. MaxBits |-> Cardinality({s \in DOMAIN lens : lens[s] = b})]

\* gen_codes: codes of a length follow each other, in the order of symbols.
NextCode(lens) == [b \in 1 .. MaxBits |-> FoldSet(LAMBDA k, a : a + Counts(lens)[k] * 2 ^ (b - k), 0, 1 .. b - 1)]
GenCodes(lens) ==
    [s \in {s \in DOMAIN lens : lens[s] > 0} |->
        Reversed(NextCode(lens)[lens[s]] + Cardinality({r \in 0 .. s - 1 : lens[r] = lens[s]}), lens[s])]

Entry(op, bits, val) == [op |-> op, bits |-> bits, val |-> val]

IncrementForwards(huff, len) == (huff + 1) % 2 ^ len
\* The backwards increment of huff.
Increment(huff, len) ==
    LET zero == {k \in 0 .. len - 1 : (huff \div 2 ^ k) % 2 = 0}
    IN  IF zero = {} THEN 0 ELSE (huff % 2 ^ Max(zero)) + 2 ^ Max(zero)

\* Index bits of the next sub-table: until its codes fill it.
Curr(count, len, drop, max) ==
    LET left(c) == 2 ^ c - FoldSet(LAMBDA j, a : a + count[j] * 2 ^ (c + drop - j), 0, len .. c + drop)
    IN  Min({c \in len - drop .. max - drop : c + drop = max \/ left(c) <= 0})

\* inflate_table: what it returns (-1 as "invalid"), and the table.
InflateTable(type, lens) ==
    LET used == {s \in DOMAIN lens : lens[s] > 0}
        max == Max({lens[s] : s \in used})
        min == Min({lens[s] : s \in used})
        capped == IF RootBits > max THEN max ELSE RootBits
        root == IF capped < min THEN min ELSE capped
        symbols == SelectSeq([i \in 1 .. Cardinality(DOMAIN lens) |-> i - 1], LAMBDA s : s \in used)
        work == SortSeq(symbols, LAMBDA r, s : lens[r] < lens[s] \/ (lens[r] = lens[s] /\ r < s))
        filled(t, s) ==
            LET n == lens[s] - t.drop
                at == {t.next + (t.huff \div 2 ^ t.drop) + k * 2 ^ n : k \in 0 .. 2 ^ (t.curr - n) - 1}
            IN  [i \in DOMAIN t.table \cup at |-> IF i \in at THEN Entry("sym", n, s) ELSE t.table[i]]
        linked(t) ==
            LET next == t.next + 2 ^ t.curr
                curr == Curr(t.count, t.len, root, max)
                low == t.huff % 2 ^ root
            IN  [t EXCEPT !.drop = root, !.next = next, !.curr = curr, !.low = low,
                          !.table = [i \in DOMAIN @ \cup {low} |->
                                        IF i = low THEN Entry("link", root, [at |-> next, op |-> curr]) ELSE @[i]]]
        step(t, i) ==
            LET s == work[i]
                u == [t EXCEPT !.table = filled(t, s), !.huff = Increment(@, lens[s]),
                               !.count[lens[s]] = @ - 1, !.len = IF i < Len(work) THEN lens[work[i + 1]] ELSE @]
            IN  IF i < Len(work) /\ u.len > root /\ u.huff % 2 ^ root # u.low THEN linked(u) ELSE u
        t == FoldLeft(step, [table |-> <<>>, huff |-> 0, next |-> 0, curr |-> root, drop |-> 0, low |-> -1,
                             count |-> Counts(lens), len |-> min], [i \in 1 .. Len(work) |-> i])
        bad == Entry("bad", max, 0)
    IN  CASE used = {} -> [ret |-> "ok", root |-> 1, table |-> [i \in {0, 1} |-> Entry("bad", 1, 0)]]
          [] used # {} /\ (\/ Kraft(lens, used) > 2 ^ MaxBits
                           \/ Kraft(lens, used) < 2 ^ MaxBits /\ (type = "CODES" \/ max # 1)) ->
               [ret |-> "invalid"]
          [] OTHER -> [ret |-> "ok", root |-> root,
                       table |-> [i \in DOMAIN t.table \cup 0 .. 2 ^ root - 1 |->
                                     IF i \in DOMAIN t.table THEN t.table[i] ELSE bad]]

\* How inflate() looks a code up: in the root table, then where it points.
Lookup(t, hold) ==
    LET here == t.table[hold % 2 ^ t.root]
        sub == t.table[here.val.at + ((hold \div 2 ^ here.bits) % 2 ^ here.val.op)]
    IN  IF here.op = "link" THEN [sub EXCEPT !.bits = @ + here.bits] ELSE here

MakeTable ==
    /\ hf.job = "lens"
    /\ hf' = [job |-> "table", lens |-> hf.lens, type |-> hf.type, result |-> InflateTable(hf.type, hf.lens)]

-----------------------------------------------------------------------------
(* Lengths on the wire *)

\* max_count and min_count after length cur, when next follows.
Limits(cur, next) == IF next = 0 THEN <<138, 3>> ELSE IF cur = next THEN <<6, 3>> ELSE <<7, 4>>

Row(row) == [job |-> "row", row |-> row, at |-> 0, runs |-> <<>>, count |-> 0, prev |-> -1,
             limits |-> Limits(-1, row[1])]

\* A turn of the loop of scan_tree and send_tree, which finds the runs.
ScanTurn ==
    LET i == hf.at + 1
        next == IF i < Len(hf.row) THEN hf.row[i + 1] ELSE -1
        run == [len |-> hf.row[i], count |-> hf.count + 1, prev |-> hf.prev, min |-> hf.limits[2]]
    IN  /\ hf.job = "row" /\ hf.at < Len(hf.row)
        /\ hf' = IF run.count < hf.limits[1] /\ run.len = next THEN [hf EXCEPT !.at = i, !.count = @ + 1]
                 ELSE [hf EXCEPT !.at = i, !.count = 0, !.runs = Append(@, run), !.prev = run.len,
                                 !.limits = Limits(run.len, next)]

Sym(s, more) == [s |-> s, more |-> more]
Repeat(x, n) == [i \in 1 .. n |-> x]

SentFew(r) == IF r.len # 0 /\ r.count >= r.min
              THEN <<Sym(r.len, 0), Sym(16, r.count - 3)>> ELSE Repeat(Sym(r.len, 0), r.count)

\* send_tree: a run as symbols of the bit length tree, with their extra bits.
Sent(r) ==
    IF r.count < r.min THEN Repeat(Sym(r.len, 0), r.count)
    ELSE IF r.len # 0 THEN IF r.len # r.prev THEN <<Sym(r.len, 0), Sym(16, r.count - 1 - 3)>>
                           ELSE <<Sym(16, r.count - 3)>>
    ELSE IF r.count <= 10 THEN <<Sym(17, r.count - 3)>>
    ELSE <<Sym(18, r.count - 11)>>

\* scan_tree: the frequency of a symbol in the same row.
Scanned(r, s) ==
    IF r.count < r.min THEN IF s = r.len THEN r.count ELSE 0
    ELSE IF r.len # 0 THEN IF s = 16 \/ (s = r.len /\ r.len # r.prev) THEN 1 ELSE 0
    ELSE IF s = (IF r.count <= 10 THEN 17 ELSE 18) THEN 1 ELSE 0

SendTree ==
    /\ hf.job = "row" /\ hf.at = Len(hf.row)
    /\ hf' = [job |-> "sent", row |-> hf.row, runs |-> hf.runs,
              sent |-> FoldLeft(LAMBDA a, r : a \o Sent(r), <<>>, hf.runs)]

\* CODELENS
ReadBack(sent) ==
    LET step(a, x) == CASE x.s < 16 -> Append(a, x.s)
                        [] x.s = 16 -> a \o Repeat(Last(a), 3 + x.more)
                        [] x.s = 17 -> a \o Repeat(0, 3 + x.more)
                        [] x.s = 18 -> a \o Repeat(0, 11 + x.more)
    IN  FoldLeft(step, <<>>, sent)

-----------------------------------------------------------------------------

Init ==
    \/ \E f \in [Symbols -> Freqs] : hf = Tree(f)
    \/ \E lens \in [0 .. Codes - 1 -> 0 .. MaxBits], type \in {"CODES", "LENS"} :
          hf = [job |-> "lens", lens |-> lens, type |-> type]
    \/ \E a, b \in {0, 1, 2}, m, n \in Runs, k \in {0, 1} :
          m + n > 0 /\ hf = Row(Repeat(a, m) \o Repeat(b, n) \o Repeat(a, k))
    \/ \E n \in LongRuns : hf = Row(<<1>> \o Repeat(0, n) \o <<1>>)

Next == Combine \/ GenBitlen \/ MakeTable \/ ScanTurn \/ SendTree

-----------------------------------------------------------------------------
(* Properties *)

\* The lengths of codes for n symbols that fill the code space, shortest first
Shapes == [n \in 2 .. Elems |->
              {s \in [1 .. n -> 1 .. n - 1] :
                  /\ \A i \in 1 .. n - 1 : s[i] <= s[i + 1]
                  /\ Kraft(s, 1 .. n) = 2 ^ MaxBits}]

\* A tree that was built is a complete code within the limit of length, also
\* if lengths had to be cut; otherwise no other code makes the block shorter,
\* and opt_len, which decides how the block is sent, is its length.
BuiltTree ==
    hf.job = "built" =>
        LET leaf == {n \in Symbols : hf.len[n] > 0}
            rank(m) == Cardinality({n \in leaf : \/ hf.input[n] > hf.input[m]
                                                 \/ hf.input[n] = hf.input[m] /\ n <= m})
            cost(s) == FoldSet(LAMBDA m, a : a + hf.input[m] * s[rank(m)], 0, leaf)
        IN  /\ \A n \in Symbols : hf.len[n] <= MaxLength /\ (hf.input[n] > 0 => n \in leaf)
            /\ Kraft(hf.len, leaf) = 2 ^ MaxBits
            /\ hf.over = 0 => \A s \in Shapes[Cardinality(leaf)] : hf.optlen <= cost(s)

\* The table that the decompressor makes from the lengths finds every symbol
\* by the code that the compressor gave it, whatever bits follow, and nothing
\* else; lengths that are no code are refused.
TableDecodes ==
    hf.job = "table" =>
        LET used == {s \in DOMAIN hf.lens : hf.lens[s] > 0}
            code == GenCodes(hf.lens)
            r == hf.result
        IN  IF r.ret = "invalid" THEN used # {} /\ Kraft(hf.lens, used) # 2 ^ MaxBits
            ELSE \A hold \in 0 .. 2 ^ MaxBits - 1 :
                    LET hit == {s \in used : hold % 2 ^ hf.lens[s] = code[s]}
                        got == Lookup(r, hold)
                    IN  IF hit = {} THEN got.op = "bad"
                        ELSE \A s \in hit : got = Entry("sym", hf.lens[s], s)

\* A row of lengths is read back as it was, its repeat counts fit their extra
\* bits, and the symbols that carry it occur as often as they were counted
\* when their own tree was built.
LengthsArrive ==
    hf.job = "sent" =>
        /\ ReadBack(hf.sent) = hf.row
        /\ \A i \in DOMAIN hf.sent :
              LET x == hf.sent[i]
              IN  x.more \in 0 .. (CASE x.s = 16 -> 3 [] x.s = 17 -> 7 [] x.s = 18 -> 127 [] OTHER -> 0)
        /\ \A s \in 0 .. 18 :
              Cardinality({i \in DOMAIN hf.sent : hf.sent[i].s = s})
              = FoldLeft(LAMBDA a, r : a + Scanned(r, s), 0, hf.runs)
=============================================================================
