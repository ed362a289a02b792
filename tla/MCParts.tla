------------------------------- MODULE MCParts -------------------------------
(***************************************************************************)
(* The client of libwebsockets, its HTTP/2, its request parser and its     *)
(* test programs, which this module extends, and the parts of zlib, one at *)
(* a time: `part' says which one this behaviour is about, and v1 .. v6     *)
(* hold the variables of one of zlib's.  The others stay as they began.    *)
(***************************************************************************)
EXTENDS LwsClient, Http2, TestPrograms, HeaderParser

VARIABLES part, v1, v2, v3, v4, v5, v6

CONSTANTS Wants, Lens, MaxPos, MaxUnits, MaxFailures,                \* GzFile
          Window, FastIn, FastOut, Gives, Rooms, MaxResets,          \* Inflate
          Elems, Freqs, MaxLength, Codes, MaxBits, RootBits, Runs, LongRuns, \* Huffman
          Alphabet, Funcs, WSize, MaxMatch, LitBuf, MaxBlock, MaxChain, GoodMatch,
          NiceMatch, MaxLazy, FarLimit, Feeds, Spaces, MaxCalls        \* Deflate

-----------------------------------------------------------------------------
(* Files for gzopen: empty, one member, three members of which one is      *)
(* empty, and a member with something else behind it.                      *)

GU == INSTANCE GzFile WITH Files <- {}, file <- v1, rest <- v2, gz <- v3, call <- v4, written <- v5, ghost <- v6
Member(ds) == GU!Header \o [i \in DOMAIN ds |-> GU!Unit("z", ds[i])] \o GU!End
Files == {<<>>,
          Member(<< <<"1", "2", "3">>, <<"nl">>, <<"5">> >>),
          Member(<< <<"1">> >>) \o Member(<<>>) \o Member(<< <<"2", "nl">> >>),
          Member(<< <<"1", "2">> >>) \o <<GU!Magic, GU!Unit("raw", <<"nl">>), GU!Unit("raw", <<"4">>)>>}

-----------------------------------------------------------------------------
(* Streams for inflate: raw, zlib and gzip, with every block type, a       *)
(* dictionary, distances that overlap, reach the window or are too far,    *)
(* wrong check values and damaged items.                                   *)

Dictionary == <<1, 2, 3, 4, 5>>
IU == INSTANCE Inflate WITH Streams <- {}, z <- v1, rest <- v2, call <- v3, made <- v4, from <- v5
It(k, v) == IU!Item(k, v)
Lit(b) == It("lit", b)
Pair(n, d) == <<It("len", [base |-> n, extra |-> FALSE]), It("dist", [base |-> d, extra |-> FALSE])>>
PairExtra(n, d) == <<It("len", [base |-> n - 1, extra |-> TRUE]), It("lext", 1),
                     It("dist", [base |-> d - 1, extra |-> TRUE]), It("dext", 1)>>
Block(t, last) == It("block", [type |-> t, last |-> last])
Eob == It("eob", 0)
Zlib(dict) == It("zlib", [window |-> 4, dict |-> dict])
Gzip(flags) == <<It("gzip", 0), It("flags", flags), It("time", 0), It("os", 0)>>
Tables == <<It("table", 0), It("lenlens", 0), It("codelens", 0)>>
As(wrap, items) == [wraps |-> {wrap}, items |-> items]
Streams == {
    As(0, <<Block("LEN_", TRUE), Lit(1), Lit(2)>> \o Pair(3, 2) \o <<Lit(3)>> \o PairExtra(5, 4) \o Pair(3, 3) \o <<Eob>>),
    As(0, <<Block("LEN_", TRUE)>> \o Pair(3, 2) \o <<Lit(3)>> \o Pair(4, 4) \o <<Eob>>),
    As(1, <<Zlib(FALSE), Block("STORED", FALSE), It("stored", 2), It("byte", 1), It("byte", 2), Block("TABLE", TRUE)>>
          \o Tables \o Pair(3, 2) \o <<Eob, It("check", <<1, 2, 1, 2, 1>>)>>),
    As(1, <<Zlib(TRUE), It("dictid", Dictionary), Block("LEN_", TRUE)>> \o Pair(3, 3) \o <<Eob, It("check", <<3, 4, 5>>)>>),
    As(1, <<Zlib(FALSE), Block("LEN_", FALSE), Lit(1)>> \o Pair(3, 2)
          \o <<Eob, Block("STORED", FALSE), It("stored", 0), Block("LEN_", TRUE), Lit(2), Eob, It("check", <<2>>)>>),
    As(1, <<Zlib(FALSE), Block("LEN_", TRUE), Lit(1), Lit(2), Lit(3)>> \o Pair(3, 1) \o Pair(3, 6)
          \o <<Eob, It("check", <<1, 2, 3, 3, 3, 3, 1, 2, 3>>)>>),
    As(2, Gzip({"extra", "name", "hcrc"})
          \o <<It("exlen", 1), It("x", 1), It("x", 1), It("x", 0), It("hcrc", 0), Block("LEN_", TRUE), Lit(1), Eob,
               It("check", <<1>>), It("length", 1)>>),
    As(2, Gzip({"comment"}) \o <<It("x", 0), Block("STORED", TRUE), It("stored", 1), It("byte", 2),
                                 It("check", <<1>>), It("length", 1)>>),
    As(1, <<IU!Wrong(Zlib(FALSE))>>),
    As(2, <<It("gzip", 0), IU!Wrong(It("flags", {}))>>),
    As(0, <<IU!Wrong(Block("LEN_", TRUE))>>),
    As(0, <<Block("LEN_", TRUE), IU!Wrong(Lit(1))>>),
    As(0, <<Block("LEN_", TRUE), Lit(1), IU!Wrong(It("len", [base |-> 3, extra |-> FALSE])), Lit(1), Lit(1)>>)}

-----------------------------------------------------------------------------
(* Inputs for deflate: short and long periods, runs, and no pattern.       *)

Marked(S) == [i \in 1 .. 22 |-> IF i \in S THEN 1 ELSE 0]
Inputs == {Marked({i \in 1 .. 22 : i % 3 = 0}), Marked({9, 18}), Marked(8 .. 14),
           Marked({2, 3, 7, 9, 10, 14, 15, 20, 21})}

-----------------------------------------------------------------------------

G == INSTANCE GzFile WITH file <- v1, rest <- v2, gz <- v3, call <- v4, written <- v5, ghost <- v6
I == INSTANCE Inflate WITH z <- v1, rest <- v2, call <- v3, made <- v4, from <- v5
T == INSTANCE Huffman WITH hf <- v1
D == INSTANCE Deflate WITH ds <- v1, sent <- v2, input <- v3, Gives <- Feeds, Rooms <- Spaces,
                           Bytes <- Alphabet, TooFar <- FarLimit

extended == <<vars, h2vars, st, hp>>
others   == <<v1, v2, v3, v4, v5, v6>>

PartsInit ==
    /\ part \in {"client", "http2", "programs", "headers", "gz", "inflate", "codes", "deflate"}
    /\ Init         /\ (part # "client" => ~proxy)
    /\ H2Init       /\ (part # "http2" => ~h2.ssl)
    /\ ProgramsInit /\ (part # "programs" => st = EchoInit)
    /\ HeaderInit   /\ (part # "headers" => hp = NewTable)
    /\ \/ part = "gz"       /\ G!Init
       \/ part = "inflate"  /\ I!Init /\ v6 = "off"
       \/ part = "codes"    /\ T!Init /\ v2 = "off" /\ v3 = "off" /\ v4 = "off" /\ v5 = "off" /\ v6 = "off"
       \/ part = "deflate"  /\ D!Init /\ v4 = "off" /\ v5 = "off" /\ v6 = "off"
       \/ /\ part \in {"client", "http2", "programs", "headers"}
          /\ v1 = "off" /\ v2 = "off" /\ v3 = "off" /\ v4 = "off" /\ v5 = "off" /\ v6 = "off"

PartsNext ==
    /\ UNCHANGED part
    /\ \/ part = "client"   /\ Next         /\ UNCHANGED <<h2vars, st, hp, others>>
       \/ part = "http2"    /\ H2Next       /\ UNCHANGED <<vars, st, hp, others>>
       \/ part = "programs" /\ ProgramsNext /\ UNCHANGED <<vars, h2vars, hp, others>>
       \/ part = "headers"  /\ HeaderNext   /\ UNCHANGED <<vars, h2vars, st, others>>
       \/ /\ UNCHANGED extended
          /\ \/ part = "gz"       /\ G!Next
             \/ part = "inflate"  /\ I!Next /\ UNCHANGED v6
             \/ part = "codes"    /\ T!Next /\ UNCHANGED <<v2, v3, v4, v5, v6>>
             \/ part = "deflate"  /\ D!Next /\ UNCHANGED <<v4, v5, v6>>

PartsSpec == PartsInit /\ [][PartsNext]_<<part, extended, others>>

-----------------------------------------------------------------------------
(* Properties.  Each says that the part's own properties hold when it is   *)
(* the part's turn.  Those of the client, CallbacksConsistent and          *)
(* ProxyAgreed, are in LwsClient.                                          *)

\* libwebsocket_parse: no escape, dot or double slash in a request leaves a
\* path that climbs out of its root, and every header is copied with exactly
\* the length that lws_hdr_total_length announces, however it is fragmented.
HeadersParsed == part = "headers" => NoClimb /\ CopyMatchesLength

\* The test programs count right over many callbacks: an echo leaves once,
\* fraggle's sums agree at the end of a message, test-ping matches a pong to
\* the ping that it answers, test-client opens its mirror connection again.
ProgramsKeepCount ==
    part = "programs" => EchoOnce /\ SumsAgree /\ PongMatched /\ MirrorReopened

\* gzread, gzgets, gzgetc, gzungetc, gzseek and gzrewind in any order deliver
\* the contents of the file at the position gztell gives, and come back short
\* only at the end of what is there; gzclose that reports success has left every
\* byte that was accepted on disk, seeks that were still pending included.
GzIsFaithful ==
    part = "gz" => G!DeliversContents /\ G!ShortMeansEnd /\ G!ClosedIsComplete

\* HTTP/2: settings are answered in the order in which they came, and a
\* stream that asked for POLLOUT is remembered up to the network connection.
Http2Serves == part = "http2" => SettingsInOrder /\ StreamIsArmed

\* inflate() makes what the stream means, in whatever pieces it is fed and
\* emptied, and accepts exactly what is sound.
InflateIsRight == part = "inflate" => I!MakesMeaning /\ I!Verdict

\* build_tree makes a complete prefix code within max_length, inflate_table a
\* table that decodes it, and send_tree lengths that the other side reads back.
CodesAgree == part = "codes" => T!BuiltTree /\ T!TableDecodes /\ T!LengthsArrive

\* deflate()'s blocks decode to its input across slides, flushes, level
\* changes and full output, and a flush leaves nothing behind.
DeflateIsRight == part = "deflate" => D!DecodesBack /\ D!FlushDelivers
=============================================================================
