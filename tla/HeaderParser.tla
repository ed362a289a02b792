---------------------------- MODULE HeaderParser ----------------------------
(***************************************************************************)
(* libwebsocket_parse (lib/parsers.c): the request's URI, with its escapes *)
(* and its path made plain as it arrives, and the table of header          *)
(* fragments, all in one block of data.                                    *)
(*                                                                         *)
(* A character is one of those the code treats specially, or a member of   *)
(* Hex, or "x" for any other; literal hex digits are stored as "x".  Where *)
(* a header name is expected, lextable_decode has its verdict on the whole *)
(* name: a known header, the empty line ("end") or "unknown".              *)
(***************************************************************************)
EXTENDS Integers, Sequences, SequencesExt

CONSTANTS DataSize,    \* sizeof ah->data
          MaxFrags,    \* entries of ah->frags, of which the first is not used
          UriChars,    \* bound: characters of a request from its beginning
          HeaderChars  \* bound: characters after a request line

\* A request line and the parser's own terminators fit.
ASSUME HeaderAssumption ==
    DataSize \in Nat /\ DataSize > 3 /\ MaxFrags \in Nat /\ MaxFrags > 3 /\ UriChars \in Nat /\ HeaderChars \in Nat

VARIABLE hp            \* u.hdr of the wsi, with its header table

Hex     == {"2", "e", "f"}
Uri     == Hex \cup {"/", ".", "%", "x", "?", " ", "cr"}
Values  == {"x", " ", "cr", "lf"}
Headers == {"h1", "h2"}
Names   == Headers \cup {"GET", "end", "unknown"}
Tokens  == Headers \cup {"GET", "ARGS", "HTTP"}

\* lws_allocate_header_table
NewTable ==
    [ps |-> "NAME", ues |-> "IDLE", ups |-> "IDLE", stash |-> "x", ret |-> 0, left |-> UriChars,
     data |-> <<>>, frags |-> <<>>, index |-> [t \in Tokens |-> 0]]

-----------------------------------------------------------------------------
Current(p)    == p.frags[Len(p.frags)]
Lengthened(p, by) == [p EXCEPT !.frags[Len(p.frags)].len = @ + by]
Dead(p)    == [p EXCEPT !.ret = 2]

\* issue_char: ret is 2 for its -1, 1 when the token's limit is reached (the
\* default limit is the size of the data).
Plain(c) == IF c \in Hex THEN "x" ELSE c
IssueChar(p, c) ==
    IF Len(p.data) = DataSize THEN Dead(p)
    ELSE IF Current(p).len >= DataSize THEN [p EXCEPT !.ret = 1]
    ELSE LET q == [p EXCEPT !.data = Append(@, Plain(c)), !.ret = 0]
         IN  IF c = "nul" THEN q ELSE Lengthened(q, 1)

\* Its result is not looked at.
Unheeded(p) == [p EXCEPT !.ret = 0]

\* start_fragment, for the token that the parser is now in.
Link(p, t) ==
    LET new == Len(p.frags)
        end == CHOOSE n \in 1 .. new - 1 :
                    p.frags[n].next = 0 /\ p.frags[n].token = t
    IN  IF p.index[t] = 0 THEN [p EXCEPT !.index[t] = new]
        ELSE IF Len(p.data) = DataSize THEN Dead(p)
        ELSE Lengthened([p EXCEPT !.frags[end].next = new, !.data = Append(@, " ")], 1)

Fragment(off, len, t) == [off |-> off, len |-> len, next |-> 0, token |-> t]
NewFragment(p, t) ==
    [p EXCEPT !.frags = Append(@, Fragment(Len(p.data), 0, t))]

StartFragment(p, t) ==
    IF Len(p.frags) + 1 = MaxFrags THEN Dead(p)
    ELSE Link(NewFragment([p EXCEPT !.ps = t], t), t)

-----------------------------------------------------------------------------
(* The URI *)

\* A space ends it; an empty one becomes "/".
UriEnd(p) ==
    LET q == IF Current(p).len = 0 THEN IssueChar(p, "/") ELSE p
        r == IssueChar(q, "nul")
    IN  IF q.ret = 2 \/ r.ret = 2 THEN Dead(r) ELSE StartFragment(r, "HTTP")

\* "?" seals the path off, and begins a fragment of its own without a look at
\* how many there are.
UriArgs(p) ==
    LET q == NewFragment([p EXCEPT !.data = Append(@, "nul")], "ARGS")
    IN  [q EXCEPT !.index["ARGS"] = Len(q.frags), !.ups = "ARGUMENTS"]

StoreUnsealed(p, c) ==
    IF c = "cr" THEN [p EXCEPT !.ps = "SAW_CR"] ELSE IssueChar(p, c)

\* check_eol
Store(p, c) ==
    LET eol == c = "cr"
        q == IssueChar(IF eol THEN [p EXCEPT !.ps = "SAW_CR"] ELSE p, IF eol THEN "nul" ELSE c)
    IN  IF q.ret = 1 THEN [q EXCEPT !.ps = "SKIPPING"] ELSE q

\* Takes the last directory off the path; the loop looks at the character that
\* it has just taken off.
BackUp(p) ==
    LET f == Current(p)
        path == SubSeq(p.data, f.off + 1, f.off + f.len)
        Slashes == {i \in 2 .. f.len - 1 : path[i] = "/"}
        keep == IF Slashes = {} THEN 1 ELSE (CHOOSE i \in Slashes : \A j \in Slashes : j <= i) - 1
    IN  IF f.len <= 2 THEN p
        ELSE Lengthened([p EXCEPT !.data = SubSeq(@, 1, Len(@) - (f.len - keep))], keep - f.len)

Go(p)      == [p |-> p, go |-> TRUE]
Swallow(p) == [p |-> p, go |-> FALSE]

SeenSlashKeepsDot(p, c) ==
    IF c = "/" THEN Swallow(p) ELSE Go([p EXCEPT !.ups = "IDLE"])

\* The path's states; what goes on is stored.
SeenSlash(p, c) ==
    CASE c = "/" -> Swallow(p)
      [] c = "." -> Swallow([p EXCEPT !.ups = "SLASH_DOT"])
      [] OTHER   -> Go([p EXCEPT !.ups = "IDLE"])

SeenDot(p, c) ==
    CASE c = "." -> Swallow([BackUp(p) EXCEPT !.ups = "SLASH_DOT_DOT"])
      [] c = "/" -> Swallow([p EXCEPT !.ups = "SLASH"])
      [] OTHER   -> Go(Unheeded([IssueChar(p, ".") EXCEPT !.ups = "IDLE"]))

SeenDotDot(p, c) == IF c \in {".", "/"} THEN Swallow(p) ELSE Go([p EXCEPT !.ups = "SLASH"])

PathStep(p, c) ==
    CASE p.ups = "IDLE" /\ c = "/"  -> Go([p EXCEPT !.ups = "SLASH"])
      [] p.ups = "SLASH"            -> SeenSlash(p, c)
      [] p.ups = "SLASH_DOT"        -> SeenDot(p, c)
      [] p.ups = "SLASH_DOT_DOT"    -> SeenDotDot(p, c)
      [] OTHER                      -> Go(p)

\* A character of the URI after its escape was resolved.
Assess(p, c) ==
    LET s == PathStep(p, c)
    IN  IF ~s.go THEN s.p ELSE IF c = "?" THEN UriArgs(s.p) ELSE Store(s.p, c)

\* char_to_hex of two digits
Decode(a, b) == CASE a = "2" /\ b = "e" -> "." [] a = "2" /\ b = "f" -> "/" [] OTHER -> "x"

\* Escapes: what turns out to be none is issued, the "%" past the path's
\* states and the digit through them.
UriStep(p, c) ==
    LET idle == [p EXCEPT !.ues = "IDLE"]
        percent == IssueChar(idle, "%")
    IN  CASE p.ues = "IDLE" /\ c = "%"   -> [p EXCEPT !.ues = "PERCENT"]
          [] p.ues = "PERCENT" /\ c \in Hex -> [p EXCEPT !.ues = "H1", !.stash = c]
          [] p.ues = "PERCENT" /\ c \notin Hex -> IF percent.ret = 2 THEN percent ELSE Assess(percent, c)
          [] p.ues = "H1" /\ c \in Hex   -> Assess(idle, Decode(p.stash, c))
          [] p.ues = "H1" /\ c \notin Hex -> LET q == Assess(Unheeded(percent), p.stash)
                                            IN  IF q.ret = 2 THEN q ELSE Assess(q, c)
          [] OTHER                       -> Assess(p, c)

-----------------------------------------------------------------------------
(* Header names and values *)

NamePart(p, name) ==
    CASE name = "unknown" -> IF p.index["GET"] = 0 /\ p.index["HTTP"] = 0 THEN Dead(p)
                             ELSE [p EXCEPT !.ps = "SKIPPING"]
      [] name = "end"     -> [p EXCEPT !.ps = "COMPLETE"]
      [] name = "GET" /\ p.index["GET"] # 0 -> Dead(p)
      [] OTHER            -> StartFragment(p, name)

\* The token being collected: spaces before it are dropped, looking at the
\* length of its first fragment.
Value(p, c) ==
    IF c = " " /\ p.frags[p.index[p.ps]].len = 0 THEN p
    ELSE IF p.ps = "GET" THEN IF c = " " THEN UriEnd(p) ELSE UriStep(p, c)
    ELSE Store(p, c)

Skipping(p, c) ==
    CASE p.ps = "SKIPPING" /\ c = "cr" -> [p EXCEPT !.ps = "SAW_CR"]
      [] p.ps = "SAW_CR" /\ c = "lf"   -> [p EXCEPT !.ps = "NAME"]
      [] OTHER                         -> [p EXCEPT !.ps = "SKIPPING"]

Parse(p, c) ==
    CASE p.ps = "NAME"                   -> NamePart(p, c)
      [] p.ps \in {"SKIPPING", "SAW_CR"} -> Skipping(p, c)
      [] OTHER                           -> Value(p, c)

Expected(p) ==
    CASE p.ps = "NAME" -> IF p.index["GET"] = 0 THEN {"GET", "unknown"} ELSE Names
      [] p.ps = "GET"  -> Uri
      [] OTHER         -> Values

\* After "GET / x" and its end of line, for longer headers; and after "GET /xx..."
\* that has all but filled the data.
Requested == [NewTable EXCEPT !.left = HeaderChars, !.ups = "SLASH", !.data = <<"/", "nul", "x", "nul">>,
                              !.frags = <<Fragment(0, 1, "GET"), Fragment(2, 1, "HTTP")>>,
                              !.index["GET"] = 1, !.index["HTTP"] = 2]
NearlyFull == [NewTable EXCEPT !.ps = "GET", !.data = [i \in 1 .. DataSize - 2 |-> IF i = 1 THEN "/" ELSE "x"],
                               !.frags = <<Fragment(0, DataSize - 2, "GET")>>, !.index["GET"] = 1]

HeaderInit == hp \in {NewTable, Requested, NearlyFull}

\* One character of the request.
HeaderNext ==
    /\ hp.ret # 2 /\ hp.ps # "COMPLETE" /\ hp.left > 0
    /\ \E c \in Expected(hp) : hp' = [Parse(hp, c) EXCEPT !.left = @ - 1]

-----------------------------------------------------------------------------
(* Properties *)

\* What the fragment holds.
Text(p, n) == SubSeq(p.data, p.frags[n].off + 1, p.frags[n].off + p.frags[n].len)

\* However dots, slashes and escapes follow one another, the path that is
\* handed on never names a parent directory, nor an empty one.
NoClimb ==
    hp.index["GET"] # 0 =>
        LET path == Text(hp, hp.index["GET"])
        IN  \A i \in 1 .. Len(path) - 1 :
                /\ path[i] = "/" => path[i + 1] # "/"
                /\ path[i] = "/" /\ path[i + 1] = "." =>
                       i + 2 > Len(path) \/ path[i + 2] # "."

\* lws_hdr_copy copies each fragment up to its terminator but goes on by its
\* length: in a complete table both agree, so that the copy of a header is as
\* long as lws_hdr_total_length says; unless a "?" came when the data was full,
\* after which no character finds the end of it any more.
CopyMatchesLength ==
    hp.ps = "COMPLETE" /\ Len(hp.data) <= DataSize =>
        \A n \in DOMAIN hp.frags :
            /\ hp.frags[n].off + hp.frags[n].len < Len(hp.data)
            /\ hp.data[hp.frags[n].off + hp.frags[n].len + 1] = "nul"
            /\ "nul" \notin Range(Text(hp, n))
=============================================================================
