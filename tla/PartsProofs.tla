----------------------------- MODULE PartsProofs -----------------------------
(***************************************************************************)
(* Three of the sequential parts that MCParts runs, for all values of its  *)
(* constants: HTTP/2 answers settings in their order and forgets no stream *)
(* that waits to write, the counts of the test programs stay true, and the *)
(* request parser lets no path climb and terminates what it stores.        *)
(***************************************************************************)
EXTENDS MCParts, LwsPartsProofs

-----------------------------------------------------------------------------
\* However the client's frames come together and however the user's callbacks
\* and the socket take turns, for any limits on streams and tables: the
\* server's own settings leave first and once, each settings frame that is
\* taken is acknowledged once, and a stream that waits to write has POLLOUT
\* asked for (lws_set_protocol_write_pending, lws_handle_POLLOUT_event).
THEOREM Http2ServesAlways == PartsSpec => []Http2Serves
<1> DEFINE J == part = "http2" => HttpInv(h2, rxq, sent)
<1>1. PartsInit => J
  BY HttpInitial DEF PartsInit
<1>2. J /\ [PartsNext]_<<part, extended, others>> => J'
  <2> SUFFICES ASSUME J, [PartsNext]_<<part, extended, others>>, part' = "http2"
               PROVE  HttpInv(h2', rxq', sent')
    OBVIOUS
  <2>1. CASE PartsNext
    BY <2>1, HttpStep DEF PartsNext
  <2>2. CASE UNCHANGED <<part, extended, others>>
    BY <2>2 DEF extended, h2vars
  <2> QED BY <2>1, <2>2
<1>3. J => Http2Serves
  <2> SUFFICES ASSUME HttpInv(h2, rxq, sent) PROVE SettingsInOrder /\ StreamIsArmed
    BY DEF Http2Serves
  <2>1. SettingsInOrder
    <3>1. Count("my") = Tally(sent, "my") /\ Count("ack") = Tally(sent, "ack")
      BY Zenon DEF Count, Tally, Cardinality
    <3>2. Waits("my") = Wait(h2, "my") /\ Waits("ack") = Wait(h2, "ack")
      BY DEF Waits, Wait
    <3> QED BY <3>1, <3>2 DEF HttpInv, InOrder, SettingsInOrder
  <2>2. StreamIsArmed
    BY DEF HttpInv, IsArmed, Armed, StreamIsArmed
  <2> QED BY <2>1, <2>2
<1> QED BY <1>1, <1>2, <1>3, PTL DEF PartsSpec

\* For any length of a ring, a buffer, a second and a run, the test programs
\* count right: callback_echo sends nothing twice that it asked to send, the
\* sums of callback_fraggle agree unless a last fragment overflows the buffer,
\* callback_lws_mirror of test-ping finds each recent ping and no overwritten
\* one, and the mirror pointer of test-client points to an attempt.
THEOREM ProgramsAlwaysKeepCount == PartsSpec => []ProgramsKeepCount
<1> DEFINE J == part = "programs" => ProgramInv(st)
<1>1. PartsInit => J
  BY ProgramsInitial DEF PartsInit
<1>2. J /\ [PartsNext]_<<part, extended, others>> => J'
  <2> SUFFICES ASSUME J, [PartsNext]_<<part, extended, others>>, part' = "programs"
               PROVE  ProgramInv(st')
    OBVIOUS
  <2>1. CASE PartsNext
    BY <2>1, ProgramsStep DEF PartsNext
  <2>2. CASE UNCHANGED <<part, extended, others>>
    BY <2>2 DEF extended, h2vars
  <2> QED BY <2>1, <2>2
<1>3. J => ProgramsKeepCount
  <2> SUFFICES ASSUME ProgramInv(st)
               PROVE  EchoOnce /\ SumsAgree /\ PongMatched /\ MirrorReopened
    BY DEF ProgramsKeepCount
  <2>1. CASE EchoInv(st)
    BY <2>1 DEF EchoInv, Echo, EchoOnce, SumsAgree, PongMatched, MirrorReopened
  <2>2. CASE RateInv(st)
    <3>1. st.prog = "rate" /\ st.since \in Nat /\ st.rate \in Nat /\ st.since <= st.rate
      BY <2>2 DEF RateInv, Rate
    <3> QED BY <3>1 DEF EchoOnce, SumsAgree, PongMatched, MirrorReopened
  <2>3. CASE FraggleInv(st)
    BY <2>3 DEF FraggleInv, Fraggle, EchoOnce, SumsAgree, PongMatched, MirrorReopened
  <2>4. CASE PingInv(st)
    <3>1. st.prog = "ping" /\ ~st.missed /\ st.list \in Seq({"a", "b", "c"}) /\ Listed(st.list, st.gone)
      BY <2>4 DEF PingInv, Pings
    <3>2. Range(st.list) = {"a", "b", "c"} \ st.gone
      <4>1. \A i \in DOMAIN st.list : st.list[i] \in {"a", "b", "c"} BY <3>1
      <4> QED BY <3>1, <4>1 DEF Listed, Range
    <3> QED BY <3>1, <3>2 DEF EchoOnce, SumsAgree, PongMatched, MirrorReopened
  <2>5. CASE TesterInv(st)
    BY <2>5 DEF TesterInv, Tester, EchoOnce, SumsAgree, PongMatched, MirrorReopened
  <2> QED BY <2>1, <2>2, <2>3, <2>4, <2>5 DEF ProgramInv
<1> QED BY <1>1, <1>2, <1>3, PTL DEF PartsSpec

\* Whatever request arrives, for any size of the header data, any number of
\* fragments and any limit on tokens: a path that was stored has no "//" and
\* no "/..", and each complete value has as many characters as its fragments
\* say and a terminator behind them, which lws_hdr_copy relies on
\* (libwebsocket_parse, issue_char, lws_hdr_copy).
THEOREM HeadersAlwaysParsed == PartsSpec => []HeadersParsed
<1> DEFINE J == part = "headers" => HeaderInv(hp)
<1>1. PartsInit => J
  BY HeaderInitial DEF PartsInit
<1>2. J /\ [PartsNext]_<<part, extended, others>> => J'
  <2> SUFFICES ASSUME J, [PartsNext]_<<part, extended, others>>, part' = "headers"
               PROVE  HeaderInv(hp')
    OBVIOUS
  <2>1. CASE PartsNext
    BY <2>1, HeaderStep DEF PartsNext
  <2>2. CASE UNCHANGED <<part, extended, others>>
    BY <2>2 DEF extended
  <2> QED BY <2>1, <2>2
<1>3. J => HeadersParsed
  BY HeaderSound DEF HeadersParsed
<1> QED BY <1>1, <1>2, <1>3, PTL DEF PartsSpec

==============================================================================
