-------------------------------- MODULE MCLws --------------------------------
(***************************************************************************)
(* What must eventually happen in libwebsockets, on instances small enough *)
(* for liveness: the mirror and a websocket link, which this module        *)
(* extends, the server with one connection and the client.  `part' says    *)
(* which of them this behaviour is about; the others stay as they began.   *)
(***************************************************************************)
EXTENDS MirrorServer, WsLink

CONSTANTS Pipe, Listen,                      \* LwsServer
          Attempts, Await,                   \* LwsClient
          c1

VARIABLES part,
          fds, fds_count, pollout, lookup, position, wsi, peer, pc, n, our, checked, woken, ssl, crashed,
          attempt, proxy, net, buffer

S == INSTANCE LwsServer WITH Conns <- {c1}, Socks <- {c1, Listen}, MaxFds <- 3, Tokens <- [c \in {c1} |-> 2],
                             Chunks <- 2, Pieces <- 2
C == INSTANCE LwsClient WITH Conns <- Attempts, wsi <- attempt, peer <- net

\* The lengths of a link's messages.
Lengths == <<3, 1>>

server == <<fds, fds_count, pollout, lookup, position, wsi, peer, pc, n, our, checked, woken, ssl, crashed>>
client == <<attempt, proxy, net, buffer>>
link   == <<masked, asks, ext, tx, wire, rx, pings, garbled>>
all    == <<part, mirror, server, client, link>>

LwsInit ==
    /\ Init /\ S!Init /\ C!Init /\ LinkInit
    /\ part \in {"mirror", "server", "client", "link"}
    /\ part # "mirror" => ~close_testing
    /\ part # "server" => ~ssl
    /\ part # "client" => ~proxy
    /\ part # "link" => ~masked /\ ~asks /\ ~ext /\ ~tx.pollout

LwsNext ==
    /\ UNCHANGED part
    /\ \/ part = "mirror" /\ Next   /\ UNCHANGED <<server, client, link>>
       \/ part = "server" /\ S!Next /\ UNCHANGED <<mirror, client, link>>
       \/ part = "client" /\ C!Next /\ UNCHANGED <<mirror, server, link>>
       \/ part = "link"   /\ LinkNext /\ UNCHANGED <<mirror, server, client>>

\* Nothing that is fair is enabled in a part that stays as it began.
LwsFairness == Fairness /\ S!Fairness /\ C!Fairness /\ LinkFairness

LwsSpec == LwsInit /\ [][LwsNext]_all /\ LwsFairness

-----------------------------------------------------------------------------
(* Properties, as the parts' modules have them.  Those of the mirror and   *)
(* of a link are in MirrorServer and WsLink.                               *)

\* A truncated send of the server (wsi->truncated_send_len) is finished while
\* the peer reads, or given up with the connection.
StoredSendLeaves == S!StoredSendLeaves

\* A connection past its pending_timeout_limit is closed, unless it has a
\* truncated send or the dummy pipe of the SSL build keeps poll from idling.
ExpiredIsClosed == S!ExpiredIsClosed

\* libwebsocket_context_destroy ends, unless a connection has a truncated send.
DestroyEnds == S!DestroyEnds

\* Every attempt of a client ends, whatever proxy and server fail to answer.
EveryAttemptEnds == C!EveryAttemptEnds

\* The theorem LinkIsAStream is about messages of lengths like these.
ASSUME LinkSized == LinkAssumption
=============================================================================
