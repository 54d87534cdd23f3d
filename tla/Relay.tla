------------------------------- MODULE Relay -------------------------------
(***************************************************************************)
(* One client connection of the raw TCP front end: the dispatch on its     *)
(* first line (proxy/streaming/tunnel.py, make_raw_handler), the CONNECT   *)
(* tunnel (handle_connect), the WebSocket relay (proxy/streaming/          *)
(* websocket.py) and the forward to the internal HTTP server.              *)
(*                                                                         *)
(* A byte stream is the sequence of the numbers of its segments.  Segment  *)
(* Line of the client is its request line, segment Head the headers and    *)
(* the blank line, and what follows is payload.                            *)
(***************************************************************************)
EXTENDS Naturals, SequencesExt

CONSTANTS
    Wants,          \* what clients ask for, of "connect", "malformed", "http",
                    \* "websocket"
    Vias,           \* the kinds of proxy picked, of "http", "socks", "none"
    MaxSent,        \* bound: segments that the client writes
    MaxReply        \* bound: segments that the other end writes

ASSUME RelayAssumption ==
    /\ Wants \subseteq {"connect", "malformed", "http", "websocket"}
    /\ Vias \subseteq {"http", "socks", "none"}
    /\ MaxSent \in Nat
    /\ MaxReply \in Nat

Line == 1
HeadEnd == 2
Established == 200
BadRequest  == 400
BadGateway  == 502

VARIABLES
    want, via,
    phase,      \* where the handler stands
    mode,       \* the handler that took the connection
    taken,      \* `combined`: what the dispatch has read
    pumps,      \* the pipe coroutines that run: "c2u", "u2c"
    blocked,    \* those in `await drain()`: what they write to is not being read
    sent,       \* segments the client has written
    inbox,      \* those the relay has not read
    cend,       \* the client's end: "open", "half" (shut for writing), "gone"
    wopen,      \* writer has not been closed
    got,        \* what the client has been sent
    up,         \* the relay's end of the other connection: "none", "open", "closed"
    usent,      \* segments the other end has written
    outbox,     \* those the relay has not read
    uend,       \* the other end: "open", "half", "gone"
    ugot        \* what it has been sent

dispatch == <<want, via, phase, mode, taken, pumps, blocked>>
client   == <<sent, inbox, cend, wopen, got>>
other    == <<up, usent, outbox, uend, ugot>>
vars     == <<dispatch, client, other>>

Segments(a, b) == [i \in 1 .. (b + 1) - a |-> a + i - 1]

Init ==
    /\ want \in Wants /\ via \in Vias
    /\ phase = "line" /\ mode = "undecided" /\ taken = <<>>
    /\ pumps = {} /\ blocked = {}
    /\ sent = 0 /\ inbox = <<>> /\ cend = "open" /\ wopen = TRUE /\ got = <<>>
    /\ up = "none" /\ usent = 0 /\ outbox = <<>> /\ uend = "open" /\ ugot = <<>>

-----------------------------------------------------------------------------
(* The two peers.                                                          *)

ClientSends ==
    /\ cend = "open" /\ wopen
    /\ sent < MaxSent
    /\ sent' = sent + 1
    /\ inbox' = Append(inbox, sent + 1)
    /\ UNCHANGED <<cend, wopen, got, dispatch, other>>

ClientEnds ==
    /\ \/ cend = "open" /\ cend' \in {"half", "gone"}
       \/ cend = "half" /\ cend' = "gone"
    /\ UNCHANGED <<sent, inbox, wopen, got, dispatch, other>>

OtherSends ==
    /\ phase = "relay" /\ up = "open" /\ uend = "open"
    /\ usent < MaxReply
    /\ usent' = usent + 1
    /\ outbox' = Append(outbox, usent + 1)
    /\ UNCHANGED <<up, uend, ugot, dispatch, client>>

OtherEnds ==
    /\ up = "open"
    /\ \/ uend = "open" /\ uend' \in {"half", "gone"}
       \/ uend = "half" /\ uend' = "gone"
    /\ UNCHANGED <<up, usent, outbox, ugot, dispatch, client>>

-----------------------------------------------------------------------------
(* The dispatch.                                                           *)

\* The stream reader of the client has no more to give.
ClientEOF == cend = "gone" \/ ~ wopen \/ (cend = "half" /\ inbox = <<>>)
OtherEOF  == uend = "gone" \/ up # "open" \/ (uend = "half" /\ outbox = <<>>)

\* writer.write(s): nothing reaches a client that is gone.
Written(s) == IF wopen /\ cend # "gone" THEN got \o s ELSE got

\* The handler returns with the client's connection closed.
Leave(s) ==
    /\ phase' = "done"
    /\ got' = Written(s)
    /\ wopen' = FALSE
    /\ UNCHANGED <<sent, inbox, cend>>

\* The first line, or an empty one at the end of the stream.
ReadLine ==
    /\ phase = "line"
    /\ \/ /\ inbox # <<>>
          /\ inbox' = Tail(inbox)
          /\ taken' = <<Line>>
          /\ phase' = IF want \in {"connect", "malformed"} THEN "headers" ELSE "peek"
       \/ /\ inbox = <<>> /\ cend # "open"
          /\ phase' = "peek"
          /\ UNCHANGED <<inbox, taken>>
    /\ UNCHANGED <<want, via, mode, pumps, blocked, sent, cend, wopen, got, other>>

\* Ten seconds without a line, or a reset.
LineTimeout ==
    /\ phase = "line"
    /\ inbox = <<>> \/ cend = "gone"
    /\ Leave(<<>>)
    /\ UNCHANGED <<want, via, mode, taken, pumps, blocked, other>>

\* CONNECT without a target is dropped; else the headers are read and dropped.
\* A reset ends the handler, for no try surrounds this loop.
ReadHeaders ==
    /\ phase = "headers"
    /\ \/ /\ want = "malformed" \/ cend = "gone"
          /\ Leave(<<>>)
          /\ mode' = mode
       \/ /\ want = "connect"
          /\ \/ inbox # <<>> /\ inbox' = Tail(inbox)
             \/ inbox = <<>> /\ cend # "open" /\ inbox' = inbox
          /\ mode' = "connect" /\ phase' = "open"
          /\ UNCHANGED <<sent, cend, wopen, got>>
    /\ UNCHANGED <<want, via, taken, pumps, blocked, other>>

\* Mutation: the first line is not replayed.
PeekForgetsLine ==
    /\ phase = "peek"
    /\ phase' = "open"
    /\ taken' = inbox
    /\ inbox' = <<>>
    /\ mode' = IF want = "websocket" /\ Contains(taken', HeadEnd) THEN "websocket" ELSE "http"
    /\ UNCHANGED <<want, via, pumps, blocked, sent, cend, wopen, got, other>>

\* Whatever has arrived within two seconds is taken, up to 4 KB, and nothing
\* after a reset; an Upgrade header that comes later is not seen.
Peek ==
    /\ phase = "peek"
    /\ phase' = "open"
    /\ \/ taken' = taken \o inbox
       \/ cend = "gone" /\ taken' = taken
    /\ inbox' = <<>>
    /\ mode' = IF want = "websocket" /\ Contains(taken', HeadEnd) THEN "websocket" ELSE "http"
    /\ UNCHANGED <<want, via, pumps, blocked, sent, cend, wopen, got, other>>

\* handle_websocket_upgrade without a host: it returns before its try, and
\* leaves the client's connection open.
NoHost ==
    /\ phase = "open" /\ mode = "websocket"
    /\ phase' = "done"
    /\ got' = Written(<<BadRequest>>)
    /\ UNCHANGED <<want, via, mode, taken, pumps, blocked, sent, inbox, cend, wopen, other>>

-----------------------------------------------------------------------------
(* The other connection.                                                   *)

\* An exception before the pipes run: 502, except on the plain forward.  The
\* other connection may have been made by then; it is not closed.
Fails ==
    /\ phase \in {"open", "answer"}
    /\ Leave(IF mode = "http" THEN <<>> ELSE <<BadGateway>>)
    /\ up' \in {up, "open"}
    /\ UNCHANGED <<want, via, mode, taken, pumps, blocked, usent, outbox, uend, ugot>>

\* The pipes start.  The WebSocket relay reads its client from a stream made
\* of what the dispatch took, at whose end there is no more: the request line
\* comes twice in what it replays, for the dispatch had put it there too.
Bridge ==
    /\ phase' = "relay"
    /\ pumps' = {"c2u", "u2c"}
    /\ up' = "open"
    /\ ugot' = CASE mode = "connect"   -> <<>>
                 [] mode = "http"      -> taken
                 [] mode = "websocket" -> <<Line, Line, HeadEnd>>
    /\ taken' = IF mode = "websocket" THEN SelectSeq(taken, LAMBDA i : i > HeadEnd) ELSE <<>>
    /\ got' = IF mode = "connect" THEN Written(<<Established>>) ELSE got
    /\ UNCHANGED <<want, via, mode, blocked, sent, inbox, cend, wopen, usent, outbox, uend>>

\* An HTTP proxy is sent a CONNECT first, and its answer has no time limit.
\* handle_connect takes no proxy at all for an HTTP proxy.
AsksProxy == \/ mode = "connect" /\ via # "socks"
             \/ mode = "websocket" /\ via = "http"

Opens ==
    /\ phase = "open"
    /\ IF AsksProxy
       THEN /\ phase' = "answer"
            /\ up' = "open"
            /\ UNCHANGED <<want, via, mode, taken, pumps, blocked, client, usent, outbox, uend, ugot>>
       ELSE Bridge

Agrees ==
    /\ phase = "answer" /\ uend = "open"
    /\ Bridge

\* Another answer, or none at the end of the stream.  The connection to the
\* proxy is left open.
Refuses ==
    /\ phase = "answer"
    /\ Leave(IF mode = "websocket" THEN <<BadGateway>> ELSE <<>>)
    /\ UNCHANGED <<want, via, mode, taken, pumps, blocked, other>>

-----------------------------------------------------------------------------
(* The pipes: the two calls of pipe in handle_connect (tunnel.py:54-66), of   *)
(* _pipe in the WebSocket relay (websocket.py:35-49, 168-171), and _pr and    *)
(* _ps of the plain forward (tunnel.py:137-154).  After each write a pipe     *)
(* awaits drain(): when the peer reads too slowly it is suspended there, and  *)
(* neither reads on nor sees the end of what it reads from.                   *)

\* What the pipe from the client reads from.
FromClient == IF mode = "websocket" THEN taken ELSE inbox

\* drain() returns at once, or waits for a peer that is there to read.
Drains(pipe, peer) ==
    \/ blocked' = blocked
    \/ peer # "gone" /\ blocked' = blocked \cup {pipe}

\* The peer has read enough: drain() returns.
OtherReads ==
    /\ "c2u" \in blocked /\ uend # "gone"
    /\ blocked' = blocked \ {"c2u"}
    /\ UNCHANGED <<want, via, phase, mode, taken, pumps, client, other>>

ClientReads ==
    /\ "u2c" \in blocked /\ cend # "gone"
    /\ blocked' = blocked \ {"u2c"}
    /\ UNCHANGED <<want, via, phase, mode, taken, pumps, client, other>>

\* A pipe towards a peer that is gone loses what it writes, or fails.
ClientToOther ==
    /\ "c2u" \in pumps \ blocked
    /\ FromClient # <<>>
    /\ up = "open"
    /\ IF mode = "websocket" THEN taken' = <<>> /\ inbox' = inbox
                             ELSE inbox' = <<>> /\ taken' = taken
    /\ ugot' = IF uend = "gone" THEN ugot ELSE ugot \o FromClient
    /\ Drains("c2u", uend)
    /\ UNCHANGED <<want, via, phase, mode, pumps, sent, cend, wopen, got,
                   up, usent, outbox, uend>>

\* The end of what the pipe reads from, or an exception on what it had to
\* write; a drain that waits raises when the connection is lost.
ClientPipeStops ==
    /\ "c2u" \in pumps
    /\ IF "c2u" \in blocked
       THEN uend = "gone"
       ELSE \/ IF mode = "websocket" THEN taken = <<>> ELSE ClientEOF
            \/ uend = "gone" /\ FromClient # <<>>

OtherPipeStops ==
    /\ "u2c" \in pumps
    /\ IF "u2c" \in blocked
       THEN cend = "gone"
       ELSE OtherEOF \/ (cend = "gone" /\ outbox # <<>>)

\* Mutation: the end of one direction is not passed on.
ClientPipeKeepsOther ==
    /\ ClientPipeStops
    /\ pumps' = pumps \ {"c2u"}
    /\ blocked' = blocked \ {"c2u"}
    /\ UNCHANGED <<want, via, phase, mode, taken, client, other>>

ClientPipeEnds ==
    /\ ClientPipeStops
    /\ pumps' = pumps \ {"c2u"}
    /\ blocked' = blocked \ {"c2u"}
    /\ up' = "closed"
    /\ UNCHANGED <<want, via, phase, mode, taken, client, usent, outbox, uend, ugot>>

OtherToClient ==
    /\ "u2c" \in pumps \ blocked
    /\ outbox # <<>>
    /\ wopen
    /\ outbox' = <<>>
    /\ got' = Written(outbox)
    /\ Drains("u2c", cend)
    /\ UNCHANGED <<sent, inbox, cend, wopen, up, usent, uend, ugot,
                   want, via, phase, mode, taken, pumps>>

\* Mutation: the pipe gives up when nothing has arrived.
OtherPipeGivesUp ==
    /\ \/ OtherPipeStops
       \/ "u2c" \in pumps \ blocked /\ outbox = <<>>
    /\ pumps' = pumps \ {"u2c"}
    /\ blocked' = blocked \ {"u2c"}
    /\ wopen' = (wopen /\ mode = "http")
    /\ UNCHANGED <<want, via, phase, mode, taken, sent, inbox, cend, got, other>>

\* The plain forward does not pass the end of its server on to the client.
OtherPipeEnds ==
    /\ OtherPipeStops
    /\ pumps' = pumps \ {"u2c"}
    /\ blocked' = blocked \ {"u2c"}
    /\ wopen' = (wopen /\ mode = "http")
    /\ UNCHANGED <<want, via, phase, mode, taken, sent, inbox, cend, got, other>>

\* gather() returns when both pipes have ended.
Gathered ==
    /\ phase = "relay" /\ pumps = {}
    /\ Leave(<<>>)
    /\ UNCHANGED <<want, via, mode, taken, pumps, blocked, other>>

Pipes == ClientToOther \/ ClientPipeEnds \/ OtherToClient \/ OtherPipeEnds \/ Gathered

Handler ==
    \/ ReadLine \/ LineTimeout \/ ReadHeaders \/ Peek \/ NoHost
    \/ Fails \/ Opens \/ Agrees \/ Refuses
    \/ Pipes

Next ==
    \/ Handler
    \/ ClientSends \/ ClientEnds \/ ClientReads
    \/ OtherSends \/ OtherEnds \/ OtherReads

\* Each pipe is a coroutine that the event loop runs whenever it can go on;
\* nothing obliges a peer to write, to read, to answer or to close.
Fairness ==
    /\ WF_vars(ClientToOther \/ ClientPipeEnds)
    /\ WF_vars(OtherToClient \/ OtherPipeEnds)
    /\ WF_vars(Gathered)

Spec == Init /\ [][Next]_vars /\ Fairness

-----------------------------------------------------------------------------
(* Properties.                                                             *)

\* What a CONNECT tunnel or a forward carries arrives as it was written, in
\* order and without a gap, however it is cut into reads: the other end has
\* been sent a prefix of what the client wrote (of what followed its headers,
\* in a tunnel) and the client a prefix of the reply, after the 200 of a
\* tunnel.  Nothing is missing as long as neither connection has been closed.
\* The dispatch reads the first segments before it knows whose they are
\* (tunnel.py:88-134) and nothing is lost or sent twice by that.
BytesInOrder ==
    LET first    == IF mode = "connect" THEN 3 ELSE 1
        written  == Segments(first, sent)
        greeting == IF mode = "connect" THEN <<Established>> ELSE <<>>
        reply    == greeting \o Segments(1, usent)
    IN  mode \in {"connect", "http"} =>
          /\ IsPrefix(ugot, written)
          /\ got \in {<<>>, <<BadGateway>>} \/ IsPrefix(got, reply)
          /\ phase = "relay" /\ {cend, uend} \cap {"gone"} = {} /\ up = "open" /\ wopen
                => ugot \o inbox = written /\ got \o outbox = reply

\* A tunnel is bridged "until either side closes" (websocket.py:61-63): while
\* both peers can still write, the relay does not close either connection.
BridgedWhileBothOpen ==
    phase = "relay" /\ mode # "websocket" /\ cend = "open" /\ uend = "open"
        => up = "open" /\ wopen /\ pumps = {"c2u", "u2c"}

\* What the docstring of handle_websocket_upgrade says of its own relay.
WebSocketBridged ==
    phase = "relay" /\ mode = "websocket" /\ cend = "open" /\ uend = "open"
        => up = "open"

\* The end of one side is passed on, between peers that read what they are
\* sent: once a bridged peer has closed, both connections are closed and the
\* handler returns, although each pipe sees only one of the two streams and
\* none while it waits in drain() (tunnel.py:54-68, 137-161).  With a peer that
\* stays and never reads, the pipe towards it hangs for ever and the end of the
\* other side is not noticed.  On the plain forward only the client's end is
\* passed on: its server closing leaves the client waiting for an end of stream
\* that never comes.
EndIsPassedOn ==
    (\A pipe \in {"c2u", "u2c"} : []<>(pipe \notin blocked)) =>
        (phase = "relay" /\ (cend # "open" \/ (mode # "http" /\ uend # "open"))
            ~> phase = "done" /\ ~ wopen /\ up = "closed")
=============================================================================
