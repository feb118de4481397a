-------------------------- MODULE WebSocketServer --------------------------
(***************************************************************************)
(* WebSocketServer and the WebSocketTransport of each of its connections:  *)
(* a read loop, a write loop and a message handler, three goroutines over  *)
(* three bounded channels and a context, against the peer and the close of *)
(* the server.  (A client's Start runs the same loops.)                    *)
(*                                                                         *)
(* The code's channels hold 100 messages and 10 errors.  A queue is here   *)
(* its length: what a message says matters only in being valid or not.     *)
(***************************************************************************)
EXTENDS Integers, FiniteSets

CONSTANTS Conns,
          BufferSize,    \* bound: capacity of readChan and writeChan
          ErrorSize,     \* bound: capacity of errorChan
          MaxSent        \* bound: messages the peer of a connection sends

VARIABLES
    serving,   \* ws.ctx is not cancelled
    listed,    \* ws.connections
    conn       \* the transports and their goroutines

vars == <<serving, listed, conn>>

NoConn == [open |-> FALSE, ctx |-> FALSE, closed |-> FALSE, sent |-> 0,
           readChan |-> 0, writeChan |-> 0, errorChan |-> 0,
           reader |-> "none", writer |-> "none", handler |-> "none"]

Init ==
    /\ serving = TRUE
    /\ listed = {}
    /\ conn = [k \in Conns |-> NoConn]

Set(k, c) == conn' = [conn EXCEPT ![k] = c]

\* transport.ctx is made from ws.ctx.
Done(k) == ~conn[k].ctx \/ ~serving

\* Close of the transport, once.  The socket goes with it.
Closed(c) == [c EXCEPT !.closed = TRUE, !.ctx = FALSE, !.open = FALSE]

-----------------------------------------------------------------------------
(* The server *)

\* Registration and the start of the loops; an upgrade may be under way while
\* the server closes.
UpgradeHTTP(k) ==
    /\ conn[k] = NoConn
    /\ Set(k, [NoConn EXCEPT !.open = TRUE, !.ctx = TRUE, !.reader = "reading",
                             !.writer = "writing", !.handler = "connecting"])
    /\ listed' = listed \cup {k}
    /\ UNCHANGED serving

\* OnConnect refuses the connection, or its messages are handled from now on.
OnConnect(k, accepts) ==
    /\ conn[k].handler = "connecting"
    /\ IF accepts
       THEN Set(k, [conn[k] EXCEPT !.handler = "receiving"]) /\ UNCHANGED listed
       ELSE /\ Set(k, [Closed(conn[k]) EXCEPT !.handler = "ended"])
            /\ listed' = listed \ {k}
    /\ UNCHANGED serving

MutReceive(k) ==
    LET c == conn[k]
    IN  /\ c.handler = "receiving"
        /\ \/ c.readChan > 0 /\ Set(k, [c EXCEPT !.readChan = @ - 1, !.handler = "handling"])
           \/ c.errorChan > 0 /\ Set(k, [c EXCEPT !.errorChan = @ - 1, !.handler = "leaving"])
        /\ UNCHANGED <<serving, listed>>

\* Receive takes whatever is ready: a message, an error, the end.
Receive(k) ==
    LET c == conn[k]
    IN  /\ c.handler = "receiving"
        /\ \/ c.readChan > 0 /\ Set(k, [c EXCEPT !.readChan = @ - 1, !.handler = "handling"])
           \/ c.errorChan > 0 /\ Set(k, [c EXCEPT !.errorChan = @ - 1, !.handler = "leaving"])
           \/ Done(k) /\ Set(k, [c EXCEPT !.handler = "leaving"])
        /\ UNCHANGED <<serving, listed>>

\* OnMessage is done with a message; a failed request is answered.  Send
\* checks `closed' first and gives up after five seconds.
OnMessage(k, fails) ==
    LET c == conn[k]
        queued == fails /\ ~c.closed /\ c.writeChan < BufferSize
    IN  /\ c.handler = "handling"
        /\ Set(k, [c EXCEPT !.handler = IF Done(k) THEN "leaving" ELSE "receiving",
                            !.writeChan = IF queued THEN @ + 1 ELSE @])
        /\ UNCHANGED <<serving, listed>>

\* The deferred OnDisconnect, removal and close.
Leave(k) ==
    /\ conn[k].handler = "leaving"
    /\ Set(k, [Closed(conn[k]) EXCEPT !.handler = "ended"])
    /\ listed' = listed \ {k}
    /\ UNCHANGED serving

CloseServer ==
    /\ serving
    /\ serving' = FALSE
    /\ conn' = [k \in Conns |-> IF k \in listed THEN Closed(conn[k]) ELSE conn[k]]
    /\ listed' = {}

-----------------------------------------------------------------------------
(* The loops of a transport *)

\* A report of an error waits for room in the channel, for the end of nothing.
Report(c, then) ==
    IF c.errorChan < ErrorSize THEN [c EXCEPT !.errorChan = @ + 1, !.reader = then]
    ELSE [c EXCEPT !.reader = IF then = "closing" THEN "reporting end" ELSE "reporting"]

MutreadLoop(k) ==
    LET c == conn[k]
    IN  /\ c.reader = "reading"
        /\ \/ Done(k) /\ Set(k, [c EXCEPT !.reader = "closing"])
           \/ ~c.open /\ Set(k, [c EXCEPT !.reader = "ended"])
           \/ /\ c.open /\ c.sent < MaxSent
              /\ \/ Set(k, [c EXCEPT !.sent = @ + 1, !.reader = "passing"])
                 \/ Set(k, Report([c EXCEPT !.sent = @ + 1], "reading"))
        /\ UNCHANGED <<serving, listed>>

\* One turn: the end of the context, a failed read (reported unless the peer
\* just went away), a message that does not validate, or one to pass on.
readLoop(k) ==
    LET c == conn[k]
    IN  /\ c.reader = "reading"
        /\ \/ Done(k) /\ Set(k, [c EXCEPT !.reader = "closing"])
           \/ ~c.open /\ Set(k, [c EXCEPT !.reader = "closing"])
           \/ ~c.open /\ Set(k, Report(c, "closing"))
           \/ /\ c.open /\ c.sent < MaxSent
              /\ \/ Set(k, [c EXCEPT !.sent = @ + 1, !.reader = "passing"])
                 \/ Set(k, Report([c EXCEPT !.sent = @ + 1], "reading"))
        /\ UNCHANGED <<serving, listed>>

readLoopPass(k) ==
    LET c == conn[k]
    IN  /\ c.reader = "passing"
        /\ \/ /\ c.readChan < BufferSize
              /\ Set(k, [c EXCEPT !.readChan = @ + 1, !.reader = "reading"])
           \/ Done(k) /\ Set(k, [c EXCEPT !.reader = "closing"])
        /\ UNCHANGED <<serving, listed>>

readLoopReport(k) ==
    LET c == conn[k]
    IN  /\ c.reader \in {"reporting", "reporting end"} /\ c.errorChan < ErrorSize
        /\ Set(k, [c EXCEPT !.errorChan = @ + 1,
                            !.reader = IF @ = "reporting" THEN "reading" ELSE "closing"])
        /\ UNCHANGED <<serving, listed>>

readLoopCloses(k) ==
    /\ conn[k].reader = "closing"
    /\ Set(k, [Closed(conn[k]) EXCEPT !.reader = "ended"])
    /\ UNCHANGED <<serving, listed>>

\* A message or a ping that cannot be written ends the loop and nothing else:
\* the transport still counts as connected.
writeLoop(k) ==
    LET c == conn[k]
    IN  /\ c.writer = "writing"
        /\ \/ /\ c.writeChan > 0 /\ c.open
              /\ Set(k, [c EXCEPT !.writeChan = @ - 1])
           \/ /\ c.writeChan > 0 /\ ~c.open
              /\ Set(k, [c EXCEPT !.writeChan = @ - 1, !.writer = "reporting"])
           \/ ~c.open /\ Set(k, [c EXCEPT !.writer = "ended"])
           \/ Done(k) /\ Set(k, [c EXCEPT !.writer = "ended"])
        /\ UNCHANGED <<serving, listed>>

writeLoopReport(k) ==
    LET c == conn[k]
    IN  /\ c.writer = "reporting" /\ c.errorChan < ErrorSize
        /\ Set(k, [c EXCEPT !.errorChan = @ + 1, !.writer = "ended"])
        /\ UNCHANGED <<serving, listed>>

\* The peer, or the read deadline of a peer that is silent.
PeerGone(k) ==
    /\ conn[k].open
    /\ Set(k, [conn[k] EXCEPT !.open = FALSE])
    /\ UNCHANGED <<serving, listed>>

ReadLoop(k) == readLoop(k) \/ readLoopPass(k) \/ readLoopReport(k) \/ readLoopCloses(k)
WriteLoop(k) == writeLoop(k) \/ writeLoopReport(k)
Handler(k) ==
    \/ \E b \in BOOLEAN : OnConnect(k, b) \/ OnMessage(k, b)
    \/ Receive(k) \/ Leave(k)

Next ==
    \/ \E k \in Conns : UpgradeHTTP(k) \/ Handler(k) \/ ReadLoop(k) \/ WriteLoop(k) \/ PeerGone(k)
    \/ CloseServer

-----------------------------------------------------------------------------
Over(k) == ~conn[k].open \/ ~serving

\* A loop that waits to report an error when nobody reads errors any more.
Stuck(k) ==
    /\ conn[k].errorChan = ErrorSize /\ conn[k].handler = "ended"
    /\ \/ conn[k].reader \in {"reporting", "reporting end"}
       \/ conn[k].writer = "reporting"

\* A connection whose peer is gone or whose server has closed is cleaned up:
\* it leaves the list, its transport is closed and its goroutines end, save
\* one that waits for room among ten errors nobody reads.
ConnectionsEnd ==
    \A k \in Conns :
        [](conn[k] # NoConn /\ Over(k)
           => <>(/\ k \notin listed /\ conn[k].closed /\ conn[k].handler = "ended"
                 /\ \/ conn[k].reader = "ended" /\ conn[k].writer = "ended"
                    \/ Stuck(k)))
============================================================================
