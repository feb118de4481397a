------------------------------- MODULE Relay -------------------------------
(***************************************************************************)
(* The bidirectional relay.  A client's request is forwarded to a server,  *)
(* which may put notifications and requests of its own into the stream it  *)
(* answers with.  The relay passes them on; the client's answer to such a  *)
(* request comes in on another connection, and the registry of channels    *)
(* finds the goroutine that waits for it.                                  *)
(*                                                                         *)
(* A call is one client request.  Each of its server's requests has its    *)
(* own waiting goroutine, against the client's answer, the five minutes,   *)
(* the end of the relay and the client's departure.  Servers choose the    *)
(* IDs of their requests.  The relay over SSE runs the same channels.      *)
(***************************************************************************)
EXTENDS Integers, FiniteSets

CONSTANTS Calls, Sessions,
          Ids          \* IDs of requests, all of them numbers

VARIABLES
    channels,  \* registry.channels: the call filed under a session
    call,      \* the relays, with their clientChannel
    waiter     \* the waiting goroutine for each call and ID of its server

vars == <<channels, call, waiter>>

NoCall == [at |-> "none", session |-> "", mode |-> "single", id |-> 0,
           pending |-> {}, sentFinal |-> FALSE, final |-> FALSE, gone |-> FALSE]
NoWaiter == [at |-> "none", answers |-> 0, by |-> "none"]

\* How the client is written to; "ndjson" differs from "sse" in framing alone.
Modes == {"sse", "single"}

\* The text an ID is compared by.  The relay decodes a number to an integer,
\* everybody else to a float, and %v writes a float from a million on with an
\* exponent: 1e+06.
idKey(id, type) == IF type = "float64" /\ id >= 1000000 THEN <<"e", id>> ELSE <<"n", id>>

idsEqual(id, original) == idKey(id, "int64") = idKey(original, "float64")

Init ==
    /\ channels = [s \in Sessions |-> "none"]
    /\ call = [k \in Calls |-> NoCall]
    /\ waiter = [k \in Calls |-> [i \in Ids |-> NoWaiter]]

\* runBidirectionalStreamableHTTPRelay: the channel is filed under the
\* session, over one that is there.
OpenRelay(k, s, mode, id) ==
    /\ call[k] = NoCall
    /\ call' = [call EXCEPT ![k] = [NoCall EXCEPT !.at = "open", !.session = s,
                                                  !.mode = mode, !.id = id]]
    /\ channels' = [channels EXCEPT ![s] = k]
    /\ UNCHANGED waiter

\* The deferred calls: the key is removed, whoever is filed under it, and the
\* waits are cancelled.
EndRelay(k, c) ==
    /\ channels' = [channels EXCEPT ![call[k].session] = "none"]
    /\ call' = [call EXCEPT ![k] = [c EXCEPT !.at = "over", !.pending = {}]]
    /\ waiter' = [waiter EXCEPT ![k] = [i \in Ids |->
           IF i \in call[k].pending /\ waiter[k][i].at = "waiting"
           THEN [waiter[k][i] EXCEPT !.at = "closed"] ELSE waiter[k][i]]]

\* A request of the server.  One that cannot be passed on is answered at once
\* in single mode; when the write fails the wait ends with an empty answer,
\* which nobody waits for.
UpstreamRequest(k, i, writeOk) ==
    /\ call[k].at = "open" /\ waiter[k][i] = NoWaiter
    /\ IF call[k].mode = "single"
       THEN /\ waiter' = [waiter EXCEPT ![k][i] = [at |-> "ended", answers |-> 1, by |-> "proxy"]]
            /\ UNCHANGED call
       ELSE IF writeOk
       THEN /\ waiter' = [waiter EXCEPT ![k][i].at = "waiting"]
            /\ call' = [call EXCEPT ![k].pending = @ \cup {i}]
       ELSE /\ waiter' = [waiter EXCEPT ![k][i].at = "unsent"]
            /\ UNCHANGED call
    /\ UNCHANGED channels

\* relayBidirectional sees the final response: it ends, unless the ID is not
\* found equal and the response is passed on like any other.
FinalResponse(k) ==
    /\ call[k].at = "open" /\ ~call[k].sentFinal
    /\ LET sent == [call[k] EXCEPT !.sentFinal = TRUE,
                                   !.final = idsEqual(call[k].id, call[k].id)]
       IN  IF sent.final THEN EndRelay(k, sent)
           ELSE call' = [call EXCEPT ![k] = sent] /\ UNCHANGED <<channels, waiter>>

\* The end of the stream, or a read error.
UpstreamEnds(k) ==
    /\ call[k].at = "open"
    /\ EndRelay(k, call[k])

\* The client's request is cancelled, or the handler has returned.
ContextDone(k) ==
    /\ call[k].at \in {"open", "over"} /\ ~call[k].gone
    /\ \/ call[k].at = "open" /\ EndRelay(k, [call[k] EXCEPT !.gone = TRUE])
       \/ /\ call[k].at = "over"
          /\ call' = [call EXCEPT ![k].gone = TRUE]
          /\ UNCHANGED <<channels, waiter>>

-----------------------------------------------------------------------------
(* The client's answers *)

MutresolvePending(k, i, by) ==
    /\ waiter' = [waiter EXCEPT ![k][i].at = IF @ = "waiting" THEN "replied" ELSE @,
                                ![k][i].by = by]
    /\ UNCHANGED <<call, channels>>

\* resolvePending: the entry goes, so that the wait is resolved once.
resolvePending(k, i, by) ==
    /\ call' = [call EXCEPT ![k].pending = @ \ {i}]
    /\ waiter' = [waiter EXCEPT ![k][i].at = IF @ = "waiting" THEN "replied" ELSE @,
                                ![k][i].by = by]
    /\ UNCHANGED channels

Resolves(k, i) == idKey(i, "float64") = idKey(i, "int64") /\ i \in call[k].pending

\* routeClientReply: the client of call k answers its server's request i.  The
\* session's channel is tried first, then every registered channel, in any
\* order, for the ID alone.
routeClientReply(k, i, s) ==
    LET filed == {channels[x] : x \in Sessions} \cap Calls
        first == {channels[s]} \cap Calls
        takers == IF \E x \in first : Resolves(x, i) THEN first
                  ELSE {x \in filed : Resolves(x, i)}
    IN  /\ waiter[k][i].at \in {"waiting", "replied", "closed"}
        /\ \E x \in takers : resolvePending(x, i, IF x = k THEN "client" ELSE "other client")

-----------------------------------------------------------------------------
(* The waiting goroutine *)

Answered(k, i) ==
    /\ waiter' = [waiter EXCEPT ![k][i].at = "ended", ![k][i].answers = @ + 1,
                                ![k][i].by = IF @ = "none" THEN "proxy" ELSE @]
    /\ UNCHANGED <<channels, call>>

\* An answer, or a closed channel: the server is told, as long as the request
\* to it is not cancelled with the client's.
WaitEnds(k, i) ==
    /\ waiter[k][i].at \in {"replied", "closed"}
    /\ IF call[k].gone THEN /\ waiter' = [waiter EXCEPT ![k][i].at = "ended"]
                            /\ UNCHANGED <<channels, call>>
       ELSE Answered(k, i)

MutWaitTimesOut(k, i) ==
    /\ waiter[k][i].at \in {"waiting", "replied"}
    /\ waiter' = [waiter EXCEPT ![k][i].answers = @ + 1,
                                ![k][i].at = IF @ = "waiting" THEN "ended" ELSE @]
    /\ UNCHANGED <<channels, call>>

\* Five minutes; an answer that came at the same moment is dropped.
WaitTimesOut(k, i) ==
    /\ waiter[k][i].at \in {"waiting", "replied"}
    /\ waiter' = [waiter EXCEPT ![k][i] = [at |-> "ended", answers |-> @.answers + 1, by |-> "proxy"]]
    /\ call' = [call EXCEPT ![k].pending = @ \ {i}]
    /\ UNCHANGED channels

\* The client has gone: nobody tells the server.
WaitCancelled(k, i) ==
    /\ waiter[k][i].at \in {"waiting", "replied", "closed"} /\ call[k].gone
    /\ waiter' = [waiter EXCEPT ![k][i].at = "ended"]
    /\ call' = [call EXCEPT ![k].pending = @ \ {i}]
    /\ UNCHANGED channels

Wait(k, i) == WaitEnds(k, i) \/ WaitTimesOut(k, i) \/ WaitCancelled(k, i)

Next ==
    \/ \E k \in Calls, s \in Sessions, mode \in Modes, id \in Ids : OpenRelay(k, s, mode, id)
    \/ \E k \in Calls, i \in Ids, ok \in BOOLEAN : UpstreamRequest(k, i, ok)
    \/ \E k \in Calls : FinalResponse(k) \/ UpstreamEnds(k) \/ ContextDone(k)
    \/ \E k \in Calls, i \in Ids, s \in Sessions : routeClientReply(k, i, s)
    \/ \E k \in Calls, i \in Ids : Wait(k, i)

-----------------------------------------------------------------------------
\* A server is answered at most once per request, and not at all after its
\* wait was cancelled, although the client's answer, the timer, the end of
\* the relay and the client's departure may all come at once.
AnsweredOnce ==
    \A k \in Calls, i \in Ids :
        /\ waiter[k][i].answers <= 1
        /\ waiter[k][i].answers = 1 => waiter[k][i].at = "ended"
        /\ i \in call[k].pending => waiter[k][i].at = "waiting"

Call == [at : {"none", "open", "over"}, session : Sessions \cup {""}, mode : Modes,
         id : Ids \cup {0}, pending : SUBSET Ids,
         sentFinal : BOOLEAN, final : BOOLEAN, gone : BOOLEAN]
Places == {"none", "unsent", "waiting", "replied", "closed", "ended"}
Answerers == {"none", "proxy", "client", "other client"}
Waiter == [at : Places, answers : {0, 1}, by : Answerers]

TypeOK ==
    /\ channels \in [Sessions -> Calls \cup {"none"}]
    /\ call \in [Calls -> Call]
    /\ waiter \in [Calls -> [Ids -> Waiter]]

RelayInv == TypeOK /\ AnsweredOnce
============================================================================
