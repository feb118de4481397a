--------------------------- MODULE ProtocolBridge ---------------------------
(***************************************************************************)
(* How the proxy talks to one MCP server: the discovery of its tools       *)
(* (initialize, the initialized notification, tools/list) and the single   *)
(* request of a tool call, over plain HTTP, streamable HTTP and SSE.       *)
(*                                                                         *)
(* The server is the environment: it answers, answers with an error,       *)
(* sends something that is no answer, or never answers.  A stream of       *)
(* server-sent events is a sequence of lines.                              *)
(***************************************************************************)
EXTENDS Integers, Sequences, FiniteSets

VARIABLES
    seq,      \* the sequence of requests under way
    session,  \* what the server got in it: method and how it was answered
    stream    \* the body of the last SSE response

bridgeVars == <<seq, session, stream>>

Idle == [kind |-> "none", protocol |-> "http", at |-> "idle", result |-> "none"]
Protocols == {"http", "http-stream", "sse"}

Init ==
    /\ seq = Idle
    /\ session = <<>>
    /\ stream = <<>>

-----------------------------------------------------------------------------
(* Streams: an event is a line that names it, perhaps, its data, a blank. *)

EventNames == {"response", "message", "other", "endpoint", "none"}
Payloads == {"reply", "notification", "path"}
\* Only a reply comes as an event of the name "response".
StreamEvents == {e \in EventNames \X Payloads : e[1] = "response" => e[2] # "notification"}

Lines(e) ==
    (IF e[1] = "none" THEN <<>> ELSE <<<<"event", e[1]>>>>) \o <<<<"data", e[2]>>, <<"", "">>>>
LinesOf(events) ==
    CASE Len(events) = 0 -> <<>>
      [] Len(events) = 1 -> Lines(events[1])
      [] OTHER -> Lines(events[1]) \o Lines(events[2])
Streams == {LinesOf(es) : es \in UNION {[1..n -> StreamEvents] : n \in 0..2}}

IsReply(lines, i) == i \in DOMAIN lines /\ lines[i] = <<"data", "reply">>

MutparseSSEResponse(lines) ==
    LET from[i \in 1..(Len(lines) + 3)] ==
          CASE i > Len(lines) -> 0
            [] IsReply(lines, i) -> i
            [] i <= Len(lines) /\ lines[i][1] = "event" ->
                 IF IsReply(lines, i + 1) THEN i + 1
                 ELSE IF i + 3 > Len(lines) THEN 0 ELSE from[i + 3 + 1]
            [] OTHER -> from[i + 1]
    IN  from[1]

\* The line of the reply it takes, 0 for none.  After an event "response" or
\* "message" without a reply, the branch for any other event reads one more
\* line: the blank.
parseSSEResponse(lines) ==
    LET from[i \in 1..(Len(lines) + 3)] ==
          IF i > Len(lines) THEN 0
          ELSE CASE lines[i] \in {<<"event", "response">>, <<"event", "message">>} ->
                      IF IsReply(lines, i + 1) THEN i + 1
                      ELSE IF IsReply(lines, i + 2) THEN i + 2 ELSE from[i + 3]
                 [] lines[i] = <<"event", "other">> ->
                      IF IsReply(lines, i + 1) THEN i + 1 ELSE from[i + 2]
                 [] IsReply(lines, i) -> i
                 [] OTHER -> from[i + 1]
    IN  from[1]

-----------------------------------------------------------------------------
(* Steps *)

Go(at) == seq' = [seq EXCEPT !.at = at]
End(result) == seq' = [seq EXCEPT !.at = "over", !.result = result]
Got(method, answer) == session' = Append(session, <<method, answer>>)

\* Discovery, which checks the status first, has thirty seconds for it all;
\* a call has what the client allows.  Over plain and streamable HTTP a call
\* is one request of a session nobody initialized.
makeToolsListRequest(p) ==
    /\ seq = Idle
    /\ seq' = [kind |-> "discover", protocol |-> p, result |-> "none",
               at |-> IF p = "sse" THEN "endpoint" ELSE "initialize"]
    /\ UNCHANGED <<session, stream>>
sendToolCall(p) ==
    /\ seq = Idle
    /\ seq' = [kind |-> "call", protocol |-> p, result |-> "none",
               at |-> IF p = "sse" THEN "endpoint" ELSE "request"]
    /\ UNCHANGED <<session, stream>>

\* The endpoint comes as the first event of that name, as JSON or as a bare
\* path; a stream that ends without one is an error.  For a call nothing
\* limits the wait: its context is the background's and the client for SSE
\* has no timeout.
establishSSESession(answer) ==
    /\ seq.at = "endpoint"
    /\ CASE answer = "ok" -> Go(IF seq.kind = "discover" THEN "initialize" ELSE "request")
         [] answer = "no json" -> End("error")
         [] answer = "silence" -> Go(IF seq.kind = "discover" THEN "waiting" ELSE "hanging")
    /\ UNCHANGED <<session, stream>>

\* A body that is no JSON is an error, whatever the status; one that is counts
\* as the answer, whatever the status.
sendRequestWithSession(method, next, answer) ==
    /\ seq.protocol # "sse" /\ seq.at = method
    /\ Got(method, answer)
    /\ CASE answer = "ok" -> IF next = "over" THEN End("answer") ELSE Go(next)
         [] answer = "rpc error" -> End(IF seq.kind = "call" THEN "answer" ELSE "error")
         [] answer = "no json" -> End("error")
         [] answer = "silence" -> Go("waiting")
    /\ UNCHANGED stream

MutHTTPInitialize(answer) ==
    \/ answer # "rpc error" /\ sendRequestWithSession("initialize", "initialized", answer)
    \/ /\ answer = "rpc error" /\ seq.protocol # "sse" /\ seq.at = "initialize"
       /\ Got("initialize", answer) /\ Go("initialized") /\ UNCHANGED stream

HTTPInitialize(answer) == sendRequestWithSession("initialize", "initialized", answer)
HTTPToolsList(answer) == sendRequestWithSession("tools/list", "over", answer)
HTTPCall(answer) == sendRequestWithSession("request", "over", answer)

\* Here a status of 400 or more is an error.
sendNotificationWithSession(answer) ==
    /\ seq.protocol # "sse" /\ seq.at = "initialized"
    /\ Got("initialized", answer)
    /\ CASE answer = "ok" -> Go("tools/list")
         [] answer \in {"rpc error", "no json"} -> End("error")
         [] answer = "silence" -> Go("waiting")
    /\ UNCHANGED stream

\* Over SSE initialize is only posted, its answer not awaited; a notification
\* that fails is passed over; then 100 ms for the server to work.
sendSSENotificationWithAuth(method, next, must, answer) ==
    /\ seq.protocol = "sse" /\ seq.at = method
    /\ Got(method, answer)
    /\ CASE answer = "ok" \/ (answer # "silence" /\ ~must) -> Go(next)
         [] answer = "silence" -> Go("waiting")
         [] OTHER -> End("error")
    /\ UNCHANGED stream
SSEInitialize(answer) == sendSSENotificationWithAuth("initialize", "initialized", TRUE, answer)
SSEInitialized(answer) == sendSSENotificationWithAuth("initialized", "tools/list", FALSE, answer)

\* The answer comes as a stream, of which the first reply is taken; its id is
\* not compared.
sendSSERequestAndWaitForResponseWithAuth(answer, lines) ==
    /\ seq.protocol = "sse" /\ seq.at \in {"tools/list", "request"}
    /\ Got(seq.at, answer)
    /\ stream' = lines
    /\ CASE answer = "ok" -> End(IF parseSSEResponse(lines) = 0 THEN "error" ELSE "answer")
         [] answer = "silence" -> Go("waiting")
         [] OTHER -> End("error")

MutTimeout ==
    /\ seq.at = "waiting" /\ seq.protocol # "http-stream"
    /\ End("error")
    /\ UNCHANGED <<session, stream>>

\* The context of the discovery, the ten seconds of an SSE request, or the
\* timeout of the connection's client.
Timeout ==
    /\ seq.at = "waiting"
    /\ End("error")
    /\ UNCHANGED <<session, stream>>

ServerCloses ==
    /\ seq.at = "hanging"
    /\ End("error")
    /\ UNCHANGED <<session, stream>>

Returns ==
    /\ seq.at = "over"
    /\ seq' = Idle /\ session' = <<>> /\ stream' = <<>>

Answers == {"ok", "rpc error", "no json", "silence"}
Step ==
    \/ \E a \in Answers \ {"rpc error"} : establishSSESession(a)
    \/ \E a \in Answers :
          \/ HTTPInitialize(a) \/ HTTPToolsList(a) \/ HTTPCall(a)
          \/ sendNotificationWithSession(a)
          \/ SSEInitialize(a) \/ SSEInitialized(a)
    \/ \E lines \in Streams : sendSSERequestAndWaitForResponseWithAuth("ok", lines)
    \/ \E a \in Answers \ {"ok"} : sendSSERequestAndWaitForResponseWithAuth(a, <<>>)
    \/ Timeout
    \/ Returns

Next ==
    \/ \E p \in Protocols : makeToolsListRequest(p) \/ sendToolCall(p)
    \/ Step
    \/ ServerCloses

-----------------------------------------------------------------------------
\* A server sees tools/list of a discovery only in a session in which it has
\* seen initialize and then the notification; over HTTP only after it agreed
\* to both.
ListFollowsInitialize ==
    \A i \in DOMAIN session : session[i][1] = "tools/list" =>
        /\ i = 3 /\ session[1][1] = "initialize" /\ session[2][1] = "initialized"
        /\ session[1][2] = "ok"
        /\ seq.protocol # "sse" => session[2][2] = "ok"

\* How far the session is when the next request of the sequence is due.
BridgeInv ==
    /\ seq \in [kind : {"none", "discover", "call"}, protocol : Protocols,
               at : {"idle", "endpoint", "initialize", "initialized", "tools/list",
                     "request", "waiting", "hanging", "over"},
               result : {"none", "answer", "error"}]
    /\ session \in Seq({"initialize", "initialized", "tools/list", "request"} \X Answers)
    /\ Len(session) <= 3
    /\ seq.at \in {"idle", "endpoint", "initialize", "request"} => session = <<>>
    /\ seq.at = "initialized" => Len(session) = 1 /\ session[1] = <<"initialize", "ok">>
    /\ seq.at = "tools/list" =>
          /\ Len(session) = 2
          /\ session[1] = <<"initialize", "ok">> /\ session[2][1] = "initialized"
          /\ seq.protocol # "sse" => session[2][2] = "ok"
    /\ ListFollowsInitialize

\* Of a stream with a reply the first is taken, however the events before it
\* are named and whatever they hold: the reader loses no line it needs.
FirstReplyIsTaken ==
    LET replies == {i \in DOMAIN stream : IsReply(stream, i)}
    IN  \/ replies = {} /\ parseSSEResponse(stream) = 0
        \/ parseSSEResponse(stream) \in replies
           /\ \A i \in replies : parseSSEResponse(stream) <= i

\* A server that takes a request and never answers does not hold up the
\* discovery of the tools: every sequence ends, with an answer or an error.
DiscoveryEnds == seq.kind = "discover" ~> seq.kind # "discover"
=============================================================================
