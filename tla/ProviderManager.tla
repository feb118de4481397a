-------------------------- MODULE ProviderManager --------------------------
(***************************************************************************)
(* ai.Manager: the current provider of chat completions, the health check  *)
(* that replaces it, and the stream of one chat.                           *)
(*                                                                         *)
(* A provider is asked over the network whether it is available; providers *)
(* come and go.  StreamChat starts a goroutine and returns: only a request *)
(* that cannot be built is an error of the call, everything else arrives   *)
(* on the channel.  A chunk of text may hold a tag that opens or closes a  *)
(* thought; the truth of the model's text is kept beside the processor's.  *)
(***************************************************************************)
EXTENDS Integers, Sequences, FiniteSets

CONSTANTS Providers, Default,
          Fallbacks,    \* FallbackProviders, a sequence
          Malformed,    \* providers whose endpoint makes no request
          ChannelSize,  \* 10 in the code
          Claudes, Ollamas,  \* providers of those kinds; the others speak
                             \* OpenAI's dialect
          Chunks        \* of "text", "open", "close", "both", "tool", "arguments"

VARIABLES
    up,       \* the providers that are available
    current,  \* m.currentProvider
    check,    \* checkHealth: what it read, None
    chat,     \* StreamChatWithFallback: the next provider to try
    flow      \* the stream of that chat

providerVars == <<up, current, check, chat, flow>>

\* What the constants have to be.
ProviderAssumption ==
    Chunks \subseteq {"text", "open", "close", "both", "tool", "arguments"}

None == "none"
NoFlow == [at |-> "none", provider |-> None, buffer |-> <<>>, insideThinkTag |-> FALSE, thinking |-> FALSE,
           reader |-> TRUE]
NoChat == [at |-> "idle", i |-> 0]

\* The first of a list that is available.
FirstUp(list) ==
    LET ups == {i \in DOMAIN list : list[i] \in up}
    IN  IF ups = {} THEN None ELSE list[CHOOSE i \in ups : \A j \in ups : i <= j]

MutsetCurrentProvider(p) == current' = IF p \in up THEN p ELSE IF current = None THEN FirstUp(Fallbacks) ELSE current

setCurrentProvider(p) == current' = FirstUp(<<p>> \o Fallbacks)

Init ==
    /\ up \in SUBSET Providers
    /\ current = FirstUp(<<Default>> \o Fallbacks)
    /\ check = "waiting"
    /\ chat = NoChat
    /\ flow = NoFlow

ProviderChanges(p) ==
    /\ up' = IF p \in up THEN up \ {p} ELSE up \cup {p}
    /\ UNCHANGED <<current, check, chat, flow>>

SwitchProvider(p) ==
    /\ p \in up
    /\ current' = p
    /\ UNCHANGED <<up, check, chat, flow>>

\* checkHealth: the name is read, the provider asked, and only then the lock
\* taken to set another; in between a user may have switched.
checkHealth ==
    /\ check = "waiting"
    /\ check' = current
    /\ UNCHANGED <<up, current, chat, flow>>
checkHealthSets ==
    /\ check # "waiting"
    /\ IF check = None THEN setCurrentProvider(Default)
       ELSE IF check \in up THEN UNCHANGED current ELSE setCurrentProvider(check)
    /\ check' = "waiting"
    /\ UNCHANGED <<up, chat, flow>>

-----------------------------------------------------------------------------
(* A chat *)

StartFlow(p) == flow' = [NoFlow EXCEPT !.at = "requesting", !.provider = p]

StreamChatWithFallback ==
    /\ chat.at = "idle" /\ flow.at \in {"none", "closed"} /\ flow.buffer = <<>>
    /\ IF current # None /\ current \notin Malformed
       THEN StartFlow(current) /\ UNCHANGED chat
       ELSE chat' = [at |-> "fallback", i |-> 1] /\ UNCHANGED flow
    /\ UNCHANGED <<up, current, check>>

\* The current provider is read again, without the lock.
TryFallback ==
    LET p == Fallbacks[chat.i]
    IN  /\ chat.at = "fallback" /\ chat.i <= Len(Fallbacks)
        /\ IF p # current /\ p \in up /\ p \notin Malformed
           THEN /\ chat' = NoChat /\ current' = p /\ StartFlow(p)
           ELSE /\ chat' = [chat EXCEPT !.i = @ + 1] /\ UNCHANGED <<current, flow>>
        /\ UNCHANGED <<up, check>>
NoFallback ==
    /\ chat.at = "fallback" /\ chat.i > Len(Fallbacks)
    /\ chat' = NoChat
    /\ UNCHANGED <<up, current, check, flow>>

\* A send waits while the channel is full, also when nobody reads any more.
Room == Len(flow.buffer) < ChannelSize
Sent(f, as) == [f EXCEPT !.buffer = Append(@, [as |-> as, is |-> IF f.thinking THEN "thought" ELSE "content"])]

\* The goroutine's request: it fails, the status is not 200, or text follows.
Request(ok) ==
    /\ flow.at = "requesting" /\ (ok \/ Room)
    /\ flow' = IF ok THEN [flow EXCEPT !.at = "reading"]
               ELSE [flow EXCEPT !.at = "closed", !.buffer = Append(@, [as |-> "error", is |-> "error"])]
    /\ UNCHANGED <<up, current, check, chat>>

MutProcessChunk(f, chunk) ==
    CASE chunk = "open" -> [f EXCEPT !.insideThinkTag = TRUE, !.thinking = TRUE]
      [] chunk = "close" -> [f EXCEPT !.thinking = FALSE]
      [] chunk = "both" -> [f EXCEPT !.insideThinkTag = TRUE]
      [] chunk = "text" -> Sent(f, IF f.insideThinkTag THEN "thought" ELSE "content")

\* A chunk with a tag of its own yields no thought; of one with both only the
\* opening tag is seen.
ProcessChunk(f, chunk) ==
    CASE chunk = "open" -> [f EXCEPT !.insideThinkTag = TRUE, !.thinking = TRUE]
      [] chunk = "close" -> [f EXCEPT !.insideThinkTag = FALSE, !.thinking = FALSE]
      [] chunk = "both" -> [f EXCEPT !.insideThinkTag = TRUE, !.thinking = FALSE]
      [] chunk = "text" -> Sent(f, IF f.insideThinkTag THEN "thought" ELSE "content")

\* Each fragment of a tool call is passed on as a call.
Fragment(f, chunk) == [f EXCEPT !.buffer = Append(@, [as |-> chunk, is |-> chunk])]
Texts == {"text", "open", "close", "both"}

\* What a chunk makes of the stream; lines that are no data, or no JSON, are
\* passed over.  Ollama's copy of the loop is the same.
ProcessOpenAIStreamResponse(f, chunk) ==
    IF chunk \in Texts THEN ProcessChunk(f, chunk) ELSE Fragment(f, chunk)
OllamaReads(f, chunk) ==
    IF chunk \in Texts THEN ProcessChunk(f, chunk) ELSE Fragment(f, chunk)

\* A tool call is passed on with its name; its arguments, which come later,
\* are not.
ClaudeReads(f, chunk) ==
    CASE chunk \in Texts -> ProcessChunk(f, chunk)
      [] chunk = "tool" -> Fragment(f, chunk)
      [] chunk = "arguments" -> f

ReadsLine(chunk) ==
    /\ flow.at = "reading" /\ Room
    /\ flow' = CASE flow.provider \in Claudes -> ClaudeReads(flow, chunk)
                 [] flow.provider \in Ollamas -> OllamaReads(flow, chunk)
                 [] OTHER -> ProcessOpenAIStreamResponse(flow, chunk)
    /\ UNCHANGED <<up, current, check, chat>>

\* [DONE], a finish reason, message_stop; a read error; or the mere end of the
\* body, which sends nothing.  The client's timeout makes one of them come.
StreamStops(last) ==
    /\ flow.at = "reading" /\ (Room \/ last = "end")
    /\ flow' = [flow EXCEPT !.at = "closed",
                            !.buffer = IF last = "end" THEN @ ELSE Append(@, [as |-> last, is |-> last])]
    /\ UNCHANGED <<up, current, check, chat>>

ReaderTakes ==
    /\ flow.reader /\ flow.buffer # <<>>
    /\ flow' = [flow EXCEPT !.buffer = Tail(@)]
    /\ UNCHANGED <<up, current, check, chat>>
ReaderLeaves ==
    /\ flow.reader /\ flow.at # "none"
    /\ flow' = [flow EXCEPT !.reader = FALSE]
    /\ UNCHANGED <<up, current, check, chat>>

Stops == \E last \in {"finished", "error", "end"} : StreamStops(last)
Chat == StreamChatWithFallback \/ TryFallback \/ NoFallback
Next ==
    \/ \E p \in Providers : ProviderChanges(p) \/ SwitchProvider(p)
    \/ checkHealth \/ checkHealthSets
    \/ Chat
    \/ \E ok \in BOOLEAN : Request(ok)
    \/ \E chunk \in Chunks : ReadsLine(chunk)
    \/ Stops
    \/ ReaderTakes \/ ReaderLeaves

-----------------------------------------------------------------------------
\* What the reader gets as content is content, and as a thought a thought,
\* for texts whose tags come in chunks of their own.
ThoughtsAreKeptApart ==
    \A i \in DOMAIN flow.buffer : flow.buffer[i].as \in {"content", "thought"} =>
        flow.buffer[i].as = flow.buffer[i].is

\* When the default or a fallback stays available, an available provider is
\* current again and again, whatever the others do and users switch to.
ProviderRecovers ==
    \A p \in Providers : p = Default \/ (\E i \in DOMAIN Fallbacks : Fallbacks[i] = p) =>
        (<>[](p \in up) => []<>(current \in up))

\* What is in the channel was sent for what it is, and the processor knows
\* whether the model is thinking.
Marks == {"content", "thought", "tool", "arguments", "finished", "error"}
Message == [as : Marks, is : Marks]
FlowInv ==
    /\ DOMAIN flow = {"at", "provider", "buffer", "insideThinkTag", "thinking", "reader"}
    /\ flow.buffer \in Seq(Message)
    /\ flow.thinking \in BOOLEAN /\ flow.insideThinkTag = flow.thinking
    /\ ThoughtsAreKeptApart
=============================================================================
