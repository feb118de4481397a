---------------------------- MODULE AgentRunner -----------------------------
(***************************************************************************)
(* The tool execute_agent (internal/mcp/tools_agent.go): a loop of turns,  *)
(* in each of which a language model behind the openrouter-gateway server  *)
(* is asked for the next tools to call; they are executed one by one and   *)
(* what became of each is told to the model in the next turn.  The loop    *)
(* ends after MaxTurns turns, after MaxTools tools, with an answer in      *)
(* plain text, with a failed request, or at a turn that begins after the   *)
(* deadline of the agent.                                                  *)
(***************************************************************************)
EXTENDS Naturals, Sequences, FiniteSets

CONSTANTS MaxTurns,   \* max_turns, 20 unless given
          MaxTools,   \* maxTools, 15
          MaxCalls    \* bound on the tool calls of one answer

VARIABLES agent,      \* the loop: where it is, its counts, the calls still to do
          history,    \* conversationHistory: what the model was told of each tool
          errors,     \* the number of entries of result.Errors
          expired,    \* the deadline of the agent's context has passed
          ran         \* what each executed tool really returned, in order

\* What the constants have to be.
AgentAssumption == MaxTurns \in Nat /\ MaxTools \in Nat /\ MaxCalls \in Nat

agentVars == <<agent, history, errors, expired, ran>>

\* A tool call of an answer: its arguments can be parsed or not.
Calls == UNION {[1 .. n -> {"call", "unparsable"}] : n \in 0 .. MaxCalls}

\* ExecuteTool returns an error, or nothing, or a result that says it is one,
\* or a result.
Outcomes == {"err", "nil", "isError", "result"}

Init ==
    /\ agent = [pc |-> "called", turn |-> 0, tools |-> 0, calls |-> <<>>, completed |-> FALSE]
    /\ history = <<>>
    /\ errors = 0
    /\ expired = FALSE
    /\ ran = <<>>

\* A call without an objective is refused; any other gets a context of its own
\* with the deadline timeout_seconds, not the one of the request.
executeAgent ==
    /\ agent.pc = "called"
    /\ \E objective \in BOOLEAN : agent' = [agent EXCEPT !.pc = IF objective THEN "loop" ELSE "refused"]
    /\ UNCHANGED <<history, errors, expired, ran>>

Expire ==
    /\ agent.pc \notin {"called", "refused", "returned"}
    /\ ~expired
    /\ expired' = TRUE
    /\ UNCHANGED <<agent, history, errors, ran>>

\* The head of the loop: its condition, then the check of the context.
BeginTurn ==
    /\ agent.pc = "loop"
    /\ agent' = [agent EXCEPT !.pc =
           IF agent.turn < MaxTurns /\ agent.tools < MaxTools /\ ~expired THEN "asking" ELSE "done"]
    /\ UNCHANGED <<history, errors, expired, ran>>

\* The request has its own limit of 20 minutes: the agent's deadline does not
\* interrupt it.  An answer is JSON with the calls in its conversation, or
\* plain text, which means the objective is reached.
callOpenRouterGateway ==
    /\ agent.pc = "asking"
    /\ \/ /\ errors' = errors + 1
          /\ agent' = [agent EXCEPT !.pc = "done"]
       \/ /\ agent' = [agent EXCEPT !.pc = "done"]
          /\ UNCHANGED errors
       \/ /\ \E calls \in Calls : agent' = [agent EXCEPT !.pc = "answered", !.calls = calls]
          /\ UNCHANGED errors
    /\ UNCHANGED <<history, expired, ran>>

MutFailed(outcome) == outcome = "err"

\* "A tool call has failed if the dispatcher returned an error, OR no result
\* came back, OR the tool itself reported failure via ToolResult.IsError."
Failed(outcome) == outcome \in {"err", "nil", "isError"}

\* The next call of the answer.  One that cannot be parsed is passed over and
\* nobody is told; after MaxTools tools the others are dropped.
executeRealLLMAgent ==
    /\ agent.pc = "answered"
    /\ agent.calls # <<>>
    /\ \/ /\ agent.tools >= MaxTools
          /\ agent' = [agent EXCEPT !.calls = <<>>]
          /\ UNCHANGED <<history, errors, ran>>
       \/ /\ agent.tools < MaxTools
          /\ Head(agent.calls) = "unparsable"
          /\ agent' = [agent EXCEPT !.calls = Tail(@)]
          /\ UNCHANGED <<history, errors, ran>>
       \/ /\ agent.tools < MaxTools
          /\ Head(agent.calls) = "call"
          /\ \E outcome \in Outcomes :
                /\ ran' = Append(ran, outcome)
                /\ history' = Append(history, IF Failed(outcome) THEN "failed" ELSE "used")
                /\ errors' = IF Failed(outcome) THEN errors + 1 ELSE errors
          /\ agent' = [agent EXCEPT !.calls = Tail(@), !.tools = @ + 1]
    /\ UNCHANGED expired

MutEndTurn ==
    /\ agent.pc = "answered"
    /\ agent.calls = <<>>
    /\ agent' = [agent EXCEPT !.pc = "loop", !.turn = IF agent.tools > @ THEN @ + 1 ELSE @]
    /\ UNCHANGED <<history, errors, expired, ran>>

EndTurn ==
    /\ agent.pc = "answered"
    /\ agent.calls = <<>>
    /\ agent' = [agent EXCEPT !.pc = "loop", !.turn = @ + 1]
    /\ UNCHANGED <<history, errors, expired, ran>>

\* The result says the objective is completed however the loop ended.
Return ==
    /\ agent.pc = "done"
    /\ agent' = [agent EXCEPT !.pc = "returned", !.completed = TRUE]
    /\ UNCHANGED <<history, errors, expired, ran>>

Next ==
    \/ executeAgent \/ BeginTurn \/ callOpenRouterGateway \/ executeRealLLMAgent \/ EndTurn \/ Return
    \/ Expire

\* The loop runs in the goroutine of the call; the gateway answers or the
\* request times out.
Fairness ==
    WF_agentVars(executeAgent \/ BeginTurn \/ callOpenRouterGateway \/ executeRealLLMAgent \/ EndTurn \/ Return)

Spec == Init /\ [][Next]_agentVars /\ Fairness

(***************************************************************************)
(* Properties.                                                             *)
(***************************************************************************)
\* "Tell the LLM the truth: the tool failed.  Never let it proceed as if it
\* had a real result" (tools_agent.go): the conversation has one entry for
\* each executed tool, it says "used" exactly of those that returned a result,
\* each failure is in the errors, and no more than MaxTools were executed.
ModelIsToldTheTruth ==
    /\ Len(history) = Len(ran)
    /\ \A i \in DOMAIN ran : (history[i] = "used") <=> (ran[i] = "result")
    /\ errors >= Cardinality({i \in DOMAIN ran : ran[i] # "result"})
    /\ Len(ran) <= MaxTools

\* The call of execute_agent returns, whatever the model answers: also when it
\* keeps answering without a call.
AgentReturns == <>(agent.pc \in {"refused", "returned"})

\* As many tools were counted as ran.
AgentInv ==
    /\ agent \in [pc : {"called", "refused", "loop", "asking", "answered", "done", "returned"},
                  turn : Nat, tools : 0 .. MaxTools, calls : Seq({"call", "unparsable"}),
                  completed : BOOLEAN]
    /\ history \in Seq({"failed", "used"}) /\ ran \in Seq(Outcomes) /\ errors \in Nat
    /\ expired \in BOOLEAN
    /\ Len(ran) = agent.tools
    /\ ModelIsToldTheTruth
=============================================================================
