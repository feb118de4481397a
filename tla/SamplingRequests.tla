-------------------------- MODULE SamplingRequests --------------------------
(***************************************************************************)
(* SamplingManager: requests of servers to a model, which a human may have *)
(* to approve first.  Creation, approval, rejection and clean-up hold the  *)
(* mutex; ProcessSamplingRequest looks the request up under it, gives it   *)
(* back, reads the status, and takes the lock again to write the outcome.  *)
(* Several callers may process one request.                                *)
(***************************************************************************)
EXTENDS Integers, FiniteSets

CONSTANTS Requests, Workers

VARIABLES
    requests,  \* sm.requests
    handlers,  \* sm.handlers: the handlers registered
    worker,    \* calls of ProcessSamplingRequest
    handled    \* for each request, the handler calls made for it

vars == <<requests, handlers, worker, handled>>

\* `listed': the manager's map still has it; callers may hold it longer.
NoRequest == [status |-> "none", listed |-> FALSE, old |-> FALSE, hint |-> ""]
Idle == [at |-> "idle", request |-> "none"]
Statuses == {"none", "pending", "awaiting_approval", "approved", "rejected",
             "completed", "failed"}
Handlers == {"large", "small"}

Init ==
    /\ requests = [r \in Requests |-> NoRequest]
    /\ handlers = {}
    /\ worker = [w \in Workers |-> Idle]
    /\ handled = [r \in Requests |-> 0]

RegisterHandler(h) ==
    /\ h \notin handlers
    /\ handlers' = handlers \cup {h}
    /\ UNCHANGED <<requests, worker, handled>>

\* SetHumanControls of the server: whether approval is asked for at all, what
\* is let through, what is stopped, and how many tokens are too many.
Controls == [RequireApproval : BOOLEAN, auto : BOOLEAN, block : BOOLEAN, tooLong : BOOLEAN]

\* A pattern that lets a request through wins over one that stops it.
requiresHumanApproval(c) ==
    ~c.auto /\ (c.block \/ c.tooLong \/ c.RequireApproval)

CreateSamplingRequest(r, c, hint) ==
    LET review == c.RequireApproval /\ requiresHumanApproval(c)
    IN  /\ requests[r] = NoRequest
        /\ requests' = [requests EXCEPT ![r] =
             [status |-> IF review THEN "awaiting_approval" ELSE "pending",
              listed |-> TRUE, old |-> FALSE, hint |-> hint]]
        /\ UNCHANGED <<handlers, worker, handled>>

ApproveRequest(r) ==
    /\ requests[r].listed /\ requests[r].status = "awaiting_approval"
    /\ requests' = [requests EXCEPT ![r].status = "approved"]
    /\ UNCHANGED <<handlers, worker, handled>>

RejectRequest(r) ==
    /\ requests[r].listed /\ requests[r].status = "awaiting_approval"
    /\ requests' = [requests EXCEPT ![r].status = "rejected"]
    /\ UNCHANGED <<handlers, worker, handled>>

\* The lookup.  The caller keeps the request when it is cleaned up.
ProcessSamplingRequest(w, r) ==
    /\ worker[w] = Idle /\ requests[r].listed
    /\ worker' = [worker EXCEPT ![w] = [at |-> "found", request |-> r]]
    /\ UNCHANGED <<requests, handlers, handled>>

\* A hint that is registered, or else any handler.
selectHandler(hint) == IF hint \in handlers THEN {hint} ELSE handlers

MutCheckStatus(w) ==
    LET r == worker[w].request
    IN  /\ worker[w].at = "found"
        /\ IF requests[r].status = "awaiting_approval" \/ selectHandler(requests[r].hint) = {}
           THEN worker' = [worker EXCEPT ![w] = Idle] /\ UNCHANGED handled
           ELSE /\ worker' = [worker EXCEPT ![w].at = "handling"]
                /\ handled' = [handled EXCEPT ![r] = 1]
        /\ UNCHANGED <<requests, handlers>>

\* The status is read without the lock.  Nothing refuses a request that is
\* being handled, or was.
CheckStatus(w) ==
    LET r == worker[w].request
    IN  /\ worker[w].at = "found"
        /\ IF \/ requests[r].status \in {"awaiting_approval", "rejected"}
              \/ selectHandler(requests[r].hint) = {}
           THEN worker' = [worker EXCEPT ![w] = Idle] /\ UNCHANGED handled
           ELSE /\ worker' = [worker EXCEPT ![w].at = "handling"]
                /\ handled' = [handled EXCEPT ![r] = 1]
        /\ UNCHANGED <<requests, handlers>>

\* The handler answers or fails; the last outcome to be written stays.
HandlerReturns(w, outcome) ==
    LET r == worker[w].request
    IN  /\ worker[w].at = "handling"
        /\ requests' = [requests EXCEPT ![r].status = outcome]
        /\ worker' = [worker EXCEPT ![w] = Idle]
        /\ UNCHANGED <<handlers, handled>>

Age(r) ==
    /\ requests[r] # NoRequest /\ ~requests[r].old
    /\ requests' = [requests EXCEPT ![r].old = TRUE]
    /\ UNCHANGED <<handlers, worker, handled>>

\* Only what is over goes.
CleanupOldRequests ==
    LET over == {r \in Requests : /\ requests[r].listed /\ requests[r].old
                                  /\ requests[r].status \in {"completed", "failed", "rejected"}}
    IN  /\ over # {}
        /\ requests' = [r \in Requests |-> [requests[r] EXCEPT !.listed = @ /\ r \notin over]]
        /\ UNCHANGED <<handlers, worker, handled>>

Next ==
    \/ \E h \in Handlers : RegisterHandler(h)
    \/ \E r \in Requests, c \in Controls, hint \in Handlers : CreateSamplingRequest(r, c, hint)
    \/ \E r \in Requests : ApproveRequest(r) \/ RejectRequest(r) \/ Age(r)
    \/ \E w \in Workers, r \in Requests : ProcessSamplingRequest(w, r)
    \/ \E w \in Workers : CheckStatus(w)
    \/ \E w \in Workers, o \in {"completed", "failed"} : HandlerReturns(w, o)
    \/ CleanupOldRequests

-----------------------------------------------------------------------------
\* The review decides: no request waits for a decision or is rejected after a
\* handler has had it, whoever processes it and when the decision falls
\* between the lookup and the check.
ReviewDecides ==
    \A r \in Requests : requests[r].status \in {"awaiting_approval", "rejected"} => handled[r] = 0

TypeOK ==
    /\ requests \in [Requests -> [status : Statuses, listed : BOOLEAN, old : BOOLEAN,
                                  hint : Handlers \cup {""}]]
    /\ handlers \subseteq Handlers
    /\ worker \in [Workers -> [at : {"idle", "found", "handling"},
                                request : Requests \cup {"none"}]]
    /\ handled \in [Requests -> {0, 1}]

\* A request that is at work exists, and one that a handler works on was given
\* to it: no decision is open any more when its outcome is written.
SmpInv ==
    /\ TypeOK
    /\ ReviewDecides
    /\ \A r \in Requests : requests[r].status = "none" <=> requests[r] = NoRequest
    /\ \A r \in Requests : requests[r] = NoRequest => handled[r] = 0
    /\ \A w \in Workers : worker[w].at # "idle" =>
          /\ worker[w].request \in Requests
          /\ requests[worker[w].request] # NoRequest
          /\ worker[w].at = "handling" => handled[worker[w].request] = 1
=============================================================================
