---------------------------- MODULE OAuthGrants ----------------------------
(***************************************************************************)
(* What the authorization server promises of a grant, the consent a user   *)
(* gives to a client: its code is exchanged at most once, at any time at   *)
(* most one refresh token continues it, no token comes back once it was    *)
(* replaced, and what the grant allows never grows.                        *)
(***************************************************************************)
EXTENDS Integers

CONSTANTS Grants, Scopes

VARIABLES
    phase,   \* grant -> none, code: its code may be exchanged, over: not any more
    holds,   \* grant -> the refresh tokens that continue it
    allows,  \* grant -> the scopes of tokens it can still give
    minted   \* the latest token

vars == <<phase, holds, allows, minted>>

Fresh == (minted + 1)..minted'

Init ==
    /\ phase = [g \in Grants |-> "none"]
    /\ holds = [g \in Grants |-> {}]
    /\ allows = [g \in Grants |-> {}]
    /\ minted = 0

Consent(g, s) ==
    /\ phase[g] = "none"
    /\ phase' = [phase EXCEPT ![g] = "code"]
    /\ allows' = [allows EXCEPT ![g] = s]
    /\ UNCHANGED <<holds, minted>>

\* The code becomes a refresh token, unless the client takes none.
Exchange(g) ==
    /\ phase[g] = "code"
    /\ phase' = [phase EXCEPT ![g] = "over"]
    /\ minted' \in Nat
    /\ \/ /\ \E t \in Fresh : holds' = [holds EXCEPT ![g] = {t}]
          /\ UNCHANGED allows
       \/ /\ UNCHANGED holds
          /\ allows' = [allows EXCEPT ![g] = {}]

Continue(g, s) ==
    /\ holds[g] # {} /\ s \subseteq allows[g]
    /\ minted' \in Nat
    /\ \E t \in Fresh : holds' = [holds EXCEPT ![g] = {t}]
    /\ allows' = [allows EXCEPT ![g] = s]
    /\ UNCHANGED phase

\* Grants end: expired, given up after an error, or lost with the process.
End(G) ==
    /\ \A g \in G : phase[g] # "none"
    /\ phase' = [g \in Grants |-> IF g \in G THEN "over" ELSE phase[g]]
    /\ holds' = [g \in Grants |-> IF g \in G THEN {} ELSE holds[g]]
    /\ allows' = [g \in Grants |-> IF g \in G THEN {} ELSE allows[g]]
    /\ minted' \in Nat /\ minted' >= minted

Next ==
    \/ \E g \in Grants, s \in SUBSET Scopes : Consent(g, s) \/ Continue(g, s)
    \/ \E g \in Grants : Exchange(g)
    \/ \E G \in SUBSET Grants : End(G)

Spec == Init /\ [][Next]_vars
=============================================================================
