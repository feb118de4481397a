---------------------------- MODULE OAuthServer ----------------------------
(***************************************************************************)
(* The OAuth authorization server of the proxy: clients, authorization     *)
(* codes, access and refresh tokens, all in memory under one mutex.        *)
(*                                                                         *)
(* Sources: internal/auth/oauth.go, handlers.go and middleware.go.  A      *)
(* request that is refused without an effect (unknown client, wrong        *)
(* secret, redirect URI, verifier, scope or token) has no step.  What is   *)
(* written under the mutex is one step; the client credentials grant       *)
(* writes accessTokens without it, so its write has a begin and an end.    *)
(* Times are abstracted to whether a code or token has expired.  Tokens    *)
(* are random, hence numbers never used before.  The field grant, the code *)
(* a token descends from, is a history variable.  HandleRevoke only sets   *)
(* Revoked, which nothing modelled here reads, and is left out, as are     *)
(* CleanupExpiredTokens and the device flow, which have no caller.         *)
(***************************************************************************)
EXTENDS Integers

CONSTANTS Clients,
          Configured,   \* clients of the configuration
          Refreshing,   \* clients with the grant type refresh_token
          Crediting,    \* clients with the grant type client_credentials
          Scopes,
          MaxCodes,     \* bound: authorization codes
          MaxTokens,    \* bound: tokens generated
          MaxRestarts   \* bound: restarts of the process

ASSUME OAuthAssumption ==
    /\ Configured \subseteq Clients
    /\ MaxCodes \in Nat /\ MaxTokens \in Nat /\ MaxRestarts \in Nat

Grants == 1..MaxCodes
Tokens == 1..MaxTokens

VARIABLES
    clients, codes, access, refresh,  \* the maps of AuthorizationServer
    writing,   \* access tokens that the client credentials grant is inserting
    raced,     \* the map was written while it was inserting
    reaping,   \* expired tokens that goroutines are about to delete
    issued, minted, restarts,
    granted    \* history: grant -> the scope the user consented to

vars == <<clients, codes, access, refresh, writing, raced, reaping, issued,
          minted, restarts, granted>>
counters == <<issued, restarts, granted>>

Code == [grant : Grants, client : Clients, scope : SUBSET Scopes,
         expired : BOOLEAN]
\* Grant 0 is that of the client credentials, which has no user.
Token == [id : Tokens, grant : Grants \cup {0}, client : Clients,
          scope : SUBSET Scopes, expired : BOOLEAN]

RefreshToken == {t \in Token : t.grant # 0}

\* Every map holds entries of its kind; a refresh token has a user.
TypeOK ==
    /\ clients \in SUBSET Clients
    /\ codes \in SUBSET Code
    /\ access \in SUBSET Token /\ refresh \in SUBSET RefreshToken
    /\ writing \in SUBSET Token /\ raced \in BOOLEAN
    /\ reaping \in SUBSET Tokens
    /\ issued \in 0..MaxCodes /\ minted \in 0..MaxTokens
    /\ restarts \in 0..MaxRestarts
    /\ granted \in [Grants -> SUBSET Scopes]

Init ==
    /\ clients = Configured
    /\ codes = {} /\ access = {} /\ refresh = {}
    /\ writing = {} /\ raced = FALSE /\ reaping = {}
    /\ issued = 0 /\ minted = 0 /\ restarts = 0
    /\ granted = [g \in Grants |-> {}]

NewToken(i, g, c, s) ==
    [id |-> i, grant |-> g, client |-> c, scope |-> s,
     expired |-> FALSE]

\* What a write under the mutex makes of accessTokens: if it races with the
\* write without the mutex, the map may lose any entry and keep any.
WriteAccess(new) ==
    /\ access' \in IF writing = {} THEN {new} ELSE SUBSET (access \cup new)
    /\ raced' = (writing # {})

-----------------------------------------------------------------------------
RegisterClient(c) ==
    /\ c \notin clients
    /\ clients' = clients \cup {c}
    /\ UNCHANGED <<codes, access, refresh, writing, raced, reaping, minted,
                   counters>>

\* HandleAuthorize and processAuthorization: the user approves.
generateAuthorizationCode(c, s) ==
    /\ c \in clients /\ issued < MaxCodes
    /\ issued' = issued + 1
    /\ codes' = codes \cup {[grant |-> issued', client |-> c, scope |-> s,
                             expired |-> FALSE]}
    /\ granted' = [granted EXCEPT ![issued'] = s]
    /\ UNCHANGED <<clients, access, refresh, writing, raced, reaping, minted,
                   restarts>>

\* handleAuthorizationCodeGrant by the client of the code, which shows the
\* right redirect URI and verifier: an access token, a refresh token if the
\* client takes one, and the code is gone.
CodeGrant(k) ==
    LET t == NewToken(minted + 1, k.grant, k.client, k.scope)
        more == k.client \in Refreshing
    IN /\ ~k.expired
       /\ minted' = IF more THEN minted + 2 ELSE minted + 1
       /\ minted' <= MaxTokens
       /\ WriteAccess(access \cup {t})
       /\ refresh' = IF more THEN refresh \cup {[t EXCEPT !.id = minted']}
                     ELSE refresh
       /\ codes' = codes \ {k}
       /\ UNCHANGED <<clients, writing, reaping, counters>>

\* The refresh token cannot be generated: the access token stays in the map,
\* though nobody gets it, and so does the code.
CodeGrantFails(k) ==
    /\ ~k.expired /\ k.client \in Refreshing /\ minted < MaxTokens
    /\ minted' = minted + 1
    /\ WriteAccess(access \cup
                   {NewToken(minted', k.grant, k.client, k.scope)})
    /\ UNCHANGED <<codes, clients, refresh, writing, reaping, counters>>

\* An expired code is deleted when it is shown, whichever client shows it.
CodeExpired(k) ==
    /\ k.expired
    /\ codes' = codes \ {k}
    /\ UNCHANGED <<clients, access, refresh, writing, raced, reaping, minted,
                   counters>>

\* handleClientCredentialsGrant, up to and from the write to accessTokens.  No
\* property is about the scope of these tokens, which no other descends from.
CredentialsGrant(c) ==
    /\ c \in clients \cap Crediting /\ minted < MaxTokens
    /\ minted' = minted + 1
    /\ writing' = writing \cup {NewToken(minted', 0, c, {})}
    /\ raced' = (writing # {})
    /\ UNCHANGED <<clients, codes, access, refresh, reaping, counters>>

CredentialsWritten(t) ==
    /\ writing' = writing \ {t}
    /\ access' \in IF raced THEN SUBSET (access \cup {t})
                   ELSE {access \cup {t}}
    /\ raced' = (raced /\ writing' # {})
    /\ UNCHANGED <<clients, codes, refresh, reaping, minted, counters>>

MutisScopeSubset(requested, original) == \E x \in requested : x \in original

isScopeSubset(requested, original) == \A x \in requested : x \in original

MutRotate(r, new) == refresh \cup new

\* The old refresh token goes before the new one comes.
Rotate(r, new) == (refresh \ {r}) \cup new

\* The scope of a refresh: that of the refresh token if the request has none.
Refreshed(r, s) ==
    NewToken(minted + 1, r.grant, r.client, IF s = {} THEN r.scope ELSE s)

\* handleRefreshTokenGrant by the client of the token.
RefreshGrant(r, s) ==
    /\ ~r.expired
    /\ s = {} \/ isScopeSubset(s, r.scope)
    /\ minted + 2 <= MaxTokens /\ minted' = minted + 2
    /\ WriteAccess(access \cup {Refreshed(r, s)})
    /\ refresh' = Rotate(r, {[Refreshed(r, s) EXCEPT !.id = minted']})
    /\ UNCHANGED <<clients, codes, writing, reaping, counters>>

\* No new refresh token can be generated, or not even the access token: the
\* old refresh token is gone all the same.
RefreshGrantFails(r, s) ==
    /\ ~r.expired
    /\ s = {} \/ isScopeSubset(s, r.scope)
    /\ refresh' = refresh \ {r}
    /\ \/ /\ minted < MaxTokens /\ minted' = minted + 1
          /\ WriteAccess(access \cup {Refreshed(r, s)})
       \/ UNCHANGED <<minted, access, raced>>
    /\ UNCHANGED <<clients, codes, writing, reaping, counters>>

RefreshExpired(r) ==
    /\ r.expired
    /\ refresh' = refresh \ {r}
    /\ UNCHANGED <<clients, codes, access, writing, raced, reaping, minted,
                   counters>>

MutvalidateOAuthToken(t) ==
    /\ reaping' = reaping \cup {t.id}
    /\ UNCHANGED <<clients, codes, access, refresh, writing, raced, minted,
                   counters>>

\* validateOAuthToken and ValidateAccessToken: an expired token is refused and
\* left to a goroutine to delete.
validateOAuthToken(t) ==
    /\ t.expired
    /\ reaping' = reaping \cup {t.id}
    /\ UNCHANGED <<clients, codes, access, refresh, writing, raced, minted,
                   counters>>

DeleteExpired(i) ==
    /\ reaping' = reaping \ {i}
    /\ WriteAccess({t \in access : t.id # i})
    /\ UNCHANGED <<clients, codes, refresh, writing, minted, counters>>

-----------------------------------------------------------------------------
\* Time passes the lifetime of an entry.
Aged(x) == [x EXCEPT !.expired = TRUE]

ExpireCode(k) ==
    /\ codes' = (codes \ {k}) \cup {Aged(k)}
    /\ UNCHANGED <<clients, access, refresh, writing, raced, reaping, minted,
                   counters>>

ExpireAccess(t) ==
    /\ access' = (access \ {t}) \cup {Aged(t)}
    /\ UNCHANGED <<clients, codes, refresh, writing, raced, reaping, minted,
                   counters>>

ExpireRefresh(r) ==
    /\ refresh' = (refresh \ {r}) \cup {Aged(r)}
    /\ UNCHANGED <<clients, codes, access, writing, raced, reaping, minted,
                   counters>>

\* The process ends, by a crash (a detected race on the map is one) or not,
\* and starts with the configured clients.
Restart ==
    /\ restarts < MaxRestarts
    /\ restarts' = restarts + 1
    /\ clients' = Configured
    /\ codes' = {} /\ access' = {} /\ refresh' = {}
    /\ writing' = {} /\ raced' = FALSE /\ reaping' = {}
    /\ UNCHANGED <<issued, minted, granted>>

Next ==
    \/ \E c \in Clients : RegisterClient(c) \/ CredentialsGrant(c)
    \/ \E c \in Clients, s \in SUBSET Scopes : generateAuthorizationCode(c, s)
    \/ \E k \in codes : CodeGrant(k) \/ CodeGrantFails(k) \/ CodeExpired(k)
                       \/ ExpireCode(k)
    \/ \E t \in writing : CredentialsWritten(t)
    \/ \E r \in refresh, s \in SUBSET Scopes :
          RefreshGrant(r, s) \/ RefreshGrantFails(r, s)
    \/ \E r \in refresh : RefreshExpired(r) \/ ExpireRefresh(r)
    \/ \E t \in access : validateOAuthToken(t) \/ ExpireAccess(t)
    \/ \E i \in reaping : DeleteExpired(i)
    \/ Restart

Spec == Init /\ [][Next]_vars

-----------------------------------------------------------------------------
\* No token, whatever rotations led to it, has a scope that the user did not
\* consent to when its code was issued.
ScopeWithinConsent ==
    \A t \in access \cup refresh :
        t.grant # 0 => t.scope \subseteq granted[t.grant]

\* The server deletes no access token that has not expired, unless it writes
\* the map without the mutex: the goroutine that deletes a token it saw expired
\* takes the mutex later, when the map has changed.
LiveTokensStay ==
    [][restarts' = restarts /\ writing = {}
       => \A t \in access : t.expired \/ \E u \in access' : u.id = t.id]_vars

\* The grants as the maps show them.
Of(g, ts) == {t \in ts : t.grant = g}
phaseBar == [g \in Grants |-> IF g > issued THEN "none"
                              ELSE IF Of(g, codes) # {} THEN "code" ELSE "over"]
holdsBar == [g \in Grants |-> {t.id : t \in Of(g, refresh)}]
allowsBar == [g \in Grants |->
                 UNION {x.scope : x \in Of(g, codes) \cup Of(g, refresh)}]

Grant == INSTANCE OAuthGrants WITH phase <- phaseBar, holds <- holdsBar,
                                   allows <- allowsBar

\* The server keeps the promise of OAuthGrants: a code is exchanged once, also
\* if an exchange failed half-way, and one refresh token at most continues a
\* grant ("at no instant ... two valid refresh tokens for the same grant",
\* handlers.go), with a scope that only shrinks.
GrantSpec == Grant!Spec
=============================================================================
