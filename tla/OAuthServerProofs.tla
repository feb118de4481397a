------------------------- MODULE OAuthServerProofs -------------------------
(***************************************************************************)
(* The authorization server keeps its types and the scope of a consent, it *)
(* deletes no access token that has not expired, and it implements         *)
(* OAuthGrants.                                                            *)
(***************************************************************************)
EXTENDS OAuthServer, TLAPS

USE OAuthAssumption DEF OAuthAssumption

\* A grant that was issued lives in one code or in one refresh token.
OneCode == \A k, l \in codes : k.grant = l.grant => k = l
OneRefreshToken == \A r, q \in refresh : r.grant = q.grant => r = q
CodeOrRefreshToken == \A k \in codes, r \in refresh : k.grant # r.grant
WasIssued == \A x \in codes \cup refresh : x.grant <= issued

\* Consent also covers the codes and the insertions under way.
Consented(x) == x.grant # 0 => x.scope \subseteq granted[x.grant]
ConsentInv ==
    /\ \A x \in codes \cup access \cup refresh \cup writing : Consented(x)
    /\ \A t \in writing : t.grant = 0
    /\ \A t \in access : t.grant <= issued

GrantInv == OneCode /\ OneRefreshToken /\ CodeOrRefreshToken /\ WasIssued

\* No two access tokens are the same, and what the goroutines are to delete
\* has expired.
Expired(i) == \A t \in access \cup writing : t.id = i => t.expired
ReapInv ==
    /\ \A t \in access \cup writing : t.id <= minted
    /\ \A t, u \in access \cup writing : t.id = u.id => t = u
    /\ access \cap writing = {}
    /\ \A i \in reaping : i <= minted /\ Expired(i)

IInv == TypeOK /\ GrantInv /\ ConsentInv /\ ReapInv

-----------------------------------------------------------------------------

\* A new token is one, with the fields it is given.
LEMMA NewTokenType ==
    ASSUME NEW i \in Tokens, NEW g \in Grants \cup {0}, NEW c \in Clients,
           NEW s \in SUBSET Scopes
    PROVE  /\ NewToken(i, g, c, s) \in Token
           /\ NewToken(i, g, c, s).id = i
           /\ NewToken(i, g, c, s).grant = g
           /\ NewToken(i, g, c, s).client = c
           /\ NewToken(i, g, c, s).scope = s
           /\ NewToken(i, g, c, s).expired = FALSE
BY DEF NewToken, Token

\* The same for a refresh token made from it.
LEMMA RefreshTokenType ==
    ASSUME NEW t \in Token, NEW i \in Tokens
    PROVE  /\ [t EXCEPT !.id = i] \in Token
           /\ [t EXCEPT !.id = i].id = i
           /\ [t EXCEPT !.id = i].grant = t.grant
           /\ [t EXCEPT !.id = i].scope = t.scope
BY DEF Token

\* Ageing changes nothing but expired.
LEMMA AgedToken ==
    ASSUME NEW t \in Token
    PROVE  /\ Aged(t) \in Token
           /\ Aged(t).id = t.id /\ Aged(t).grant = t.grant
           /\ Aged(t).scope = t.scope /\ Aged(t).expired = TRUE
BY DEF Token, Aged

\* So is a code.
LEMMA AgedCode ==
    ASSUME NEW k \in Code
    PROVE  /\ Aged(k) \in Code
           /\ Aged(k).grant = k.grant /\ Aged(k).scope = k.scope
BY DEF Code, Aged

\* A write to accessTokens brings in nothing but what it writes.
LEMMA WriteAccessType ==
    ASSUME NEW new, WriteAccess(new)
    PROVE  /\ access' \subseteq access \cup new
           /\ raced' \in BOOLEAN
           /\ writing = {} => access' = new
BY DEF WriteAccess

\* The token of a refresh has the grant of the refresh token and a part of its
\* scope.
LEMMA RefreshedType ==
    ASSUME TypeOK, NEW r \in refresh, NEW s \in SUBSET Scopes,
           s = {} \/ isScopeSubset(s, r.scope), minted + 1 \in Tokens
    PROVE  /\ Refreshed(r, s) \in Token
           /\ Refreshed(r, s).id = minted + 1
           /\ Refreshed(r, s).grant = r.grant
           /\ Refreshed(r, s).scope \subseteq r.scope
           /\ Refreshed(r, s).expired = FALSE
<1>1. /\ r.grant \in Grants /\ r.client \in Clients
      /\ r.scope \in SUBSET Scopes
    <2>1. r \in Token /\ r.grant # 0
        BY DEF TypeOK, RefreshToken
    <2> QED
        BY <2>1 DEF Token
<1> DEFINE sc == IF s = {} THEN r.scope ELSE s
<1>2. sc \in SUBSET Scopes /\ sc \subseteq r.scope
    BY <1>1 DEF isScopeSubset
<1>3. Refreshed(r, s) = NewToken(minted + 1, r.grant, r.client, sc)
    BY DEF Refreshed
<1> HIDE DEF sc
<1>4. r.grant \in Grants \cup {0}
    BY <1>1
<1>5. /\ NewToken(minted + 1, r.grant, r.client, sc) \in Token
      /\ NewToken(minted + 1, r.grant, r.client, sc).id = minted + 1
      /\ NewToken(minted + 1, r.grant, r.client, sc).grant = r.grant
      /\ NewToken(minted + 1, r.grant, r.client, sc).scope = sc
      /\ NewToken(minted + 1, r.grant, r.client, sc).expired = FALSE
    BY <1>1, <1>2, <1>4 DEF NewToken, Token
<1> QED
    BY <1>2, <1>3, <1>5

\* The initial state satisfies the inductive invariant.
LEMMA InitIInv == Init => IInv
<1> SUFFICES ASSUME Init PROVE IInv
    OBVIOUS
<1>1. TypeOK
    <2>1. /\ issued \in 0..MaxCodes /\ minted \in 0..MaxTokens
          /\ restarts \in 0..MaxRestarts
        BY DEF Init
    <2>2. granted \in [Grants -> SUBSET Scopes]
        BY DEF Init
    <2> QED
        BY <2>1, <2>2 DEF Init, TypeOK
<1>2. GrantInv
    BY DEF Init, GrantInv, OneCode, OneRefreshToken, CodeOrRefreshToken,
           WasIssued
<1>3. ConsentInv
    BY DEF Init, ConsentInv
<1>4. ReapInv
    BY DEF Init, ReapInv
<1> QED
    BY <1>1, <1>2, <1>3, <1>4 DEF IInv

\* Every step keeps the types.
LEMMA TypeStep == TypeOK /\ [Next]_vars => TypeOK'
<1> SUFFICES ASSUME TypeOK, [Next]_vars PROVE TypeOK'
    OBVIOUS
<1> USE DEF counters
<1>0. /\ \A k \in codes : k \in Code /\ k.grant \in Grants
            /\ k.client \in Clients /\ k.scope \in SUBSET Scopes
      /\ \A r \in refresh : r \in Token /\ r.grant # 0
            /\ r.grant \in Grants \cup {0}
    BY DEF TypeOK, Code, RefreshToken, Token
<1>1. CASE UNCHANGED vars
    BY <1>1 DEF TypeOK, vars
<1>2. ASSUME NEW c \in Clients, RegisterClient(c) PROVE TypeOK'
    BY <1>2 DEF TypeOK, RegisterClient
<1>3. ASSUME NEW c \in Clients, CredentialsGrant(c) PROVE TypeOK'
    <2>1. minted' \in 0..MaxTokens /\ minted' \in Tokens
        BY <1>3 DEF TypeOK, CredentialsGrant, Tokens
    <2>2. NewToken(minted', 0, c, {}) \in Token
        BY <2>1 DEF NewToken, Token
    <2> QED
        BY <1>3, <2>1, <2>2 DEF TypeOK, CredentialsGrant
<1>4. ASSUME NEW c \in Clients, NEW s \in SUBSET Scopes,
             generateAuthorizationCode(c, s)
      PROVE  TypeOK'
    <2>1. issued' \in 0..MaxCodes /\ issued' \in Grants
        BY <1>4 DEF TypeOK, generateAuthorizationCode, Grants
    <2>2. [grant |-> issued', client |-> c, scope |-> s, expired |-> FALSE]
              \in Code
        BY <2>1 DEF Code
    <2>3. granted' \in [Grants -> SUBSET Scopes]
        BY <1>4, <2>1 DEF TypeOK, generateAuthorizationCode
    <2> QED
        BY <1>4, <2>1, <2>2, <2>3 DEF TypeOK, generateAuthorizationCode
<1>5. ASSUME NEW k \in codes, CodeGrant(k) PROVE TypeOK'
    <2> DEFINE t == NewToken(minted + 1, k.grant, k.client, k.scope)
               r == [t EXCEPT !.id = minted']
    <2>1. /\ minted' \in 0..MaxTokens /\ minted + 1 \in Tokens
          /\ minted' \in Tokens
        BY <1>5 DEF TypeOK, CodeGrant, Tokens
    <2>2. t \in Token /\ t.grant = k.grant
        BY <1>0, <2>1 DEF NewToken, Token
    <2>3. r \in Token /\ r.grant = k.grant
        BY <2>1, <2>2, RefreshTokenType
    <2>4. k.grant # 0
        BY <1>0 DEF Grants
    <2>5. r \in RefreshToken
        BY <2>3, <2>4 DEF RefreshToken
    <2>6. WriteAccess(access \cup {t}) /\ refresh' \subseteq refresh \cup {r}
        BY <1>5 DEF CodeGrant
    <2> HIDE DEF t, r
    <2>7. access' \in SUBSET Token /\ raced' \in BOOLEAN
        BY <2>2, <2>6, WriteAccessType DEF TypeOK
    <2>8. refresh' \in SUBSET RefreshToken
        BY <2>5, <2>6 DEF TypeOK
    <2>9. /\ codes' \in SUBSET Code /\ UNCHANGED <<clients, writing, reaping>>
          /\ UNCHANGED counters
        BY <1>5 DEF TypeOK, CodeGrant
    <2> QED
        BY <2>1, <2>7, <2>8, <2>9 DEF TypeOK
<1>6. ASSUME NEW k \in codes, CodeGrantFails(k) PROVE TypeOK'
    <2> DEFINE t == NewToken(minted', k.grant, k.client, k.scope)
    <2>1. minted' \in 0..MaxTokens /\ minted' \in Tokens
        BY <1>6 DEF TypeOK, CodeGrantFails, Tokens
    <2>2. t \in Token
        BY <1>0, <2>1 DEF NewToken, Token
    <2>3. WriteAccess(access \cup {t})
        BY <1>6 DEF CodeGrantFails
    <2> HIDE DEF t
    <2>4. access' \in SUBSET Token /\ raced' \in BOOLEAN
        BY <2>2, <2>3, WriteAccessType DEF TypeOK
    <2> QED
        BY <1>6, <2>1, <2>4 DEF TypeOK, CodeGrantFails
<1>7. ASSUME NEW k \in codes, CodeExpired(k) PROVE TypeOK'
    BY <1>7 DEF TypeOK, CodeExpired
<1>8. ASSUME NEW t \in writing, CredentialsWritten(t) PROVE TypeOK'
    <2>1. access' \subseteq access \cup {t} /\ raced' \in BOOLEAN
        BY <1>8 DEF TypeOK, CredentialsWritten
    <2> QED
        BY <1>8, <2>1 DEF TypeOK, CredentialsWritten
<1>9. ASSUME NEW r \in refresh, NEW s \in SUBSET Scopes, RefreshGrant(r, s)
      PROVE  TypeOK'
    <2> DEFINE t == Refreshed(r, s)
               q == [t EXCEPT !.id = minted']
    <2>1. /\ minted' \in 0..MaxTokens /\ minted + 1 \in Tokens
          /\ minted' \in Tokens
        BY <1>9 DEF TypeOK, RefreshGrant, Tokens
    <2>2. t \in Token /\ t.grant = r.grant
        BY <1>9, <2>1, RefreshedType DEF RefreshGrant
    <2>3. q \in RefreshToken
        BY <1>0, <2>1, <2>2, RefreshTokenType DEF RefreshToken
    <2>4. /\ WriteAccess(access \cup {t}) /\ refresh' \subseteq refresh \cup {q}
          /\ UNCHANGED <<clients, codes, writing, reaping, counters>>
        BY <1>9 DEF RefreshGrant, Rotate
    <2> HIDE DEF t, q
    <2>5. access' \in SUBSET Token /\ raced' \in BOOLEAN
        BY <2>2, <2>4, WriteAccessType DEF TypeOK
    <2> QED
        BY <2>1, <2>3, <2>4, <2>5 DEF TypeOK
<1>10. ASSUME NEW r \in refresh, NEW s \in SUBSET Scopes,
              RefreshGrantFails(r, s)
       PROVE  TypeOK'
    <2>1. /\ refresh' \in SUBSET RefreshToken
          /\ UNCHANGED <<clients, codes, writing, reaping, counters>>
        BY <1>10 DEF TypeOK, RefreshGrantFails
    <2>2. CASE UNCHANGED <<minted, access, raced>>
        BY <2>1, <2>2 DEF TypeOK
    <2>3. CASE /\ minted < MaxTokens /\ minted' = minted + 1
               /\ WriteAccess(access \cup {Refreshed(r, s)})
        <3>1. minted' \in 0..MaxTokens /\ minted + 1 \in Tokens
            BY <2>3 DEF TypeOK, Tokens
        <3>2. Refreshed(r, s) \in Token
            BY <1>10, <3>1, RefreshedType DEF RefreshGrantFails
        <3>3. access' \in SUBSET Token /\ raced' \in BOOLEAN
            BY <2>3, <3>2, WriteAccessType DEF TypeOK
        <3> QED
            BY <2>1, <3>1, <3>3 DEF TypeOK
    <2> QED
        BY <1>10, <2>2, <2>3 DEF RefreshGrantFails
<1>11. ASSUME NEW r \in refresh, RefreshExpired(r) PROVE TypeOK'
    BY <1>11 DEF TypeOK, RefreshExpired
<1>12. ASSUME NEW t \in access, validateOAuthToken(t) PROVE TypeOK'
    <2>1. t.id \in Tokens
        BY DEF TypeOK, Token
    <2> QED
        BY <1>12, <2>1 DEF TypeOK, validateOAuthToken
<1>13. ASSUME NEW i \in reaping, DeleteExpired(i) PROVE TypeOK'
    <2>1. access' \subseteq access /\ raced' \in BOOLEAN
        BY <1>13 DEF DeleteExpired, WriteAccess
    <2> QED
        BY <1>13, <2>1 DEF TypeOK, DeleteExpired
<1>14. ASSUME NEW k \in codes, ExpireCode(k) PROVE TypeOK'
    BY <1>0, <1>14, AgedCode DEF TypeOK, ExpireCode
<1>15. ASSUME NEW t \in access, ExpireAccess(t) PROVE TypeOK'
    <2>1. Aged(t) \in Token
        BY AgedToken DEF TypeOK
    <2> QED
        BY <1>15, <2>1 DEF TypeOK, ExpireAccess
<1>16. ASSUME NEW r \in refresh, ExpireRefresh(r) PROVE TypeOK'
    <2>1. Aged(r) \in RefreshToken
        BY <1>0, AgedToken DEF RefreshToken
    <2> QED
        BY <1>16, <2>1 DEF TypeOK, ExpireRefresh
<1>17. CASE Restart
    <2>1. restarts' \in 0..MaxRestarts
        BY <1>17 DEF TypeOK, Restart
    <2> QED
        BY <1>17, <2>1 DEF TypeOK, Restart
<1> QED
    BY <1>1, <1>2, <1>3, <1>4, <1>5, <1>6, <1>7, <1>8, <1>9, <1>10, <1>11,
       <1>12, <1>13, <1>14, <1>15, <1>16, <1>17 DEF Next

\* An exchange turns the code into at most one refresh token.
LEMMA CodeGrantEffect ==
    ASSUME TypeOK, NEW k \in codes, CodeGrant(k)
    PROVE  /\ codes' = codes \ {k} /\ UNCHANGED <<issued, granted>>
           /\ minted' \in Nat
           /\ \/ /\ UNCHANGED refresh
                 /\ minted' >= minted
              \/ \E r : /\ refresh' = refresh \cup {r}
                        /\ r.grant = k.grant /\ r.scope = k.scope
                        /\ r.id \in (minted + 1)..minted'
<1> DEFINE t == NewToken(minted + 1, k.grant, k.client, k.scope)
           r == [t EXCEPT !.id = minted']
<1>1. /\ minted' \in Nat /\ minted' >= minted
      /\ minted' \in (minted + 1)..minted'
      /\ minted + 1 \in Tokens /\ minted' \in Tokens
    BY DEF TypeOK, CodeGrant, Tokens
<1>2. t \in Token /\ t.grant = k.grant /\ t.scope = k.scope
    BY <1>1 DEF TypeOK, Code, NewToken, Token
<1>3. r.grant = k.grant /\ r.scope = k.scope /\ r.id = minted'
    BY <1>1, <1>2, RefreshTokenType
<1>4. UNCHANGED refresh \/ refresh' = refresh \cup {r}
    BY DEF CodeGrant
<1> HIDE DEF r
<1> QED
    BY <1>1, <1>3, <1>4 DEF CodeGrant, counters

\* A refresh turns the refresh token into another of the same grant.
LEMMA RefreshGrantEffect ==
    ASSUME TypeOK, NEW r \in refresh, NEW s \in SUBSET Scopes,
           RefreshGrant(r, s)
    PROVE  /\ UNCHANGED <<codes, issued, granted>>
           /\ minted' \in Nat
           /\ \E q : /\ refresh' = (refresh \ {r}) \cup {q}
                     /\ q.grant = r.grant /\ q.scope \subseteq r.scope
                     /\ q.id \in (minted + 1)..minted'
<1> DEFINE t == Refreshed(r, s)
           q == [t EXCEPT !.id = minted']
<1>1. /\ minted' \in Nat /\ minted' \in (minted + 1)..minted'
      /\ minted + 1 \in Tokens /\ minted' \in Tokens
    BY DEF TypeOK, RefreshGrant, Tokens
<1>2. t \in Token /\ t.grant = r.grant /\ t.scope \subseteq r.scope
    BY <1>1, RefreshedType DEF RefreshGrant
<1>3. q.grant = r.grant /\ q.scope \subseteq r.scope /\ q.id = minted'
    BY <1>1, <1>2, RefreshTokenType
<1>4. refresh' = (refresh \ {r}) \cup {q}
    BY DEF RefreshGrant, Rotate
<1> HIDE DEF q
<1> QED
    BY <1>1, <1>3, <1>4 DEF RefreshGrant, counters

\* A grant stays in one place.
LEMMA GrantStep == IInv /\ [Next]_vars => GrantInv'
<1> SUFFICES ASSUME TypeOK, GrantInv, [Next]_vars PROVE GrantInv'
    BY DEF IInv
<1> USE DEF GrantInv, OneCode, OneRefreshToken, CodeOrRefreshToken, WasIssued
<1>1. CASE UNCHANGED <<codes, refresh, issued>>
    BY <1>1
<1>2. ASSUME NEW c \in Clients, NEW s \in SUBSET Scopes,
             generateAuthorizationCode(c, s)
      PROVE  GrantInv'
    <2> DEFINE k == [grant |-> issued', client |-> c, scope |-> s,
                     expired |-> FALSE]
    <2>1. k.grant = issued'
        OBVIOUS
    <2>2. /\ codes' = codes \cup {k} /\ UNCHANGED refresh
          /\ issued \in Nat /\ issued' = issued + 1
        BY <1>2 DEF generateAuthorizationCode, TypeOK
    <2>3. \A x \in codes \cup refresh : x.grant \in Nat
        BY DEF TypeOK, Code, RefreshToken, Token, Grants
    <2>4. \A x \in codes \cup refresh : x.grant # k.grant /\ x.grant <= issued'
        BY <2>1, <2>2, <2>3
    <2>5. k.grant <= issued'
        BY <2>1, <2>2
    <2> HIDE DEF k
    <2> QED
        BY <2>2, <2>4, <2>5
<1>3. ASSUME NEW k \in codes, CodeGrant(k) PROVE GrantInv'
    BY <1>3, CodeGrantEffect
<1>4. ASSUME NEW k \in codes, CodeExpired(k) PROVE GrantInv'
    BY <1>4 DEF CodeExpired, counters
<1>5. ASSUME NEW r \in refresh, NEW s \in SUBSET Scopes, RefreshGrant(r, s)
      PROVE  GrantInv'
    BY <1>5, RefreshGrantEffect
<1>6. ASSUME NEW r \in refresh, NEW s \in SUBSET Scopes,
             RefreshGrantFails(r, s) \/ RefreshExpired(r)
      PROVE  GrantInv'
    BY <1>6 DEF RefreshGrantFails, RefreshExpired, counters
<1>7. ASSUME NEW k \in codes, ExpireCode(k) PROVE GrantInv'
    <2>1. Aged(k).grant = k.grant
        BY AgedCode DEF TypeOK
    <2> QED
        BY <1>7, <2>1 DEF ExpireCode, counters
<1>8. ASSUME NEW r \in refresh, ExpireRefresh(r) PROVE GrantInv'
    <2>1. Aged(r).grant = r.grant
        BY AgedToken DEF TypeOK, RefreshToken
    <2> QED
        BY <1>8, <2>1 DEF ExpireRefresh, counters
<1>9. CASE Restart
    BY <1>9 DEF Restart
<1>10. ASSUME \/ \E c \in Clients : RegisterClient(c) \/ CredentialsGrant(c)
              \/ \E k \in codes : CodeGrantFails(k)
              \/ \E t \in writing : CredentialsWritten(t)
              \/ \E t \in access : validateOAuthToken(t) \/ ExpireAccess(t)
              \/ \E i \in reaping : DeleteExpired(i)
              \/ UNCHANGED vars
       PROVE  UNCHANGED <<codes, refresh, issued>>
    BY <1>10 DEF RegisterClient, CredentialsGrant, CodeGrantFails,
                 CredentialsWritten, validateOAuthToken, ExpireAccess,
                 DeleteExpired, counters, vars
<1> QED
    BY <1>1, <1>2, <1>3, <1>4, <1>5, <1>6, <1>7, <1>8, <1>9, <1>10
       DEF Next

\* Nothing exceeds the consent it descends from.
LEMMA ConsentStep == IInv /\ [Next]_vars => ConsentInv'
<1> SUFFICES ASSUME TypeOK, GrantInv, ConsentInv, [Next]_vars
             PROVE  ConsentInv'
    BY DEF IInv
<1> USE DEF ConsentInv, Consented, counters
<1>0. /\ \A k \in codes : k \in Code /\ k.grant \in Grants
            /\ k.client \in Clients /\ k.scope \in SUBSET Scopes
            /\ k.grant <= issued
      /\ \A r \in refresh : r \in Token /\ r.grant <= issued
    BY DEF TypeOK, Code, RefreshToken, Token, GrantInv, WasIssued
<1>1. CASE UNCHANGED <<codes, access, refresh, writing, issued, granted>>
    BY <1>1
<1>2. ASSUME NEW c \in Clients, CredentialsGrant(c) PROVE ConsentInv'
    <2>1. NewToken(minted', 0, c, {}).grant = 0
        BY DEF NewToken
    <2> QED
        BY <1>2, <2>1 DEF CredentialsGrant
<1>3. ASSUME NEW c \in Clients, NEW s \in SUBSET Scopes,
             generateAuthorizationCode(c, s)
      PROVE  ConsentInv'
    <2> DEFINE k == [grant |-> issued', client |-> c, scope |-> s,
                     expired |-> FALSE]
    <2>1. k.grant = issued' /\ k.scope = s
        OBVIOUS
    <2>2. /\ codes' = codes \cup {k} /\ UNCHANGED <<access, refresh, writing>>
          /\ issued \in Nat /\ issued' = issued + 1 /\ issued' \in Grants
        BY <1>3 DEF generateAuthorizationCode, TypeOK, Grants
    <2>3. \A x \in codes \cup access \cup refresh \cup writing :
             x.grant \in Nat /\ x.grant <= issued
        <3>1. \A x \in codes \cup refresh : x.grant \in Nat
            BY DEF TypeOK, Code, RefreshToken, Token, Grants
        <3>2. \A x \in access \cup writing : x.grant \in Nat
            BY DEF TypeOK, Token, Grants
        <3> QED
            BY <1>0, <2>2, <3>1, <3>2
    <2>4. \A x \in codes \cup access \cup refresh \cup writing :
             x.grant # issued' /\ x.grant <= issued'
        BY <2>2, <2>3
    <2>5. /\ granted'[issued'] = s
          /\ \A g \in Grants : g # issued' => granted'[g] = granted[g]
        BY <1>3, <2>2 DEF generateAuthorizationCode, TypeOK
    <2>6. \A x \in codes \cup access \cup refresh \cup writing :
             x.grant \in Grants \cup {0}
        BY DEF TypeOK, Code, RefreshToken, Token
    <2>7. \A x \in codes \cup access \cup refresh \cup writing :
             x.grant # 0 => x.scope \subseteq granted'[x.grant]
        BY <2>4, <2>5, <2>6
    <2>8. k.scope \subseteq granted'[k.grant]
        BY <2>1, <2>5
    <2> HIDE DEF k
    <2> QED
        BY <2>2, <2>4, <2>7, <2>8
<1>4. ASSUME NEW k \in codes, CodeGrant(k) PROVE ConsentInv'
    <2> DEFINE t == NewToken(minted + 1, k.grant, k.client, k.scope)
    <2>1. t.grant = k.grant /\ t.scope = k.scope
        BY DEF NewToken
    <2>2. WriteAccess(access \cup {t}) /\ UNCHANGED writing
        BY <1>4 DEF CodeGrant
    <2> HIDE DEF t
    <2>3. access' \subseteq access \cup {t}
        BY <2>2, WriteAccessType
    <2> QED
        BY <1>0, <1>4, <2>1, <2>2, <2>3, CodeGrantEffect
<1>5. ASSUME NEW k \in codes, CodeGrantFails(k) PROVE ConsentInv'
    <2> DEFINE t == NewToken(minted', k.grant, k.client, k.scope)
    <2>1. t.grant = k.grant /\ t.scope = k.scope
        BY DEF NewToken
    <2>2. /\ WriteAccess(access \cup {t})
          /\ UNCHANGED <<codes, refresh, writing, issued, granted>>
        BY <1>5 DEF CodeGrantFails
    <2> HIDE DEF t
    <2>3. access' \subseteq access \cup {t}
        BY <2>2, WriteAccessType
    <2> QED
        BY <1>0, <2>1, <2>2, <2>3
<1>6. ASSUME NEW k \in codes, CodeExpired(k) PROVE ConsentInv'
    BY <1>6 DEF CodeExpired
<1>7. ASSUME NEW t \in writing, CredentialsWritten(t) PROVE ConsentInv'
    <2>1. access' \subseteq access \cup {t}
        BY <1>7 DEF CredentialsWritten
    <2>2. t.grant = 0 /\ issued \in Nat
        BY DEF TypeOK
    <2> QED
        BY <1>7, <2>1, <2>2 DEF CredentialsWritten
<1>8. ASSUME NEW r \in refresh, NEW s \in SUBSET Scopes, RefreshGrant(r, s)
      PROVE  ConsentInv'
    <2> DEFINE t == Refreshed(r, s)
    <2>1. minted + 1 \in Tokens
        BY <1>8 DEF TypeOK, RefreshGrant, Tokens
    <2>2. t.grant = r.grant /\ t.scope \subseteq r.scope
        BY <1>8, <2>1, RefreshedType DEF RefreshGrant
    <2>3. WriteAccess(access \cup {t}) /\ UNCHANGED writing
        BY <1>8 DEF RefreshGrant
    <2> HIDE DEF t
    <2>4. access' \subseteq access \cup {t}
        BY <2>3, WriteAccessType
    <2> QED
        BY <1>0, <1>8, <2>2, <2>3, <2>4, RefreshGrantEffect
<1>9. ASSUME NEW r \in refresh, NEW s \in SUBSET Scopes,
             RefreshGrantFails(r, s)
      PROVE  ConsentInv'
    <2>1. /\ refresh' \subseteq refresh
          /\ UNCHANGED <<codes, writing, issued, granted>>
        BY <1>9 DEF RefreshGrantFails
    <2>2. CASE UNCHANGED <<minted, access, raced>>
        BY <2>1, <2>2
    <2>3. CASE /\ minted < MaxTokens /\ minted' = minted + 1
               /\ WriteAccess(access \cup {Refreshed(r, s)})
        <3>1. minted + 1 \in Tokens
            BY <2>3 DEF TypeOK, Tokens
        <3>2. /\ Refreshed(r, s).grant = r.grant
              /\ Refreshed(r, s).scope \subseteq r.scope
            BY <1>9, <3>1, RefreshedType DEF RefreshGrantFails
        <3>3. access' \subseteq access \cup {Refreshed(r, s)}
            BY <2>3, WriteAccessType
        <3> QED
            BY <1>0, <2>1, <3>2, <3>3
    <2> QED
        BY <1>9, <2>2, <2>3 DEF RefreshGrantFails
<1>10. ASSUME NEW r \in refresh, RefreshExpired(r) PROVE ConsentInv'
    BY <1>10 DEF RefreshExpired
<1>11. ASSUME NEW i \in reaping, DeleteExpired(i) PROVE ConsentInv'
    <2>1. access' \subseteq access
        BY <1>11 DEF DeleteExpired, WriteAccess
    <2> QED
        BY <1>11, <2>1 DEF DeleteExpired
<1>12. ASSUME NEW k \in codes, ExpireCode(k) PROVE ConsentInv'
    BY <1>0, <1>12, AgedCode DEF ExpireCode
<1>13. ASSUME NEW t \in access, ExpireAccess(t) PROVE ConsentInv'
    <2>1. Aged(t).grant = t.grant /\ Aged(t).scope = t.scope
        BY AgedToken DEF TypeOK
    <2> QED
        BY <1>13, <2>1 DEF ExpireAccess
<1>14. ASSUME NEW r \in refresh, ExpireRefresh(r) PROVE ConsentInv'
    <2>1. Aged(r).grant = r.grant /\ Aged(r).scope = r.scope
        BY <1>0, AgedToken
    <2> QED
        BY <1>14, <2>1 DEF ExpireRefresh
<1>15. CASE Restart
    BY <1>15 DEF Restart
<1>16. ASSUME \/ \E c \in Clients : RegisterClient(c)
              \/ \E t \in access : validateOAuthToken(t)
              \/ UNCHANGED vars
       PROVE  UNCHANGED <<codes, access, refresh, writing, issued, granted>>
    BY <1>16 DEF RegisterClient, validateOAuthToken, vars
<1> QED
    BY <1>1, <1>2, <1>3, <1>4, <1>5, <1>6, <1>7, <1>8, <1>9, <1>10, <1>11,
       <1>12, <1>13, <1>14, <1>15, <1>16 DEF Next

\* An insertion of a token that was not there keeps ReapInv.
LEMMA ReapInsert ==
    ASSUME TypeOK, ReapInv, NEW t, t.id = minted + 1, minted' \in Nat,
           minted' > minted, access' \cup writing' \subseteq access \cup writing \cup {t},
           access' \cap writing' = {}, UNCHANGED reaping
    PROVE  ReapInv'
<1>1. \A u \in access \cup writing : u.id \in Nat
    BY DEF TypeOK, Token, Tokens
<1>2. minted \in Nat /\ \A i \in reaping : i \in Nat
    BY DEF TypeOK, Tokens
<1>3. \A u \in access \cup writing : u.id <= minted' /\ u.id # t.id
    BY <1>1, <1>2 DEF ReapInv
<1>4. \A i \in reaping : i <= minted' /\ i # t.id
    BY <1>2 DEF ReapInv
<1>5. t.id <= minted'
    BY <1>2
<1> QED
    BY <1>3, <1>4, <1>5 DEF ReapInv, Expired

\* A step that brings no access token in keeps ReapInv.
LEMMA ReapRemove ==
    ASSUME TypeOK, ReapInv, access' \cup writing' \subseteq access \cup writing,
           access' \cap writing' = {}, reaping' \subseteq reaping,
           minted' \in Nat, minted' >= minted
    PROVE  ReapInv'
<1>1. \A u \in access \cup writing : u.id \in Nat
    BY DEF TypeOK, Token, Tokens
<1>2. minted \in Nat /\ \A i \in reaping : i \in Nat
    BY DEF TypeOK, Tokens
<1>3. \A u \in access \cup writing : u.id <= minted'
    BY <1>1, <1>2 DEF ReapInv
<1>4. \A i \in reaping : i <= minted'
    BY <1>2 DEF ReapInv
<1> QED
    BY <1>3, <1>4 DEF ReapInv, Expired

\* Tokens stay distinct, and only what has expired is to be deleted.
LEMMA ReapStep == IInv /\ [Next]_vars => ReapInv'
<1> SUFFICES ASSUME TypeOK, ReapInv, [Next]_vars PROVE ReapInv'
    BY DEF IInv
<1> USE DEF counters
<1>0. /\ minted \in Nat /\ access \cap writing = {}
      /\ \A t \in access \cup writing : t.id # minted + 1
    BY DEF TypeOK, ReapInv, Token, Tokens
<1>1. CASE UNCHANGED <<access, writing, reaping, minted>>
    BY <1>1 DEF ReapInv, Expired
<1>2. ASSUME NEW c \in Clients, CredentialsGrant(c) PROVE ReapInv'
    <2> DEFINE t == NewToken(minted + 1, 0, c, {})
    <2>1. t.id = minted + 1
        BY DEF NewToken
    <2>2. /\ writing' = writing \cup {t} /\ minted' = minted + 1
          /\ UNCHANGED <<access, reaping>>
        BY <1>2 DEF CredentialsGrant
    <2> HIDE DEF t
    <2>3. access' \cap writing' = {}
        BY <1>0, <2>1, <2>2
    <2>4. minted' \in Nat /\ minted' > minted
        BY <1>0, <2>2
    <2>5. access' \cup writing' \subseteq access \cup writing \cup {t}
        BY <2>2
    <2> QED
        BY <2>1, <2>2, <2>3, <2>4, <2>5, ReapInsert
<1>3. ASSUME NEW t, t.id = minted + 1, WriteAccess(access \cup {t}),
             minted' \in Nat, minted' > minted, UNCHANGED <<writing, reaping>>
      PROVE  ReapInv'
    <2>1. access' \subseteq access \cup {t}
        BY <1>3, WriteAccessType
    <2>2. access' \cap writing' = {}
        BY <1>0, <1>3, <2>1
    <2>3. access' \cup writing' \subseteq access \cup writing \cup {t}
        BY <1>3, <2>1
    <2> QED
        BY <1>3, <2>2, <2>3, ReapInsert
<1>4. ASSUME NEW k \in codes, CodeGrant(k) PROVE ReapInv'
    <2>1. NewToken(minted + 1, k.grant, k.client, k.scope).id = minted + 1
        BY DEF NewToken
    <2>2. minted' \in Nat /\ minted' > minted
        BY <1>0, <1>4 DEF CodeGrant
    <2> QED
        BY <1>3, <1>4, <2>1, <2>2 DEF CodeGrant
<1>5. ASSUME NEW k \in codes, CodeGrantFails(k) PROVE ReapInv'
    <2>1. minted' = minted + 1 /\ minted' \in Nat /\ minted' > minted
        BY <1>0, <1>5 DEF CodeGrantFails
    <2>2. NewToken(minted', k.grant, k.client, k.scope).id = minted + 1
        BY <2>1 DEF NewToken
    <2> QED
        BY <1>3, <1>5, <2>1, <2>2 DEF CodeGrantFails
<1>6. ASSUME NEW t \in writing, CredentialsWritten(t) PROVE ReapInv'
    <2>1. access' \subseteq access \cup {t} /\ writing' = writing \ {t}
        BY <1>6 DEF CredentialsWritten
    <2>2. /\ access' \cup writing' \subseteq access \cup writing
          /\ access' \cap writing' = {}
        BY <1>0, <2>1
    <2>3. minted' \in Nat /\ minted' >= minted /\ reaping' \subseteq reaping
        BY <1>0, <1>6 DEF CredentialsWritten
    <2> QED
        BY <2>2, <2>3, ReapRemove
<1>7. ASSUME NEW r \in refresh, NEW s \in SUBSET Scopes, RefreshGrant(r, s)
      PROVE  ReapInv'
    <2>1. Refreshed(r, s).id = minted + 1
        BY DEF Refreshed, NewToken
    <2>2. minted' \in Nat /\ minted' > minted
        BY <1>0, <1>7 DEF RefreshGrant
    <2> QED
        BY <1>3, <1>7, <2>1, <2>2 DEF RefreshGrant
<1>8. ASSUME NEW r \in refresh, NEW s \in SUBSET Scopes,
             RefreshGrantFails(r, s)
      PROVE  ReapInv'
    <2>1. CASE UNCHANGED <<minted, access, raced>>
        BY <1>1, <1>8, <2>1 DEF RefreshGrantFails
    <2>2. CASE /\ minted < MaxTokens /\ minted' = minted + 1
               /\ WriteAccess(access \cup {Refreshed(r, s)})
        <3>1. Refreshed(r, s).id = minted + 1
            BY DEF Refreshed, NewToken
        <3>2. minted' \in Nat /\ minted' > minted
            BY <1>0, <2>2
        <3> QED
            BY <1>3, <1>8, <2>2, <3>1, <3>2 DEF RefreshGrantFails
    <2> QED
        BY <1>8, <2>1, <2>2 DEF RefreshGrantFails
<1>9. ASSUME NEW t \in access, validateOAuthToken(t) PROVE ReapInv'
    <2>1. t.id <= minted /\ Expired(t.id)
        BY <1>9 DEF ReapInv, Expired, validateOAuthToken
    <2> QED
        BY <1>9, <2>1 DEF ReapInv, Expired, validateOAuthToken
<1>10. ASSUME NEW i \in reaping, DeleteExpired(i) PROVE ReapInv'
    <2>1. access' \subseteq access
        BY <1>10 DEF DeleteExpired, WriteAccess
    <2>2. /\ access' \cup writing' \subseteq access \cup writing
          /\ access' \cap writing' = {}
        BY <1>0, <1>10, <2>1 DEF DeleteExpired
    <2>3. minted' \in Nat /\ minted' >= minted /\ reaping' \subseteq reaping
        BY <1>0, <1>10 DEF DeleteExpired
    <2> QED
        BY <2>2, <2>3, ReapRemove
<1>11. ASSUME NEW t \in access, ExpireAccess(t) PROVE ReapInv'
    <2>1. Aged(t).id = t.id /\ Aged(t).expired = TRUE
        BY AgedToken DEF TypeOK
    <2>2. /\ access' = (access \ {t}) \cup {Aged(t)}
          /\ UNCHANGED <<writing, reaping, minted>>
        BY <1>11 DEF ExpireAccess
    <2>3. \A u \in (access \cup writing) \ {t} : u.id # t.id
        BY DEF ReapInv
    <2>4. t \notin writing
        BY <1>0
    <2> QED
        BY <2>1, <2>2, <2>3, <2>4 DEF ReapInv, Expired
<1>12. CASE Restart
    BY <1>12 DEF Restart, ReapInv
<1>13. ASSUME \/ \E c \in Clients : RegisterClient(c)
              \/ \E c \in Clients, s \in SUBSET Scopes :
                    generateAuthorizationCode(c, s)
              \/ \E k \in codes : CodeExpired(k) \/ ExpireCode(k)
              \/ \E r \in refresh : RefreshExpired(r) \/ ExpireRefresh(r)
              \/ UNCHANGED vars
       PROVE  UNCHANGED <<access, writing, reaping, minted>>
    BY <1>13 DEF RegisterClient, generateAuthorizationCode, CodeExpired,
                 ExpireCode, RefreshExpired, ExpireRefresh, vars
<1> QED
    BY <1>1, <1>2, <1>4, <1>5, <1>6, <1>7, <1>8, <1>9, <1>10, <1>11,
       <1>12, <1>13 DEF Next

-----------------------------------------------------------------------------

\* The inductive invariant: IInv relates codes, tokens, consents and the
\* goroutines of the server in every reachable state.
THEOREM Inductive == Spec => []IInv
<1>1. IInv /\ [Next]_vars => IInv'
    BY TypeStep, GrantStep, ConsentStep, ReapStep DEF IInv
<1> QED
    BY <1>1, InitIInv, PTL DEF Spec

\* The maps of the server hold entries of their kind, and no refresh token is
\* without a user.
THEOREM TypeCorrect == Spec => []TypeOK
<1>1. IInv => TypeOK
    BY DEF IInv
<1> QED
    BY <1>1, Inductive, PTL

\* No sequence of refreshes leads to a token with a scope that the user did
\* not consent to (isScopeSubset of handleRefreshTokenGrant).
THEOREM ScopesStayWithinConsent == Spec => []ScopeWithinConsent
<1>1. IInv => ScopeWithinConsent
    BY DEF IInv, ConsentInv, Consented, ScopeWithinConsent
<1> QED
    BY <1>1, Inductive, PTL

\* A step deletes no access token that has not expired.
LEMMA LiveStep ==
    ASSUME IInv, [Next]_vars, restarts' = restarts, writing = {},
           NEW t \in access, ~t.expired
    PROVE  \E u \in access' : u.id = t.id
<1>0. TypeOK /\ ReapInv
    BY DEF IInv
<1>1. CASE access \subseteq access'
    BY <1>1
<1>2. ASSUME NEW new, WriteAccess(access \cup new)
      PROVE  access \subseteq access'
    BY <1>2, WriteAccessType
<1>3. ASSUME NEW k \in codes, CodeGrant(k) \/ CodeGrantFails(k)
      PROVE  access \subseteq access'
    BY <1>2, <1>3 DEF CodeGrant, CodeGrantFails
<1>4. ASSUME NEW r \in refresh, NEW s \in SUBSET Scopes,
             RefreshGrant(r, s) \/ RefreshGrantFails(r, s)
      PROVE  access \subseteq access'
    BY <1>2, <1>4 DEF RefreshGrant, RefreshGrantFails
<1>5. ASSUME NEW i \in reaping, DeleteExpired(i)
      PROVE  \E u \in access' : u.id = t.id
    <2>1. access' = {u \in access : u.id # i}
        BY <1>5, WriteAccessType DEF DeleteExpired
    <2>2. t.id # i
        BY <1>0 DEF ReapInv, Expired
    <2> QED
        BY <2>1, <2>2
<1>6. ASSUME NEW x \in access, ExpireAccess(x)
      PROVE  \E u \in access' : u.id = t.id
    <2>1. Aged(x).id = x.id
        BY <1>0, AgedToken DEF TypeOK
    <2> QED
        BY <1>6, <2>1 DEF ExpireAccess
<1>7. CASE Restart
    BY <1>0, <1>7 DEF Restart, TypeOK
<1>8. ASSUME \/ \E c \in Clients : RegisterClient(c) \/ CredentialsGrant(c)
             \/ \E c \in Clients, s \in SUBSET Scopes :
                   generateAuthorizationCode(c, s)
             \/ \E k \in codes : CodeExpired(k) \/ ExpireCode(k)
             \/ \E r \in refresh : RefreshExpired(r) \/ ExpireRefresh(r)
             \/ \E x \in access : validateOAuthToken(x)
             \/ UNCHANGED vars
      PROVE  access \subseteq access'
    BY <1>8 DEF RegisterClient, CredentialsGrant, generateAuthorizationCode,
                CodeExpired, ExpireCode, RefreshExpired, ExpireRefresh,
                validateOAuthToken, vars
<1> QED
    BY <1>1, <1>3, <1>4, <1>5, <1>6, <1>7, <1>8 DEF Next

\* While no client credentials grant writes the map without the mutex, an
\* access token that has not expired stays in it: the goroutines of
\* validateOAuthToken delete nothing else, whenever they run.
THEOREM LiveTokensAreKept == Spec => LiveTokensStay
<1>1. IInv /\ [Next]_vars
      => [restarts' = restarts /\ writing = {}
          => \A t \in access : t.expired \/ \E u \in access' : u.id = t.id]_vars
    BY LiveStep
<1> QED
    BY <1>1, Inductive, PTL DEF Spec, LiveTokensStay

-----------------------------------------------------------------------------

\* A grant whose code and refresh tokens stay the same shows the same.
Same(g) == /\ Of(g, codes)' = Of(g, codes)
           /\ Of(g, refresh)' = Of(g, refresh)

\* What the maps show of a grant that has a code, or a refresh token, or none.
LEMMA CodeShows ==
    ASSUME TypeOK, GrantInv, NEW k \in codes
    PROVE  /\ k.grant \in Grants /\ phaseBar[k.grant] = "code"
           /\ holdsBar[k.grant] = {} /\ allowsBar[k.grant] = k.scope
<1>1. k.grant \in Grants /\ k.grant <= issued /\ issued \in Nat
    BY DEF TypeOK, Code, GrantInv, WasIssued
<1>2. Of(k.grant, codes) = {k} /\ Of(k.grant, refresh) = {}
    BY DEF Of, GrantInv, OneCode, CodeOrRefreshToken
<1>3. ~(k.grant > issued)
    BY <1>1 DEF Grants
<1>4. phaseBar[k.grant] = "code"
    BY <1>1, <1>2, <1>3 DEF phaseBar
<1>5. holdsBar[k.grant] = {}
    BY <1>1, <1>2 DEF holdsBar
<1>6. allowsBar[k.grant] = k.scope
    BY <1>1, <1>2 DEF allowsBar
<1> QED
    BY <1>1, <1>4, <1>5, <1>6

\* A grant with a refresh token shows as exchanged and held by that token.
LEMMA RefreshTokenShows ==
    ASSUME TypeOK, GrantInv, NEW r \in refresh
    PROVE  /\ r.grant \in Grants /\ phaseBar[r.grant] = "over"
           /\ holdsBar[r.grant] = {r.id} /\ allowsBar[r.grant] = r.scope
<1>1. r.grant \in Grants /\ r.grant <= issued /\ issued \in Nat
    BY DEF TypeOK, RefreshToken, Token, GrantInv, WasIssued
<1>2. Of(r.grant, codes) = {} /\ Of(r.grant, refresh) = {r}
    BY DEF Of, GrantInv, OneRefreshToken, CodeOrRefreshToken
<1>3. ~(r.grant > issued)
    BY <1>1 DEF Grants
<1>4. phaseBar[r.grant] = "over"
    BY <1>1, <1>2, <1>3 DEF phaseBar
<1>5. holdsBar[r.grant] = {r.id}
    BY <1>1, <1>2 DEF holdsBar
<1>6. allowsBar[r.grant] = r.scope
    BY <1>1, <1>2 DEF allowsBar
<1> QED
    BY <1>1, <1>4, <1>5, <1>6

\* An issued grant with neither shows as over, with nothing left of it.
LEMMA NothingShows ==
    ASSUME NEW g \in Grants, g <= issued, issued \in Nat,
           \A x \in codes \cup refresh : x.grant # g
    PROVE  phaseBar[g] = "over" /\ holdsBar[g] = {} /\ allowsBar[g] = {}
<1>1. Of(g, codes) = {} /\ Of(g, refresh) = {}
    BY DEF Of
<1>2. ~(g > issued)
    BY DEF Grants
<1> QED
    BY <1>1, <1>2 DEF phaseBar, holdsBar, allowsBar

\* An unchanged grant.
LEMMA SameShows ==
    ASSUME NEW g \in Grants, Same(g), g > issued <=> g > issued'
    PROVE  /\ phaseBar'[g] = phaseBar[g] /\ holdsBar'[g] = holdsBar[g]
           /\ allowsBar'[g] = allowsBar[g]
BY DEF Same, phaseBar, holdsBar, allowsBar

\* What the maps show of every grant.
ShowInv ==
    /\ \A k \in codes : /\ k.grant \in Grants /\ phaseBar[k.grant] = "code"
                        /\ holdsBar[k.grant] = {}
                        /\ allowsBar[k.grant] = k.scope
    /\ \A r \in refresh : /\ r.grant \in Grants /\ phaseBar[r.grant] = "over"
                          /\ holdsBar[r.grant] = {r.id}
                          /\ allowsBar[r.grant] = r.scope
    /\ \A g \in Grants :
          g <= issued /\ (\A x \in codes \cup refresh : x.grant # g)
          => phaseBar[g] = "over" /\ holdsBar[g] = {} /\ allowsBar[g] = {}
    /\ \A g \in Grants : phaseBar[g] = "none" <=> g > issued
    /\ phaseBar = [g \in Grants |-> phaseBar[g]]
    /\ holdsBar = [g \in Grants |-> holdsBar[g]]
    /\ allowsBar = [g \in Grants |-> allowsBar[g]]

\* The refinement mapping shows what the server keeps.
LEMMA Shows == TypeOK /\ GrantInv => ShowInv
<1> SUFFICES ASSUME TypeOK, GrantInv PROVE ShowInv
    OBVIOUS
<1>1. issued \in Nat
    BY DEF TypeOK
<1>2. \A g \in Grants : phaseBar[g] = "none" <=> g > issued
    BY DEF phaseBar
<1>3. /\ phaseBar = [g \in Grants |-> phaseBar[g]]
      /\ holdsBar = [g \in Grants |-> holdsBar[g]]
      /\ allowsBar = [g \in Grants |-> allowsBar[g]]
    BY DEF phaseBar, holdsBar, allowsBar
<1> QED
    BY <1>1, <1>2, <1>3, CodeShows, RefreshTokenShows, NothingShows DEF ShowInv

\* The same after a step.
LEMMA ShowsNext == IInv /\ [Next]_vars => ShowInv'
<1>1. IInv /\ [Next]_vars => (TypeOK /\ GrantInv)'
    BY TypeStep, GrantStep DEF IInv
<1> QED
    BY <1>1, Shows, PTL

\* Grants that end.
LEMMA EndStep ==
    ASSUME ShowInv, ShowInv', NEW G \in SUBSET Grants,
           \A g \in G : /\ phaseBar[g] # "none" /\ phaseBar'[g] = "over"
                        /\ holdsBar'[g] = {} /\ allowsBar'[g] = {},
           \A g \in Grants \ G :
              /\ phaseBar'[g] = phaseBar[g] /\ holdsBar'[g] = holdsBar[g]
              /\ allowsBar'[g] = allowsBar[g],
           minted' \in Nat, minted' >= minted
    PROVE  Grant!Next
<1>1. phaseBar' = [g \in Grants |-> IF g \in G THEN "over" ELSE phaseBar[g]]
    BY DEF ShowInv
<1>2. holdsBar' = [g \in Grants |-> IF g \in G THEN {} ELSE holdsBar[g]]
    <2>1. holdsBar' = [g \in Grants |-> holdsBar'[g]]
        BY DEF ShowInv
    <2>2. \A g \in Grants : holdsBar'[g] = IF g \in G THEN {} ELSE holdsBar[g]
        OBVIOUS
    <2> QED
        BY <2>1, <2>2, Zenon
<1>3. allowsBar' = [g \in Grants |-> IF g \in G THEN {} ELSE allowsBar[g]]
    <2>1. allowsBar' = [g \in Grants |-> allowsBar'[g]]
        BY DEF ShowInv
    <2>2. \A g \in Grants : allowsBar'[g] = IF g \in G THEN {} ELSE allowsBar[g]
        OBVIOUS
    <2> QED
        BY <2>1, <2>2, Zenon
<1>4. Grant!End(G)
    BY <1>1, <1>2, <1>3 DEF Grant!End
<1> QED
    BY <1>4 DEF Grant!Next

\* A function with one value changed.
LEMMA OneChanged ==
    ASSUME NEW f, NEW h, NEW g \in Grants, NEW v,
           f = [x \in Grants |-> f[x]], h = [x \in Grants |-> h[x]],
           h[g] = v, \A x \in Grants \ {g} : h[x] = f[x]
    PROVE  h = [f EXCEPT ![g] = v]
<1>1. [f EXCEPT ![g] = v] = [x \in Grants |-> IF x = g THEN v ELSE f[x]]
    BY Zenon
<1>2. \A x \in Grants : h[x] = IF x = g THEN v ELSE f[x]
    OBVIOUS
<1> QED
    BY <1>1, <1>2, Zenon

\* A mapped function that no grant changes is the same function.
LEMMA NoneChanged ==
    ASSUME NEW f, NEW h, f = [x \in Grants |-> f[x]],
           h = [x \in Grants |-> h[x]], \A x \in Grants : h[x] = f[x]
    PROVE  h = f
BY Zenon

\* One grant ends, or none.
LEMMA EndOne ==
    ASSUME ShowInv, ShowInv', NEW g \in Grants, phaseBar[g] # "none",
           phaseBar'[g] = "over", holdsBar'[g] = {}, allowsBar'[g] = {},
           \A h \in Grants \ {g} :
              /\ phaseBar'[h] = phaseBar[h] /\ holdsBar'[h] = holdsBar[h]
              /\ allowsBar'[h] = allowsBar[h],
           minted' \in Nat, minted' >= minted
    PROVE  Grant!Next
<1> DEFINE G == {g}
<1>1. /\ G \in SUBSET Grants
      /\ \A h \in G : /\ phaseBar[h] # "none" /\ phaseBar'[h] = "over"
                      /\ holdsBar'[h] = {} /\ allowsBar'[h] = {}
      /\ \A h \in Grants \ G :
            /\ phaseBar'[h] = phaseBar[h] /\ holdsBar'[h] = holdsBar[h]
            /\ allowsBar'[h] = allowsBar[h]
    OBVIOUS
<1> HIDE DEF G
<1> QED
    BY <1>1, EndStep

\* A step that shows no change is a stuttering end of no grant.
LEMMA EndNone ==
    ASSUME ShowInv, ShowInv', UNCHANGED <<phaseBar, holdsBar, allowsBar>>,
           minted' \in Nat, minted' >= minted
    PROVE  Grant!Next
<1> DEFINE G == {}
<1>1. /\ G \in SUBSET Grants
      /\ \A h \in G : /\ phaseBar[h] # "none" /\ phaseBar'[h] = "over"
                      /\ holdsBar'[h] = {} /\ allowsBar'[h] = {}
      /\ \A h \in Grants \ G :
            /\ phaseBar'[h] = phaseBar[h] /\ holdsBar'[h] = holdsBar[h]
            /\ allowsBar'[h] = allowsBar[h]
    OBVIOUS
<1> HIDE DEF G
<1> QED
    BY <1>1, EndStep

\* Every step of the server is a step of the grants.
LEMMA RefinementStep ==
    IInv /\ [Next]_vars => [Grant!Next]_(Grant!vars)
<1> SUFFICES ASSUME IInv, [Next]_vars PROVE [Grant!Next]_(Grant!vars)
    OBVIOUS
<1>0. /\ TypeOK /\ GrantInv /\ ShowInv /\ ShowInv'
      /\ issued \in Nat /\ minted \in Nat
    BY Shows, ShowsNext DEF IInv, TypeOK
<1>a. GrantInv'
    BY GrantStep
<1> USE DEF counters
<1>1. ASSUME UNCHANGED <<codes, refresh, issued>>, minted' \in Nat,
             minted' >= minted
      PROVE  Grant!Next
    <2>1. /\ phaseBar' = phaseBar /\ holdsBar' = holdsBar
          /\ allowsBar' = allowsBar
        BY <1>1 DEF phaseBar, holdsBar, allowsBar, Of
    <2> QED
        BY <1>0, <1>1, <2>1, EndNone
<1>2. ASSUME NEW c \in Clients, NEW s \in SUBSET Scopes,
             generateAuthorizationCode(c, s)
      PROVE  Grant!Next
    <2> DEFINE k == [grant |-> issued', client |-> c, scope |-> s,
                     expired |-> FALSE]
    <2>1. k.grant = issued' /\ k.scope = s
        OBVIOUS
    <2>2. /\ codes' = codes \cup {k} /\ UNCHANGED <<refresh, minted>>
          /\ issued' = issued + 1 /\ issued' \in Grants
        BY <1>0, <1>2 DEF generateAuthorizationCode, TypeOK, Grants
    <2> HIDE DEF k
    <2>3. /\ phaseBar'[issued'] = "code" /\ allowsBar'[issued'] = s
          /\ holdsBar'[issued'] = {}
        BY <1>0, <2>1, <2>2 DEF ShowInv
    <2>4. phaseBar[issued'] = "none"
        <3>1. issued' > issued
            BY <1>0, <2>2
        <3> QED
            BY <1>0, <2>2, <3>1 DEF ShowInv
    <2>5. \A g \in Grants \ {issued'} :
             /\ phaseBar'[g] = phaseBar[g] /\ holdsBar'[g] = holdsBar[g]
             /\ allowsBar'[g] = allowsBar[g]
        <3>1. \A g \in Grants \ {issued'} : g > issued <=> g > issued'
            BY <1>0, <2>2 DEF Grants
        <3>2. \A g \in Grants \ {issued'} : Same(g)
            BY <2>1, <2>2 DEF Same, Of
        <3> QED
            BY <3>1, <3>2, SameShows
    <2>6. holdsBar[issued'] = {}
        <3>1. \A x \in refresh : x.grant # issued'
            BY <1>0, <2>2 DEF GrantInv, WasIssued, TypeOK, RefreshToken, Token,
                              Grants
        <3> QED
            BY <2>2, <3>1 DEF holdsBar, Of
    <2>7. holdsBar' = holdsBar
        <3>1. \A g \in Grants : holdsBar'[g] = holdsBar[g]
            BY <2>3, <2>5, <2>6
        <3>2. /\ holdsBar = [g \in Grants |-> holdsBar[g]]
              /\ holdsBar' = [g \in Grants |-> holdsBar'[g]]
            BY <1>0 DEF ShowInv
        <3> QED
            BY <3>1, <3>2, Zenon
    <2>8. phaseBar' = [phaseBar EXCEPT ![issued'] = "code"]
        BY <1>0, <2>2, <2>3, <2>5, OneChanged DEF ShowInv
    <2>9. allowsBar' = [allowsBar EXCEPT ![issued'] = s]
        BY <1>0, <2>2, <2>3, <2>5, OneChanged DEF ShowInv
    <2>10. Grant!Consent(issued', s)
        BY <2>2, <2>4, <2>7, <2>8, <2>9 DEF Grant!Consent
    <2> QED
        BY <2>2, <2>10 DEF Grant!Next
<1>3. ASSUME NEW k \in codes, CodeGrant(k) PROVE Grant!Next
    <2>1. /\ k.grant \in Grants /\ phaseBar[k.grant] = "code"
          /\ holdsBar[k.grant] = {} /\ allowsBar[k.grant] = k.scope
        BY <1>0 DEF ShowInv
    <2>2. codes' = codes \ {k} /\ issued' = issued /\ minted' \in Nat
        BY <1>0, <1>3, CodeGrantEffect
    <2>3. \A l \in codes' : l.grant # k.grant
        BY <1>0, <2>2 DEF GrantInv, OneCode
    <2>4. k.grant <= issued'
        BY <1>0, <2>2 DEF GrantInv, WasIssued
    <2>5. CASE UNCHANGED refresh /\ minted' >= minted
        <3>1. \A x \in codes' \cup refresh' : x.grant # k.grant
            BY <1>0, <2>3, <2>5 DEF GrantInv, CodeOrRefreshToken
        <3>2. /\ phaseBar'[k.grant] = "over" /\ holdsBar'[k.grant] = {}
              /\ allowsBar'[k.grant] = {}
            BY <1>0, <2>1, <2>4, <3>1 DEF ShowInv
        <3>3. \A g \in Grants \ {k.grant} : Same(g)
            BY <2>2, <2>5 DEF Same, Of
        <3>4. \A g \in Grants \ {k.grant} :
                 /\ phaseBar'[g] = phaseBar[g] /\ holdsBar'[g] = holdsBar[g]
                 /\ allowsBar'[g] = allowsBar[g]
            BY <2>2, <3>3, SameShows
        <3> QED
            BY <1>0, <2>1, <2>2, <2>5, <3>2, <3>4, EndOne
    <2>6. ASSUME NEW r, refresh' = refresh \cup {r}, r.grant = k.grant,
                 r.scope = k.scope, r.id \in (minted + 1)..minted'
          PROVE  Grant!Next
        <3>1. /\ phaseBar'[k.grant] = "over" /\ holdsBar'[k.grant] = {r.id}
              /\ allowsBar'[k.grant] = k.scope
            BY <1>0, <2>6 DEF ShowInv
        <3>2. \A g \in Grants \ {k.grant} : Same(g)
            BY <2>2, <2>6 DEF Same, Of
        <3>3. \A g \in Grants \ {k.grant} :
                 /\ phaseBar'[g] = phaseBar[g] /\ holdsBar'[g] = holdsBar[g]
                 /\ allowsBar'[g] = allowsBar[g]
            BY <2>2, <3>2, SameShows
        <3>4. phaseBar' = [phaseBar EXCEPT ![k.grant] = "over"]
            BY <1>0, <2>1, <3>1, <3>3, OneChanged DEF ShowInv
        <3>5. holdsBar' = [holdsBar EXCEPT ![k.grant] = {r.id}]
            BY <1>0, <2>1, <3>1, <3>3, OneChanged DEF ShowInv
        <3>6. allowsBar' = allowsBar
            <4>1. \A g \in Grants : allowsBar'[g] = allowsBar[g]
                BY <2>1, <3>1, <3>3
            <4>2. /\ allowsBar = [g \in Grants |-> allowsBar[g]]
                  /\ allowsBar' = [g \in Grants |-> allowsBar'[g]]
                BY <1>0 DEF ShowInv
            <4> QED
                BY <4>1, <4>2, Zenon
        <3>7. Grant!Exchange(k.grant)
            BY <2>1, <2>2, <2>6, <3>4, <3>5, <3>6
               DEF Grant!Exchange, Grant!Fresh
        <3> QED
            BY <2>1, <3>7 DEF Grant!Next
    <2> QED
        BY <1>0, <1>3, <2>5, <2>6, CodeGrantEffect
<1>4. ASSUME NEW k \in codes, CodeExpired(k) PROVE Grant!Next
    <2>1. k.grant \in Grants /\ phaseBar[k.grant] = "code"
        BY <1>0 DEF ShowInv
    <2>2. codes' = codes \ {k} /\ UNCHANGED <<refresh, issued, minted>>
        BY <1>4 DEF CodeExpired
    <2>3. \A x \in codes' \cup refresh' : x.grant # k.grant
        BY <1>0, <2>2 DEF GrantInv, OneCode, CodeOrRefreshToken
    <2>4. k.grant <= issued'
        BY <1>0, <2>2 DEF GrantInv, WasIssued
    <2>5. /\ phaseBar'[k.grant] = "over" /\ holdsBar'[k.grant] = {}
          /\ allowsBar'[k.grant] = {}
        BY <1>0, <2>1, <2>3, <2>4 DEF ShowInv
    <2>6. \A g \in Grants \ {k.grant} : Same(g)
        BY <2>2 DEF Same, Of
    <2>7. \A g \in Grants \ {k.grant} :
             /\ phaseBar'[g] = phaseBar[g] /\ holdsBar'[g] = holdsBar[g]
             /\ allowsBar'[g] = allowsBar[g]
        BY <2>2, <2>6, SameShows
    <2>8. minted' \in Nat /\ minted' >= minted
        BY <1>0, <2>2
    <2> QED
        BY <1>0, <2>1, <2>5, <2>7, <2>8, EndOne
<1>5. ASSUME NEW r \in refresh, NEW s \in SUBSET Scopes, RefreshGrant(r, s)
      PROVE  Grant!Next
    <2>1. /\ r.grant \in Grants /\ phaseBar[r.grant] = "over"
          /\ holdsBar[r.grant] = {r.id} /\ allowsBar[r.grant] = r.scope
        BY <1>0 DEF ShowInv
    <2>2. UNCHANGED <<codes, issued>> /\ minted' \in Nat
        BY <1>0, <1>5, RefreshGrantEffect
    <2>3. PICK q : /\ refresh' = (refresh \ {r}) \cup {q}
                   /\ q.grant = r.grant /\ q.scope \subseteq r.scope
                   /\ q.id \in (minted + 1)..minted'
        BY <1>0, <1>5, RefreshGrantEffect
    <2>4. /\ phaseBar'[r.grant] = "over" /\ holdsBar'[r.grant] = {q.id}
          /\ allowsBar'[r.grant] = q.scope
        BY <1>0, <2>3 DEF ShowInv
    <2>5. \A g \in Grants \ {r.grant} : Same(g)
        BY <2>2, <2>3 DEF Same, Of
    <2>6. \A g \in Grants \ {r.grant} :
             /\ phaseBar'[g] = phaseBar[g] /\ holdsBar'[g] = holdsBar[g]
             /\ allowsBar'[g] = allowsBar[g]
        BY <2>2, <2>5, SameShows
    <2>7. phaseBar' = phaseBar
        <3>1. \A g \in Grants : phaseBar'[g] = phaseBar[g]
            BY <2>1, <2>4, <2>6
        <3>2. /\ phaseBar = [g \in Grants |-> phaseBar[g]]
              /\ phaseBar' = [g \in Grants |-> phaseBar'[g]]
            BY <1>0 DEF ShowInv
        <3> QED
            BY <3>1, <3>2, Zenon
    <2>8. holdsBar' = [holdsBar EXCEPT ![r.grant] = {q.id}]
        BY <1>0, <2>1, <2>4, <2>6, OneChanged DEF ShowInv
    <2>9. allowsBar' = [allowsBar EXCEPT ![r.grant] = q.scope]
        BY <1>0, <2>1, <2>4, <2>6, OneChanged DEF ShowInv
    <2>10. Grant!Continue(r.grant, q.scope)
        BY <2>1, <2>2, <2>3, <2>7, <2>8, <2>9
           DEF Grant!Continue, Grant!Fresh
    <2>11. q.scope \in SUBSET Scopes
        BY <1>0, <2>3 DEF TypeOK, RefreshToken, Token
    <2> QED
        BY <2>1, <2>10, <2>11 DEF Grant!Next
<1>6. ASSUME NEW r \in refresh, refresh' = refresh \ {r},
             UNCHANGED <<codes, issued>>, minted' \in Nat, minted' >= minted
      PROVE  Grant!Next
    <2>1. r.grant \in Grants /\ phaseBar[r.grant] = "over"
        BY <1>0 DEF ShowInv
    <2>2. \A x \in codes' \cup refresh' : x.grant # r.grant
        BY <1>0, <1>6 DEF GrantInv, OneRefreshToken, CodeOrRefreshToken
    <2>3. r.grant <= issued'
        BY <1>0, <1>6 DEF GrantInv, WasIssued
    <2>4. /\ phaseBar'[r.grant] = "over" /\ holdsBar'[r.grant] = {}
          /\ allowsBar'[r.grant] = {}
        BY <1>0, <2>1, <2>2, <2>3 DEF ShowInv
    <2>5. \A g \in Grants \ {r.grant} : Same(g)
        BY <1>6 DEF Same, Of
    <2>6. \A g \in Grants \ {r.grant} :
             /\ phaseBar'[g] = phaseBar[g] /\ holdsBar'[g] = holdsBar[g]
             /\ allowsBar'[g] = allowsBar[g]
        BY <1>6, <2>5, SameShows
    <2> QED
        BY <1>0, <1>6, <2>1, <2>4, <2>6, EndOne
<1>7. ASSUME NEW r \in refresh, NEW s \in SUBSET Scopes,
             RefreshGrantFails(r, s)
      PROVE  Grant!Next
    <2>1. minted' \in Nat /\ minted' >= minted
        BY <1>0, <1>7 DEF RefreshGrantFails
    <2> QED
        BY <1>6, <1>7, <2>1 DEF RefreshGrantFails
<1>8. ASSUME NEW r \in refresh, RefreshExpired(r) PROVE Grant!Next
    <2>1. minted' \in Nat /\ minted' >= minted
        BY <1>0, <1>8 DEF RefreshExpired
    <2> QED
        BY <1>6, <1>8, <2>1 DEF RefreshExpired
<1>9. ASSUME NEW k \in codes, ExpireCode(k) PROVE UNCHANGED Grant!vars
    <2>1. Aged(k).grant = k.grant /\ Aged(k).scope = k.scope
        BY <1>0, AgedCode DEF TypeOK
    <2>2. /\ codes' = (codes \ {k}) \cup {Aged(k)}
          /\ UNCHANGED <<refresh, issued, minted>>
        BY <1>9 DEF ExpireCode
    <2>3. /\ phaseBar'[k.grant] = phaseBar[k.grant]
          /\ holdsBar'[k.grant] = holdsBar[k.grant]
          /\ allowsBar'[k.grant] = allowsBar[k.grant]
        <3> DEFINE l == Aged(k)
        <3>1. l \in codes' /\ l.grant = k.grant /\ l.scope = k.scope
            BY <2>1, <2>2
        <3> HIDE DEF l
        <3>2. /\ phaseBar'[l.grant] = "code" /\ holdsBar'[l.grant] = {}
              /\ allowsBar'[l.grant] = l.scope
            BY <1>0, <3>1 DEF ShowInv
        <3>3. /\ phaseBar[k.grant] = "code" /\ holdsBar[k.grant] = {}
              /\ allowsBar[k.grant] = k.scope
            BY <1>0 DEF ShowInv
        <3> QED
            BY <3>1, <3>2, <3>3
    <2>4. \A g \in Grants \ {k.grant} : Same(g)
        BY <2>1, <2>2 DEF Same, Of
    <2>5. \A g \in Grants :
             /\ phaseBar'[g] = phaseBar[g] /\ holdsBar'[g] = holdsBar[g]
             /\ allowsBar'[g] = allowsBar[g]
        BY <2>2, <2>3, <2>4, SameShows
    <2>6. UNCHANGED <<phaseBar, holdsBar, allowsBar>>
        BY <1>0, <2>5, NoneChanged DEF ShowInv
    <2> QED
        BY <2>2, <2>6 DEF Grant!vars
<1>10. ASSUME NEW r \in refresh, ExpireRefresh(r) PROVE UNCHANGED Grant!vars
    <2>1. /\ Aged(r).grant = r.grant /\ Aged(r).scope = r.scope
          /\ Aged(r).id = r.id
        BY <1>0, AgedToken DEF TypeOK, RefreshToken
    <2>2. /\ refresh' = (refresh \ {r}) \cup {Aged(r)}
          /\ UNCHANGED <<codes, issued, minted>>
        BY <1>10 DEF ExpireRefresh
    <2>3. /\ phaseBar'[r.grant] = phaseBar[r.grant]
          /\ holdsBar'[r.grant] = holdsBar[r.grant]
          /\ allowsBar'[r.grant] = allowsBar[r.grant]
        <3> DEFINE q == Aged(r)
        <3>1. /\ q \in refresh' /\ q.grant = r.grant /\ q.scope = r.scope
              /\ q.id = r.id
            BY <2>1, <2>2
        <3> HIDE DEF q
        <3>2. /\ phaseBar'[q.grant] = "over" /\ holdsBar'[q.grant] = {q.id}
              /\ allowsBar'[q.grant] = q.scope
            BY <1>0, <3>1 DEF ShowInv
        <3>3. /\ phaseBar[r.grant] = "over" /\ holdsBar[r.grant] = {r.id}
              /\ allowsBar[r.grant] = r.scope
            BY <1>0 DEF ShowInv
        <3> QED
            BY <3>1, <3>2, <3>3
    <2>4. \A g \in Grants \ {r.grant} : Same(g)
        BY <2>1, <2>2 DEF Same, Of
    <2>5. \A g \in Grants :
             /\ phaseBar'[g] = phaseBar[g] /\ holdsBar'[g] = holdsBar[g]
             /\ allowsBar'[g] = allowsBar[g]
        BY <2>2, <2>3, <2>4, SameShows
    <2>6. UNCHANGED <<phaseBar, holdsBar, allowsBar>>
        BY <1>0, <2>5, NoneChanged DEF ShowInv
    <2> QED
        BY <2>2, <2>6 DEF Grant!vars
<1>11. CASE Restart
    <2> DEFINE G == {g \in Grants : g <= issued}
    <2>1. /\ codes' = {} /\ refresh' = {} /\ UNCHANGED <<issued, minted>>
        BY <1>11 DEF Restart
    <2>2. \A g \in G : /\ phaseBar[g] # "none" /\ phaseBar'[g] = "over"
                       /\ holdsBar'[g] = {} /\ allowsBar'[g] = {}
        BY <1>0, <2>1 DEF ShowInv, Grants
    <2>3. \A g \in Grants \ G : g > issued
        BY <1>0 DEF Grants
    <2>4. \A g \in Grants \ G : \A x \in codes \cup refresh : x.grant # g
        BY <1>0 DEF GrantInv, WasIssued
    <2>5. \A g \in Grants \ G : Same(g)
        BY <2>1, <2>4 DEF Same, Of
    <2>6. \A g \in Grants \ G :
             /\ phaseBar'[g] = phaseBar[g] /\ holdsBar'[g] = holdsBar[g]
             /\ allowsBar'[g] = allowsBar[g]
        BY <2>1, <2>5, SameShows
    <2>7. minted' \in Nat /\ minted' >= minted /\ G \in SUBSET Grants
        BY <1>0, <2>1
    <2> HIDE DEF G
    <2> QED
        BY <1>0, <2>2, <2>6, <2>7, EndStep
<1>12. ASSUME \/ \E c \in Clients : RegisterClient(c) \/ CredentialsGrant(c)
              \/ \E k \in codes : CodeGrantFails(k)
              \/ \E t \in writing : CredentialsWritten(t)
              \/ \E t \in access : validateOAuthToken(t) \/ ExpireAccess(t)
              \/ \E i \in reaping : DeleteExpired(i)
              \/ UNCHANGED vars
       PROVE  /\ UNCHANGED <<codes, refresh, issued>> /\ minted' \in Nat
              /\ minted' >= minted
    <2>1. /\ UNCHANGED <<codes, refresh, issued>>
          /\ minted' = minted \/ minted' = minted + 1
        BY <1>12 DEF RegisterClient, CredentialsGrant, CodeGrantFails,
                     CredentialsWritten, validateOAuthToken, ExpireAccess,
                     DeleteExpired, vars
    <2> QED
        BY <1>0, <2>1
<1> QED
    BY <1>1, <1>2, <1>3, <1>4, <1>5, <1>7, <1>8, <1>9, <1>10, <1>11, <1>12
       DEF Next

\* The server implements OAuthGrants: with failing generators, restarts and
\* any number of grants, a code is exchanged at most once and at most one
\* refresh token continues a grant, with a scope that only shrinks.
THEOREM ImplementsGrants == Spec => GrantSpec
<1>1. Init => Grant!Init
    <2> SUFFICES ASSUME Init PROVE Grant!Init
        OBVIOUS
    <2>1. \A g \in Grants : g > issued
        BY DEF Init, Grants
    <2>2. phaseBar = [g \in Grants |-> "none"]
        BY <2>1 DEF phaseBar
    <2>3. holdsBar = [g \in Grants |-> {}]
        BY DEF Init, holdsBar, Of
    <2>4. allowsBar = [g \in Grants |-> {}]
        BY DEF Init, allowsBar, Of
    <2> QED
        BY <2>2, <2>3, <2>4 DEF Init, Grant!Init
<1> QED
    BY <1>1, RefinementStep, Inductive, PTL DEF Spec, GrantSpec, Grant!Spec
=============================================================================
