----------------------------- MODULE ProxyProofs -----------------------------
(***************************************************************************)
(* The safety properties of the proxy's parts, proved for any clients,     *)
(* subscriptions, requests, workers, calls, sessions and IDs.              *)
(***************************************************************************)
EXTENDS MCProxy, TLAPS

USE ProxyAssumption DEF ProxyAssumption

-----------------------------------------------------------------------------
(* Subscriptions *)

\* At first nobody has subscribed.
LEMMA SubInit == Sub!Init => Sub!SubInv
<1> SUFFICES ASSUME Sub!Init PROVE Sub!SubInv
    OBVIOUS
<1>1. Sub!NoClient \in Sub!Client
    BY DEF Sub!NoClient, Sub!Client
<1>2. Sub!NoUpdate \in Sub!Update
    BY DEF Sub!NoUpdate, Sub!Update
<1>3. Sub!NoSub \in Sub!Sub /\ Sub!NoSub.client = "none"
    BY DEF Sub!NoSub, Sub!Sub
<1>4. Sub!TypeOK
    BY <1>1, <1>2, <1>3 DEF Sub!Init, Sub!TypeOK
<1>5. Sub!IndexesAgree
    BY <1>3 DEF Sub!Init, Sub!IndexesAgree, Sub!NoClient
<1>6. update.held = {}
    BY DEF Sub!Init, Sub!NoUpdate
<1>7. QED
    BY <1>4, <1>5, <1>6 DEF Sub!SubInv

\* The record of a subscription is the empty one or names a client.
LEMMA SubClient ==
    ASSUME NEW x \in Sub!Sub
    PROVE  /\ x = Sub!NoSub <=> x.client = "none"
           /\ x # Sub!NoSub => x.client \in Clients
    BY DEF Sub!Sub, Sub!NoSub

\* Every step of the subscription manager keeps the invariant.
LEMMA SubStep == Sub!SubInv /\ [Sub!Next]_subVars => Sub!SubInv'
<1> SUFFICES ASSUME Sub!SubInv, [Sub!Next]_subVars PROVE Sub!SubInv'
    OBVIOUS
<1> USE DEF Sub!SubInv, Sub!TypeOK, Sub!IndexesAgree
<1>a. Sub!NoClient \in Sub!Client /\ Sub!NoClient.subs = {} /\ Sub!NoClient.old = FALSE
    BY DEF Sub!NoClient, Sub!Client
<1>b. Sub!NoSub \in Sub!Sub /\ Sub!NoSub.client = "none"
    BY DEF Sub!NoSub, Sub!Sub
<1>c. \A s \in Sub!SubIds : /\ subs[s] = Sub!NoSub <=> subs[s].client = "none"
                            /\ subs[s] # Sub!NoSub => subs[s].client \in Clients
    BY SubClient
<1>d. DOMAIN update = {"uri", "type", "todo", "told", "held"}
      /\ update.todo \subseteq Clients /\ update.told \subseteq Clients
      /\ update.held \subseteq Clients
    BY DEF Sub!Update
<1>e. \A c \in Clients : /\ DOMAIN clients[c] = {"subs", "old"}
                         /\ clients[c].subs \subseteq Sub!SubIds
                         /\ clients[c].old \in BOOLEAN
    BY DEF Sub!Client
<1>1. ASSUME NEW c \in Clients, Sub!handleResourceSubscribe(c) PROVE Sub!SubInv'
    <2>1. PICK uri \in Sub!Patterns, filters \in Sub!FilterLists : Sub!Subscribe(c, uri, filters)
        BY <1>1 DEF Sub!handleResourceSubscribe
    <2>2. PICK s \in Sub!SubIds :
             /\ subs[s] = Sub!NoSub
             /\ subs' = [subs EXCEPT ![s] = [client |-> c, uri |-> uri, filters |-> filters]]
             /\ clients' = [clients EXCEPT ![c].subs = @ \cup {s}, ![c].old = FALSE]
        BY <2>1 DEF Sub!Subscribe
    <2> DEFINE new == [client |-> c, uri |-> uri, filters |-> filters]
    <2>3. new \in Sub!Sub /\ new.client = c
        BY DEF Sub!Sub
    <2> HIDE DEF new
    <2>4. subs' = [subs EXCEPT ![s] = new]
        BY <2>2 DEF new
    <2>5. subs' \in [Sub!SubIds -> Sub!Sub]
        BY <2>3, <2>4
    <2>6. clients' \in [Clients -> Sub!Client]
        BY <2>2, <1>e DEF Sub!Client
    <2>7. /\ clients'[c].subs = clients[c].subs \cup {s}
          /\ \A d \in Clients \ {c} : clients'[d] = clients[d]
        BY <2>2, <1>e
    <2>8. Sub!IndexesAgree'
        BY <2>3, <2>4, <2>7, <2>2, <1>c, <1>a
    <2>9. QED
        BY <2>5, <2>6, <2>8, <2>1 DEF Sub!Subscribe
<1>2. ASSUME NEW c \in Clients, Sub!handleResourceUnsubscribe(c) PROVE Sub!SubInv'
    <2>1. PICK s \in Sub!SubIds : Sub!Unsubscribe(c, s)
        BY <1>2 DEF Sub!handleResourceUnsubscribe
    <2>2. /\ subs[s].client = c
          /\ subs' = [subs EXCEPT ![s] = Sub!NoSub]
          /\ clients' = [clients EXCEPT ![c] = IF clients[c].subs = {s} THEN Sub!NoClient
                             ELSE [clients[c] EXCEPT !.subs = clients[c].subs \ {s}]]
          /\ update' = [update EXCEPT !.held = Sub!StillHeld(subs')]
        BY <2>1 DEF Sub!Unsubscribe
    <2>3. subs' \in [Sub!SubIds -> Sub!Sub]
        BY <2>2, <1>b
    <2>4. [clients[c] EXCEPT !.subs = clients[c].subs \ {s}] \in Sub!Client
        BY <1>e DEF Sub!Client
    <2>5. clients' \in [Clients -> Sub!Client]
        BY <2>2, <2>4, <1>a
    <2>6. /\ clients'[c].subs = clients[c].subs \ {s}
          /\ clients'[c] # Sub!NoClient => clients'[c].subs # {}
          /\ \A d \in Clients \ {c} : clients'[d] = clients[d]
        BY <2>2, <1>a, <1>e
    <2>7. Sub!IndexesAgree'
        BY <2>2, <2>6, <1>b, <1>c
    <2>8. Sub!StillHeld(subs') \subseteq update.held
        BY DEF Sub!StillHeld
    <2>9. /\ update'.held = Sub!StillHeld(subs') /\ update'.todo = update.todo
          /\ update'.told = update.told
        BY <2>2, <1>d
    <2>10. update' \in Sub!Update
        BY <2>2, <2>8, <1>d DEF Sub!Update
    <2>11. QED
        BY <2>3, <2>5, <2>7, <2>8, <2>9, <2>10
<1>3. ASSUME Sub!CleanupExpiredSubscriptions PROVE Sub!SubInv'
    <2> DEFINE expired == {c \in Clients : clients[c].old}
    <2>1. /\ subs' = [s \in Sub!SubIds |-> IF subs[s].client \in expired THEN Sub!NoSub
                                           ELSE subs[s]]
          /\ clients' = [c \in Clients |-> IF c \in expired THEN Sub!NoClient ELSE clients[c]]
          /\ update' = [update EXCEPT !.held = Sub!StillHeld(subs')]
        BY <1>3 DEF Sub!CleanupExpiredSubscriptions
    <2>2. expired \subseteq Clients
        OBVIOUS
    <2> HIDE DEF expired
    <2>3. subs' \in [Sub!SubIds -> Sub!Sub] /\ clients' \in [Clients -> Sub!Client]
        BY <2>1, <1>a, <1>b
    <2>4. Sub!IndexesAgree'
        BY <2>1, <2>2, <1>a, <1>b, <1>c
    <2>5. Sub!StillHeld(subs') \subseteq update.held
        BY DEF Sub!StillHeld
    <2>6. /\ update'.held = Sub!StillHeld(subs') /\ update'.todo = update.todo
          /\ update'.told = update.told
        BY <2>1, <1>d
    <2>7. update' \in Sub!Update
        BY <2>1, <2>5, <1>d DEF Sub!Update
    <2>8. QED
        BY <2>3, <2>4, <2>5, <2>6, <2>7
<1>4. ASSUME NEW uri \in Sub!Uris, NEW type \in Sub!Types, Sub!NotifyResourceUpdate(uri, type)
      PROVE Sub!SubInv'
    <2> DEFINE held == {c \in Clients : \E s \in Sub!SubIds :
                          subs[s].client = c /\ Sub!doesURIMatch(subs[s].uri, uri)
                          /\ subs[s].filters = {}}
    <2>1. update' = [uri |-> uri, type |-> type, todo |-> Sub!Recipients(uri, type),
                     told |-> {}, held |-> held]
        BY <1>4 DEF Sub!NotifyResourceUpdate
    <2>2. Sub!Recipients(uri, type) \subseteq Clients
        BY <1>c DEF Sub!Recipients, Sub!findMatchingSubscriptions
    <2>3. held \subseteq Sub!Recipients(uri, type)
        <3> SUFFICES ASSUME NEW c \in held PROVE c \in Sub!Recipients(uri, type)
            OBVIOUS
        <3>1. PICK s \in Sub!SubIds : /\ subs[s].client = c /\ subs[s].filters = {}
                                      /\ Sub!doesURIMatch(subs[s].uri, uri)
            OBVIOUS
        <3>2. s \in Sub!findMatchingSubscriptions(uri)
            BY <3>1, <1>c DEF Sub!findMatchingSubscriptions
        <3>3. Sub!shouldIncludeUpdate(subs[s], uri, type)
            BY <3>1 DEF Sub!shouldIncludeUpdate
        <3>4. QED
            BY <3>1, <3>2, <3>3 DEF Sub!Recipients
    <2>4. held \subseteq Clients
        OBVIOUS
    <2> HIDE DEF held
    <2>5. update' \in Sub!Update
        BY <2>1, <2>2, <2>4 DEF Sub!Update
    <2>6. update'.held = held /\ update'.todo = Sub!Recipients(uri, type)
        BY <2>1
    <2>7. UNCHANGED <<subs, clients>>
        BY <1>4 DEF Sub!NotifyResourceUpdate
    <2>8. QED
        BY <2>3, <2>5, <2>6, <2>7
<1>5. ASSUME NEW c \in Clients, NEW ok \in BOOLEAN, Sub!sendNotificationToClient(c, ok)
      PROVE Sub!SubInv'
    <2>1. update' = [update EXCEPT !.todo = update.todo \ {c},
                                   !.told = IF ok THEN update.told \cup {c} ELSE update.told,
                                   !.held = IF ok THEN update.held ELSE update.held \ {c}]
          /\ UNCHANGED <<subs, clients>>
        BY <1>5 DEF Sub!sendNotificationToClient
    <2>2. update' \in Sub!Update
        BY <2>1, <1>d DEF Sub!Update
    <2>3. /\ update'.todo = update.todo \ {c}
          /\ update'.told = (IF ok THEN update.told \cup {c} ELSE update.told)
          /\ update'.held = (IF ok THEN update.held ELSE update.held \ {c})
        BY <2>1, <1>d
    <2>4. QED
        BY <2>1, <2>2, <2>3
<1>6. ASSUME NEW c \in Clients, Sub!Age(c) PROVE Sub!SubInv'
    <2>1. clients' \in [Clients -> Sub!Client]
        BY <1>6, <1>e DEF Sub!Age, Sub!Client
    <2>2. \A d \in Clients : clients'[d].subs = clients[d].subs
        BY <1>6, <1>e DEF Sub!Age
    <2>3. \A d \in Clients : clients'[d] # Sub!NoClient => clients[d] # Sub!NoClient
        BY <1>6, <1>e DEF Sub!Age
    <2>4. UNCHANGED <<subs, update>>
        BY <1>6 DEF Sub!Age
    <2>5. QED
        BY <2>1, <2>2, <2>3, <2>4
<1>7. CASE UNCHANGED subVars
    BY <1>7 DEF subVars
<1>8. QED
    BY <1>1, <1>2, <1>3, <1>4, <1>5, <1>6, <1>7 DEF Sub!Next

-----------------------------------------------------------------------------
(* Listeners of the list of tools *)

\* Who is told of a list knows it, and who is not knows none.
LEMMA ChgStep == Chg!ChgInv /\ [Chg!Next]_chgVars => Chg!ChgInv'
<1> SUFFICES ASSUME Chg!ChgInv, [Chg!Next]_chgVars PROVE Chg!ChgInv'
    OBVIOUS
<1> USE DEF Chg!ChgInv, Chg!TypeOK, Chg!ListenersKnowTheTools, Chg!Listening
<1>a. Chg!None \in [subscribed : BOOLEAN, old : BOOLEAN]
    BY DEF Chg!None
<1>b. ASSUME NEW served \in SUBSET Clients, NEW list \in Chg!ToolSets \cup {Chg!NoTools},
             Chg!Tell(served, list), tools' = list
      PROVE Chg!ChgInv'
    BY <1>b DEF Chg!Tell
<1>1. ASSUME NEW c \in Clients, Chg!SubscribeToToolChanges(c) PROVE Chg!ChgInv'
    BY <1>1 DEF Chg!SubscribeToToolChanges
<1>2. ASSUME NEW c \in Clients, Chg!UnsubscribeFromToolChanges(c) PROVE Chg!ChgInv'
    BY <1>2, <1>a DEF Chg!UnsubscribeFromToolChanges
<1>3. ASSUME NEW c \in Clients, Chg!Age(c) PROVE Chg!ChgInv'
    BY <1>3 DEF Chg!Age
<1>4. ASSUME NEW list \in Chg!ToolSets, NEW deaf \in SUBSET Clients, Chg!UpdateTools(list, deaf)
      PROVE Chg!ChgInv'
    <2>1. CASE tools # Chg!NoTools
        <3>1. Chg!Tell(Chg!Listening \ deaf, list) /\ tools' = list
            BY <1>4, <2>1 DEF Chg!UpdateTools
        <3>2. QED
            BY <3>1, <1>b
    <2>2. CASE tools = Chg!NoTools
        BY <1>4, <2>2 DEF Chg!UpdateTools
    <2>3. QED
        BY <2>1, <2>2
<1>5. ASSUME NEW deaf \in SUBSET Clients, Chg!ForceNotifyToolChanges(deaf) PROVE Chg!ChgInv'
    BY <1>5, <1>b DEF Chg!ForceNotifyToolChanges
<1>6. ASSUME Chg!CleanupInactiveSubscribers PROVE Chg!ChgInv'
    BY <1>6, <1>a DEF Chg!CleanupInactiveSubscribers
<1>7. CASE UNCHANGED chgVars
    BY <1>7 DEF chgVars
<1>8. QED
    BY <1>1, <1>2, <1>3, <1>4, <1>5, <1>6, <1>7 DEF Chg!Next

\* At first no listener has been told anything.
LEMMA ChgInit == Chg!Init => Chg!ChgInv
    BY DEF Chg!Init, Chg!ChgInv, Chg!TypeOK, Chg!ListenersKnowTheTools, Chg!Listening, Chg!None

-----------------------------------------------------------------------------
(* Sampling *)

\* At first no sampling request is there.
LEMMA SmpInit == Smp!Init => Smp!SmpInv
<1> SUFFICES ASSUME Smp!Init PROVE Smp!SmpInv
    OBVIOUS
<1>1. Smp!TypeOK
    BY DEF Smp!Init, Smp!TypeOK, Smp!NoRequest, Smp!Idle, Smp!Statuses, Smp!Handlers
<1>2. QED
    BY <1>1 DEF Smp!Init, Smp!SmpInv, Smp!ReviewDecides, Smp!NoRequest, Smp!Idle

\* No step gives a request that waits for its review to a handler, and none
\* puts one that a handler had back under review.
LEMMA SmpStep == Smp!SmpInv /\ [Smp!Next]_smpVars => Smp!SmpInv'
<1> SUFFICES ASSUME Smp!SmpInv, [Smp!Next]_smpVars PROVE Smp!SmpInv'
    OBVIOUS
<1> DEFINE Request == [status : Smp!Statuses, listed : BOOLEAN, old : BOOLEAN,
                       hint : Smp!Handlers \cup {""}]
<1> DEFINE Work == [at : {"idle", "found", "handling"}, request : Requests \cup {"none"}]
<1> USE DEF Smp!SmpInv, Smp!TypeOK, Smp!ReviewDecides
<1>a. /\ Smp!NoRequest \in Request /\ Smp!NoRequest.status = "none"
      /\ ~Smp!NoRequest.listed
    BY DEF Smp!NoRequest, Smp!Statuses, Smp!Handlers
<1>b. Smp!Idle \in Work /\ Smp!Idle.at = "idle"
    BY DEF Smp!Idle
<1>c. /\ \A r \in Requests : requests[r] \in Request
      /\ \A w \in Workers : worker[w] \in Work
    OBVIOUS
<1>1. ASSUME NEW h \in Smp!Handlers, Smp!RegisterHandler(h) PROVE Smp!SmpInv'
    BY <1>1 DEF Smp!RegisterHandler
<1>2. ASSUME NEW r \in Requests, NEW c \in Smp!Controls, NEW hint \in Smp!Handlers,
             Smp!CreateSamplingRequest(r, c, hint)
      PROVE Smp!SmpInv'
    <2>1. PICK st \in {"awaiting_approval", "pending"} :
             requests' = [requests EXCEPT ![r] = [status |-> st, listed |-> TRUE, old |-> FALSE,
                                                  hint |-> hint]]
        BY <1>2 DEF Smp!CreateSamplingRequest
    <2> DEFINE new == [status |-> st, listed |-> TRUE, old |-> FALSE, hint |-> hint]
    <2>2. new \in Request /\ new.status = st
        BY DEF Smp!Statuses
    <2> HIDE DEF new
    <2>3. requests[r] = Smp!NoRequest /\ UNCHANGED <<handlers, worker, handled>>
        BY <1>2 DEF Smp!CreateSamplingRequest
    <2>4. requests' = [requests EXCEPT ![r] = new]
        BY <2>1 DEF new
    <2>5. QED
        BY <2>2, <2>3, <2>4, <1>a
<1>3. ASSUME NEW r \in Requests, NEW st \in Smp!Statuses \ {"none"},
             requests[r] # Smp!NoRequest,
             requests' = [requests EXCEPT ![r].status = st],
             UNCHANGED <<handlers, handled>>,
             worker' = worker \/ \E w \in Workers : worker' = [worker EXCEPT ![w] = Smp!Idle],
             st \in {"awaiting_approval", "rejected"} => handled[r] = 0
      PROVE Smp!SmpInv'
    <2> DEFINE new == [requests[r] EXCEPT !.status = st]
    <2>1. new \in Request /\ new.status = st
        BY <1>c
    <2>2. requests' = [requests EXCEPT ![r] = new]
        BY <1>3
    <2> HIDE DEF new
    <2>3. requests' \in [Requests -> Request]
        BY <2>1, <2>2
    <2>4. new # Smp!NoRequest
        BY <2>1, <1>a
    <2>5. worker' \in [Workers -> Work]
        BY <1>3, <1>b
    <2>6. \A w \in Workers : worker'[w] = worker[w] \/ worker'[w].at = "idle"
        BY <1>3, <1>b
    <2>7. Smp!TypeOK'
        BY <2>3, <2>5, <1>3
    <2>8. \A x \in Requests : /\ requests'[x] = Smp!NoRequest <=> requests[x] = Smp!NoRequest
                             /\ requests'[x].status = IF x = r THEN st ELSE requests[x].status
        BY <2>1, <2>2, <2>4, <1>3
    <2>9. \A w \in Workers : worker'[w].at # "idle" =>
             /\ worker'[w].request \in Requests
             /\ requests'[worker'[w].request] # Smp!NoRequest
             /\ worker'[w].at = "handling" => handled'[worker'[w].request] = 1
        BY <2>6, <2>8, <1>3, ZenonT(40)
    <2>10. Smp!ReviewDecides'
        BY <2>8, <1>3
    <2>11. \A x \in Requests : requests'[x].status = "none" <=> requests'[x] = Smp!NoRequest
        BY <2>8, <1>3
    <2>12. QED
        BY <2>7, <2>8, <2>9, <2>10, <2>11, <1>3, ZenonT(40)
<1>4. ASSUME NEW r \in Requests, Smp!ApproveRequest(r) \/ Smp!RejectRequest(r)
      PROVE Smp!SmpInv'
    <2>1. requests[r] # Smp!NoRequest /\ handled[r] = 0 /\ UNCHANGED <<handlers, worker, handled>>
        BY <1>4, <1>a DEF Smp!ApproveRequest, Smp!RejectRequest
    <2>2. \E st \in {"approved", "rejected"} : requests' = [requests EXCEPT ![r].status = st]
        BY <1>4 DEF Smp!ApproveRequest, Smp!RejectRequest
    <2>3. QED
        BY <2>1, <2>2, <1>3 DEF Smp!Statuses
<1>5. ASSUME NEW w \in Workers, NEW o \in {"completed", "failed"}, Smp!HandlerReturns(w, o)
      PROVE Smp!SmpInv'
    <2>1. /\ worker[w].request \in Requests /\ requests[worker[w].request] # Smp!NoRequest
          /\ worker' = [worker EXCEPT ![w] = Smp!Idle] /\ UNCHANGED <<handlers, handled>>
          /\ requests' = [requests EXCEPT ![worker[w].request].status = o]
        BY <1>5 DEF Smp!HandlerReturns
    <2>2. QED
        BY <2>1, <1>3 DEF Smp!Statuses
<1>6. ASSUME NEW w \in Workers, NEW r \in Requests, Smp!ProcessSamplingRequest(w, r)
      PROVE Smp!SmpInv'
    BY <1>6, <1>a DEF Smp!ProcessSamplingRequest
<1>7. ASSUME NEW w \in Workers, Smp!CheckStatus(w) PROVE Smp!SmpInv'
    <2>1. worker[w].request \in Requests /\ requests[worker[w].request] # Smp!NoRequest
          /\ UNCHANGED <<requests, handlers>>
        BY <1>7 DEF Smp!CheckStatus
    <2>2. CASE worker' = [worker EXCEPT ![w] = Smp!Idle] /\ UNCHANGED handled
        BY <2>1, <2>2, <1>b
    <2>3. CASE /\ requests[worker[w].request].status \notin {"awaiting_approval", "rejected"}
               /\ worker' = [worker EXCEPT ![w].at = "handling"]
               /\ handled' = [handled EXCEPT ![worker[w].request] = 1]
        <3>1. worker' \in [Workers -> Work]
            BY <2>3, <1>c
        <3>2. worker'[w].request = worker[w].request
              /\ \A v \in Workers \ {w} : worker'[v] = worker[v]
            BY <2>3, <1>c
        <3>3. /\ handled' \in [Requests -> {0, 1}]
              /\ handled'[worker[w].request] = 1
              /\ \A r \in Requests : handled[r] = 1 => handled'[r] = 1
              /\ \A r \in Requests \ {worker[w].request} : handled'[r] = handled[r]
            BY <2>1, <2>3
        <3>4. QED
            BY <2>1, <2>3, <3>1, <3>2, <3>3, ZenonT(40)
    <2>4. QED
        BY <1>7, <2>2, <2>3 DEF Smp!CheckStatus
<1>8. ASSUME NEW r \in Requests, Smp!Age(r) PROVE Smp!SmpInv'
    <2>1. requests' \in [Requests -> Request]
        BY <1>8, <1>c, ZenonT(40) DEF Smp!Age
    <2>2. \A x \in Requests : requests'[x].status = requests[x].status
        BY <1>8, <1>c DEF Smp!Age
    <2>3. \A x \in Requests \ {r} : requests'[x] = requests[x]
        BY <1>8 DEF Smp!Age
    <2>4. requests[r] # Smp!NoRequest /\ UNCHANGED <<handlers, worker, handled>>
        BY <1>8 DEF Smp!Age
    <2>5. Smp!TypeOK'
        BY <2>1, <2>4
    <2>6. \A x \in Requests : requests'[x] = Smp!NoRequest <=> requests[x] = Smp!NoRequest
        BY <2>2, <2>3, <2>4, <1>a
    <2>7. QED
        BY <2>2, <2>4, <2>5, <2>6
<1>9. ASSUME Smp!CleanupOldRequests PROVE Smp!SmpInv'
    <2> DEFINE over == {r \in Requests : /\ requests[r].listed /\ requests[r].old
                           /\ requests[r].status \in {"completed", "failed", "rejected"}}
    <2>1. requests' = [r \in Requests |->
                    [requests[r] EXCEPT !.listed = requests[r].listed /\ r \notin over]]
        BY <1>9 DEF Smp!CleanupOldRequests
    <2>2. UNCHANGED <<handlers, worker, handled>>
        BY <1>9 DEF Smp!CleanupOldRequests
    <2> HIDE DEF over
    <2>3. ASSUME NEW r \in Requests
          PROVE  /\ requests'[r] \in Request
                 /\ requests'[r].status = requests[r].status
                 /\ requests[r] = Smp!NoRequest <=> requests'[r] = Smp!NoRequest
        <3> DEFINE b == requests[r].listed /\ r \notin over
        <3>1. b \in BOOLEAN /\ requests'[r] = [requests[r] EXCEPT !.listed = b]
            BY <2>1
        <3>2. requests[r] \in Request
            BY <1>c
        <3>3. requests'[r] \in Request /\ requests'[r].status = requests[r].status
            BY <3>1, <3>2
        <3>4. ASSUME requests[r] = Smp!NoRequest PROVE requests'[r] = Smp!NoRequest
            <4>1. ~requests[r].listed
                BY <3>4, <1>a
            <4>2. b = FALSE
                BY <4>1
            <4>3. requests'[r] = [Smp!NoRequest EXCEPT !.listed = FALSE]
                BY <3>1, <3>4, <4>2
            <4>4. QED
                BY <4>3 DEF Smp!NoRequest
        <3>5. ASSUME requests'[r] = Smp!NoRequest PROVE requests[r] = Smp!NoRequest
            BY <3>3, <3>5, <1>a
        <3>6. QED
            BY <3>3, <3>4, <3>5
    <2>4. requests' \in [Requests -> Request]
        BY <2>1, <2>3
    <2>5. Smp!TypeOK'
        BY <2>2, <2>4
    <2>6. QED
        BY <2>2, <2>3, <2>5, ZenonT(40)
<1>10. CASE UNCHANGED smpVars
    BY <1>10 DEF smpVars
<1>11. QED
    BY <1>1, <1>2, <1>4, <1>5, <1>6, <1>7, <1>8, <1>9, <1>10 DEF Smp!Next

-----------------------------------------------------------------------------
(* Roots *)

\* At first there is no root.
LEMMA RootsInit == Rts!Init => Rts!RootsInv
    BY DEF Rts!Init, Rts!RootsInv, Rts!TypeOK, Rts!FullPermissions

\* Roots that are added with permissions that do not let anyone write, or
\* taken away, open no path: a path is writable through a root that was so
\* before.
LEMMA NothingOpened ==
    ASSUME NEW rs, NEW new,
           \A r \in Rts!RootUris : "write" \in new[r] => new[r] = rs[r]
    PROVE  Rts!Writable(new) \subseteq Rts!Writable(rs)
<1> SUFFICES ASSUME NEW p \in Rts!Writable(new) PROVE p \in Rts!Writable(rs)
    OBVIOUS
<1>1. p \in Rts!Paths /\ TRUE \in Rts!CheckRootAccess(new, p, "write")
    BY DEF Rts!Writable
<1>2. PICK r \in Rts!RootUris : /\ new[r] # {} /\ Rts!isPathInRoot(p, r)
                                /\ "write" \in new[r]
    BY <1>1 DEF Rts!CheckRootAccess, Rts!hasPermission
<1>3. rs[r] # {} /\ "write" \in rs[r]
    BY <1>2
<1>4. r \in {x \in Rts!RootUris : rs[x] # {} /\ Rts!isPathInRoot(p, x)}
    BY <1>2, <1>3
<1>5. TRUE = Rts!hasPermission(rs[r], "write")
    BY <1>3 DEF Rts!hasPermission
<1>6. TRUE \in Rts!CheckRootAccess(rs, p, "write")
    BY <1>4, <1>5 DEF Rts!CheckRootAccess
<1>7. QED
    BY <1>1, <1>6 DEF Rts!Writable

\* Adding roots gives each of them the permissions asked for and leaves the others.
LEMMA WithRootsKeeps ==
    ASSUME Rts!TypeOK, NEW added, NEW ps \in SUBSET Rts!FullPermissions, ps # {}
    PROVE  /\ Rts!WithRoots(added, ps) \in [Rts!RootUris -> SUBSET Rts!FullPermissions]
           /\ \A r \in Rts!RootUris : /\ Rts!WithRoots(added, ps)[r] \in {ps, roots[r]}
                                      /\ roots[r] # {} => Rts!WithRoots(added, ps)[r] # {}
    BY DEF Rts!TypeOK, Rts!WithRoots

\* A step of the root manager keeps its invariant, and unless it adds a root
\* for writing it opens nothing.
LEMMA RootsStep ==
    ASSUME Rts!RootsInv, [Rts!Next]_rtsVars
    PROVE  Rts!RootsInv' /\ Rts!OpensNothing
<1> USE DEF Rts!RootsInv, Rts!TypeOK
<1>a. /\ Rts!DefaultPermissions \in SUBSET Rts!FullPermissions
      /\ Rts!WorkingPermissions \in SUBSET Rts!FullPermissions
      /\ Rts!DefaultPermissions # {} /\ Rts!WorkingPermissions # {} /\ Rts!FullPermissions # {}
      /\ "write" \notin Rts!DefaultPermissions /\ "write" \notin Rts!WorkingPermissions
    BY DEF Rts!DefaultPermissions, Rts!WorkingPermissions, Rts!FullPermissions
<1>b. ASSUME Rts!RootsInv',
             \/ \A r \in Rts!RootUris : "write" \in roots'[r] => roots'[r] = roots[r]
             \/ \E r \in Rts!RootUris : Rts!AddRoot(r, Rts!FullPermissions)
      PROVE  Rts!OpensNothing
    BY <1>b, NothingOpened DEF Rts!OpensNothing
<1>c. ASSUME NEW added, NEW ps \in {Rts!DefaultPermissions, Rts!WorkingPermissions},
             roots' = Rts!WithRoots(added, ps), UNCHANGED <<watchers, called>>,
             initialized' \in BOOLEAN
      PROVE  Rts!RootsInv' /\ Rts!OpensNothing
    <2>1. ps \in SUBSET Rts!FullPermissions /\ ps # {} /\ "write" \notin ps
        BY <1>a
    <2>2. Rts!RootsInv'
        BY <1>c, <2>1, WithRootsKeeps
    <2>3. \A r \in Rts!RootUris : "write" \in roots'[r] => roots'[r] = roots[r]
        BY <1>c, <2>1, WithRootsKeeps
    <2>4. QED
        BY <2>2, <2>3, <1>b
<1>1. ASSUME NEW added \in SUBSET Rts!RootUris, Rts!handleInitialize(added)
      PROVE  Rts!RootsInv' /\ Rts!OpensNothing
    <2>1. \/ roots' = Rts!WithRoots({Rts!workingDir}, Rts!WorkingPermissions)
          \/ roots' = Rts!WithRoots(added, Rts!DefaultPermissions)
        BY <1>1 DEF Rts!handleInitialize, Rts!ClientPermissions
    <2>2. UNCHANGED <<watchers, called>> /\ initialized' \in BOOLEAN
        BY <1>1 DEF Rts!handleInitialize
    <2>3. QED
        BY <2>1, <2>2, <1>c
<1>2. ASSUME NEW r \in Rts!RootUris, Rts!AddRoot(r, Rts!FullPermissions)
      PROVE  Rts!RootsInv' /\ Rts!OpensNothing
    <2>1. /\ roots' = Rts!WithRoots({r}, Rts!FullPermissions)
          /\ UNCHANGED <<initialized, watchers, called>>
        BY <1>2 DEF Rts!AddRoot
    <2>2. Rts!RootsInv'
        BY <2>1, <1>a, WithRootsKeeps
    <2>3. QED
        BY <1>2, <2>2, <1>b
<1>3. ASSUME NEW r \in Rts!RootUris, Rts!AddRoot(r, Rts!DefaultPermissions)
      PROVE  Rts!RootsInv' /\ Rts!OpensNothing
    BY <1>3, <1>c DEF Rts!AddRoot
<1>4. ASSUME NEW r \in Rts!RootUris, Rts!RemoveRoot(r)
      PROVE  Rts!RootsInv' /\ Rts!OpensNothing
    <2>1. Rts!RootsInv'
        BY <1>4 DEF Rts!RemoveRoot
    <2>2. \A x \in Rts!RootUris : "write" \in roots'[x] => roots'[x] = roots[x]
        BY <1>4 DEF Rts!RemoveRoot
    <2>3. QED
        BY <2>1, <2>2, <1>b
<1>5. ASSUME UNCHANGED roots, watchers' \subseteq watchers \cup {r \in Rts!RootUris : roots[r] # {}},
             called' \subseteq called \cup watchers, initialized' = initialized
      PROVE  Rts!RootsInv' /\ Rts!OpensNothing
    <2>1. Rts!RootsInv'
        BY <1>5
    <2>2. QED
        BY <1>5, <2>1, <1>b
<1>6. ASSUME NEW r \in Rts!RootUris,
             Rts!WatchRoot(r) \/ Rts!UnwatchRoot(r) \/ Rts!CallbackRuns(r)
      PROVE  Rts!RootsInv' /\ Rts!OpensNothing
    BY <1>5, <1>6 DEF Rts!WatchRoot, Rts!UnwatchRoot, Rts!CallbackRuns
<1>7. ASSUME NEW p \in Rts!Paths, Rts!NotifyRootChange(p)
      PROVE  Rts!RootsInv' /\ Rts!OpensNothing
    BY <1>5, <1>7 DEF Rts!NotifyRootChange
<1>8. CASE UNCHANGED rtsVars
    BY <1>5, <1>8 DEF rtsVars
<1>9. QED
    BY <1>1, <1>2, <1>3, <1>4, <1>6, <1>7, <1>8 DEF Rts!Next

-----------------------------------------------------------------------------
(* The relay *)

\* At first no call is open and nobody waits.
LEMMA RelayInit == Rel!Init => Rel!RelayInv
<1> SUFFICES ASSUME Rel!Init PROVE Rel!RelayInv
    OBVIOUS
<1>1. Rel!NoCall \in Rel!Call /\ Rel!NoCall.pending = {}
    BY DEF Rel!NoCall, Rel!Call, Rel!Modes
<1>2. Rel!NoWaiter \in Rel!Waiter /\ Rel!NoWaiter.answers = 0
    BY DEF Rel!NoWaiter, Rel!Waiter, Rel!Places, Rel!Answerers
<1>3. QED
    BY <1>1, <1>2 DEF Rel!Init, Rel!RelayInv, Rel!TypeOK, Rel!AnsweredOnce

\* Changes of a goroutine's record.
LEMMA WaiterAt ==
    ASSUME NEW w \in Rel!Waiter, NEW at \in Rel!Places
    PROVE  /\ [w EXCEPT !.at = at] \in Rel!Waiter
           /\ [w EXCEPT !.at = at].at = at
           /\ [w EXCEPT !.at = at].answers = w.answers
    BY DEF Rel!Waiter

\* A waiter that is told by whom it was answered, with its count of answers kept.
LEMMA WaiterAtBy ==
    ASSUME NEW w \in Rel!Waiter, NEW at \in Rel!Places, NEW who \in Rel!Answerers
    PROVE  /\ [w EXCEPT !.at = at, !.by = who] \in Rel!Waiter
           /\ [w EXCEPT !.at = at, !.by = who].answers = w.answers
    BY DEF Rel!Waiter

\* A waiter that moves with a new count of answers.
LEMMA WaiterIs ==
    ASSUME NEW w \in Rel!Waiter, NEW at \in Rel!Places, NEW n \in {0, 1}, NEW who \in Rel!Answerers
    PROVE  /\ [w EXCEPT !.at = at, !.answers = n, !.by = who] \in Rel!Waiter
           /\ [w EXCEPT !.at = at, !.answers = n, !.by = who].at = at
    BY DEF Rel!Waiter

\* The places and the answerers the steps of the relay name.
LEMMA WaiterSets ==
    /\ {"unsent", "waiting", "replied", "closed", "ended"} \subseteq Rel!Places
    /\ {"client", "other client"} \subseteq Rel!Answerers
    BY DEF Rel!Places, Rel!Answerers

\* What has to be shown of a step that changes one call and one goroutine.
LEMMA RelayOne ==
    ASSUME Rel!RelayInv, NEW k \in Calls, NEW i \in Ids, NEW c \in Rel!Call, NEW w \in Rel!Waiter,
           channels' \in [Sessions -> Calls \cup {"none"}],
           call' = [call EXCEPT ![k] = c],
           waiter' = [waiter EXCEPT ![k][i] = w],
           c.pending \subseteq call[k].pending \cup {i},
           i \in c.pending => w.at = "waiting",
           w.answers = 1 => w.at = "ended"
    PROVE  Rel!RelayInv'
<1> USE DEF Rel!RelayInv, Rel!TypeOK
<1>1. waiter' \in [Calls -> [Ids -> Rel!Waiter]] /\ call' \in [Calls -> Rel!Call]
    OBVIOUS
<1>2. /\ call'[k] = c /\ \A x \in Calls \ {k} : call'[x] = call[x]
      /\ waiter'[k][i] = w /\ \A j \in Ids \ {i} : waiter'[k][j] = waiter[k][j]
      /\ \A x \in Calls \ {k} : waiter'[x] = waiter[x]
    OBVIOUS
<1>3. \A x \in Calls, j \in Ids : waiter'[x][j].answers \in {0, 1}
    BY <1>1 DEF Rel!Waiter
<1>4. Rel!AnsweredOnce'
    BY <1>2, <1>3 DEF Rel!AnsweredOnce
<1>5. QED
    BY <1>1, <1>4

\* The end of a relay closes the waits of its pending requests.
LEMMA RelayEnds ==
    ASSUME Rel!RelayInv, NEW k \in Calls, NEW c \in Rel!Call, Rel!EndRelay(k, c)
    PROVE  Rel!RelayInv'
<1> USE DEF Rel!RelayInv, Rel!TypeOK
<1> DEFINE ended == [c EXCEPT !.at = "over", !.pending = {}]
           ws == [i \in Ids |-> IF i \in call[k].pending /\ waiter[k][i].at = "waiting"
                                THEN [waiter[k][i] EXCEPT !.at = "closed"] ELSE waiter[k][i]]
<1>1. ended \in Rel!Call /\ ended.pending = {}
    BY DEF Rel!Call
<1>2. \A i \in Ids : waiter[k][i] \in Rel!Waiter
    OBVIOUS
<1>3. \A i \in Ids : /\ ws[i] \in Rel!Waiter
                     /\ ws[i].answers = waiter[k][i].answers
                     /\ waiter[k][i].answers = 1 => ws[i].at = waiter[k][i].at
    BY <1>2, WaiterAt, WaiterSets DEF Rel!AnsweredOnce
<1>4. ws \in [Ids -> Rel!Waiter]
    BY <1>3
<1>5. /\ call' = [call EXCEPT ![k] = ended] /\ waiter' = [waiter EXCEPT ![k] = ws]
      /\ channels' = [channels EXCEPT ![call[k].session] = "none"]
    BY DEF Rel!EndRelay
<1> HIDE DEF ended, ws
<1>6. Rel!TypeOK'
    BY <1>1, <1>4, <1>5
<1>7. Rel!AnsweredOnce'
    BY <1>1, <1>3, <1>5 DEF Rel!AnsweredOnce
<1>8. QED
    BY <1>6, <1>7

\* Every step of the relay keeps the invariant.
LEMMA RelayStep == Rel!RelayInv /\ [Rel!Next]_relVars => Rel!RelayInv'
<1> SUFFICES ASSUME Rel!RelayInv, [Rel!Next]_relVars PROVE Rel!RelayInv'
    OBVIOUS
<1> USE DEF Rel!RelayInv, Rel!TypeOK
<1>a. \A k \in Calls : call[k] \in Rel!Call /\ \A i \in Ids : waiter[k][i] \in Rel!Waiter
    OBVIOUS
<1>b. \A k \in Calls : call = [call EXCEPT ![k] = call[k]]
    OBVIOUS
<1>c. Rel!NoCall \in Rel!Call /\ Rel!NoCall.pending = {}
    BY DEF Rel!NoCall, Rel!Call, Rel!Modes
<1>1. ASSUME NEW k \in Calls, NEW s \in Sessions, NEW mode \in Rel!Modes, NEW id \in Ids,
             Rel!OpenRelay(k, s, mode, id)
      PROVE  Rel!RelayInv'
    <2> DEFINE new == [Rel!NoCall EXCEPT !.at = "open", !.session = s, !.mode = mode, !.id = id]
    <2>1. new \in Rel!Call /\ new.pending = {}
        BY <1>c DEF Rel!Call
    <2>2. call' = [call EXCEPT ![k] = new] /\ UNCHANGED waiter
          /\ channels' = [channels EXCEPT ![s] = k]
        BY <1>1 DEF Rel!OpenRelay
    <2> HIDE DEF new
    <2>3. Rel!TypeOK'
        BY <2>1, <2>2
    <2>4. QED
        BY <2>1, <2>2, <2>3 DEF Rel!AnsweredOnce
<1>2. ASSUME NEW k \in Calls, NEW i \in Ids, NEW ok \in BOOLEAN, Rel!UpstreamRequest(k, i, ok)
      PROVE  Rel!RelayInv'
    <2>0. /\ waiter[k][i].at = "none" /\ waiter[k][i].answers = 0
          /\ i \notin call[k].pending /\ UNCHANGED channels
        BY <1>2 DEF Rel!UpstreamRequest, Rel!NoWaiter, Rel!AnsweredOnce
    <2>1. CASE /\ waiter' = [waiter EXCEPT ![k][i] = [at |-> "ended", answers |-> 1, by |-> "proxy"]]
               /\ UNCHANGED call
        <3>1. [at |-> "ended", answers |-> 1, by |-> "proxy"] \in Rel!Waiter
            BY DEF Rel!Waiter, Rel!Places, Rel!Answerers
        <3>2. QED
            BY <2>0, <2>1, <3>1, <1>a, <1>b, RelayOne
    <2>2. CASE /\ waiter' = [waiter EXCEPT ![k][i].at = "waiting"]
               /\ call' = [call EXCEPT ![k].pending = @ \cup {i}]
        <3> DEFINE w == [waiter[k][i] EXCEPT !.at = "waiting"]
                   c == [call[k] EXCEPT !.pending = call[k].pending \cup {i}]
        <3>1. w \in Rel!Waiter /\ w.at = "waiting" /\ w.answers = 0
            BY <1>a, <2>0, WaiterAt, WaiterSets
        <3>2. c \in Rel!Call /\ c.pending = call[k].pending \cup {i}
            BY <1>a DEF Rel!Call
        <3>3. waiter' = [waiter EXCEPT ![k][i] = w] /\ call' = [call EXCEPT ![k] = c]
            BY <2>2
        <3> HIDE DEF w, c
        <3>4. /\ c.pending \subseteq call[k].pending \cup {i}
              /\ i \in c.pending => w.at = "waiting"
              /\ w.answers = 1 => w.at = "ended"
              /\ channels' \in [Sessions -> Calls \cup {"none"}]
            BY <2>0, <3>1, <3>2
        <3>5. QED
            BY <3>1, <3>2, <3>3, <3>4, RelayOne
    <2>3. CASE waiter' = [waiter EXCEPT ![k][i].at = "unsent"] /\ UNCHANGED call
        <3> DEFINE w == [waiter[k][i] EXCEPT !.at = "unsent"]
        <3>1. w \in Rel!Waiter /\ w.answers = 0
            BY <1>a, <2>0, WaiterAt, WaiterSets
        <3>2. waiter' = [waiter EXCEPT ![k][i] = w]
            BY <2>3
        <3> HIDE DEF w
        <3>3. /\ call[k].pending \subseteq call[k].pending \cup {i}
              /\ i \in call[k].pending => w.at = "waiting"
              /\ w.answers = 1 => w.at = "ended"
              /\ channels' \in [Sessions -> Calls \cup {"none"}]
              /\ call' = [call EXCEPT ![k] = call[k]]
            BY <2>0, <2>3, <3>1, <1>b
        <3>4. QED
            BY <3>1, <3>2, <3>3, <1>a, RelayOne
    <2>4. QED
        BY <1>2, <2>1, <2>2, <2>3 DEF Rel!UpstreamRequest
<1>3. ASSUME NEW k \in Calls, Rel!FinalResponse(k) PROVE Rel!RelayInv'
    <2> DEFINE sent == [call[k] EXCEPT !.sentFinal = TRUE,
                                       !.final = Rel!idsEqual(call[k].id, call[k].id)]
    <2>0. Rel!idsEqual(call[k].id, call[k].id) \in BOOLEAN
        BY DEF Rel!idsEqual
    <2>1. sent \in Rel!Call /\ sent.pending = call[k].pending
        BY <1>a, <2>0 DEF Rel!Call
    <2>2. \/ Rel!EndRelay(k, sent)
          \/ call' = [call EXCEPT ![k] = sent] /\ UNCHANGED <<channels, waiter>>
        BY <1>3 DEF Rel!FinalResponse
    <2> HIDE DEF sent
    <2>3. CASE Rel!EndRelay(k, sent)
        BY <2>1, <2>3, RelayEnds
    <2>4. CASE call' = [call EXCEPT ![k] = sent] /\ UNCHANGED <<channels, waiter>>
        BY <2>1, <2>4 DEF Rel!AnsweredOnce
    <2>5. QED
        BY <2>2, <2>3, <2>4
<1>4. ASSUME NEW k \in Calls, Rel!UpstreamEnds(k) PROVE Rel!RelayInv'
    BY <1>4, <1>a, RelayEnds DEF Rel!UpstreamEnds
<1>5. ASSUME NEW k \in Calls, Rel!ContextDone(k) PROVE Rel!RelayInv'
    <2> DEFINE gone == [call[k] EXCEPT !.gone = TRUE]
    <2>1. gone \in Rel!Call /\ gone.pending = call[k].pending
        BY <1>a DEF Rel!Call
    <2>2. \/ Rel!EndRelay(k, gone)
          \/ call' = [call EXCEPT ![k] = gone] /\ UNCHANGED <<channels, waiter>>
        BY <1>5 DEF Rel!ContextDone
    <2> HIDE DEF gone
    <2>3. CASE Rel!EndRelay(k, gone)
        BY <2>1, <2>3, RelayEnds
    <2>4. CASE call' = [call EXCEPT ![k] = gone] /\ UNCHANGED <<channels, waiter>>
        BY <2>1, <2>4 DEF Rel!AnsweredOnce
    <2>5. QED
        BY <2>2, <2>3, <2>4
<1>6. ASSUME NEW k \in Calls, NEW i \in Ids, NEW who \in {"client", "other client"},
             i \in call[k].pending, Rel!resolvePending(k, i, who)
      PROVE  Rel!RelayInv'
    <2> DEFINE w == [waiter[k][i] EXCEPT !.at = "replied", !.by = who]
               c == [call[k] EXCEPT !.pending = call[k].pending \ {i}]
    <2>0. waiter[k][i].at = "waiting" /\ waiter[k][i].answers # 1
        BY <1>6, <1>a DEF Rel!AnsweredOnce
    <2>1. w \in Rel!Waiter /\ w.answers = waiter[k][i].answers
        BY <1>a, WaiterAtBy, WaiterSets
    <2>2. c \in Rel!Call /\ c.pending = call[k].pending \ {i}
        BY <1>a DEF Rel!Call
    <2>3. waiter' = [waiter EXCEPT ![k][i] = w]
        BY <1>6, <2>0 DEF Rel!resolvePending
    <2>4. call' = [call EXCEPT ![k] = c] /\ UNCHANGED channels
        BY <1>6 DEF Rel!resolvePending
    <2> HIDE DEF w, c
    <2>5. c.pending \subseteq call[k].pending \cup {i} /\ i \notin c.pending
        BY <2>2
    <2>6. channels' \in [Sessions -> Calls \cup {"none"}]
        BY <2>4
    <2>7. QED
        BY <2>0, <2>1, <2>2, <2>3, <2>4, <2>5, <2>6, RelayOne
<1>7. ASSUME NEW k \in Calls, NEW i \in Ids, NEW s \in Sessions, Rel!routeClientReply(k, i, s)
      PROVE  Rel!RelayInv'
    <2>1. \E x \in Calls : /\ i \in call[x].pending
                           /\ Rel!resolvePending(x, i, IF x = k THEN "client" ELSE "other client")
        BY <1>7 DEF Rel!routeClientReply, Rel!Resolves
    <2>2. QED
        BY <2>1, <1>6
<1>8. ASSUME NEW k \in Calls, NEW i \in Ids, NEW w \in Rel!Waiter, w.at = "ended",
             waiter' = [waiter EXCEPT ![k][i] = w],
             NEW p \in {call[k].pending, call[k].pending \ {i}},
             call' = [call EXCEPT ![k] = [call[k] EXCEPT !.pending = p]],
             i \notin p,
             UNCHANGED channels
      PROVE  Rel!RelayInv'
    <2>1. /\ [call[k] EXCEPT !.pending = p] \in Rel!Call
          /\ [call[k] EXCEPT !.pending = p].pending = p
        BY <1>a DEF Rel!Call
    <2>2. QED
        BY <1>8, <2>1, RelayOne
<1>9. ASSUME NEW k \in Calls, NEW i \in Ids, Rel!WaitEnds(k, i) PROVE Rel!RelayInv'
    <2>0. /\ waiter[k][i].at \in {"replied", "closed"} /\ waiter[k][i].answers = 0
          /\ i \notin call[k].pending
        BY <1>9, <1>a DEF Rel!WaitEnds, Rel!AnsweredOnce, Rel!Waiter
    <2>1. call = [call EXCEPT ![k] = [call[k] EXCEPT !.pending = call[k].pending]]
        BY <1>a, <1>b DEF Rel!Call
    <2>2. UNCHANGED <<channels, call>>
        BY <1>9 DEF Rel!WaitEnds, Rel!Answered
    <2>3. CASE call[k].gone
        <3> DEFINE w == [waiter[k][i] EXCEPT !.at = "ended"]
        <3>1. w \in Rel!Waiter /\ w.at = "ended"
            BY <1>a, WaiterAt, WaiterSets
        <3>2. waiter' = [waiter EXCEPT ![k][i] = w]
            BY <1>9, <2>3 DEF Rel!WaitEnds
        <3> HIDE DEF w
        <3>3. QED
            BY <2>0, <2>1, <2>2, <3>1, <3>2, <1>8
    <2>4. CASE ~call[k].gone
        <3> DEFINE n == waiter[k][i].answers + 1
                   who == IF waiter[k][i].by = "none" THEN "proxy" ELSE waiter[k][i].by
                   w == [waiter[k][i] EXCEPT !.at = "ended", !.answers = n, !.by = who]
        <3>0. waiter' = [waiter EXCEPT ![k][i].at = "ended", ![k][i].answers = n, ![k][i].by = who]
            BY <1>9, <2>4 DEF Rel!WaitEnds, Rel!Answered
        <3>1. n \in {0, 1}
            BY <2>0
        <3>2. who \in Rel!Answerers
            BY <1>a DEF Rel!Waiter, Rel!Answerers
        <3> HIDE DEF n, who
        <3>3. w \in Rel!Waiter /\ w.at = "ended"
            <4>1. waiter[k][i] \in Rel!Waiter /\ "ended" \in Rel!Places
                BY <1>a, WaiterSets
            <4>2. QED
                BY <3>1, <3>2, <4>1 DEF Rel!Waiter
        <3>4. waiter' = [waiter EXCEPT ![k][i] = w]
            <4>1. DOMAIN waiter[k][i] = {"at", "answers", "by"}
                BY <1>a DEF Rel!Waiter
            <4>2. QED
                BY <3>0, <4>1
        <3> HIDE DEF w
        <3>5. QED
            BY <2>0, <2>1, <2>2, <3>3, <3>4, <1>8
    <2>5. QED
        BY <2>3, <2>4
<1>10. ASSUME NEW k \in Calls, NEW i \in Ids, Rel!WaitTimesOut(k, i) PROVE Rel!RelayInv'
    <2>1. waiter[k][i].answers = 0
        BY <1>10, <1>a DEF Rel!WaitTimesOut, Rel!AnsweredOnce, Rel!Waiter
    <2> DEFINE w == [at |-> "ended", answers |-> 1, by |-> "proxy"]
    <2>2. w \in Rel!Waiter /\ w.at = "ended"
        BY DEF Rel!Waiter, Rel!Places, Rel!Answerers
    <2>3. waiter' = [waiter EXCEPT ![k][i] = w]
        BY <1>10, <2>1 DEF Rel!WaitTimesOut
    <2>4. call' = [call EXCEPT ![k] = [call[k] EXCEPT !.pending = call[k].pending \ {i}]]
          /\ UNCHANGED channels
        BY <1>10 DEF Rel!WaitTimesOut
    <2>5. i \notin call[k].pending \ {i}
        OBVIOUS
    <2> HIDE DEF w
    <2>6. QED
        BY <2>2, <2>3, <2>4, <2>5, <1>8
<1>11. ASSUME NEW k \in Calls, NEW i \in Ids, Rel!WaitCancelled(k, i) PROVE Rel!RelayInv'
    <2> DEFINE w == [waiter[k][i] EXCEPT !.at = "ended"]
    <2>1. w \in Rel!Waiter /\ w.at = "ended"
        BY <1>a, WaiterAt, WaiterSets
    <2>2. waiter' = [waiter EXCEPT ![k][i] = w]
        BY <1>11 DEF Rel!WaitCancelled
    <2>3. call' = [call EXCEPT ![k] = [call[k] EXCEPT !.pending = call[k].pending \ {i}]]
          /\ UNCHANGED channels
        BY <1>11 DEF Rel!WaitCancelled
    <2>4. i \notin call[k].pending \ {i}
        OBVIOUS
    <2> HIDE DEF w
    <2>5. QED
        BY <2>1, <2>2, <2>3, <2>4, <1>8
<1>12. CASE UNCHANGED relVars
    BY <1>12 DEF relVars, Rel!AnsweredOnce
<1>13. QED
    BY <1>1, <1>2, <1>3, <1>4, <1>5, <1>7, <1>9, <1>10, <1>11, <1>12 DEF Rel!Next, Rel!Wait

-----------------------------------------------------------------------------
(* The protocol bridge *)

\* What stands at the end of a session that got one request more.
LEMMA OneMore ==
    ASSUME NEW S, NEW q \in Seq(S), NEW x \in S
    PROVE  /\ Append(q, x) \in Seq(S) /\ Len(Append(q, x)) = Len(q) + 1
           /\ DOMAIN Append(q, x) = 1..(Len(q) + 1)
           /\ Append(q, x)[Len(q) + 1] = x
           /\ \A i \in 1..Len(q) : Append(q, x)[i] = q[i]
    OBVIOUS

\* An empty session has no entries.
LEMMA NothingSaid == DOMAIN <<>> = {}
    OBVIOUS

\* At first nothing was said to the server.
LEMMA BridgeInit == Brg!Init => Brg!BridgeInv
    BY DEF Brg!Init, Brg!BridgeInv, Brg!Idle, Brg!Protocols, Brg!ListFollowsInitialize

\* Every step of the bridge keeps the invariant: a session is as long as the
\* sequence of requests has come, and a refused one goes no further.
LEMMA BridgeStep == Brg!BridgeInv /\ [Brg!Next]_brgVars => Brg!BridgeInv'
<1> SUFFICES ASSUME Brg!BridgeInv, [Brg!Next]_brgVars PROVE Brg!BridgeInv'
    OBVIOUS
<1> DEFINE Ats == {"idle", "endpoint", "initialize", "initialized", "tools/list",
                   "request", "waiting", "hanging", "over"}
           Results == {"none", "answer", "error"}
           SeqType == [kind : {"none", "discover", "call"}, protocol : Brg!Protocols,
                       at : Ats, result : Results]
           Entry == {"initialize", "initialized", "tools/list", "request"} \X Brg!Answers
<1>a. /\ seq \in SeqType /\ session \in Seq(Entry)
      /\ Brg!ListFollowsInitialize
    BY DEF Brg!BridgeInv
<1>b. ASSUME NEW at \in {"initialize", "waiting", "hanging", "over", "request"},
             NEW result \in Results,
             seq' = [seq EXCEPT !.at = at, !.result = result], UNCHANGED session,
             at \in {"initialize", "request"} => session = <<>>
      PROVE Brg!BridgeInv'
    BY <1>a, <1>b DEF Brg!BridgeInv, Brg!ListFollowsInitialize
<1>1. ASSUME NEW p \in Brg!Protocols, Brg!makeToolsListRequest(p) \/ Brg!sendToolCall(p)
      PROVE Brg!BridgeInv'
    <2>1. session = <<>>
        BY <1>1 DEF Brg!makeToolsListRequest, Brg!sendToolCall, Brg!BridgeInv, Brg!Idle
    <2>2. seq' \in SeqType /\ seq'.at \in {"endpoint", "initialize", "request"}
        BY <1>1 DEF Brg!makeToolsListRequest, Brg!sendToolCall
    <2>3. session' = <<>>
        BY <1>1, <2>1 DEF Brg!makeToolsListRequest, Brg!sendToolCall
    <2>4. QED
        BY <2>2, <2>3 DEF Brg!BridgeInv, Brg!ListFollowsInitialize
<1>2. ASSUME NEW a \in Brg!Answers \ {"rpc error"}, Brg!establishSSESession(a) PROVE Brg!BridgeInv'
    <2>1. session = <<>> /\ session' = <<>>
        BY <1>2 DEF Brg!establishSSESession, Brg!BridgeInv
    <2>2. seq' \in SeqType /\ seq'.at \in {"initialize", "request", "waiting", "hanging", "over"}
        BY <1>2, <1>a DEF Brg!establishSSESession, Brg!Go, Brg!End, Brg!Answers
    <2>3. UNCHANGED session
        BY <2>1
    <2>4. Brg!ListFollowsInitialize'
        BY <2>1, NothingSaid DEF Brg!ListFollowsInitialize
    <2>5. QED
        BY <2>1, <2>2, <2>3, <2>4 DEF Brg!BridgeInv
\* A request of the session: what the server got, and where the sequence goes.
<1>3. ASSUME NEW m \in {"initialize", "initialized", "tools/list", "request"}, NEW a \in Brg!Answers,
             seq.at = m, session' = Append(session, <<m, a>>),
             seq' \in SeqType, seq'.protocol = seq.protocol,
             seq'.at \in {"initialized", "tools/list", "waiting", "over"},
             seq'.at = "initialized" => m = "initialize" /\ a = "ok",
             seq'.at = "tools/list" =>
                 m = "initialized" /\ (seq.protocol # "sse" => a = "ok")
      PROVE  Brg!BridgeInv'
    <2>1. <<m, a>> \in Entry /\ <<m, a>>[1] = m /\ <<m, a>>[2] = a
        OBVIOUS
    <2>2. /\ session' \in Seq(Entry) /\ Len(session') = Len(session) + 1
          /\ DOMAIN session' = 1..(Len(session) + 1)
          /\ session'[Len(session) + 1] = <<m, a>>
          /\ \A i \in 1..Len(session) : session'[i] = session[i]
        BY <1>3, <1>a, <2>1, OneMore
    <2>3. CASE m \in {"initialize", "request"}
        <3>1. Len(session) = 0
            BY <1>3, <2>3 DEF Brg!BridgeInv
        <3>2. session'[1] = <<m, a>> /\ Len(session') = 1 /\ DOMAIN session' = 1..1
            BY <2>2, <3>1
        <3>3. Brg!ListFollowsInitialize'
            BY <3>2, <2>1, <2>3 DEF Brg!ListFollowsInitialize
        <3>4. QED
            BY <1>3, <2>2, <2>3, <3>2, <3>3 DEF Brg!BridgeInv
    <2>4. CASE m = "initialized"
        <3>1. Len(session) = 1 /\ session[1] = <<"initialize", "ok">>
            BY <1>3, <2>4 DEF Brg!BridgeInv
        <3>2. /\ session'[1] = <<"initialize", "ok">> /\ session'[2] = <<m, a>>
              /\ Len(session') = 2 /\ DOMAIN session' = 1..2
            BY <2>2, <3>1
        <3>3. Brg!ListFollowsInitialize'
            BY <3>2, <2>1, <2>4 DEF Brg!ListFollowsInitialize
        <3>4. QED
            BY <1>3, <2>1, <2>2, <2>4, <3>2, <3>3 DEF Brg!BridgeInv
    <2>5. CASE m = "tools/list"
        <3>1. /\ Len(session) = 2
              /\ session[1] = <<"initialize", "ok">> /\ session[2][1] = "initialized"
              /\ seq.protocol # "sse" => session[2][2] = "ok"
            BY <1>3, <2>5 DEF Brg!BridgeInv
        <3>2. /\ session'[1] = <<"initialize", "ok">> /\ session'[2] = session[2]
              /\ session'[3] = <<m, a>> /\ Len(session') = 3 /\ DOMAIN session' = 1..3
            BY <2>2, <3>1
        <3>3. Brg!ListFollowsInitialize'
            BY <1>3, <3>1, <3>2, <2>1, <2>5 DEF Brg!ListFollowsInitialize
        <3>4. QED
            BY <1>3, <2>2, <2>5, <3>2, <3>3 DEF Brg!BridgeInv
    <2>6. QED
        BY <2>3, <2>4, <2>5
<1>4. ASSUME NEW a \in Brg!Answers,
             Brg!HTTPInitialize(a) \/ Brg!HTTPToolsList(a) \/ Brg!HTTPCall(a)
      PROVE  Brg!BridgeInv'
    <2>1. ASSUME NEW m, NEW next, Brg!sendRequestWithSession(m, next, a),
                 \/ m = "initialize" /\ next = "initialized"
                 \/ m \in {"tools/list", "request"} /\ next = "over"
          PROVE  Brg!BridgeInv'
        <3>1. /\ m \in {"initialize", "tools/list", "request"} /\ seq.at = m
              /\ session' = Append(session, <<m, a>>)
            BY <2>1 DEF Brg!sendRequestWithSession, Brg!Got
        <3>2. /\ seq' \in SeqType /\ seq'.protocol = seq.protocol
              /\ seq'.at \in {"initialized", "waiting", "over"}
              /\ seq'.at = "initialized" => m = "initialize" /\ a = "ok"
            BY <2>1, <1>a DEF Brg!sendRequestWithSession, Brg!Go, Brg!End, Brg!Answers
        <3>3. QED
            BY <3>1, <3>2, <1>3
    <2>2. QED
        BY <1>4, <2>1 DEF Brg!HTTPInitialize, Brg!HTTPToolsList, Brg!HTTPCall
<1>5. ASSUME NEW a \in Brg!Answers, Brg!sendNotificationWithSession(a) PROVE Brg!BridgeInv'
    <2>1. seq.at = "initialized" /\ session' = Append(session, <<"initialized", a>>)
        BY <1>5 DEF Brg!sendNotificationWithSession, Brg!Got
    <2>2. /\ seq' \in SeqType /\ seq'.protocol = seq.protocol
          /\ seq'.at \in {"tools/list", "waiting", "over"}
          /\ seq'.at = "tools/list" => a = "ok"
        BY <1>5, <1>a DEF Brg!sendNotificationWithSession, Brg!Go, Brg!End, Brg!Answers
    <2>3. QED
        BY <2>1, <2>2, <1>3
<1>6. ASSUME NEW a \in Brg!Answers, Brg!SSEInitialize(a) PROVE Brg!BridgeInv'
    <2>1. seq.at = "initialize" /\ session' = Append(session, <<"initialize", a>>)
        BY <1>6 DEF Brg!SSEInitialize, Brg!sendSSENotificationWithAuth, Brg!Got
    <2>2. /\ seq' \in SeqType /\ seq'.protocol = seq.protocol
          /\ seq'.at \in {"initialized", "waiting", "over"}
          /\ seq'.at = "initialized" => a = "ok"
        BY <1>6, <1>a DEF Brg!SSEInitialize, Brg!sendSSENotificationWithAuth, Brg!Go, Brg!End,
                          Brg!Answers
    <2>3. QED
        BY <2>1, <2>2, <1>3
<1>7. ASSUME NEW a \in Brg!Answers, Brg!SSEInitialized(a) PROVE Brg!BridgeInv'
    <2>1. seq.at = "initialized" /\ session' = Append(session, <<"initialized", a>>)
        BY <1>7 DEF Brg!SSEInitialized, Brg!sendSSENotificationWithAuth, Brg!Got
    <2>2. /\ seq' \in SeqType /\ seq'.protocol = seq.protocol
          /\ seq.protocol = "sse" /\ seq'.at \in {"tools/list", "waiting", "over"}
        BY <1>7, <1>a DEF Brg!SSEInitialized, Brg!sendSSENotificationWithAuth, Brg!Go, Brg!End,
                          Brg!Answers
    <2>3. QED
        BY <2>1, <2>2, <1>3
<1>8. ASSUME NEW a \in Brg!Answers, NEW lines,
             Brg!sendSSERequestAndWaitForResponseWithAuth(a, lines)
      PROVE  Brg!BridgeInv'
    <2>1. /\ seq.at \in {"tools/list", "request"}
          /\ session' = Append(session, <<seq.at, a>>)
        BY <1>8 DEF Brg!sendSSERequestAndWaitForResponseWithAuth, Brg!Got
    <2>2. /\ seq' \in SeqType /\ seq'.protocol = seq.protocol
          /\ seq'.at \in {"waiting", "over"}
        BY <1>8, <1>a DEF Brg!sendSSERequestAndWaitForResponseWithAuth, Brg!Go, Brg!End, Brg!Answers
    <2>3. QED
        BY <2>1, <2>2, <1>3
<1>9. ASSUME Brg!Timeout \/ Brg!ServerCloses PROVE Brg!BridgeInv'
    BY <1>9, <1>b DEF Brg!Timeout, Brg!ServerCloses, Brg!End
<1>10. ASSUME Brg!Returns PROVE Brg!BridgeInv'
    BY <1>10, BridgeInit DEF Brg!Returns, Brg!BridgeInv, Brg!Idle, Brg!Protocols,
                             Brg!ListFollowsInitialize
<1>11. CASE UNCHANGED brgVars
    BY <1>11 DEF brgVars, Brg!BridgeInv, Brg!ListFollowsInitialize
<1>12. QED
    BY <1>1, <1>2, <1>4, <1>5, <1>6, <1>7, <1>8, <1>9, <1>10, <1>11
       DEF Brg!Next, Brg!Step, Brg!Answers

-----------------------------------------------------------------------------
(* The proxy *)

\* Every part keeps its invariant, and the steps of one leave the others alone.
LEMMA ProxyStep == ProxyInv /\ [Next]_vars => ProxyInv'
<1> SUFFICES ASSUME ProxyInv, [Next]_vars PROVE ProxyInv'
    OBVIOUS
<1>1. /\ [Sub!Next]_subVars /\ [Chg!Next]_chgVars /\ [Smp!Next]_smpVars
      /\ [Rts!Next]_rtsVars /\ [Rel!Next]_relVars /\ [Brg!Next]_brgVars
    BY DEF Next, In, vars
<1>2. QED
    BY <1>1, SubStep, ChgStep, SmpStep, RootsStep, RelayStep, BridgeStep DEF ProxyInv

\* The inductive invariant of the proxy's parts.
THEOREM ProxyInvariant == Spec => []ProxyInv
<1>1. Init => ProxyInv
    BY SubInit, ChgInit, SmpInit, RootsInit, RelayInit, BridgeInit DEF Init, ProxyInv
<1>2. QED
    BY <1>1, ProxyStep, PTL DEF Spec

\* subscriptions.go, change_notifications.go: whatever clients subscribe,
\* leave, expire or fail to take, the two indexes of subscriptions agree, who
\* kept an unfiltered subscription through an update was told of it, and no
\* listener works with a list of tools that has changed.
THEOREM NotificationsAlwaysReach == Spec => []NotificationsReach
<1>1. ProxyInv => NotificationsReach
    BY DEF ProxyInv, NotificationsReach, Sub!SubInv, Sub!HoldersAreTold, Chg!ChgInv
<1>2. QED
    BY <1>1, ProxyInvariant, PTL

\* sampling.go: whoever processes a request and whenever the decision falls,
\* no handler gets one that waits for its review or was turned down.
THEOREM ReviewAlwaysDecides == Spec => []ReviewDecides
<1>1. ProxyInv => ReviewDecides
    BY DEF ProxyInv, ReviewDecides, Smp!SmpInv
<1>2. QED
    BY <1>1, ProxyInvariant, PTL

\* roots.go, standard_methods.go: no initialize, whatever roots it names, opens
\* a path for writing, and what is watched is a managed root.
THEOREM InitializeNeverOpens == Spec => InitializeOpensNothing
<1>1. ProxyInv /\ [Next]_vars => [part = "roots" => Rts!OpensNothing]_vars
    <2> SUFFICES ASSUME ProxyInv, [Next]_vars PROVE Rts!OpensNothing
        OBVIOUS
    <2>1. [Rts!Next]_rtsVars /\ Rts!RootsInv
        BY DEF Next, In, vars, ProxyInv
    <2>2. QED
        BY <2>1, RootsStep
<1>2. QED
    BY <1>1, ProxyInvariant, PTL DEF Spec, InitializeOpensNothing

\* bidirectional_relay.go, protocol_bridge.go: a server's request is answered at
\* most once, although the answer, the timer, the end of the relay and the
\* client's departure race; and no list is asked for before initialize.
THEOREM ProtocolAlwaysKept == Spec => []ProtocolIsKept
<1>1. ProxyInv => ProtocolIsKept
    BY DEF ProxyInv, ProtocolIsKept, Rel!RelayInv, Brg!BridgeInv
<1>2. QED
    BY <1>1, ProxyInvariant, PTL
=============================================================================
