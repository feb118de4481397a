--------------------------- MODULE Subscriptions ---------------------------
(***************************************************************************)
(* SubscriptionManager: which clients are told of an updated resource.     *)
(*                                                                         *)
(* An update gathers its recipients under the read lock, gives the lock    *)
(* back and tells one client after the other, so that everything else may  *)
(* happen in between.  A client may fail to take a notification.  URIs are *)
(* sequences of segments; time is whether a client was seen longer ago     *)
(* than the age the clean-up is given.                                     *)
(***************************************************************************)
EXTENDS Integers, Sequences, FiniteSets

CONSTANTS Clients,
          MaxSubs     \* bound: subscriptions ever made



VARIABLES
    subs,       \* sm.subscriptions: by ID
    clients,    \* sm.clients: by client ID
    update      \* the call of NotifyResourceUpdate under way

vars == <<subs, clients, update>>

NoSub == [client |-> "none", uri |-> <<>>, filters |-> {}]
NoClient == [subs |-> {}, old |-> FALSE]
NoUpdate == [uri |-> <<>>, type |-> "", todo |-> {}, told |-> {}, held |-> {}]

Uris == {<<"db", "1">>, <<"db", "1", "x">>}
Patterns == {<<"db", "1">>, <<"db", "{id}">>, <<"*">>}
Types == {"updated", "deleted"}
\* The empty filter list, a valid filter, one with a type nobody knows.
FilterLists == {{}, {[type |-> "exact", property |-> "type", value |-> "deleted"]},
                {[type |-> "fuzzy", property |-> "type", value |-> "deleted"]}}
SubIds == 1..MaxSubs

-----------------------------------------------------------------------------
(* Matching *)

isURITemplate(uri) == \E i \in DOMAIN uri : uri[i] = "{id}"

\* A variable stands for one segment, a star for the rest.
matchURITemplate(t, uri) ==
    /\ \A i \in DOMAIN t : t[i] # "*" =>
          i \in DOMAIN uri /\ t[i] \in {uri[i], "{id}"}
    /\ Len(t) = Len(uri) \/ \E i \in DOMAIN t : t[i] = "*"

\* A star counts only in a template with a variable.
doesURIMatch(pattern, uri) ==
    IF isURITemplate(pattern) THEN matchURITemplate(pattern, uri) ELSE pattern = uri

validateFilters(filters) ==
    \A f \in filters : f.type \in {"exact", "prefix", "glob", "regex"} /\ f.property # ""

applyFilter(f, uri, type) ==
    LET actual == CASE f.property = "type" -> type [] f.property = "uri" -> uri
    IN  actual = f.value

shouldIncludeUpdate(sub, uri, type) ==
    \A f \in sub.filters : applyFilter(f, uri, type)

\* The clients with a subscription the update is for, each once.
findMatchingSubscriptions(uri) ==
    {s \in SubIds : subs[s] # NoSub /\ doesURIMatch(subs[s].uri, uri)}
Recipients(uri, type) ==
    {subs[s].client : s \in {x \in findMatchingSubscriptions(uri) :
                                shouldIncludeUpdate(subs[x], uri, type)}}

-----------------------------------------------------------------------------
Init ==
    /\ subs = [s \in SubIds |-> NoSub]
    /\ clients = [c \in Clients |-> NoClient]
    /\ update = NoUpdate

\* IDs are times, never seen before; here a free one, since nobody keeps an
\* old one.  A filter of no known type is refused.
Subscribe(c, uri, filters) ==
    /\ validateFilters(filters)
    /\ \E s \in SubIds :
          /\ subs[s] = NoSub /\ \A x \in 1..(s - 1) : subs[x] # NoSub
          /\ subs' = [subs EXCEPT ![s] = [client |-> c, uri |-> uri, filters |-> filters]]
          /\ clients' = [clients EXCEPT ![c].subs = @ \cup {s}, ![c].old = FALSE]
    /\ UNCHANGED update

\* The clients of the update that stop having a subscription for it are not
\* owed it any more.
StillHeld(newSubs) ==
    {c \in update.held : \E s \in SubIds :
        newSubs[s].client = c /\ doesURIMatch(newSubs[s].uri, update.uri)}

\* Only the owner may; a client with no subscription left is forgotten.
Unsubscribe(c, s) ==
    /\ subs[s] # NoSub /\ subs[s].client = c
    /\ subs' = [subs EXCEPT ![s] = NoSub]
    /\ clients' = [clients EXCEPT ![c] = IF @.subs = {s} THEN NoClient
                                         ELSE [@ EXCEPT !.subs = clients[c].subs \ {s}]]
    /\ update' = [update EXCEPT !.held = StillHeld(subs')]

MutCleanupExpiredSubscriptions ==
    LET expired == {c \in Clients : clients[c].old}
    IN  /\ expired # {}
        /\ clients' = [c \in Clients |-> IF c \in expired THEN NoClient ELSE clients[c]]
        /\ UNCHANGED <<subs, update>>

CleanupExpiredSubscriptions ==
    LET expired == {c \in Clients : clients[c].old}
    IN  /\ expired # {}
        /\ subs' = [s \in SubIds |-> IF subs[s].client \in expired THEN NoSub ELSE subs[s]]
        /\ clients' = [c \in Clients |-> IF c \in expired THEN NoClient ELSE clients[c]]
        /\ update' = [update EXCEPT !.held = StillHeld(subs')]
    
\* The calls run one after the other here; the code lets them overlap, but
\* they share nothing.
NotifyResourceUpdate(uri, type) ==
    /\ update.todo = {} /\ Recipients(uri, type) # {}
    /\ update' = [uri |-> uri, type |-> type, todo |-> Recipients(uri, type),
                  told |-> {}, held |-> {c \in Clients : \E s \in SubIds :
                      subs[s].client = c /\ doesURIMatch(subs[s].uri, uri)
                      /\ subs[s].filters = {}}]
    /\ UNCHANGED <<subs, clients>>

MutsendNotificationToClient(c, ok) ==
    /\ c \in update.todo
    /\ update' = [update EXCEPT !.todo = IF ok THEN @ \ {c} ELSE {},
                                !.told = IF ok THEN @ \cup {c} ELSE @,
                                !.held = IF ok THEN @ ELSE @ \ {c}]
    /\ UNCHANGED <<subs, clients>>

\* The client is looked up again: one that has gone is passed over, and so is
\* an error.
sendNotificationToClient(c, ok) ==
    /\ c \in update.todo
    /\ ok => clients[c] # NoClient
    /\ update' = [update EXCEPT !.todo = @ \ {c},
                                !.told = IF ok THEN @ \cup {c} ELSE @,
                                !.held = IF ok THEN @ ELSE @ \ {c}]
    /\ UNCHANGED <<subs, clients>>

\* Time passes.  Only Subscribe refreshes a client's LastSeen.
Age(c) ==
    /\ clients[c] # NoClient /\ ~clients[c].old
    /\ clients' = [clients EXCEPT ![c].old = TRUE]
    /\ UNCHANGED <<subs, update>>

\* The two requests of a client, whatever it names in them.
handleResourceSubscribe(c) ==
    \E uri \in Patterns, filters \in FilterLists : Subscribe(c, uri, filters)
handleResourceUnsubscribe(c) ==
    \E s \in SubIds : Unsubscribe(c, s)

Next ==
    \/ \E c \in Clients : handleResourceSubscribe(c) \/ handleResourceUnsubscribe(c)
    \/ CleanupExpiredSubscriptions
    \/ \E uri \in Uris, type \in Types : NotifyResourceUpdate(uri, type)
    \/ \E c \in Clients, ok \in BOOLEAN : sendNotificationToClient(c, ok)
    \/ \E c \in Clients : Age(c)

-----------------------------------------------------------------------------
\* The two indexes agree: a subscription is filed under its client and no
\* other, and a client without any is forgotten.  Otherwise a client that was
\* cleaned up is notified for ever, or one with a subscription never.
IndexesAgree ==
    \A c \in Clients : /\ clients[c].subs = {s \in SubIds : subs[s].client = c}
                       /\ clients[c] # NoClient => clients[c].subs # {}

\* When an update has been sent out, every client that kept an unfiltered
\* subscription for it all the while was told, whatever others did or failed
\* to take meanwhile; only its own failure excuses the sender.
HoldersAreTold ==
    update.todo = {} => update.held \subseteq update.told

Sub == [client : Clients, uri : Patterns, filters : FilterLists] \cup {NoSub}
Client == [subs : SUBSET SubIds, old : BOOLEAN]
Update == [uri : Uris \cup {<<>>}, type : Types \cup {""},
           todo : SUBSET Clients, told : SUBSET Clients, held : SUBSET Clients]

TypeOK ==
    /\ subs \in [SubIds -> Sub]
    /\ clients \in [Clients -> Client]
    /\ update \in Update

\* While an update is sent out, who is owed it was told or is still on the
\* list.
SubInv ==
    /\ TypeOK
    /\ IndexesAgree
    /\ update.held \subseteq update.todo \cup update.told
============================================================================
