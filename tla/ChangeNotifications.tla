------------------------ MODULE ChangeNotifications ------------------------
(***************************************************************************)
(* ChangeNotificationManager: clients that asked to hear of changes of the *)
(* list of tools.  (The half for prompts is the same code over other       *)
(* fields.)  Every operation holds the mutex, the sending of notifications *)
(* included.  The names of a server's tools differ, so that the hash of    *)
(* the sorted list stands for the set.  The one who is told fetches the    *)
(* list.                                                                   *)
(***************************************************************************)
EXTENDS Integers, FiniteSets

CONSTANTS Clients

VARIABLES
    listeners,  \* cnm.toolSubscribers
    tools,      \* cnm.toolHashes of one server: the tools it was seen with
    known       \* the list each listener fetched last

vars == <<listeners, tools, known>>

None == [subscribed |-> FALSE, old |-> FALSE]
NoTools == {"never seen"}
ToolSets == {{}, {"a"}, {"a", "b"}}

Init ==
    /\ listeners = [c \in Clients |-> None]
    /\ tools = NoTools
    /\ known = [c \in Clients |-> NoTools]

\* A second subscription replaces the first.  The client fetches the list.
SubscribeToToolChanges(c) ==
    /\ listeners' = [listeners EXCEPT ![c] = [subscribed |-> TRUE, old |-> FALSE]]
    /\ known' = [known EXCEPT ![c] = tools]
    /\ UNCHANGED tools

UnsubscribeFromToolChanges(c) ==
    /\ listeners[c] # None
    /\ listeners' = [listeners EXCEPT ![c] = None]
    /\ UNCHANGED <<tools, known>>

\* Who took the notification fetches the list and counts as seen.  One who
\* failed to is marked as knowing nothing: the code does not try again.
Tell(served, list) ==
    /\ known' = [c \in Clients |-> IF c \in served THEN list ELSE NoTools]
    /\ listeners' = [c \in Clients |-> IF c \in served
                                       THEN [listeners[c] EXCEPT !.old = FALSE]
                                       ELSE listeners[c]]
Listening == {c \in Clients : listeners[c] # None}

\* The hash of the sorted names and descriptions: the order of the list does
\* not matter, every addition, removal and change of a tool does.
hashOf(list) == [hashed |-> list]

MutUpdateTools(list, deaf) ==
    /\ hashOf(list) # hashOf(tools)
    /\ tools' = list
    /\ IF Cardinality(list) > Cardinality(tools) \/ tools = NoTools
       THEN Tell(Listening \ deaf, list) ELSE UNCHANGED <<listeners, known>>

\* The first list of a server is told to nobody.  A client that fails to take
\* the notification is left with what it knows and keeps its subscription.
UpdateTools(list, deaf) ==
    /\ hashOf(list) # hashOf(tools)
    /\ tools' = list
    /\ IF tools # NoTools THEN Tell(Listening \ deaf, list)
                          ELSE UNCHANGED <<listeners, known>>

ForceNotifyToolChanges(deaf) ==
    /\ Listening # {} /\ tools # NoTools
    /\ Tell(Listening \ deaf, tools)
    /\ UNCHANGED tools

\* Subscribed and last notification both before the cutoff.
CleanupInactiveSubscribers ==
    /\ \E c \in Clients : listeners[c].old
    /\ listeners' = [c \in Clients |-> IF listeners[c].old THEN None ELSE listeners[c]]
    /\ UNCHANGED <<tools, known>>

\* Time passes.
Age(c) ==
    /\ listeners[c] # None /\ ~listeners[c].old
    /\ listeners' = [listeners EXCEPT ![c].old = TRUE]
    /\ UNCHANGED <<tools, known>>

Next ==
    \/ \E c \in Clients : SubscribeToToolChanges(c) \/ UnsubscribeFromToolChanges(c) \/ Age(c)
    \/ \E list \in ToolSets, deaf \in SUBSET Clients : UpdateTools(list, deaf)
    \/ \E deaf \in SUBSET Clients : ForceNotifyToolChanges(deaf)
    \/ CleanupInactiveSubscribers

-----------------------------------------------------------------------------
\* No listener works with a list that has changed, unless the server had not
\* been seen when it subscribed or it failed to take the last notification:
\* the hashes see every change, additions and removals alike.
ListenersKnowTheTools ==
    \A c \in Listening : known[c] \in {tools, NoTools}

TypeOK ==
    /\ listeners \in [Clients -> [subscribed : BOOLEAN, old : BOOLEAN]]
    /\ tools \in ToolSets \cup {NoTools}
    /\ known \in [Clients -> ToolSets \cup {NoTools}]

ChgInv == TypeOK /\ ListenersKnowTheTools
============================================================================
