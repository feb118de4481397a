------------------------------- MODULE Roots -------------------------------
(***************************************************************************)
(* RootManager and the standard methods of a session (initialize,          *)
(* initialized, ping, roots/list, cancelled).  The proxy has ONE handler   *)
(* for all its clients, so that roots and the initialized flag are shared. *)
(* Paths are sequences of segments.                                        *)
(***************************************************************************)
EXTENDS Integers, Sequences, FiniteSets

VARIABLES
    initialized,  \* h.initialized, for every client at once
    roots,        \* rm.roots: the permissions of each root, {} for none
    watchers,     \* rm.watchers: roots with a callback
    called        \* callbacks started with `go' that have not run yet

vars == <<initialized, roots, watchers, called>>

\* The last one is relative.
RootUris == {<<>>, <<"w">>, <<"w", "p">>, <<".", "p">>}
Paths == {<<>>, <<"w">>, <<"w", "p", "f">>, <<"wx">>}
workingDir == <<"w">>

\* Permissions: what hasPermission answers for.
DefaultPermissions == {"read", "list"}
WorkingPermissions == {"read", "list", "watch"}
FullPermissions == {"read", "write", "list", "watch"}

\* The prefix must end where a segment ends: "/w" does not hold "/wx", and the
\* root "/", which ends with the separator, holds nothing but itself.
isPathInRoot(p, r) ==
    p = r \/ (r # <<>> /\ Len(r) <= Len(p) /\ SubSeq(p, 1, Len(r)) = r)
validateRootURI(r) == r = <<>> \/ r[1] # "."
hasPermission(permissions, op) == op \in permissions

\* The answers CheckRootAccess may give: the map is ranged over in any order
\* and the first root that holds the path decides, so that each of them may.
CheckRootAccess(rs, p, op) ==
    {hasPermission(rs[r], op) : r \in {x \in RootUris : rs[x] # {} /\ isPathInRoot(p, x)}}

\* A root added again loses its old permissions; its watcher stays.
WithRoots(added, permissions) ==
    [r \in RootUris |-> IF r \in added /\ validateRootURI(r) THEN permissions ELSE roots[r]]

AddRoot(r, permissions) ==
    /\ roots' = WithRoots({r}, permissions)
    /\ UNCHANGED <<initialized, watchers, called>>

RemoveRoot(r) ==
    /\ roots[r] # {}
    /\ roots' = [roots EXCEPT ![r] = {}]
    /\ watchers' = watchers \ {r}
    /\ UNCHANGED <<initialized, called>>

MutWatchRoot(r) ==
    /\ watchers' = watchers \cup {r}
    /\ UNCHANGED <<initialized, roots, called>>

WatchRoot(r) ==
    /\ "watch" \in roots[r]
    /\ watchers' = watchers \cup {r}
    /\ UNCHANGED <<initialized, roots, called>>

UnwatchRoot(r) ==
    /\ r \in watchers
    /\ watchers' = watchers \ {r}
    /\ UNCHANGED <<initialized, roots, called>>

\* Callbacks run in goroutines, perhaps after an UnwatchRoot.
NotifyRootChange(p) ==
    /\ \E r \in watchers : isPathInRoot(p, r)
    /\ called' = called \cup {r \in watchers : isPathInRoot(p, r)}
    /\ UNCHANGED <<initialized, roots, watchers>>
CallbackRuns(r) ==
    /\ r \in called
    /\ called' = called \ {r}
    /\ UNCHANGED <<initialized, roots, watchers>>

MutClientPermissions == FullPermissions

ClientPermissions == DefaultPermissions

\* A client's roots are added read-only, and stay when it goes or initializes
\* again; a client without any adds the working directory.
handleInitialize(added) ==
    /\ roots' = IF added = {} THEN WithRoots({workingDir}, WorkingPermissions)
                ELSE WithRoots(added, ClientPermissions)
    /\ initialized' = TRUE
    /\ UNCHANGED <<watchers, called>>

Init ==
    /\ initialized = FALSE
    /\ roots = [r \in RootUris |-> {}]
    /\ watchers = {} /\ called = {}

Next ==
    \/ \E added \in SUBSET RootUris : handleInitialize(added)
    \/ \E r \in RootUris : \/ AddRoot(r, FullPermissions) \/ AddRoot(r, DefaultPermissions)
                           \/ RemoveRoot(r) \/ WatchRoot(r) \/ UnwatchRoot(r) \/ CallbackRuns(r)
    \/ \E p \in Paths : NotifyRootChange(p)

-----------------------------------------------------------------------------
Writable(rs) == {p \in Paths : TRUE \in CheckRootAccess(rs, p, "write")}

\* Clients share the roots, but no client's initialize, whatever roots it
\* names, opens a path for writing; and what is watched is a managed root.
OpensNothing ==
    /\ roots' # roots /\ ~(\E r \in RootUris : AddRoot(r, FullPermissions))
       => Writable(roots') \subseteq Writable(roots)
    /\ watchers' \subseteq {r \in RootUris : roots'[r] # {}}

TypeOK ==
    /\ initialized \in BOOLEAN
    /\ roots \in [RootUris -> SUBSET FullPermissions]
    /\ watchers \subseteq RootUris /\ called \subseteq RootUris

\* Whatever is watched is a root, so that what goes takes its watcher along.
RootsInv == TypeOK /\ \A r \in watchers : roots[r] # {}
============================================================================
