------------------------ MODULE MCConnectionManager ------------------------
(* The URLs of a Service are interchangeable. *)
EXTENDS ConnectionManager, TLC

UrlSymmetry == Permutations(Urls)

\* What the manager holds is what its handlers rely on (connection_manager.go).
ConnectionsAreSound == TypeOK /\ ConnectedHasTransport
============================================================================
