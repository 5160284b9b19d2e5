-------------------------- MODULE MCRemoteTerminal --------------------------
(* Small instances of RemoteTerminal for TLC. *)
EXTENDS RemoteTerminal, TLC

Symmetry == Permutations(Tenants) \cup Permutations(Sessions) \cup Permutations(Shells)
                \cup Permutations(Requests)
=============================================================================
