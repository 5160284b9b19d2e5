---------------------------- MODULE MCRemoteConnect ----------------------------
(* RemoteConnect with interchangeable sessions, connections and requests.       *)
EXTENDS RemoteConnect, TLC

Symmetry == Permutations(Sessions) \cup Permutations(Conns) \cup Permutations(Requests)
===============================================================================
