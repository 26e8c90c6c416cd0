---------------------------- MODULE MCShareClients ----------------------------
(* Small instances of ShareClients. *)
EXTENDS ShareClients, TLC

Symmetric == Permutations(Clients) \cup Permutations(Ids) \cup Permutations(Paths)
=============================================================================
