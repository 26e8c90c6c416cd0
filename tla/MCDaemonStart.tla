----------------------------- MODULE MCDaemonStart -----------------------------
(* Small instances of DaemonStart. *)
EXTENDS DaemonStart, TLC

Symmetric == Permutations(Daemons) \cup Permutations(Clients) \cup Permutations(Secrets)
=============================================================================
