-------------------------- MODULE MCFailedAuthLimiter --------------------------
(* A small instance of FailedAuthLimiter for TLC. *)
EXTENDS FailedAuthLimiter, TLC

Symmetric == Permutations(Requests)

=============================================================================
