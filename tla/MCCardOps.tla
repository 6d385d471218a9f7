----------------------------- MODULE MCCardOps -----------------------------
(* CardOps for TLC: the workers of two server instances are interchangeable. *)
EXTENDS CardOps, TLC

Perms == Permutations(Workers)

=============================================================================
