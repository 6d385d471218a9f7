--------------------------- MODULE MCBoardClient ---------------------------
(* BoardClient for TLC: the operations of one kind are interchangeable. *)
EXTENDS BoardClient, TLC

Perms == Permutations(Updates) \cup Permutations(Creates) \cup Permutations(Theirs)

=============================================================================
