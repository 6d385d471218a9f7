----------------------------- MODULE MCSyncLog -----------------------------
(* SyncLog for TLC: the writers are interchangeable. *)
EXTENDS SyncLog, TLC

CONSTANTS card, u1, u2

Perms == Permutations(Writers)

\* One public row, the preferences of the watched user with it or not, the
\* preferences of somebody else, and a revision that records nothing.
MCChanges == {{card}, {card, u1}, {u2}, {}}

\* Clients do not influence each other: at most one of them does anything.
OneClient ==
    \E u \in Clients : \A v \in Clients \ {u} : req[v] = At("idle") /\ screen[v].rev = 0

=============================================================================
