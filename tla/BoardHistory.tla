---------------------------- MODULE BoardHistory ----------------------------
(***************************************************************************)
(* What the change stream promises, without saying how: the server commits *)
(* changes one after the other, and what a client shows is always the      *)
(* board as it was after one of these commits, restricted to what the      *)
(* client may see, and never an older one than before.                     *)
(*                                                                         *)
(* The content of a key is the number of the commit that wrote it last, 0  *)
(* for what was there at the start.                                        *)
(***************************************************************************)
EXTENDS Naturals

CONSTANTS
    MaxRev,   \* bound: commits
    Keys,     \* what a commit may change
    Clients,
    Sees      \* [Clients -> SUBSET Keys]: what each client may see

VARIABLES
    revision, \* how many commits there have been
    wrote,    \* the keys each of them changed
    screen    \* what each client shows, and as of which commit

\* c is the content of key k after commit r.
IsContent(k, r, c) ==
    /\ c \in 0..r
    /\ c # 0 => k \in wrote[c]
    /\ \A n \in (c + 1)..r : k \notin wrote[n]

\* The board of client u after commit r; other clients' keys are never read.
IsBoard(u, r, view) ==
    \A k \in Keys : IF k \in Sees[u] THEN IsContent(k, r, view[k]) ELSE view[k] = 0

Init ==
    /\ revision = 0
    /\ wrote = [n \in 1..MaxRev |-> {}]
    /\ screen = [u \in Clients |-> [rev |-> 0, view |-> [k \in Keys |-> 0]]]

Commit(K) ==
    /\ revision < MaxRev
    /\ revision' = revision + 1
    /\ wrote' = [wrote EXCEPT ![revision + 1] = K]
    /\ UNCHANGED screen

Refresh(u) ==
    \E r \in screen[u].rev..revision, view \in [Keys -> 0..MaxRev] :
        /\ IsBoard(u, r, view)
        /\ screen' = [screen EXCEPT ![u] = [rev |-> r, view |-> view]]
        /\ UNCHANGED <<revision, wrote>>

Next ==
    \/ \E K \in SUBSET Keys : Commit(K)
    \/ \E u \in Clients : Refresh(u)

Spec == Init /\ [][Next]_<<revision, wrote, screen>>

=============================================================================
