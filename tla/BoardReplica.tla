---------------------------- MODULE BoardReplica ----------------------------
(***************************************************************************)
(* What the change log promises a browser: the cards it has not touched    *)
(* itself are always shown as they were after one commit of the server,    *)
(* the same for all of them, and that commit only moves forward.           *)
(***************************************************************************)
EXTENDS Naturals, Sequences

VARIABLES
    boards, \* the server's board after each commit, the first one first
    at,     \* the commit the browser shows
    own,    \* the iids the browser has acted on
    shown   \* the other cards it shows

Others(n, mine) == {c \in boards[n + 1] : c.iid \notin mine}

Init ==
    /\ Len(boards) = 1 /\ at = 0 /\ own = {}
    /\ shown = Others(0, own)

Commit == /\ Len(boards') = Len(boards) + 1
          /\ \A n \in 1..Len(boards) : boards'[n] = boards[n]

Next ==
    /\ boards' = boards \/ Commit
    /\ own \subseteq own'
    /\ at' >= at /\ at' < Len(boards')
    /\ shown' = {c \in boards'[at' + 1] : c.iid \notin own'}

Spec == Init /\ [][Next]_<<boards, at, own, shown>>

=============================================================================
