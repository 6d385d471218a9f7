------------------------------ MODULE CardOps ------------------------------
(***************************************************************************)
(* The durable-operation queue of SITCON Board and the optimistic card     *)
(* cache it reconciles with GitLab.                                        *)
(*                                                                         *)
(* A browser mutation writes the card row (issue_cache) and an operation   *)
(* (durable_operations) in one transaction.  A worker of any server        *)
(* instance claims the operation, calls GitLab as the actor, and commits   *)
(* the answer; webhook readers merge what GitLab reports into rows that no *)
(* local operation owns.  Every action below is one PostgreSQL transaction *)
(* or one GitLab call; between them anything else may happen.              *)
(*                                                                         *)
(* Cards and issues share one key space, as in the code: a positive IID is *)
(* GitLab's, the negative IID -o is the temporary key of the card that     *)
(* create operation o inserted.  A payload is represented by the operation *)
(* that carries it: content o means "what operation o asked for", content  *)
(* 0 "something written outside the board".                                *)
(***************************************************************************)
EXTENDS Integers, FiniteSets

CONSTANTS
    MaxOps,        \* bound: operations the users submit
    MaxIssues,     \* bound: issues GitLab ever holds
    Known,         \* issues that exist, and are cached, at the start
    Workers,       \* operation workers, one per server instance
    MaxFaults,     \* bound: failed or lost GitLab calls and crashes
    MaxRetries,    \* bound: presses of Retry
    MaxExt,        \* bound: changes made in GitLab outside the board
    StaleScreens,  \* TRUE: Retry may name an operation a newer one replaced
    LeaseOutlived  \* TRUE: a live worker may outlast its two-minute lease

OpIds  == 1..MaxOps
Issues == 1..MaxIssues
Temps  == {-o : o \in OpIds}
Iids   == Temps \cup Issues
NoOp   == 0
NoIid  == 0

ASSUME ConstantsAssumption ==
    /\ MaxOps \in Nat \ {0}
    /\ MaxIssues \in Nat \ {0}
    /\ Known \subseteq Issues
    /\ MaxFaults \in Nat /\ MaxRetries \in Nat /\ MaxExt \in Nat
    /\ StaleScreens \in BOOLEAN
    /\ LeaseOutlived \in BOOLEAN

VARIABLES
    ops,      \* durable_operations, numbered in the order in which they are stored
    opCount,  \* how many operations exist
    rows,     \* issue_cache, by IID
    gl,       \* the project's issues in GitLab
    worker,   \* what each operation worker is doing
    read,     \* the answer a webhook reader holds and has not merged yet
    reached,  \* history: operations whose effect reached GitLab
    deleted,  \* history: issues whose deletion the board has completed
    late,     \* history: issues one of whose operations was stored behind a later-stamped one
    budget    \* what is left of MaxFaults, MaxRetries and MaxExt

vars == <<ops, opCount, rows, gl, worker, read, reached, deleted, late, budget>>

Kinds    == {"create", "update", "delete"}
OpStates == {"pending", "processing", "synced", "failed"}
Content  == 0..MaxOps

\* at is the rank of created_at among the operations; 0 stands for "not stored yet".
Op     == [kind : Kinds \cup {"none"}, iid : Iids \cup {NoIid},
           state : OpStates, lapsed : BOOLEAN, at : 0..MaxOps]
NoRow  == [sync |-> "absent", ptr |-> NoOp, val |-> 0, ver |-> 0]
Row    == [sync : {"absent", "synced", "pending", "failed"},
           ptr : OpIds \cup {NoOp}, val : Content, ver : Nat]
\* An issue is on the board while it carries an active team label.
Issue  == [st : {"unborn", "live", "offboard", "gone"}, val : Content, ver : Nat]
\* What one GitLab answer said of one issue; card = FALSE means "not a board card".
Answer == [iid : Issues \cup {NoIid}, card : BOOLEAN, val : Content, ver : Nat]
NoAnswer == [iid |-> NoIid, card |-> FALSE, val |-> 0, ver |-> 0]
Worker == [pc : {"idle", "calling", "answered", "failing"},
           op : OpIds \cup {NoOp}, iid : Iids \cup {NoIid}, ans : Answer]
Idle   == [pc |-> "idle", op |-> NoOp, iid |-> NoIid, ans |-> NoAnswer]

TypeOK ==
    /\ ops \in [OpIds -> Op]
    /\ opCount \in 0..MaxOps
    /\ rows \in [Iids -> Row]
    /\ gl \in [Issues -> Issue]
    /\ worker \in [Workers -> Worker]
    /\ read \in Answer
    /\ reached \subseteq OpIds
    /\ deleted \subseteq Issues
    /\ late \subseteq Issues
    /\ budget \in [fault : Nat, retry : Nat, ext : Nat]

Present(i) == rows[i].sync # "absent"
Unfinished(o) == ops[o].state \in {"pending", "processing"}

\* Mutant of Deleting: a deletion that is being carried out no longer counts.
DeletingWhileQueued(i) ==
    /\ rows[i].ptr # NoOp
    /\ ops[rows[i].ptr].kind = "delete"
    /\ ops[rows[i].ptr].state = "pending"

\* The row is the tombstone of a queued deletion: hidden, and refused to edits.
Deleting(i) ==
    /\ rows[i].ptr # NoOp
    /\ ops[rows[i].ptr].kind = "delete"
    /\ Unfinished(rows[i].ptr)

\* FOREIGN KEY durable_operations.issue_iid ... ON DELETE SET NULL / ON UPDATE CASCADE
Rekey(f, old, new) ==
    [p \in OpIds |-> [kind |-> f[p].kind, iid |-> IF f[p].iid = old THEN new ELSE f[p].iid,
                      state |-> f[p].state, lapsed |-> f[p].lapsed, at |-> f[p].at]]

\* Mutants of Merged: a row in flight takes GitLab's content; old answers are merged.
MergedIntoOwned(r, a) ==
    IF r.sync \in {"pending", "failed"}
    THEN IF a.card THEN [sync |-> r.sync, ptr |-> r.ptr, val |-> a.val, ver |-> a.ver] ELSE r
    ELSE IF ~a.card THEN NoRow
    ELSE IF r.sync = "synced" /\ r.ver > a.ver THEN r
    ELSE [sync |-> "synced", ptr |-> NoOp, val |-> a.val, ver |-> a.ver]
MergedWhenStale(r, a) ==
    IF r.sync \in {"pending", "failed"} THEN r
    ELSE IF ~a.card THEN NoRow
    ELSE [sync |-> "synced", ptr |-> NoOp, val |-> a.val, ver |-> a.ver]

\* applyCardObservations on one row: a row a local operation owns is left alone, a card
\* GitLab no longer reports is removed, older data than the cached copy is dropped.
Merged(r, a) ==
    IF r.sync \in {"pending", "failed"} THEN r
    ELSE IF ~a.card THEN NoRow
    ELSE IF r.sync = "synced" /\ r.ver > a.ver THEN r
    ELSE [sync |-> "synced", ptr |-> NoOp, val |-> a.val, ver |-> a.ver]

Saw(i) == [iid |-> i, card |-> gl[i].st = "live", val |-> gl[i].val, ver |-> gl[i].ver]

Init ==
    /\ ops = [o \in OpIds |->
                [kind |-> "none", iid |-> NoIid, state |-> "pending", lapsed |-> FALSE, at |-> 0]]
    /\ opCount = 0
    /\ gl = [i \in Issues |-> [st |-> IF i \in Known THEN "live" ELSE "unborn",
                               val |-> 0, ver |-> IF i \in Known THEN 1 ELSE 0]]
    /\ rows = [i \in Iids |-> IF i \in Known
                              THEN [sync |-> "synced", ptr |-> NoOp, val |-> 0, ver |-> 1]
                              ELSE NoRow]
    /\ worker = [w \in Workers |-> Idle]
    /\ read = NoAnswer
    /\ reached = {} /\ deleted = {} /\ late = {}
    /\ budget = [fault |-> MaxFaults, retry |-> MaxRetries, ext |-> MaxExt]

\* Every change of an operation's state stamps updated_at, which restarts its lease.
Marked(op, state, lapsed) ==
    [kind |-> op.kind, iid |-> op.iid, state |-> state, lapsed |-> lapsed, at |-> op.at]

\* The row waits for operation o and shows val.
Queued(r, o, val) == [sync |-> "pending", ptr |-> o, val |-> val, ver |-> r.ver]

-----------------------------------------------------------------------------
(* Browser mutations.                                                      *)

\* A request reads the clock for created_at and opens the transaction that stores it
\* later: the requests of one card may be stored in another order than they are stamped.
Stamps == {at \in OpIds : \A p \in 1..opCount : ops[p].at # at}

NewOp(kind, i, at) ==
    [kind |-> kind, iid |-> i, state |-> "pending", lapsed |-> FALSE, at |-> at]

\* An operation of the issue that was stamped later is stored already and still in the queue.
Overtakes(i, at) ==
    \E p \in 1..opCount : ops[p].iid = i /\ Unfinished(p) /\ ops[p].at > at

CreateCard ==
    LET o == opCount + 1 IN
    /\ o \in OpIds
    /\ \E at \in Stamps : ops' = [ops EXCEPT ![o] = NewOp("create", -o, at)]
    /\ rows' = [rows EXCEPT ![-o] = Queued(NoRow, o, o)]
    /\ opCount' = o
    /\ UNCHANGED <<gl, worker, read, reached, deleted, late, budget>>

\* The operation joins its card's queue with the stamp its request has.  The request has
\* read the card before, so that the create which inserted the card is stamped earlier.
Enqueue(kind, i) ==
    \E at \in Stamps :
        /\ \A p \in OpIds : (ops[p].kind = "create" /\ ops[p].iid = i) => ops[p].at < at
        /\ ops' = [ops EXCEPT ![opCount + 1] = NewOp(kind, i, at)]
        /\ late' = IF Overtakes(i, at) THEN late \cup ({i} \cap Issues) ELSE late

\* Every edit (details, team, assignees, dates, labels, move) takes this path.  It
\* is refused only while the row's own operation is an unfinished deletion.
UpdateCard(i) ==
    LET o == opCount + 1 IN
    /\ o \in OpIds
    /\ Present(i)
    /\ ~Deleting(i)
    /\ Enqueue("update", i)
    /\ rows' = [rows EXCEPT ![i] = Queued(rows[i], o, o)]
    /\ opCount' = o
    /\ UNCHANGED <<gl, worker, read, reached, deleted, budget>>

DeleteCard(i) ==
    LET o == opCount + 1 IN
    /\ o \in OpIds
    /\ i \in Issues
    /\ rows[i].sync = "synced"
    /\ Enqueue("delete", i)
    /\ rows' = [rows EXCEPT ![i] = Queued(rows[i], o, rows[i].val)]
    /\ opCount' = o
    /\ UNCHANGED <<gl, worker, read, reached, deleted, budget>>

\* The Retry button sends the operation the browser last saw on a failed card; on a
\* screen that is behind, that operation need not be the card's current one.
OnScreen(o) ==
    \/ StaleScreens
    \/ \E i \in Iids : rows[i].sync = "failed" /\ rows[i].ptr = o

\* A retried operation becomes the card's current operation again, whatever the
\* card's current operation was.
RetryOperation(o) ==
    LET i == ops[o].iid IN
    /\ budget.retry > 0
    /\ o <= opCount
    /\ ops[o].state = "failed"
    /\ OnScreen(o)
    /\ i # NoIid => Present(i)
    /\ ops' = [ops EXCEPT ![o] = Marked(ops[o], "pending", FALSE)]
    /\ rows' = IF i = NoIid THEN rows
               ELSE [rows EXCEPT ![i] = Queued(rows[i], o, rows[i].val)]
    /\ budget' = [budget EXCEPT !.retry = @ - 1]
    /\ UNCHANGED <<opCount, gl, worker, read, reached, deleted, late>>

-----------------------------------------------------------------------------
(* The operation worker.                                                   *)

\* The order of the claim query is that of the stamps (ties go by the operation's id).
Earlier(p, o) == p <= opCount /\ ops[p].at < ops[o].at

\* Mutants of Claimable: an older operation of the card may still be in the queue; an
\* abandoned claim is never taken up again.
ClaimableOutOfOrder(o) ==
    /\ o <= opCount
    /\ ops[o].state = "pending" \/ (ops[o].state = "processing" /\ ops[o].lapsed)
    /\ ops[o].kind = "create" \/ ops[o].iid > 0
ClaimableOnce(o) ==
    /\ o <= opCount
    /\ ops[o].state = "pending"
    /\ ops[o].kind = "create" \/ ops[o].iid > 0
    /\ \A p \in OpIds : (Earlier(p, o) /\ ops[p].iid = ops[o].iid) => ~Unfinished(p)

\* The claim query: ready, addressed to an issue GitLab knows (or a create), and
\* no earlier-stamped operation of the same card still in the queue.
Claimable(o) ==
    /\ o <= opCount
    /\ ops[o].state = "pending" \/ (ops[o].state = "processing" /\ ops[o].lapsed)
    /\ ops[o].kind = "create" \/ ops[o].iid > 0
    /\ \A p \in OpIds : (Earlier(p, o) /\ ops[p].iid = ops[o].iid) => ~Unfinished(p)

ClaimOperation(w) ==
    /\ worker[w].pc = "idle"
    /\ \E o \in OpIds :
        /\ Claimable(o)
        /\ \A p \in OpIds : Earlier(p, o) => ~Claimable(p)
        /\ ops[o].iid # NoIid
        /\ Present(ops[o].iid)
        /\ ops' = [ops EXCEPT ![o] = Marked(ops[o], "processing", FALSE)]
        /\ worker' = [worker EXCEPT ![w] =
                        [pc |-> "calling", op |-> o, iid |-> ops[o].iid, ans |-> NoAnswer]]
    /\ UNCHANGED <<opCount, rows, gl, read, reached, deleted, late, budget>>

\* Two minutes pass since the claim.  Every request to GitLab is cut off after
\* fifteen seconds, so unless LeaseOutlived this happens only to an abandoned claim.
LeaseLapses(o) ==
    /\ ops[o].state = "processing"
    /\ ~ops[o].lapsed
    /\ LeaseOutlived \/ \A w \in Workers : worker[w].op # o
    /\ ops' = [ops EXCEPT ![o] = Marked(ops[o], "processing", TRUE)]
    /\ UNCHANGED <<opCount, rows, gl, worker, read, reached, deleted, late, budget>>

Gone(g) == [st |-> "gone", val |-> g.val, ver |-> g.ver]

\* What the call does to GitLab, and to which issue.  An update may restore the team
\* label of an issue that lost it; one addressed to a deleted issue changes nothing.
Effect(o, i) ==
    \/ /\ ops[o].kind = "create"
       /\ gl[i].st = "unborn"
       /\ gl' = [gl EXCEPT ![i] = [st |-> "live", val |-> o, ver |-> 1]]
    \/ /\ ops[o].kind = "update"
       /\ gl[i].st \in {"live", "offboard"}
       /\ \E st \in {gl[i].st, "live"} :
            gl' = [gl EXCEPT ![i] = [st |-> st, val |-> o, ver |-> gl[i].ver + 1]]
    \/ /\ ops[o].kind = "delete"
       /\ gl' = [gl EXCEPT ![i] = Gone(gl[i])]

Target(w) == IF ops[worker[w].op].kind = "create" THEN Issues ELSE {worker[w].iid}

Failing(k) == [pc |-> "failing", op |-> k.op, iid |-> k.iid, ans |-> NoAnswer]
Answered(k, a) == [pc |-> "answered", op |-> k.op, iid |-> k.iid, ans |-> a]

\* The call succeeds; a deletion of an issue that is already gone counts as success.
CallGitLab(w) ==
    /\ worker[w].pc = "calling"
    /\ \E i \in Target(w) :
        /\ Effect(worker[w].op, i)
        /\ worker' = [worker EXCEPT ![w] = Answered(worker[w], Saw(i)')]
    /\ reached' = reached \cup {worker[w].op}
    /\ UNCHANGED <<ops, opCount, rows, read, deleted, late, budget>>

\* The call took effect, but its answer was lost or could not be mapped to a lane.
CallLosesAnswer(w) ==
    /\ budget.fault > 0
    /\ worker[w].pc = "calling"
    /\ \E i \in Target(w) : Effect(worker[w].op, i)
    /\ reached' = reached \cup {worker[w].op}
    /\ worker' = [worker EXCEPT ![w] = Failing(worker[w])]
    /\ budget' = [budget EXCEPT !.fault = @ - 1]
    /\ UNCHANGED <<ops, opCount, rows, read, deleted, late>>

\* Mutant of CallRejected: a deletion takes any refusal for "already gone".
CallRejectedButDeleted(w) ==
    /\ budget.fault > 0
    /\ worker[w].pc = "calling"
    /\ worker' = [worker EXCEPT ![w] =
                    IF ops[worker[w].op].kind = "delete"
                    THEN Answered(worker[w], Saw(worker[w].iid)) ELSE Failing(worker[w])]
    /\ budget' = [budget EXCEPT !.fault = @ - 1]
    /\ UNCHANGED <<ops, opCount, rows, gl, read, reached, deleted, late>>

\* GitLab refused or could not be reached, the actor has no credential, or the
\* card's team or lane is unknown.
CallRejected(w) ==
    /\ budget.fault > 0
    /\ worker[w].pc = "calling"
    /\ worker' = [worker EXCEPT ![w] = Failing(worker[w])]
    /\ budget' = [budget EXCEPT !.fault = @ - 1]
    /\ UNCHANGED <<ops, opCount, rows, gl, read, reached, deleted, late>>

\* Mutant of CallFindsNothing: an edit takes "not found" for success, as a deletion does.
CallFindsNothingToEdit(w) ==
    /\ worker[w].pc = "calling"
    /\ ops[worker[w].op].kind = "update"
    /\ gl[worker[w].iid].st \in {"gone", "unborn"}
    /\ worker' = [worker EXCEPT ![w] = Answered(worker[w], Saw(worker[w].iid))]
    /\ UNCHANGED <<ops, opCount, rows, gl, read, reached, deleted, late, budget>>

\* An edit of an issue that was deleted in GitLab always fails, and so does a create
\* once the bound MaxIssues is used up.
CallFindsNothing(w) ==
    /\ worker[w].pc = "calling"
    /\ \/ /\ ops[worker[w].op].kind = "update"
          /\ gl[worker[w].iid].st \in {"gone", "unborn"}
       \/ /\ ops[worker[w].op].kind = "create"
          /\ \A i \in Issues : gl[i].st # "unborn"
    /\ worker' = [worker EXCEPT ![w] = Failing(worker[w])]
    /\ UNCHANGED <<ops, opCount, rows, gl, read, reached, deleted, late, budget>>

\* The instance stops, or the transaction that would end the attempt cannot commit.
WorkerCrash(w) ==
    /\ budget.fault > 0
    /\ worker[w].pc # "idle"
    /\ worker' = [worker EXCEPT ![w] = Idle]
    /\ budget' = [budget EXCEPT !.fault = @ - 1]
    /\ UNCHANGED <<ops, opCount, rows, gl, read, reached, deleted, late>>

\* Mutant of Settled: the sync state is settled whoever is current.
SettledBlindly(r, o, sync, ver) ==
    [sync |-> sync, ptr |-> r.ptr, val |-> r.val, ver |-> ver]

\* The attempt's own end on the card: the sync state is settled only while the
\* operation is still the card's current one; ver is the answer's, whoever is current.
Settled(r, o, sync, ver) ==
    IF r.ptr = o
    THEN [sync |-> sync, ptr |-> IF sync = "synced" THEN NoOp ELSE o,
          val |-> r.val, ver |-> ver]
    ELSE [sync |-> r.sync, ptr |-> r.ptr, val |-> r.val, ver |-> ver]

\* Two rows would share GitLab's IID if the temporary key were replaced now.
KeyTaken(w) ==
    LET j == worker[w].ans.iid IN
    j # worker[w].iid /\ rows[j].sync \in {"pending", "failed"}

\* The answer to a create or an edit is committed: a create takes over GitLab's IID
\* (replacing a synced row a reader inserted under it), the operation is marked synced
\* and the canonical issue is merged by the readers' rules.
CompleteOperation(w) ==
    LET o == worker[w].op
        i == worker[w].iid
        a == worker[w].ans
        j == a.iid
        r == Merged(Settled(rows[i], o, "synced", a.ver), a)
        f == [ops EXCEPT ![o] = Marked(ops[o], "synced", FALSE)]
        g == IF i = j THEN f ELSE Rekey(Rekey(f, j, NoIid), i, j)
    IN
    /\ worker[w].pc = "answered"
    /\ ops[o].kind # "delete"
    /\ Present(i)
    /\ ~KeyTaken(w)
    /\ rows' = [rows EXCEPT ![i] = NoRow, ![j] = r]
    /\ ops' = IF r = NoRow THEN Rekey(g, j, NoIid) ELSE g
    /\ worker' = [worker EXCEPT ![w] = Idle]
    /\ UNCHANGED <<opCount, gl, read, reached, deleted, late, budget>>

\* The row is deleted only while this deletion is its current operation.
CompleteDeleteOperation(w) ==
    LET o == worker[w].op
        i == worker[w].iid
    IN
    /\ worker[w].pc = "answered"
    /\ ops[o].kind = "delete"
    /\ Present(i) /\ rows[i].ptr = o
    /\ rows' = [rows EXCEPT ![i] = NoRow]
    /\ ops' = Rekey([ops EXCEPT ![o] = Marked(ops[o], "synced", FALSE)], i, NoIid)
    /\ deleted' = deleted \cup {i}
    /\ worker' = [worker EXCEPT ![w] = Idle]
    /\ UNCHANGED <<opCount, gl, read, reached, late, budget>>

\* Mutant of FailedRow: only a failed create is shown on its card.
FailedRowOfCreate(r, o) ==
    IF ops[o].kind = "create"
    THEN [sync |-> "failed", ptr |-> o, val |-> r.val, ver |-> r.ver]
    ELSE r

\* A failed create takes its card back even from a newer edit; any other failure
\* shows only while its operation is still the card's current one.
FailedRow(r, o) ==
    IF ops[o].kind = "create"
    THEN [sync |-> "failed", ptr |-> o, val |-> r.val, ver |-> r.ver]
    ELSE Settled(r, o, "failed", r.ver)

FailOperation(w) ==
    LET o == worker[w].op
        i == worker[w].iid
    IN
    /\ worker[w].pc = "failing"
    /\ Present(i)
    /\ ops' = [ops EXCEPT ![o] = Marked(ops[o], "failed", FALSE)]
    /\ rows' = [rows EXCEPT ![i] = FailedRow(@, o)]
    /\ worker' = [worker EXCEPT ![w] = Idle]
    /\ UNCHANGED <<opCount, gl, read, reached, deleted, late, budget>>

\* The final transaction finds no row to settle, or a taken key, and rolls back: the
\* operation stays in processing until its lease lapses.
RollBack(w) ==
    LET o == worker[w].op
        i == worker[w].iid
    IN
    /\ \/ worker[w].pc = "failing" /\ ~Present(i)
       \/ /\ worker[w].pc = "answered"
          /\ IF ops[o].kind = "delete" THEN ~(Present(i) /\ rows[i].ptr = o)
             ELSE ~Present(i) \/ KeyTaken(w)
    /\ worker' = [worker EXCEPT ![w] = Idle]
    /\ UNCHANGED <<ops, opCount, rows, gl, read, reached, deleted, late, budget>>

-----------------------------------------------------------------------------
(* The webhook reader, and GitLab users who do not use the board.          *)

\* reconcileWebhookIssue asks GitLab for one issue ...
ReadIssue(i) ==
    /\ read.iid = NoIid
    /\ gl[i].st # "unborn"
    /\ read' = Saw(i)
    /\ UNCHANGED <<ops, opCount, rows, gl, worker, reached, deleted, late, budget>>

\* ... and merges the answer later, however much has happened since.
ReconcileIssue ==
    LET i == read.iid
        r == Merged(rows[i], read)
    IN
    /\ i # NoIid
    /\ rows' = [rows EXCEPT ![i] = r]
    /\ ops' = IF r = NoRow THEN Rekey(ops, i, NoIid) ELSE ops
    /\ read' = NoAnswer
    /\ UNCHANGED <<opCount, gl, worker, reached, deleted, late, budget>>

ExternalChange(i) ==
    /\ budget.ext > 0
    /\ gl[i].st \in {"live", "offboard"}
    /\ \/ \E st \in {"live", "offboard"} :
             gl' = [gl EXCEPT ![i] = [st |-> st, val |-> 0, ver |-> gl[i].ver + 1]]
       \/ gl' = [gl EXCEPT ![i] = Gone(gl[i])]
    /\ budget' = [budget EXCEPT !.ext = @ - 1]
    /\ UNCHANGED <<ops, opCount, rows, worker, read, reached, deleted, late>>

-----------------------------------------------------------------------------
Mutation == CreateCard \/ \E i \in Iids : UpdateCard(i) \/ DeleteCard(i)
Retry    == \E o \in OpIds : RetryOperation(o)
Reader   == ReconcileIssue \/ \E i \in Issues : ReadIssue(i)
External == \E i \in Issues : ExternalChange(i)
Fault(w) == CallLosesAnswer(w) \/ CallRejected(w) \/ WorkerCrash(w)
Advance(w) ==
    \/ ClaimOperation(w) \/ CallGitLab(w) \/ CallFindsNothing(w)
    \/ CompleteOperation(w) \/ CompleteDeleteOperation(w) \/ FailOperation(w)
    \/ RollBack(w)

Next ==
    \/ Mutation \/ Retry \/ Reader \/ External
    \/ \E w \in Workers : Advance(w) \/ Fault(w)
    \/ \E o \in OpIds : LeaseLapses(o)

Spec == Init /\ [][Next]_vars

\* Workers poll forever and time passes; nobody is obliged to press a button, and
\* GitLab is allowed to fail as long as the faults last.
Fairness ==
    /\ \A w \in Workers : WF_vars(Advance(w))
    /\ \A o \in OpIds : WF_vars(LeaseLapses(o))

FairSpec == Spec /\ Fairness

-----------------------------------------------------------------------------
(* Safety.                                                                 *)

\* Operations name a cached row or none at all (the foreign key's promise).
OpsNameRows ==
    \A o \in OpIds : ops[o].iid # NoIid => Present(ops[o].iid)

Truthful(i) ==
    LET r == rows[i] IN
    /\ r.sync \in {"absent", "synced"} => r.ptr = NoOp
    /\ r.sync \in {"pending", "failed"} => (r.ptr # NoOp /\ ops[r.ptr].iid = i)
    /\ r.sync = "pending" => Unfinished(r.ptr)
    /\ r.sync = "failed" => ops[r.ptr].state = "failed"

\* The sync chip of a card never lies: a synced card has no current operation, a
\* pending card's current operation is its own and still in the queue, a failed
\* card's is its own and failed.  Three tables of decisions (mutations, worker
\* endings, merges) and two rows per transaction have to agree for this.
ChipTruth == \A i \in Iids : Truthful(i)

\* An operation is reported synced only if one of its attempts took effect in GitLab,
\* whatever was lost, repeated or overtaken on the way.
SyncedReached ==
    \A o \in OpIds : ops[o].state = "synced" => o \in reached

\* A card the board removed for a completed deletion is gone from GitLab too.
DeletedIsGone ==
    \A i \in deleted : gl[i].st = "gone"

\* The inductive invariant.  Numbering: ids above opCount are unused.  CreateKeys and
\* TempRows: until a create is synced it names its own temporary card or nothing, and a
\* temporary card is always that of its create.  WorkerInv: what a worker remembers of
\* its claim; the operation may meanwhile have been finished by another worker or have
\* lost its card, but it never names a different one.
Numbering == \A o \in OpIds : o > opCount => ops[o].iid = NoIid

CreateKeys ==
    \A o \in OpIds : (ops[o].kind = "create" /\ ops[o].state # "synced")
                       => ops[o].iid \in {-o, NoIid}

TempRows ==
    \A o \in OpIds : Present(-o) => (ops[o].kind = "create" /\ ops[o].iid = -o)

Claimed(k) ==
    /\ k.op \in 1..opCount
    /\ ops[k.op].kind = "create" => (k.iid = -k.op)
    /\ ops[k.op].kind # "create" =>
         (k.iid \in Issues /\ ops[k.op].iid \in {k.iid, NoIid})
Told(k) ==
    /\ k.op \in reached
    /\ k.ans.iid \in Issues
    /\ ops[k.op].kind # "create" => k.ans.iid = k.iid
    /\ ops[k.op].kind = "delete" => gl[k.iid].st = "gone"
WorkerFacts(w) ==
    /\ worker[w].pc # "idle" => Claimed(worker[w])
    /\ worker[w].pc = "answered" => Told(worker[w])
WorkerInv == \A w \in Workers : WorkerFacts(w)

IInv == /\ TypeOK /\ OpsNameRows /\ ChipTruth /\ Numbering /\ CreateKeys
        /\ TempRows /\ WorkerInv /\ SyncedReached /\ DeletedIsGone

\* While a card waits for an edit or shows its failure, it shows the newest edit any
\* user made: no merge and no other operation's answer has replaced it.
Newest(i) == {o \in OpIds : o <= opCount /\ ops[o].iid = i /\ ops[o].kind # "delete"}
IntentShown ==
    \A i \in Iids :
        (/\ rows[i].sync \in {"pending", "failed"}
         /\ ops[rows[i].ptr].kind # "delete")
        => /\ rows[i].val \in Newest(i)
           /\ \A o \in Newest(i) : o <= rows[i].val

\* The operation of a card that was stored last cannot fail behind a card that looks
\* healthy.  (Of a card outside InOrder an operation stored before may end after it; when
\* that one fails the card shows nothing.)
HiddenFailure(o) ==
    /\ o <= opCount
    /\ ops[o].state = "failed"
    /\ ops[o].iid # NoIid
    /\ \A p \in OpIds : p > o => ops[p].iid # ops[o].iid
    /\ ~(rows[ops[o].iid].sync = "failed" /\ rows[ops[o].iid].ptr = o)
FailureIsVisible == \A o \in OpIds : ~HiddenFailure(o)

\* The same for the cards that no create operation brought in.
FailureIsVisibleOnIssues ==
    \A o \in OpIds : ops[o].iid \in Known => ~HiddenFailure(o)

\* The cards that no create operation brought in, and whose requests were stored in the
\* order of their stamps as far as they were in the queue together.
InOrder == Known \ late

\* Two workers never carry out operations of one card at the same time (of a card in
\* InOrder, and as long as no worker outlasts its lease).
OneWorkerPerCard ==
    \A w1, w2 \in Workers :
        (w1 # w2 /\ worker[w1].pc # "idle" /\ worker[w1].iid \in InOrder)
        => worker[w1].iid # worker[w2].iid

\* While a card stays cached, the GitLab version it is based on never goes back, except
\* in the step in which a created card takes its IID over from a reader's copy.
TakenOver(i) ==
    \E o \in OpIds : ops[o].kind = "create" /\ ops[o].iid # i /\ ops'[o].iid = i
NeverGoesBack(i) ==
    (Present(i) /\ Present(i)' /\ ~TakenOver(i)) => rows'[i].ver >= rows[i].ver
VersionMonotone == [][\A i \in Issues : NeverGoesBack(i)]_vars

\* The same for the cards in InOrder.
VersionMonotoneOnIssues == [][\A i \in InOrder : NeverGoesBack(i)]_vars

\* Once the board has completed a deletion, no late answer brings the card back.
DeletedStaysDeleted ==
    \A i \in deleted : ~Present(i)

(* Liveness, under FairSpec.                                               *)

\* A card that waits for its operation stops waiting.
CardSettles(i) == rows[i].sync = "pending" ~> rows[i].sync # "pending"
PendingIssueSettles == \A i \in Issues : CardSettles(i)
PendingCardSettles  == \A i \in Iids : CardSettles(i)

\* A queued deletion ends: the row goes, or the failure gives the card back.
DeletionQueued(o) == ops[o].kind = "delete" /\ ops[o].iid # NoIid /\ Unfinished(o)
DeletionEnds == \A o \in OpIds : DeletionQueued(o) ~> ~DeletionQueued(o)

=============================================================================
