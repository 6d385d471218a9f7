------------------------------ MODULE SyncLog ------------------------------
(***************************************************************************)
(* The change log of SITCON Board: every transaction that changes what a   *)
(* browser shows ends by raising the revision and recording what it        *)
(* changed (sync_actions); clients replay the log from their checkpoint,   *)
(* over an event stream or page by page, and load a whole bootstrap when   *)
(* the log cannot bring them up to date.                                   *)
(*                                                                         *)
(* Every action is one SQL statement outside a transaction, one step of a  *)
(* writing transaction, or a step of one server instance's memory.  What   *)
(* is recorded of a key is its whole row, so the content of a key is the   *)
(* revision of the transaction that wrote it; a deletion is a content like *)
(* any other.  A user's own key stands for the preferences of that user,   *)
(* which are recorded for that audience only.                              *)
(***************************************************************************)
EXTENDS Integers, FiniteSets

CONSTANTS
    MaxRev,          \* bound: transactions that commit
    Public,          \* keys every client sees: cards, lists, teams, ...
    Users,           \* users; each is also the key of its preferences
    Streams,         \* users with a browser on the event stream
    Pullers,         \* users with a client that pages through GET /sync
    Writers,         \* connections that run writing transactions
    Changes,         \* the sets of keys a transaction may change
    Budget,          \* syncCatchUpBudget
    Limits,          \* page limits the pulling clients ask for
    MaxPrunes,       \* bound: runs of Prune
    MaxDrops,        \* bound: lost streams and lost LISTEN connections
    PruneUnderReader,\* TRUE: Prune may remove what a running read still needs
    QuietReconnect   \* TRUE: a listener may reconnect without a broadcast

Clients  == Streams \cup Pullers
Keys     == Public \cup Users
Ids      == 1..MaxRev
Contents == 0..MaxRev
Unread   == -1
NoWriter == "none"
Sees     == [u \in Clients |-> Public \cup {u}]

ASSUME ConstantsAssumption ==
    /\ MaxRev \in Nat /\ Budget \in Nat \ {0}
    /\ MaxPrunes \in Nat /\ MaxDrops \in Nat
    /\ Streams \subseteq Users /\ Pullers \subseteq Users
    /\ Streams \cap Pullers = {} /\ Public \cap Users = {}
    /\ Limits \subseteq 1..Budget /\ Changes \subseteq SUBSET Keys
    /\ NoWriter \notin Writers
    /\ PruneUnderReader \in BOOLEAN /\ QuietReconnect \in BOOLEAN

VARIABLES
    txn,      \* the transaction each writer runs
    lock,     \* the writer that holds the row of realtime_state
    revision, \* realtime_state.revision, as committed
    floor,    \* realtime_state.action_floor
    log,      \* sync_actions: the keys recorded under each id
    data,     \* the committed rows of all other tables
    notified, \* a notification is on its way to the listener
    listening,\* the listener's connection is up
    wake,     \* the one-slot channel of each subscribed stream is full
    req,      \* what the server is doing for each client
    screen,   \* what each client shows: its checkpoint and its rows
    wrote,    \* history: the keys each revision changed
    left      \* what is left of MaxPrunes and MaxDrops

server == <<txn, lock, revision, floor, log, data, wrote>>
client == <<req, screen>>
feed   == <<notified, listening, wake>>
vars   == <<txn, lock, revision, floor, log, data, notified, listening, wake,
            req, screen, wrote, left>>

\* Reading names the five statements of SyncActions, in order.
Reading == {"sampling", "counting", "bounding", "checking", "paging"}
Steps   == Reading \cup {"idle", "waiting", "reset", "booting"}

Txn    == [pc : {"none", "writing", "flushed"}, keys : SUBSET Keys, id : Contents]
Req    == [pc : Steps, bound : Contents, edge : Contents, more : BOOLEAN,
           limit : 1..Budget, got : [Keys -> Contents \cup {Unread}]]
Screen == [rev : Contents, view : [Keys -> Contents]]

NoTxn   == [pc |-> "none", keys |-> {}, id |-> 0]
Nothing == [k \in Keys |-> Unread]

\* A request for changes, as far as it has got, and one for a bootstrap.
Ask(pc, bound, edge, more, limit) ==
    [pc |-> pc, bound |-> bound, edge |-> edge, more |-> more, limit |-> limit,
     got |-> Nothing]
Load(bound, got) ==
    [pc |-> "booting", bound |-> bound, edge |-> 0, more |-> FALSE,
     limit |-> Budget, got |-> got]
At(pc)        == Ask(pc, 0, 0, FALSE, Budget)
Sample(limit) == Ask("sampling", 0, 0, FALSE, limit)

\* The browsers have loaded a bootstrap of revision 0.
Init ==
    /\ txn = [w \in Writers |-> NoTxn]
    /\ lock = NoWriter
    /\ revision = 0 /\ floor = 0
    /\ log = [n \in Ids |-> {}]
    /\ data = [k \in Keys |-> 0]
    /\ notified = FALSE /\ listening = TRUE
    /\ wake = [u \in Clients |-> FALSE]
    /\ req = [u \in Clients |-> At("idle")]
    /\ screen = [u \in Clients |-> [rev |-> 0, view |-> [k \in Keys |-> 0]]]
    /\ wrote = [n \in Ids |-> {}]
    /\ left = [prunes |-> MaxPrunes, drops |-> MaxDrops]

-----------------------------------------------------------------------------
(* Writers *)

\* A transaction changes rows, which it keeps locked until it ends.
Write(w, K) ==
    /\ txn[w].pc = "none"
    /\ \A v \in Writers : txn[v].keys \cap K = {}
    /\ txn' = [txn EXCEPT ![w] = [pc |-> "writing", keys |-> K, id |-> 0]]
    /\ UNCHANGED <<lock, revision, floor, log, data, wrote, client, feed, left>>

\* Mutant of MayLock: ids handed out without the row lock, as a sequence would.
MayLockAnyway == TRUE

\* The UPDATE of realtime_state waits until no transaction holds its row.
MayLock == lock = NoWriter

\* Its last statements raise the revision, which locks realtime_state, and
\* record what it changed under the new number.
Flush(w) ==
    /\ txn[w].pc = "writing"
    /\ MayLock
    /\ revision < MaxRev
    /\ lock' = w
    /\ txn' = [txn EXCEPT ![w] =
                  [pc |-> "flushed", keys |-> txn[w].keys, id |-> revision + 1]]
    /\ UNCHANGED <<revision, floor, log, data, wrote, client, feed, left>>

Commit(w) ==
    /\ txn[w].pc = "flushed"
    /\ LET id == txn[w].id
           K  == txn[w].keys
       IN  /\ revision' = id
           /\ log' = [log EXCEPT ![id] = K]
           /\ data' = [k \in Keys |-> IF k \in K THEN id ELSE data[k]]
           /\ wrote' = [wrote EXCEPT ![id] = K]
    /\ notified' = listening
    /\ txn' = [txn EXCEPT ![w] = NoTxn]
    /\ lock' = NoWriter
    /\ UNCHANGED <<floor, listening, wake, client, left>>

RollBack(w) ==
    /\ txn[w].pc # "none"
    /\ txn' = [txn EXCEPT ![w] = NoTxn]
    /\ lock' = IF lock = w THEN NoWriter ELSE lock
    /\ UNCHANGED <<revision, floor, log, data, wrote, client, feed, left>>

\* GREATEST(action_floor, max of the removed ids)
IsFloor(S, top) ==
    top \in S \cup {floor} /\ \A n \in S \cup {floor} : n <= top

\* The trim, every two minutes, removes the actions of some transactions, not always the
\* oldest: created_at is the clock of whichever instance wrote them.
Prune(S) ==
    /\ left.prunes > 0
    /\ MayLock
    /\ S # {} /\ \A n \in S : log[n] # {}
    /\ \/ PruneUnderReader
       \/ \A u \in Clients : req[u].pc \in Reading =>
              \A n \in S : n <= screen[u].rev
    /\ log' = [n \in Ids |-> IF n \in S THEN {} ELSE log[n]]
    /\ \E top \in Contents : IsFloor(S, top) /\ floor' = top
    /\ left' = [prunes |-> left.prunes - 1, drops |-> left.drops]
    /\ UNCHANGED <<txn, lock, revision, data, wrote, client, feed>>

-----------------------------------------------------------------------------
(* Notifications of one server instance *)

\* Mutant of Subscribed: a stream that is reading is not told.
SubscribedWhenWaiting(u) == u \in Streams /\ req[u].pc = "waiting"

Subscribed(u) == u \in Streams /\ req[u].pc \in Reading \cup {"waiting"}

WakeAll == wake' = [u \in Clients |-> Subscribed(u)]

\* A notification fills every subscriber's slot; a full slot stays full.
Broadcast ==
    /\ notified
    /\ notified' = FALSE
    /\ WakeAll
    /\ UNCHANGED <<server, client, listening, left>>

ListenerDrops ==
    /\ listening /\ left.drops > 0
    /\ listening' = FALSE
    /\ notified' = FALSE
    /\ left' = [prunes |-> left.prunes, drops |-> left.drops - 1]
    /\ UNCHANGED <<server, client, wake>>

\* After LISTEN the listener broadcasts, unless it cannot read the revision.
ListenerReconnects ==
    /\ ~listening
    /\ listening' = TRUE
    /\ \/ WakeAll
       \/ QuietReconnect /\ UNCHANGED wake
    /\ UNCHANGED <<server, client, notified, left>>

-----------------------------------------------------------------------------
(* Replaying the log: SyncActions, statement by statement *)

\* The rows of sync_actions after revision a and up to b that u may see.
Rows(u, a, b) ==
    {x \in Ids \X Keys :
        a < x[1] /\ x[1] <= b /\ x[2] \in log[x[1]] \cap Sees[u]}

\* e is the id of the l-th of these rows, or b if there are fewer.
IsEdge(u, l, a, b, e) ==
    IF Cardinality(Rows(u, a, b)) < l
    THEN e = b
    ELSE /\ Cardinality(Rows(u, a, e)) >= l
         /\ Cardinality(Rows(u, a, e - 1)) < l

\* view is what u shows once the rows after a and up to b are applied.
IsApplied(u, a, b, view) ==
    \A k \in Keys :
        LET ids == {n \in Ids : <<n, k>> \in Rows(u, a, b)}
        IN  IF ids = {} THEN view[k] = screen[u].view[k]
                        ELSE view[k] \in ids /\ \A n \in ids : n <= view[k]

\* The browser opens the stream: it subscribes before it reads anything.
Connect(u) ==
    /\ u \in Streams /\ req[u].pc = "idle"
    /\ wake' = [wake EXCEPT ![u] = FALSE]
    /\ req' = [req EXCEPT ![u] = Sample(Budget)]
    /\ UNCHANGED <<server, screen, notified, listening, left>>

Wake(u) ==
    /\ req[u].pc = "waiting" /\ wake[u]
    /\ wake' = [wake EXCEPT ![u] = FALSE]
    /\ req' = [req EXCEPT ![u] = Sample(Budget)]
    /\ UNCHANGED <<server, screen, notified, listening, left>>

\* Mutant of Heartbeat: it keeps the connection open and does not read the log.
HeartbeatOnly(u) ==
    /\ req[u].pc = "waiting"
    /\ UNCHANGED vars

Heartbeat(u) ==
    /\ req[u].pc = "waiting"
    /\ req' = [req EXCEPT ![u] = Sample(Budget)]
    /\ UNCHANGED <<server, screen, feed, left>>

\* A lost connection, and with it any frame that was on its way.
Disconnect(u) ==
    /\ u \in Streams /\ req[u].pc \in Reading \cup {"waiting", "reset"}
    /\ left.drops > 0
    /\ req' = [req EXCEPT ![u] = At("idle")]
    /\ left' = [prunes |-> left.prunes, drops |-> left.drops - 1]
    /\ UNCHANGED <<server, screen, feed>>

Pull(u, l) ==
    /\ u \in Pullers /\ req[u].pc = "idle"
    /\ req' = [req EXCEPT ![u] = Sample(l)]
    /\ UNCHANGED <<server, screen, feed, left>>

SampleBounds(u) ==
    /\ req[u].pc = "sampling"
    /\ req' = [req EXCEPT ![u] =
          IF screen[u].rev > revision \/ screen[u].rev < floor
          THEN At("reset")
          ELSE Ask("counting", revision, 0, FALSE, req[u].limit)]
    /\ UNCHANGED <<server, screen, feed, left>>

CountBacklog(u) ==
    /\ req[u].pc = "counting"
    /\ req' = [req EXCEPT ![u] =
          IF Cardinality(Rows(u, screen[u].rev, req[u].bound)) > Budget
          THEN At("reset")
          ELSE Ask("bounding", req[u].bound, 0, FALSE, req[u].limit)]
    /\ UNCHANGED <<server, screen, feed, left>>

FindBoundary(u) ==
    /\ req[u].pc = "bounding"
    /\ \E e \in screen[u].rev..req[u].bound :
          /\ IsEdge(u, req[u].limit, screen[u].rev, req[u].bound, e)
          /\ req' = [req EXCEPT ![u] =
                Ask("checking", req[u].bound, e, FALSE, req[u].limit)]
    /\ UNCHANGED <<server, screen, feed, left>>

CheckMore(u) ==
    /\ req[u].pc = "checking"
    /\ req' = [req EXCEPT ![u] =
          Ask("paging", req[u].bound, req[u].edge,
              Rows(u, req[u].edge, req[u].bound) # {}, req[u].limit)]
    /\ UNCHANGED <<server, screen, feed, left>>

\* Without visible rows beyond the page the client may skip to the revision.
Checkpoint(r) == IF r.more THEN r.edge ELSE r.bound

AfterPage(u) ==
    IF req[u].more THEN Sample(req[u].limit)
    ELSE IF u \in Streams THEN At("waiting") ELSE At("idle")

\* The page and its checkpoint reach the client, which asks for the next
\* page, waits for a wake-up, or is done.
ReadPage(u) ==
    /\ req[u].pc = "paging"
    /\ \E view \in [Keys -> Contents] :
          /\ IsApplied(u, screen[u].rev, req[u].edge, view)
          /\ screen' = [screen EXCEPT ![u] =
                           [rev |-> Checkpoint(req[u]), view |-> view]]
    /\ req' = [req EXCEPT ![u] = AfterPage(u)]
    /\ UNCHANGED <<server, feed, left>>

-----------------------------------------------------------------------------
(* Loading a bootstrap: several reads between two reads of the revision *)

BootBegin(u) ==
    /\ req[u].pc = "reset"
    /\ req' = [req EXCEPT ![u] = Load(revision, Nothing)]
    /\ UNCHANGED <<server, screen, feed, left>>

\* The code reads the parts in a fixed order; any order is allowed here.
BootRead(u, k) ==
    /\ req[u].pc = "booting"
    /\ k \in Sees[u] /\ req[u].got[k] = Unread
    /\ req' = [req EXCEPT ![u] =
                  Load(req[u].bound, [req[u].got EXCEPT ![k] = data[k]])]
    /\ UNCHANGED <<server, screen, feed, left>>

AllRead(u) == \A k \in Sees[u] : req[u].got[k] # Unread

\* Mutant of Unmoved: the second look at the revision is left out.
UnmovedSurely(u) == TRUE

\* before == after
Unmoved(u) == revision = req[u].bound

Shown(u, got) == [k \in Keys |-> IF k \in Sees[u] THEN got[k] ELSE 0]

BootEnd(u) ==
    /\ req[u].pc = "booting"
    /\ AllRead(u) /\ Unmoved(u)
    /\ screen' = [screen EXCEPT ![u] =
                     [rev |-> revision, view |-> Shown(u, req[u].got)]]
    /\ req' = [req EXCEPT ![u] = At("idle")]
    /\ UNCHANGED <<server, feed, left>>

\* The revision has moved: the server reads again, up to three times, and
\* then the client asks again, which comes to the same.
BootAgain(u) ==
    /\ req[u].pc = "booting"
    /\ AllRead(u) /\ ~Unmoved(u)
    /\ req' = [req EXCEPT ![u] = At("reset")]
    /\ UNCHANGED <<server, screen, feed, left>>

-----------------------------------------------------------------------------
ClientStep(u) ==
    \/ Connect(u) \/ Wake(u) \/ Heartbeat(u)
    \/ SampleBounds(u) \/ CountBacklog(u) \/ FindBoundary(u)
    \/ CheckMore(u) \/ ReadPage(u)
    \/ BootBegin(u) \/ (\E k \in Keys : BootRead(u, k))
    \/ BootEnd(u) \/ BootAgain(u)

Next ==
    \/ \E w \in Writers :
          \/ \E K \in Changes : Write(w, K)
          \/ Flush(w) \/ Commit(w) \/ RollBack(w)
    \/ \E S \in SUBSET Ids : Prune(S)
    \/ Broadcast \/ ListenerDrops \/ ListenerReconnects
    \/ \E u \in Clients :
          \/ ClientStep(u) \/ Disconnect(u)
          \/ \E l \in Limits : Pull(u, l)

Spec == Init /\ [][Next]_vars

\* A connected stream reads whenever it can and wakes at every heartbeat, a
\* browser reconnects, and the listener reconnects after a second.
FairSpec ==
    /\ Spec
    /\ \A u \in Streams : WF_vars(ClientStep(u))
    /\ WF_vars(Broadcast) /\ WF_vars(ListenerReconnects)

-----------------------------------------------------------------------------
(* Properties *)

TypeOK ==
    /\ txn \in [Writers -> Txn]
    /\ lock \in Writers \cup {NoWriter}
    /\ revision \in Contents /\ floor \in Contents
    /\ log \in [Ids -> SUBSET Keys] /\ wrote \in [Ids -> SUBSET Keys]
    /\ data \in [Keys -> Contents]
    /\ notified \in BOOLEAN /\ listening \in BOOLEAN
    /\ wake \in [Clients -> BOOLEAN]
    /\ req \in [Clients -> Req]
    /\ screen \in [Clients -> Screen]
    /\ left \in [prunes : 0..MaxPrunes, drops : 0..MaxDrops]

History == INSTANCE BoardHistory

\* What a client shows is the board as of its checkpoint: no action that it
\* may see was skipped or overtaken on the way there, whether it came over the
\* stream, page by page or in a bootstrap (SyncActions, applySyncActions).
ViewIsPast == \A u \in Clients : History!IsBoard(u, screen[u].rev, screen[u].view)

\* Clients show boards of the past and move forward only; nothing recorded for
\* another user's eyes ever reaches them: the log implements BoardHistory.
ImplementsHistory == History!Spec

\* A stream that waits has read everything, or something will wake it without
\* its heartbeat: a wake-up may be dropped, but never the last one
\* (broadcastRevision, RunRevisionListener, syncEvents).
NoLostWakeUp ==
    \A u \in Streams :
        req[u].pc = "waiting" /\ listening /\ screen[u].rev < revision
            => wake[u] \/ notified

\* The log names everything since the floor.
LogComplete ==
    /\ floor <= revision
    /\ \A n \in Ids :
          /\ n > floor => log[n] = wrote[n]
          /\ n > revision => wrote[n] = {}

\* The tables are the sum of what the committed transactions wrote.
DataIsCurrent == \A k \in Keys : History!IsContent(k, revision, data[k])

\* Whoever holds the row of realtime_state, and nobody else, has the next id.
LockHolds ==
    \A w \in Writers :
        /\ txn[w].pc = "flushed" <=> lock = w
        /\ txn[w].pc = "flushed" => txn[w].id = revision + 1

\* What a request has sampled stays usable until its page is read.
ReaderInv(u) ==
    LET r == req[u]
    IN  /\ screen[u].rev <= revision
        /\ r.pc \in Reading \ {"sampling"} =>
              /\ screen[u].rev <= r.bound /\ r.bound <= revision
              /\ floor <= screen[u].rev
        /\ r.pc \in {"checking", "paging"} =>
              screen[u].rev <= r.edge /\ r.edge <= r.bound
        /\ r.pc = "paging" /\ ~r.more =>
              \A n \in Ids, k \in Sees[u] :
                  r.edge < n /\ n <= r.bound => k \notin wrote[n]

\* What a bootstrap has read is current as long as the revision stands.
BootInv(u) ==
    LET r == req[u]
    IN  r.pc = "booting" =>
            /\ screen[u].rev <= r.bound /\ r.bound <= revision
            /\ r.bound = revision =>
                  \A k \in Keys : r.got[k] # Unread => r.got[k] = data[k]

\* The invariant of the proof: TypeOK and ViewIsPast and what they rest on.
IInv ==
    /\ TypeOK /\ LogComplete /\ DataIsCurrent /\ LockHolds
    /\ \A u \in Clients : ReaderInv(u) /\ BootInv(u)
    /\ ViewIsPast

\* The same for NoLostWakeUp: a read that has sampled an older revision will
\* be woken too.
WakeInv ==
    /\ notified => listening
    /\ \A u \in Streams :
          /\ req[u].pc \in Reading \ {"sampling"} /\ listening
                /\ req[u].bound < revision => wake[u] \/ notified
    /\ NoLostWakeUp

\* Every committed revision reaches the browser of every stream, whatever
\* notifications, connections and old actions are lost on the way.
EventuallyShown ==
    \A u \in Streams, n \in Ids : revision >= n ~> screen[u].rev >= n

=============================================================================
