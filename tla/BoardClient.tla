---------------------------- MODULE BoardClient ----------------------------
(***************************************************************************)
(* One browser tab of SITCON Board: the bootstrap cache it shows, the      *)
(* edits it applies before the server has seen them, and the four ways in  *)
(* which the server's state reaches the cache: answers to its own          *)
(* mutations, frames of the change stream, pages of GET /sync, and whole   *)
(* bootstraps.                                                             *)
(*                                                                         *)
(* Every action is one macrotask of the tab (a click, a message, the       *)
(* continuation of a request), one commit of the server, or a fault of the *)
(* network.  The server is as far as the tab can tell: a sequence of       *)
(* boards, one per commit, so that a frame or a page is a range of commits *)
(* and a bootstrap is the number of one.  The content of a card is the     *)
(* operation that wrote it last; a commit writes at most one card.         *)
(***************************************************************************)
EXTENDS Lists

CONSTANTS
    Updates,     \* operation ids of this tab's edits of a card
    Creates,     \* operation ids of this tab's new cards
    Theirs,      \* operation ids of other users' edits and new cards
    Born,        \* what the cards of the first bootstrap contain
    Deletion,    \* the operation id of a deletion
    NoOp,        \* pendingOperationId === null
    TempsUsed,   \* the server has given out the iids -1 ... -TempsUsed before
    MaxRev,      \* bound: commits
    Page,        \* bound: commits in one frame or page
    MaxErrors,   \* bound: requests that fail although the server would serve
    MaxLoads,    \* bound: bootstraps fetched after the first
    MaxDrags,    \* bound: drags
    MaxDrops,    \* bound: lost stream connections
    MaxDeletes   \* bound: permanent deletions asked for

Ops    == Updates \cup Creates
AllOps == Ops \cup Theirs \cup {Deletion}
Revs   == 0..MaxRev
Idle   == -2     \* no bootstrap is being fetched
Asked  == -1     \* one is, and the server has not read it yet
NoIid  == 0

ASSUME ConstantsAssumption ==
    /\ MaxRev \in Nat /\ Page \in Nat \ {0} /\ TempsUsed \in Nat
    /\ MaxErrors \in Nat /\ MaxLoads \in Nat /\ MaxDrags \in Nat
    /\ MaxDrops \in Nat /\ MaxDeletes \in Nat
    /\ NoOp \notin AllOps /\ Born \notin AllOps
    \* operation ids are unique: crypto.randomUUID
    /\ Updates \cap Creates = {} /\ Deletion \notin Ops \cup Theirs
    /\ Ops \cap Theirs = {}

VARIABLES
    boards,   \* the server's board after each commit, the first one first
    home,     \* the card each accepted operation of this tab is on, or NoIid
    given,    \* the last temporary iid and the last GitLab iid given out
    touched,  \* history: the iids of the cards this tab acted on
    hidden,   \* the cards whose deletion the worker has not finished
    revision, \* bootstrap.revision, the checkpoint of the cache
    cards,    \* bootstrap.board.cards
    mine,     \* the keys of localRetries, alias inflightOperations
    post,     \* the latest request of each of this tab's operations
    nextTemp, \* nextTemporaryIid
    retrying, \* POST /operations/{id}/retry under way
    deleting, \* DELETE /cards/{iid} under way
    stream,   \* the EventSource: connected, and the last id it received
    epoch,    \* setStreamEpoch was called and the effect has not run yet
    catchUp,  \* the run of catchUpPromiseRef
    wanted,   \* catchUpRequestedRef
    poll,     \* the query function of bootstrapQuery
    reset,    \* resetPromiseRef
    dragging, \* boardDraggingRef
    missed,   \* missedWhileDraggingRef
    left      \* what is left of the bounds

server  == <<boards, home, given, hidden>>
cache   == <<revision, cards>>
edits   == <<mine, post, nextTemp, retrying, deleting>>
feed    == <<stream, epoch>>
reads   == <<catchUp, wanted, poll, reset>>
drag    == <<dragging, missed>>
vars    == <<server, touched, cache, edits, feed, reads, drag, left>>

Card    == [iid : Int, op : AllOps \cup {NoOp},
            state : {"synced", "pending", "failed"}, val : AllOps \cup {Born}]
CardOf(iid, op, state, val) ==
    [iid |-> iid, op |-> op, state |-> state, val |-> val]
Post    == [pc : {"idle", "sent", "answered", "failing", "done", "failed"},
            iid : Int, card : Card]
NoCard  == CardOf(NoIid, NoOp, "synced", Born)
CatchUp == [pc : {"idle", "asked", "answered", "resetting"}, since : Revs, to : Revs,
            more : BOOLEAN]
NoCatchUp == [pc |-> "idle", since |-> 0, to |-> 0, more |-> FALSE]
Asking(n) == [pc |-> "asked", since |-> n, to |-> 0, more |-> FALSE]

Rev       == Len(boards) - 1
Board(n)  == boards[n + 1]
Now       == Board(Rev)
Iids(b)   == {c.iid : c \in b}
Row(b, i) == CHOOSE c \in b : c.iid = i

\* The tab has loaded its first bootstrap, with one card, and has subscribed.
Init ==
    /\ boards = <<{CardOf(1, NoOp, "synced", Born)}>>
    /\ home = [o \in Ops |-> NoIid] /\ hidden = {} /\ touched = {}
    /\ given = [temp |-> -TempsUsed, iid |-> 1]
    /\ revision = 0 /\ cards = <<CardOf(1, NoOp, "synced", Born)>>
    /\ mine = {} /\ nextTemp = -1 /\ retrying = {} /\ deleting = {}
    /\ post = [o \in Ops |-> [pc |-> "idle", iid |-> NoIid, card |-> NoCard]]
    /\ stream = [open |-> TRUE, pos |-> 0] /\ epoch = FALSE
    /\ catchUp = NoCatchUp /\ wanted = FALSE /\ poll = Idle /\ reset = Idle
    /\ dragging = FALSE /\ missed = FALSE
    /\ left = [errors |-> MaxErrors, loads |-> MaxLoads, drags |-> MaxDrags,
               drops |-> MaxDrops, deletes |-> MaxDeletes]

Spend(what) == /\ left[what] > 0
               /\ left' = [left EXCEPT ![what] = @ - 1]

-----------------------------------------------------------------------------
(* The cache *)

\* Mutant of ShouldApply: the log wins over an edit the server has not seen.
ShouldApplyAlways(local, op) == TRUE

\* shouldApplyIncomingCard, for what comes from the change log.
ShouldApply(local, op) ==
    \/ local.op = NoOp
    \/ local.op = op
    \/ local.op \notin mine

\* shouldApplyIncomingCard, for the answer to operation op.
Completes(local, op) == local.op = op

\* What commit n recorded: the iids it deleted and the card it wrote.
Deleted(n) == Iids(Board(n - 1)) \ Iids(Board(n))
Written(n) == Board(n) \ Board(n - 1)
HasActions(n) == Deleted(n) # {} \/ Written(n) # {}

\* Mutant of CompletionRekey: completions are not recognised.
NoRekey(n) == NoIid

\* findCompletionRekeys: the temporary iid that commit n replaces, or NoIid.
CompletionRekey(n) ==
    LET gone == {i \in Deleted(n) : i < 0}
        new  == {c \in Written(n) : c.iid > 0}
    IN  IF Cardinality(gone) = 1 /\ Cardinality(new) = 1
        THEN CHOOSE i \in gone : TRUE ELSE NoIid

\* Card c takes the place at index at; another card of its iid goes.
PutInPlace(view, at, c) ==
    KeepPlaces([view EXCEPT ![at] = c],
               {j \in DOMAIN view : j = at \/ view[j].iid # c.iid})

Upsert(view, c, from) ==
    LET old  == IF from = NoIid THEN 0
                ELSE SelectInSeq(view, LAMBDA d : d.iid = from)
        same == IF c.op = NoOp THEN 0
                ELSE SelectInSeq(view, LAMBDA d : d.op = c.op /\ d.iid # c.iid)
        here == SelectInSeq(view, LAMBDA d : d.iid = c.iid)
    IN  IF old # 0 THEN PutInPlace(view, old, c)
        ELSE IF same # 0 THEN PutInPlace(view, same, c)
        ELSE IF here = 0 THEN Append(view, c)
        ELSE IF ShouldApply(view[here], c.op) THEN [view EXCEPT ![here] = c]
        ELSE view

\* applyCardAction for the actions of commit n, deletions first.
ApplyCommit(view, n) ==
    LET kept == KeepPlaces(view, {j \in DOMAIN view : \/ view[j].iid \notin Deleted(n)
                                                      \/ ~ShouldApply(view[j], NoOp)})
    IN  IF Written(n) = {} THEN kept
        ELSE Upsert(kept, CHOOSE c \in Written(n) : TRUE, CompletionRekey(n))

\* applySyncActions: a delta of the commits after lo up to the checkpoint to.
\* Those up to the revision of the cache have been seen.
ApplySyncActions(lo, to, frozen) ==
    IF frozen \/ to <= revision THEN UNCHANGED cache
    ELSE LET from == IF lo < revision THEN revision ELSE lo
             after[n \in from..to] ==
                 IF n = from THEN cards ELSE ApplyCommit(after[n - 1], n)
         IN  /\ cards' = after[to]
             /\ revision' = to

\* A bootstrap of commit n takes the place of the cache.
SetBootstrap(n) ==
    /\ revision' = n
    /\ cards' = SetToSortSeq(Board(n), LAMBDA c, d : c.iid < d.iid)

\* replaceCard and patchCard, of the cards at some places of the list
PlacesOf(iid) == {j \in DOMAIN cards : cards[j].iid = iid}
ReplaceCards(places, card) ==
    cards' = [j \in DOMAIN cards |-> IF j \in places THEN card ELSE cards[j]]
PatchCards(places, state) ==
    cards' = [j \in DOMAIN cards |-> IF j \in places THEN [cards[j] EXCEPT !.state = state] ELSE cards[j]]

-----------------------------------------------------------------------------
(* Reading the change log: requestCatchUp, resetBootstrap *)

\* requestCatchUp: one run at a time, none during a drag.
RequestCatchUp ==
    IF dragging THEN missed' = TRUE /\ UNCHANGED <<catchUp, wanted>>
    ELSE IF catchUp.pc # "idle" THEN wanted' = TRUE /\ UNCHANGED <<catchUp, missed>>
    ELSE /\ catchUp' = Asking(revision) /\ wanted' = FALSE /\ UNCHANGED missed

\* The last commit of a page: fetchSyncDelta.
PageEnd(since) == IF since + Page < Rev THEN since + Page ELSE Rev

\* The server reads the page.
CatchUpAnswered ==
    /\ catchUp.pc = "asked"
    /\ LET to == PageEnd(catchUp.since)
       IN  catchUp' = [catchUp EXCEPT !.pc = "answered", !.to = to, !.more = to < Rev]
    /\ UNCHANGED <<server, touched, cache, edits, feed, wanted, poll, reset, drag, left>>

\* Mutant of CatchUpLands: the page lands in the middle of a drag.
CatchUpLandsMidDrag ==
    /\ catchUp.pc = "answered"
    /\ ApplySyncActions(catchUp.since, catchUp.to, FALSE)
    /\ catchUp' = NoCatchUp
    /\ UNCHANGED <<server, touched, edits, feed, wanted, poll, reset, drag, left>>

\* A page lands; the loop asks for the next one, starts again if it was asked
\* to meanwhile, or ends.  During a drag it only notes that it must run again.
CatchUpLands ==
    /\ catchUp.pc = "answered"
    /\ IF dragging
       THEN /\ missed' = TRUE /\ catchUp' = NoCatchUp
            /\ UNCHANGED <<cache, wanted>>
       ELSE /\ ApplySyncActions(catchUp.since, catchUp.to, FALSE)
            /\ catchUp' = IF catchUp.more THEN Asking(catchUp.to)
                          ELSE IF wanted THEN Asking(revision') ELSE NoCatchUp
            /\ wanted' = (wanted /\ catchUp.more)
            /\ UNCHANGED missed
    /\ UNCHANGED <<server, touched, edits, feed, poll, reset, dragging, left>>

\* resetBootstrap, joined when it is already running.
ResetBootstrap == reset' = IF reset = Idle THEN Asked ELSE reset

CatchUpTooOld ==
    /\ catchUp.pc = "asked" /\ Spend("loads")
    /\ catchUp' = [catchUp EXCEPT !.pc = "resetting"]
    /\ ResetBootstrap
    /\ UNCHANGED <<server, touched, cache, edits, feed, wanted, poll, drag>>

\* Any other failure: invalidateQueries fetches a bootstrap.
CatchUpFails ==
    /\ catchUp.pc = "asked" /\ Spend("loads")
    /\ catchUp' = NoCatchUp
    /\ poll' = Asked
    /\ UNCHANGED <<server, touched, cache, edits, feed, wanted, reset, drag>>

ResetRead ==
    /\ reset = Asked
    /\ reset' = Rev
    /\ UNCHANGED <<server, touched, cache, edits, feed, catchUp, wanted, poll, drag, left>>

AfterReset == IF catchUp.pc = "resetting" THEN NoCatchUp ELSE catchUp

ResetLands ==
    /\ reset \in Revs
    /\ SetBootstrap(reset)
    /\ reset' = Idle /\ epoch' = TRUE
    /\ catchUp' = AfterReset
    /\ UNCHANGED <<server, touched, edits, stream, wanted, poll, drag, left>>

ResetFails ==
    /\ reset = Asked /\ Spend("errors")
    /\ reset' = Idle /\ poll' = Asked
    /\ catchUp' = AfterReset
    /\ UNCHANGED <<server, touched, cache, edits, feed, wanted, drag>>

\* refetchInterval while the stream is down and nothing is dragged.
PollStart ==
    /\ ~stream.open /\ ~dragging /\ poll = Idle /\ Spend("loads")
    /\ poll' = Asked
    /\ UNCHANGED <<server, touched, cache, edits, feed, catchUp, wanted, reset, drag>>

PollRead ==
    /\ poll = Asked
    /\ poll' = Rev
    /\ UNCHANGED <<server, touched, cache, edits, feed, catchUp, wanted, reset, drag, left>>

PollLands ==
    /\ poll \in Revs
    /\ SetBootstrap(poll)
    /\ poll' = Idle
    /\ UNCHANGED <<server, touched, edits, feed, catchUp, wanted, reset, drag, left>>

PollFails ==
    /\ poll = Asked /\ Spend("errors")
    /\ poll' = Idle
    /\ UNCHANGED <<server, touched, cache, edits, feed, catchUp, wanted, reset, drag>>

\* The browser comes back online or the page becomes visible.
Visible ==
    /\ Spend("drops")
    /\ RequestCatchUp
    /\ UNCHANGED <<server, touched, cache, edits, feed, poll, reset, dragging>>

-----------------------------------------------------------------------------
(* The event stream: subscribeSyncEvents and its handlers *)

\* The first commit of a frame the cache has not seen that recorded anything.
FirstUnseen(lo, to) ==
    LET unseen == {n \in (lo + 1)..to : n > revision /\ HasActions(n)}
    IN  IF unseen = {} THEN 0 ELSE Min(unseen)

\* Mutant of IsNext: a frame is applied although commits before it are missing.
IsNextAlways(n) == TRUE

\* isImmediateSuccessor(current.revision, firstUnseen.syncId)
IsNext(n) == n = revision + 1

\* handleStreamDelta for a frame of the commits after the last one received.
Deliver(to) ==
    /\ stream.open
    /\ stream.pos < to /\ to <= Rev /\ to <= stream.pos + Page
    /\ stream' = [stream EXCEPT !.pos = to]
    /\ IF dragging
       THEN missed' = TRUE /\ UNCHANGED <<cache, catchUp, wanted>>
       ELSE IF to <= revision
       THEN UNCHANGED <<cache, catchUp, wanted, missed>>
       ELSE LET n == FirstUnseen(stream.pos, to)
            IN  IF n = 0 \/ ~IsNext(n)
                THEN RequestCatchUp /\ UNCHANGED cache
                ELSE /\ ApplySyncActions(stream.pos, to, dragging)
                     /\ UNCHANGED <<catchUp, wanted, missed>>
    /\ UNCHANGED <<server, touched, edits, epoch, poll, reset, dragging, left>>

\* Mutant of Heartbeat: heartbeats say nothing.
HeartbeatIgnored == FALSE /\ UNCHANGED vars

\* A heartbeat names the checkpoint of the last frame before it.
Heartbeat ==
    /\ stream.open /\ stream.pos > revision
    /\ RequestCatchUp
    /\ UNCHANGED <<server, touched, cache, edits, feed, poll, reset, dragging, left>>

\* The server cannot serve the last id: a reset frame ends the connection.
StreamReset ==
    /\ stream.open /\ Spend("loads")
    /\ stream' = [stream EXCEPT !.open = FALSE]
    /\ ResetBootstrap
    /\ UNCHANGED <<server, touched, cache, edits, epoch, catchUp, wanted, poll, drag>>

StreamDrops ==
    /\ stream.open /\ Spend("drops")
    /\ stream' = [stream EXCEPT !.open = FALSE]
    /\ UNCHANGED <<server, touched, cache, edits, epoch, reads, drag>>

\* The browser reconnects by itself, with Last-Event-ID.
StreamOpens ==
    /\ ~stream.open
    /\ stream' = [stream EXCEPT !.open = TRUE]
    /\ UNCHANGED <<server, touched, cache, edits, epoch, reads, drag, left>>

\* The effect runs again for a new epoch and subscribes from the cache.
Resubscribe ==
    /\ epoch
    /\ epoch' = FALSE
    /\ stream' = [open |-> FALSE, pos |-> revision]
    /\ UNCHANGED <<server, touched, cache, edits, reads, drag, left>>

\* handleBoardDraggingChange(true): cancelQueries drops the running fetch.
DragStart ==
    /\ ~dragging /\ Spend("drags")
    /\ dragging' = TRUE
    /\ poll' = Idle
    /\ UNCHANGED <<server, touched, cache, edits, feed, catchUp, wanted, reset, missed>>

\* handleBoardDraggingChange(false)
DragEnd ==
    /\ dragging
    /\ dragging' = FALSE
    /\ IF ~missed THEN UNCHANGED <<catchUp, wanted, missed>>
       ELSE /\ missed' = FALSE
            /\ IF catchUp.pc # "idle" THEN wanted' = TRUE /\ UNCHANGED catchUp
               ELSE catchUp' = Asking(revision) /\ wanted' = FALSE
    /\ UNCHANGED <<server, touched, cache, edits, feed, poll, reset, left>>

-----------------------------------------------------------------------------
(* Mutations *)

\* The confirmation of a deletion is modal until the request is answered.
BeingDeleted(c) == \E d \in deleting : d.iid = c.iid

\* runCardMutation, and the same steps in handleStatusMove and handlePosition:
\* the card shows the edit at once.
Edit(o, c) ==
    /\ o \in Updates /\ post[o].pc = "idle" /\ ~BeingDeleted(c)
    /\ ReplaceCards(PlacesOf(c.iid), CardOf(c.iid, o, "pending", o))
    /\ mine' = mine \cup {o} /\ touched' = touched \cup {c.iid}
    /\ post' = [post EXCEPT ![o] = [pc |-> "sent", iid |-> c.iid, card |-> NoCard]]
    /\ UNCHANGED <<server, revision, nextTemp, retrying, deleting, feed, reads, drag, left>>

\* handleCreate: the new card comes first, under an iid of the tab's own.
Create(o) ==
    /\ o \in Creates /\ post[o].pc = "idle"
    /\ cards' = <<CardOf(nextTemp, o, "pending", o)>> \o cards
    /\ nextTemp' = nextTemp - 1
    /\ mine' = mine \cup {o} /\ touched' = touched \cup {nextTemp}
    /\ post' = [post EXCEPT ![o] = [pc |-> "sent", iid |-> nextTemp, card |-> NoCard]]
    /\ UNCHANGED <<server, revision, retrying, deleting, feed, reads, drag, left>>

\* .then: replaceCardForOperation
PostSucceeds(o) ==
    /\ post[o].pc = "answered"
    /\ mine' = mine \ {o}
    /\ ReplaceCards({j \in PlacesOf(post[o].iid) : Completes(cards[j], o)}, post[o].card)
    /\ post' = [post EXCEPT ![o].pc = "done"]
    /\ UNCHANGED <<server, touched, revision, nextTemp, retrying, deleting, feed, reads, drag, left>>

\* .catch: patchCardForOperation
PostFails(o) ==
    /\ post[o].pc = "failing"
    /\ mine' = mine \cup {o}
    /\ PatchCards({j \in PlacesOf(post[o].iid) : cards[j].op = o}, "failed")
    /\ post' = [post EXCEPT ![o].pc = "failed"]
    /\ UNCHANGED <<server, touched, revision, nextTemp, retrying, deleting, feed, reads, drag, left>>

RequestLost(o) ==
    /\ post[o].pc \in {"sent", "answered"} /\ Spend("errors")
    /\ post' = [post EXCEPT ![o].pc = "failing"]
    /\ UNCHANGED <<server, touched, cache, mine, nextTemp, retrying, deleting, feed, reads, drag>>

\* handleRetry on a card that shows a failure.  (A second request for an
\* operation whose first is unanswered is left out.)
Retry(c) ==
    /\ c.state = "failed" /\ c.op # NoOp /\ ~BeingDeleted(c)
    /\ PatchCards(PlacesOf(c.iid), "pending")
    /\ IF c.op \in mine
       THEN /\ post[c.op].pc = "failed"
            /\ post' = [post EXCEPT ![c.op].pc = "sent"]
            /\ UNCHANGED retrying
       ELSE /\ retrying' = retrying \cup {[iid |-> c.iid, op |-> c.op, done |-> FALSE]}
            /\ UNCHANGED post
    /\ touched' = touched \cup {c.iid}
    /\ UNCHANGED <<server, revision, mine, nextTemp, deleting, feed, reads, drag, left>>

\* retryOperation(...).catch: patchCard
RetryFails(r) ==
    /\ PatchCards(PlacesOf(r.iid), "failed")
    /\ retrying' = retrying \ {r}
    /\ UNCHANGED <<server, touched, revision, mine, post, nextTemp, deleting, feed, reads, drag>>

RetryLost(r) == Spend("errors") /\ RetryFails(r)

\* The answer says nothing the log will not say.
RetryAnswered(r) ==
    /\ r.done
    /\ retrying' = retrying \ {r}
    /\ UNCHANGED <<server, touched, cache, mine, post, nextTemp, deleting, feed, reads, drag, left>>

\* handleDelete: the dialog opens on a synchronised card of GitLab and stays
\* open if others change it; the card leaves the cache when the server has
\* accepted the deletion.
Delete(c) ==
    /\ c.iid > 0 /\ c.op \notin Ops /\ ~BeingDeleted(c) /\ Spend("deletes")
    /\ deleting' = deleting \cup {[iid |-> c.iid, done |-> FALSE]}
    /\ touched' = touched \cup {c.iid}
    /\ UNCHANGED <<server, cache, mine, post, nextTemp, retrying, feed, reads, drag>>

DeleteLands(d) ==
    /\ d.done
    /\ deleting' = deleting \ {d}
    /\ cards' = KeepPlaces(cards, DOMAIN cards \ PlacesOf(d.iid))
    /\ UNCHANGED <<server, touched, revision, mine, post, nextTemp, retrying, feed, reads, drag, left>>

-----------------------------------------------------------------------------
(* The server, as far as the tab depends on it *)

Commit(b) == /\ Rev < MaxRev
             /\ boards' = Append(boards, b)

Put(b, c) == {d \in b : d.iid # c.iid} \cup {c}

client == <<cache, mine, nextTemp, feed, reads, drag>>

\* A mutation is stored with its operation, and the answer is the stored card.
Accept(o) ==
    /\ post[o].pc = "sent" /\ home[o] = NoIid
    /\ LET iid == IF o \in Creates THEN given.temp - 1 ELSE post[o].iid
           c   == CardOf(iid, o, "pending", o)
       IN  /\ o \in Updates => iid \in Iids(Now)
           /\ Commit(Put(Now, c))
           /\ home' = [home EXCEPT ![o] = iid]
           /\ given' = IF o \in Creates THEN [given EXCEPT !.temp = iid] ELSE given
           /\ touched' = touched \cup {iid}
           /\ post' = [post EXCEPT ![o].pc = "answered", ![o].card = c]
    /\ UNCHANGED <<hidden, client, retrying, deleting, left>>

\* The operation id is known already: the answer is the card as it is now.
AcceptAgain(o) ==
    /\ post[o].pc = "sent" /\ home[o] # NoIid
    /\ post' = [post EXCEPT ![o] =
           IF home[o] \in Iids(Now) THEN [@ EXCEPT !.pc = "answered", !.card = Row(Now, home[o])]
           ELSE [@ EXCEPT !.pc = "failing"]]
    /\ UNCHANGED <<server, touched, client, retrying, deleting, left>>

Refuse(o) ==
    /\ post[o].pc = "sent" /\ home[o] = NoIid
    /\ o \in Updates /\ post[o].iid \notin Iids(Now)
    /\ post' = [post EXCEPT ![o].pc = "failing"]
    /\ UNCHANGED <<server, touched, client, retrying, deleting, left>>

\* The worker finishes an operation of card c.  That of a new card gives it its
\* GitLab iid and leaves a later edit of this tab pending.
Complete(c) ==
    /\ c.state = "pending"
    /\ LET iid  == IF c.iid < 0 THEN given.iid + 1 ELSE c.iid
           done == CardOf(iid, NoOp, "synced", c.val)
       IN  /\ Commit(Put(Now \ {c}, IF c.iid < 0 /\ c.op \in Updates
                                    THEN [c EXCEPT !.iid = iid] ELSE done))
           /\ home' = [o \in Ops |-> IF home[o] = c.iid THEN iid ELSE home[o]]
           /\ given' = IF c.iid < 0 THEN [given EXCEPT !.iid = iid] ELSE given
           /\ touched' = IF c.iid \in touched THEN touched \cup {iid} ELSE touched
    /\ UNCHANGED <<hidden, client, post, retrying, deleting, left>>

FailOperation(c) ==
    /\ c.state = "pending" /\ Spend("errors")
    /\ Commit(Put(Now, [c EXCEPT !.state = "failed"]))
    /\ UNCHANGED <<home, given, touched, hidden, client, post, retrying, deleting>>

RetryAccepted(r) ==
    /\ ~r.done
    /\ \E c \in Now : /\ c.op = r.op /\ c.state = "failed"
                      /\ Commit(Put(Now, [c EXCEPT !.state = "pending"]))
    /\ retrying' = (retrying \ {r}) \cup {[r EXCEPT !.done = TRUE]}
    /\ UNCHANGED <<home, given, touched, hidden, client, post, deleting, left>>

\* The operation is not a failed one, or not the card's any more.
RetryRefused(r) ==
    /\ ~r.done
    /\ ~\E c \in Now : c.op = r.op /\ c.state = "failed"
    /\ RetryFails(r)
    /\ UNCHANGED left

\* Another user edits a card, creates one, or one is deleted in GitLab.
Used(o) == \E n \in 0..Rev : \E c \in Board(n) : c.val = o
TheyEdit(o, c) ==
    /\ ~Used(o) /\ c.iid > 0
    /\ Commit(Put(Now, CardOf(c.iid, o, "pending", o)))
    /\ UNCHANGED <<home, given, touched, hidden, client, post, retrying, deleting, left>>

TheyCreate(o) ==
    /\ ~Used(o)
    /\ given' = [given EXCEPT !.temp = @ - 1]
    /\ Commit(Put(Now, CardOf(given.temp - 1, o, "pending", o)))
    /\ UNCHANGED <<home, touched, hidden, client, post, retrying, deleting, left>>

TheyDelete(c) ==
    /\ c.iid > 0 /\ c.op = NoOp /\ Spend("deletes")
    /\ Commit(Now \ {c})
    /\ UNCHANGED <<home, given, touched, hidden, client, post, retrying, deleting>>

\* A change for another audience: a revision without an action for this tab.
Elsewhere ==
    /\ Commit(Now)
    /\ UNCHANGED <<home, given, touched, hidden, client, post, retrying, deleting, left>>

\* A deletion hides the card until the worker has deleted it or has failed.
AcceptDelete(d) ==
    /\ ~d.done
    /\ \E c \in Now : /\ c.iid = d.iid /\ c.state = "synced"
                      /\ Commit(Now \ {c})
                      /\ hidden' = hidden \cup {c}
    /\ deleting' = (deleting \ {d}) \cup {[d EXCEPT !.done = TRUE]}
    /\ UNCHANGED <<home, given, touched, client, post, retrying, left>>

RefuseDelete(d) ==
    /\ ~d.done
    /\ ~\E c \in Now : c.iid = d.iid /\ c.state = "synced"
    /\ deleting' = deleting \ {d}
    /\ UNCHANGED <<server, touched, client, post, retrying, left>>

DeletionDone(c) ==
    /\ hidden' = hidden \ {c}
    /\ UNCHANGED <<boards, home, given, touched, client, post, retrying, deleting, left>>

DeletionFails(c) ==
    /\ Spend("errors")
    /\ hidden' = hidden \ {c}
    /\ Commit(Put(Now, [c EXCEPT !.op = Deletion, !.state = "failed"]))
    /\ UNCHANGED <<home, given, touched, client, post, retrying, deleting>>

-----------------------------------------------------------------------------
Mutate ==
    \/ \E o \in Ops : \/ Create(o) \/ PostSucceeds(o) \/ PostFails(o) \/ RequestLost(o)
                      \/ Accept(o) \/ AcceptAgain(o) \/ Refuse(o)
                      \/ \E c \in ToSet(cards) : Edit(o, c)
    \/ \E c \in ToSet(cards) : Retry(c) \/ Delete(c)
    \/ \E r \in retrying : RetryAccepted(r) \/ RetryRefused(r) \/ RetryLost(r) \/ RetryAnswered(r)
    \/ \E d \in deleting : AcceptDelete(d) \/ RefuseDelete(d) \/ DeleteLands(d)

Work ==
    \/ \E c \in Now : \/ Complete(c) \/ FailOperation(c) \/ TheyDelete(c)
                      \/ \E o \in Theirs : TheyEdit(o, c)
    \/ \E o \in Theirs : TheyCreate(o)
    \/ \E c \in hidden : DeletionDone(c) \/ DeletionFails(c)
    \/ Elsewhere

Read ==
    \/ CatchUpAnswered \/ CatchUpLands \/ CatchUpTooOld \/ CatchUpFails
    \/ ResetRead \/ ResetLands \/ ResetFails
    \/ PollStart \/ PollRead \/ PollLands \/ PollFails \/ Visible

Listen ==
    \/ \E to \in Revs : Deliver(to)
    \/ Heartbeat \/ StreamReset \/ StreamDrops \/ StreamOpens \/ Resubscribe

Drag == DragStart \/ DragEnd

Next == Mutate \/ Work \/ Read \/ Listen \/ Drag

Spec == Init /\ [][Next]_vars

\* The network delivers in the end, the page's timers and effects run, and a
\* drag ends; nobody has to edit anything.
FairSpec ==
    /\ Spec
    /\ WF_vars(CatchUpAnswered) /\ WF_vars(CatchUpLands)
    /\ WF_vars(ResetRead) /\ WF_vars(ResetLands)
    /\ WF_vars(PollRead) /\ WF_vars(PollLands)
    /\ WF_vars(StreamOpens) /\ WF_vars(Resubscribe) /\ WF_vars(DragEnd)
    /\ WF_vars(Heartbeat) /\ WF_vars(\E to \in Revs : Deliver(to))

-----------------------------------------------------------------------------
TypeOK ==
    /\ boards \in Seq(SUBSET Card) /\ Rev \in Revs
    /\ home \in [Ops -> Int] /\ given \in [temp : Int, iid : Nat]
    /\ hidden \subseteq Card /\ touched \subseteq Int
    /\ revision \in Revs /\ cards \in Seq(Card)
    /\ mine \subseteq Ops /\ post \in [Ops -> Post] /\ nextTemp \in Int
    /\ retrying \subseteq [iid : Int, op : AllOps, done : BOOLEAN]
    /\ deleting \subseteq [iid : Int, done : BOOLEAN]
    /\ stream \in [open : BOOLEAN, pos : Revs] /\ epoch \in BOOLEAN
    /\ catchUp \in CatchUp /\ wanted \in BOOLEAN
    /\ poll \in Revs \cup {Idle, Asked} /\ reset \in Revs \cup {Idle, Asked}
    /\ dragging \in BOOLEAN /\ missed \in BOOLEAN

\* The cards of others: what the tab lists of the cards it never acted on.
OthersCards == {c \in ToSet(cards) : c.iid \notin touched}

\* Of the cards the tab never acted on it shows exactly the board of its
\* checkpoint, and the checkpoint never goes back: frames, pages, drags and
\* lost connections in any order skip no commit and apply none twice.
\* (handler_events.go:82, App.tsx:72 and 128)
Replica == INSTANCE BoardReplica WITH at <- revision, shown <- OthersCards,
                                      own <- touched
FollowsTheLog == Replica!Spec

\* The cards the tab never acted on are those of its checkpoint, also after it
\* has fetched a bootstrap: what it has not shown yet is in the log after the
\* checkpoint. (handler_events.go:84)
BoardAtCheckpoint == OthersCards = {c \in Board(revision) : c.iid \notin touched}

\* An edit the server has not stored yet is gone from the screen, although the
\* tab has not edited or deleted the card since.
Lost(o) ==
    /\ home[o] = NoIid
    /\ \A p \in Ops \ {o} : post[p].iid # post[o].iid
    /\ \A d \in deleting : d.iid # post[o].iid
    /\ \A c \in ToSet(cards) : c.op # o \/ c.val # o

\* An edit of a card of GitLab and a new card stay on the screen, pending or
\* with the failure, until the server has stored them: nothing that arrives
\* takes them away. (syncActions.ts:14)
UnsentEditShown == \A o \in mine : post[o].iid > 0 \/ o \in Creates => ~Lost(o)

\* The same for every edit of this tab, that of a card GitLab has not numbered
\* yet included. (design.md:62)
IntentKept == \A o \in mine : ~Lost(o)

\* A new card is never listed twice as pending, and not at all twice once the
\* tab has read its completion, whichever of the answer, the frames of its
\* temporary row and of its completion come first. (syncActions.ts:149)
CreatedOnce ==
    \A o \in Creates :
        /\ Cardinality({j \in DOMAIN cards : cards[j].op = o}) <= 1
        /\ home[o] > 0 /\ (\E n \in 1..revision : home[o] \in Iids(Written(n))) =>
               Cardinality({j \in DOMAIN cards : cards[j].val = o}) <= 1

\* Once the tab has read that an operation is over, and no request for it is
\* under way, no card goes on showing it as pending.
Finished(o) ==
    \E n \in 1..revision : /\ \E c \in Board(n - 1) : c.op = o
                           /\ ~\E c \in Board(n) : c.op = o
PendingIsUnfinished ==
    \A c \in ToSet(cards) :
        c.state = "pending" /\ c.op \in Ops /\ Finished(c.op) =>
            post[c.op].pc \in {"sent", "answered", "failing"}

\* A card that shows a failure names the operation Retry is about.
\* (ARCHITECTURE.md:27, BoardPage.tsx:578)
FailureIsRetryable == \A c \in ToSet(cards) : c.state = "failed" => c.op # NoOp

\* While a card is dragged the board under it does not move to another
\* checkpoint. (syncActions.ts:29)
DragSeesOneBoard == [][dragging /\ dragging' => revision' = revision]_vars

\* Whatever is lost, dropped, refused or fetched again, the checkpoint reaches
\* the last commit once the server rests. (handler_events.go:84)
CatchesUp == <>[](revision = Rev)

=============================================================================
