---------------------------- MODULE BoardIntake ----------------------------
(***************************************************************************)
(* How changes made in GitLab reach the card cache: the delta read behind  *)
(* its watermark, the presence and deep sweeps, the inbox of webhooks with *)
(* its workers (sync/service.go, realtime.go), and the merge they all      *)
(* share (cardobservations.go), next to operations on the same cards.      *)
(*                                                                         *)
(* Reads are paged, so GitLab changes under them, and a change shows in    *)
(* them only after a while.  A version of an issue is its updated_at and   *)
(* what the mapper makes of it.  CardOps has the whole life of operations. *)
(***************************************************************************)
EXTENDS Integers, FiniteSets, Sequences, FiniteSetsExt

CONSTANTS Issues,        \* iids, in the order of creation
          Workers,       \* webhook workers, one for each server instance
          Lag,           \* a change is in every later read after this time
          ReadTime,      \* the longest a read, a delivery or an answer's completion takes
          DeltaOverlap,  \* deltaOverlap
          MaxAttempts,   \* a delivery that failed this often is dead (10)
          MaxTime,       \* bound: the clock
          MaxEvents      \* bound: changes in GitLab, operations, failures and crashes

ASSUME IntakeAssumption ==
    /\ Issues \subseteq Nat \ {0} /\ IsFiniteSet(Issues)
    /\ Lag \in Nat /\ ReadTime \in Nat
    /\ DeltaOverlap \in Nat /\ Lag + ReadTime <= DeltaOverlap
    /\ MaxAttempts \in Nat /\ MaxTime \in Nat /\ MaxEvents \in Nat

VARIABLES clock,
          gitlab,     \* the version of each issue
          listed,     \* the version of each issue that reads return
          rows,       \* issue_cache
          watermark,  \* sync_snapshots.source_revision of the board, or NoTime
          read,       \* the board read of Run
          inbox,      \* gitlab_webhook_deliveries, in the order received
          worker,     \* what each webhook worker is doing
          spent       \* the number of events so far

intakeVars == <<clock, gitlab, listed, rows, watermark, read, inbox, worker, spent>>

NoTime == -1
Times == 0 .. MaxTime
\* On the board; without an active team label; with a status no lane maps to.
Kinds == {"card", "other", "unmapped"}
Version == [at : Times, is : Kinds \cup {"unborn", "deleted"}]
Exists(version) == version.is \in Kinds

\* "confirmed": gitlab_observed_at is not before the start of the read going on.
NoRow == [state |-> "none", at |-> NoTime, confirmed |-> FALSE]
\* "early": its operation was claimed before that, and has its answer.
Row == [state : {"synced", "queued", "applied", "early"}, at : Times, confirmed : BOOLEAN]
NoRead == [kind |-> "none", since |-> 0, began |-> 0, last |-> <<0, 0>>, found |-> {}, ended |-> FALSE]
\* "early": the delivery was claimed before the read going on began.
Idle == [at |-> "idle", delivery |-> 0, attempt |-> 0, began |-> 0, early |-> FALSE, found |-> {}]

IntakeInit ==
    /\ clock = 0
    /\ gitlab \in [Issues -> [at : {0}, is : {"unborn", "card"}]]
    /\ \A i, j \in Issues : i < j /\ Exists(gitlab[j]) => Exists(gitlab[i])
    /\ listed = gitlab
    /\ rows = [i \in Issues |-> NoRow]
    /\ watermark = NoTime
    /\ read = NoRead
    /\ inbox = <<>> /\ worker = [w \in Workers |-> Idle]
    /\ spent = 0

Spend == spent < MaxEvents /\ spent' = spent + 1

-----------------------------------------------------------------------------
(* GitLab and the clock *)

\* What is done within a bound is done before time goes on.
Tick ==
    /\ clock < MaxTime /\ clock' = clock + 1
    /\ \A i \in Issues : listed[i] # gitlab[i] => clock < gitlab[i].at + Lag
    /\ read # NoRead => clock < read.began + ReadTime
    /\ \A w \in Workers : worker[w] # Idle => clock < worker[w].began + ReadTime
    /\ \A i \in Issues : rows[i].state \in {"applied", "early"} => clock < rows[i].at + ReadTime
    /\ UNCHANGED <<gitlab, listed, rows, watermark, read, inbox, worker, spent>>

\* A new issue, an edit or a deletion.
TheyEdit(i, kind) ==
    /\ Spend
    /\ IF kind = "deleted" THEN Exists(gitlab[i])
       ELSE /\ gitlab[i].is # "deleted"
            /\ \A j \in Issues : j < i => gitlab[j].is # "unborn"
    /\ gitlab[i].at < clock                \* one change of an issue at a time
    /\ gitlab' = [gitlab EXCEPT ![i] = [at |-> clock, is |-> kind]]
    /\ UNCHANGED <<clock, listed, rows, watermark, read, inbox, worker>>

Pending(i) == [issue |-> i, state |-> "pending", attempts |-> 0]

\* EnqueueWebhook: a webhook about the issue, late, lost or about something
\* else than its card.  A repeated one has the id of the first and is dropped.
Receive(i) ==
    /\ Spend /\ gitlab[i].is # "unborn" /\ inbox' = Append(inbox, Pending(i))
    /\ UNCHANGED <<clock, gitlab, listed, rows, watermark, read, worker>>

BecomesVisible(i) ==
    /\ listed[i] # gitlab[i] /\ listed' = [listed EXCEPT ![i] = gitlab[i]]
    /\ UNCHANGED <<clock, gitlab, rows, watermark, read, inbox, worker, spent>>

-----------------------------------------------------------------------------
(* applyCardObservations *)

\* The newest card among the observations of one issue.
Newest(found, i) == Max({f.at : f \in {g \in found : g.issue = i /\ g.is = "card"}})
Cards(found) == {f.issue : f \in {g \in found : g.is = "card"}}

\* Mutant: a read that would make the board smaller is not believed.
CanPruneNothing(observed) == \A i \in Issues : rows[i].state = "synced" => i \in observed

\* canPrune: an empty read of a board that has cards says nothing.
CanPrune(observed) == observed # {} \/ \A i \in Issues : rows[i].state # "synced"

\* Removals come first, then the newest version of each card: never over a
\* pending operation, nor over a newer row.  Every confirmed row is stamped: with
\* "confirmed" as it stands to the read going on.
Merged(found, removed, pruned, confirmed) ==
    [i \in Issues |->
        LET row == IF i \in removed \cup pruned /\ rows[i].state = "synced" THEN NoRow ELSE rows[i]
        IN  IF i \notin Cards(found) THEN row
            ELSE IF row.state \in {"none", "synced"} /\ row.at <= Newest(found, i)
                 THEN [state |-> "synced", at |-> Newest(found, i), confirmed |-> confirmed]
                 ELSE [row EXCEPT !.confirmed = confirmed]]

-----------------------------------------------------------------------------
(* The board reads of Run, one at a time *)

\* Mutant: the delta reads on from the watermark itself.
SinceWatermark == watermark

Since == watermark - DeltaOverlap

\* RefreshBoardDelta, RefreshBoardPresence, RefreshBoardDeep; the first delta
\* is a deep read.  A backoff or a busy loop only delays them.
StartRead(kind) ==
    /\ read = NoRead
    /\ kind = "delta" => watermark # NoTime
    /\ read' = [kind |-> kind, since |-> IF kind = "delta" THEN Since ELSE NoTime, began |-> clock,
                last |-> <<0, 0>>, found |-> {}, ended |-> FALSE]
    /\ rows' = [i \in Issues |-> [rows[i] EXCEPT !.confirmed = FALSE, !.state = IF @ = "applied" THEN "early" ELSE @]]
    /\ worker' = [w \in Workers |-> IF worker[w] = Idle THEN Idle ELSE [worker[w] EXCEPT !.early = TRUE]]
    /\ UNCHANGED <<clock, gitlab, listed, watermark, inbox, spent>>

Precedes(p, q) == p[1] < q[1] \/ (p[1] = q[1] /\ p[2] < q[2])

\* UPDATED_ASC for a delta, CREATED_ASC for a sweep.
Place(i) == IF read.kind = "delta" THEN <<listed[i].at, i>> ELSE <<0, i>>

ToCome == {i \in Issues : /\ Exists(listed[i]) /\ listed[i].at >= read.since
                          /\ Precedes(read.last, Place(i))}

\* The next page, of one issue, which says whether another follows.
ReadPage ==
    /\ read # NoRead /\ ~read.ended
    /\ IF ToCome = {} THEN read' = [read EXCEPT !.ended = TRUE]
       ELSE \E i \in ToCome :
               /\ \A j \in ToCome \ {i} : Precedes(Place(i), Place(j))
               /\ read' = [read EXCEPT !.last = Place(i), !.ended = ToCome = {i},
                                       !.found = @ \cup {[issue |-> i, at |-> listed[i].at, is |-> listed[i].is]}]
    /\ UNCHANGED <<clock, gitlab, listed, rows, watermark, inbox, worker, spent>>

Observed == {f.issue : f \in {g \in read.found : read.kind = "presence" \/ g.is # "other"}}

\* Only a complete read prunes, and no row that another read has confirmed
\* since it began.
Prunable ==
    IF read.kind = "delta" \/ ~CanPrune(Observed) THEN {}
    ELSE {i \in Issues \ Observed : ~rows[i].confirmed}

\* The newest updated_at that was read; a delta never goes back.
NextWatermark(times) ==
    IF times = {} THEN watermark ELSE Max(times \cup (IF read.kind = "delta" THEN {watermark} ELSE {}))

\* ApplyBoardObservation.  A presence sweep confirms existence only.
ApplyRead ==
    /\ read.ended
    /\ LET cards == IF read.kind = "presence" THEN {} ELSE read.found
           removed == IF read.kind # "delta" THEN {}
                      ELSE {f.issue : f \in {g \in read.found : g.is = "other"}}
       IN  /\ rows' = Merged(cards, removed, Prunable, FALSE)
           /\ watermark' = NextWatermark({f.at : f \in cards})
    /\ read' = NoRead
    /\ UNCHANGED <<clock, gitlab, listed, inbox, worker, spent>>

\* The read fails, or the process ends.
ReadFails ==
    /\ read # NoRead /\ read' = NoRead /\ Spend
    /\ UNCHANGED <<clock, gitlab, listed, rows, watermark, inbox, worker>>

-----------------------------------------------------------------------------
(* Webhooks *)

\* Mutant: what a crashed worker had claimed stays claimed.
OpenPending(n) == inbox[n].state = "pending"

\* Pending, or processing for too long: "stale" is two minutes later.
Open(n) == inbox[n].state \in {"pending", "stale"}

\* ClaimWebhook.  A delivery waits longer after each failure.
Claim(w, n) ==
    /\ worker[w] = Idle /\ Open(n)
    /\ worker' = [worker EXCEPT ![w] = [Idle EXCEPT !.at = "claimed", !.delivery = n, !.began = clock,
                                                    !.attempt = inbox[n].attempts + 1]]
    /\ inbox' = [inbox EXCEPT ![n] = [@ EXCEPT !.state = "processing", !.attempts = worker'[w].attempt]]
    /\ UNCHANGED <<clock, gitlab, listed, rows, watermark, read, spent>>

\* The worker has crashed, or is slow.
Expire(n) ==
    /\ inbox[n].state = "processing" /\ inbox' = [inbox EXCEPT ![n].state = "stale"]
    /\ \A w \in Workers : worker[w].delivery = n => Cardinality(Workers) > 1
    /\ UNCHANGED <<clock, gitlab, listed, rows, watermark, read, worker, spent>>

\* reconcileWebhookIssue: the issue as it is now, not as the webhook saw it.
Fetch(w) ==
    /\ worker[w].at = "claimed"
    /\ LET i == inbox[worker[w].delivery].issue
       IN  worker' = [worker EXCEPT ![w] = [@ EXCEPT !.at = "fetched",
                         !.found = {[issue |-> i, at |-> listed[i].at, is |-> listed[i].is]}]]
    /\ UNCHANGED <<clock, gitlab, listed, rows, watermark, read, inbox, spent>>

Found(w) == CHOOSE f \in worker[w].found : TRUE
Mapped(w) == worker[w].at = "fetched" /\ Found(w).is # "unmapped"

\* ReconcileIssue and CompleteWebhook: a crash between the two only repeats
\* the delivery.  The row is stamped with the time of the claim.
Reconcile(w) ==
    /\ Mapped(w)
    /\ rows' = Merged(worker[w].found, IF Found(w).is = "card" THEN {} ELSE {Found(w).issue},
                      {}, ~worker[w].early)
    /\ worker' = [worker EXCEPT ![w] = Idle]
    /\ \/ inbox' = [inbox EXCEPT ![worker[w].delivery].state = "completed"] /\ UNCHANGED spent
       \/ inbox' = inbox /\ Spend
    /\ UNCHANGED <<clock, gitlab, listed, watermark, read>>

\* FailWebhook looks at the attempts of its own claim, and at no state.
FailDelivery(w) ==
    /\ worker' = [worker EXCEPT ![w] = Idle]
    /\ inbox' = [inbox EXCEPT ![worker[w].delivery].state =
                    IF worker[w].attempt >= MaxAttempts THEN "dead" ELSE "pending"]
    /\ UNCHANGED <<clock, gitlab, listed, rows, watermark, read>>

\* GitLab or the database fails; or no lane maps to the issue's status.
FetchFails(w) == worker[w].at \in {"claimed", "fetched"} /\ Spend /\ FailDelivery(w)
Unmapped(w) == worker[w].at = "fetched" /\ ~Mapped(w) /\ FailDelivery(w) /\ UNCHANGED spent

Crash(w) ==
    /\ worker[w] # Idle /\ worker' = [worker EXCEPT ![w] = Idle] /\ Spend
    /\ UNCHANGED <<clock, gitlab, listed, rows, watermark, read, inbox>>

-----------------------------------------------------------------------------
(* Operations *)

BeginOperation(i) ==
    /\ rows[i].state = "synced" /\ Spend
    /\ rows' = [rows EXCEPT ![i].state = "queued"]
    /\ UNCHANGED <<clock, gitlab, listed, watermark, read, inbox, worker>>

\* ApplyIssue; its answer carries the version it made.
ApplyIssue(i) ==
    /\ rows[i].state = "queued" /\ gitlab[i].is = "card" /\ gitlab[i].at < clock
    /\ gitlab' = [gitlab EXCEPT ![i].at = clock]
    /\ rows' = [rows EXCEPT ![i] = [@ EXCEPT !.state = "applied", !.at = clock]]
    /\ UNCHANGED <<clock, listed, watermark, read, inbox, worker, spent>>

\* CompleteOperation; the row is stamped with the time of the claim.
CompleteOperation(i) ==
    /\ rows[i].state \in {"applied", "early"}
    /\ rows' = [rows EXCEPT ![i] = [@ EXCEPT !.state = "synced", !.confirmed = rows[i].state = "applied"]]
    /\ UNCHANGED <<clock, gitlab, listed, watermark, read, inbox, worker, spent>>

-----------------------------------------------------------------------------
IntakeNext ==
    \/ Tick \/ ReadPage \/ ApplyRead \/ ReadFails
    \/ \E kind \in {"delta", "presence", "deep"} : StartRead(kind)
    \/ \E i \in Issues : \/ BecomesVisible(i) \/ Receive(i) \/ BeginOperation(i) \/ ApplyIssue(i) \/ CompleteOperation(i)
                         \/ \E kind \in Kinds \cup {"deleted"} : TheyEdit(i, kind)
    \/ \E n \in DOMAIN inbox : Expire(n) \/ \E w \in Workers : Claim(w, n)
    \/ \E w \in Workers : Fetch(w) \/ Reconcile(w) \/ FetchFails(w) \/ Unmapped(w) \/ Crash(w)

\* Every ticker keeps its tick until Run takes it, and select is fair among
\* those that are ready; reads and workers go on.
IntakeFairness ==
    /\ \A kind \in {"delta", "presence", "deep"} : SF_intakeVars(StartRead(kind))
    /\ WF_intakeVars(ReadPage) /\ WF_intakeVars(ApplyRead)
    /\ \A i \in Issues : WF_intakeVars(BecomesVisible(i)) /\ WF_intakeVars(CompleteOperation(i))
    /\ \A w \in Workers : WF_intakeVars(\/ Fetch(w) \/ Reconcile(w) \/ Unmapped(w)
                                        \/ \E n \in DOMAIN inbox : Claim(w, n))
    /\ WF_intakeVars(\E n \in DOMAIN inbox : Expire(n))

IntakeSpec == IntakeInit /\ [][IntakeNext]_intakeVars /\ IntakeFairness

-----------------------------------------------------------------------------
(* Properties *)

\* The types; neither a row nor the watermark is newer than GitLab's issues.
IntakeTypeOK ==
    /\ gitlab \in [Issues -> Version] /\ listed \in [Issues -> Version]
    /\ rows \in [Issues -> Row \cup {NoRow}]
    /\ watermark \in Times \cup {NoTime}
    /\ \A n \in DOMAIN inbox : inbox[n].state \in {"pending", "processing", "stale", "completed", "dead"}
    /\ \A i \in Issues : rows[i].at <= gitlab[i].at
    /\ \E i \in Issues : watermark <= gitlab[i].at

\* The board lacks the version of the card that GitLab has.
Behind(i) == gitlab[i].is = "card" /\ rows[i].state \in {"none", "synced"} /\ rows[i].at # gitlab[i].at

\* What the board lacks is not behind the next delta: however pages, webhooks,
\* sweeps and operations interleave, and whatever is lost with a webhook, a
\* card that is not on the board as GitLab has it lies within the overlap.
CursorCoversUpdates == \A i \in Issues : watermark # NoTime /\ Behind(i) => gitlab[i].at >= Since

\* The board shows what left it, though a sweep that misses it finds others.
Left(i) == /\ rows[i].state = "synced"
           /\ \E j \in Issues : \/ gitlab[i].is = "deleted" /\ Exists(gitlab[j])
                                \/ gitlab[i].is = "other" /\ gitlab[j].is \in {"card", "unmapped"}

\* Once GitLab rests the board shows its cards and no others, without any
\* webhook; but for the last card of a board, which canPrune may keep.
BoardCatchesUp == <>[](\A i \in Issues : ~Behind(i) /\ ~Left(i))

\* Every delivery ends, as completed or as dead, whichever workers crash or
\* are slow with it.
DeliveryEnds == <>[](\A n \in DOMAIN inbox : inbox[n].state \in {"completed", "dead"})

\* cardobservations.go:103-105: "The webhook that reconciled it mid-fetch
\* stamps gitlab_observed_at past StartedAt", so that a sweep does not prune
\* a card that a webhook has put on the board since the sweep began.
PutMidSweep(w, i) == Reconcile(w) /\ read # NoRead /\ rows'[i].state = "synced" /\ rows'[i].at > rows[i].at
ConfirmedMidSweepIsKept ==
    [][\A w \in Workers, i \in Issues : PutMidSweep(w, i) => rows'[i].confirmed]_intakeVars
=============================================================================
