# SITCON Board: verification project

TLA+ models of SITCON Board (`src/`): a Go server that shows a GitLab project as
a kanban board, keeps an optimistic copy of every issue in PostgreSQL, carries
browser edits to GitLab through a durable queue and streams every change to
browsers, and the React page that shows the board and edits it. The modules model
the parts whose correctness depends on the order in which several actors act.
`PROJECT.json` maps every definition to the lines it models, and lists the runs,
the mutants, the hazards and the theorems.

Contents: [the system](#the-system), [the plan](#plan), [the runs](#the-runs);
the server: [CardOps](#cardops-the-operation-queue-and-the-optimistic-cache),
[CardFields](#cardfields-the-fields-of-one-card),
[BoardIntake](#boardintake-how-changes-in-gitlab-reach-the-board),
[SyncLog](#synclog-the-change-log-and-the-clients-that-replay-it),
[Accounts](#accounts-logins-sessions-and-tokens);
the browser: [BoardClient](#boardclient-one-tab-and-its-cache),
[the card page](#the-card-page), [the board page](#the-board-page);
[bounds](#bounds), [fairness](#fairness), [proofs](#proofs),
[disagreements](#where-code-and-documents-disagree),
[observations](#observations), [left out](#what-is-not-modelled).

## The system

| component | state it keeps | operations | talks to | hard behaviour | what makes it correct | modules |
|---|---|---|---|---|---|---|
| operation queue and card cache (`postgres/sitcon/repository.go`, `application/sync`, `application/board`) | `durable_operations`, `issue_cache` | create, edit, delete, retry; claim, complete, fail | GitLab as the actor; the merge; the action log | leases without fencing, lost answers, crashes, retries, temporary keys | sync chips tell the truth, nothing is reported that did not happen, nothing is stranded | CardOps |
| field edits (`board/service.go`, `ProcessOne`, `ApplyIssue`) | one card's fields | seven edits | directory, GitLab | read-modify-write, fields resent from the cache | an edit survives edits of other fields | CardFields |
| observation merge (`cardobservations.go`) and periodic reads (`sync/service.go`) | `issue_cache`, the watermark in `sync_snapshots` | delta, presence and deep reads, webhook reconcile | GitLab readers, action log | reads overlap each other and local edits; deletions are seen only as absences | no change of GitLab is skipped, no live card pruned for good, the cache converges to GitLab | BoardIntake, CardOps |
| webhook inbox (`realtime.go`, `sync/service.go`) | `gitlab_webhook_deliveries` | enqueue, claim, complete, fail | GitLab, the merge, directory refresh | leases, back-off, dead letters | every delivery is completed or dead | BoardIntake |
| sync action log (`actions.go`, `realtime.go`, `handler_events.go`, `handler_sync.go`) | `realtime_state` (revision, floor), `sync_actions`, subscribers | flush, prune, SyncActions, drain, notify | every writer; browsers | lost wake-ups, pruning under a reader, private actions, reconnects | a browser that catches up has applied every visible action once and in order | SyncLog, BoardHistory |
| bootstrap (`application/bootstrap`) | none | read all parts between two revision reads | all tables | changes between the reads | the answer is of one revision | SyncLog |
| lane order (`laneorder.go`, `reorderCardPositions`) | `issue_cache.position` | insert, remove, renumber | all card writers, drags | browser and server count differently | a card lands where it was dropped | BoardDrag |
| OAuth sessions and credentials (`application/oauth`), directory (`RefreshDirectory`, `ReplaceDirectory`) | states, sessions, token pairs; members | login, renew, log out, refresh a token; refresh the directory | GitLab, workers | rotation by concurrent callers, revocation next to a login | the stored token works, leavers are signed out, sessions end for a reason | Accounts |
| browser board state (`App.tsx`, `syncActions.ts`, `BoardPage.tsx`) | bootstrap cache and its checkpoint, local operations, drag flag | apply frames and pages, catch up, reset, mutate, retry | event stream, HTTP API | own edits racing the stream, resets, drags | the screen follows the log without losing a local edit | BoardClient, BoardReplica |
| card page (`BoardPage.tsx` CardDetail, `useFieldSaveState.ts`, `CardRelationships.tsx`, `DateField.tsx`, `GitLabAutocompleteTextarea.tsx`) | drafts, markers, lists, editing state of each field | see [below](#the-card-page) | the cache, HTTP API | answers late, in another order or never, other users in between | what was typed is kept, and what is shown as saved is | CardDrawer, FieldSaves, CardRelations, CardComments, DateField, QuickActionInput |
| board page (`BoardFilters.tsx`, `TokenFilterInput.tsx`, `useBoardDrag.ts`, `LabelManagerDialog.tsx`, `GanttView.tsx`) | view and address, drag preview, labels, chart | see [below](#the-board-page) | the cache, HTTP API | timers, hidden cards, renamed labels | the view is what was asked for, a drop is where it was shown | LabelCatalog, BoardDrag, BoardFilter, GanttChart |

Other parts (HTTP transport, configuration, migrations, the contract, deployment)
keep no shared state of their own; `PROJECT.json` lists them with the reason they
are left out.

The server's parts meet in PostgreSQL. Browser requests, operation workers,
webhook workers and the periodic board reads run concurrently, in several server
instances, each step one transaction; calls to GitLab happen between
transactions, without locks. So an action of a server module is one transaction
or one call to GitLab, and everything else may happen in between. The browser's
parts meet in one page with one thread: an action is one event or the
continuation of one request, and requests are answered in any order.

## Plan

Done, the most important behaviour first: CardOps (the queue), SyncLog over
BoardHistory (the log), BoardClient over BoardReplica (one tab), BoardIntake (the
merge, the periodic reads and the webhook inbox), BoardDrag (lane order, from the
drag to the row), CardFields, Accounts (sessions, tokens, the directory's
revocations), and the parts of the card page and of the board page.

Left, in this order:

1. **LaneLocks**: the row locks of `UpdateCard`, `CreateCard` and the merge, as a
   deadlock check, and the cards a merge puts at the head of a lane.
2. **BoardTabs**: CardOps, SyncLog and BoardClient as one system. Each is checked
   against what the others promise; the composition would show that the promises
   fit, on very small instances.
3. An id for each deletion in BoardClient, which would let `EditsStayShown` and
   `NewCardsAreListedOnce` cover deletions that fail.

## The runs

| run | module, cfg | properties |
|---|---|---|
| `ops_safety` | MCCardOps, `CardOps_safety.cfg` | ChipTruth, SyncedReached, DeletedIsGone |
| `ops_screen` | MCCardOps, `CardOps_screen.cfg` | IntentShown, FailureIsVisibleOnIssues, OneWorkerPerCard, VersionMonotoneOnIssues |
| `ops_live` | MCCardOps, `CardOps_live.cfg` | PendingIssueSettles, DeletionEnds |
| `sync_stream` | MCSyncLog, `SyncLog_stream.cfg` | ViewIsPast, NoLostWakeUp, ImplementsHistory |
| `sync_live` | MCSyncLog, `SyncLog_live.cfg` | EventuallyShown |
| `client_stream` | MCBoardClient, `BoardClient_stream.cfg` | UnsentEditShown, FollowsTheLog, DragSeesOneBoard |
| `client_create` | MCBoardClient, `BoardClient_create.cfg` | CreatedOnce |
| `client_live` | MCBoardClient, `BoardClient_live.cfg` | CatchesUp |
| `page_card` | MCCardPage, `CardPage.cfg` | DraftStaysWithCard, UnsavedHoldsDrawer, SavedIsStored, SavingEnds, ListEndsTrue, SubmittedTextSurvives, LastEntryIsKept, MenuIsAtCaret, EditsSurvive |
| `page_board` | MCBoardPage, `BoardPage.cfg` | MenuFollowsCatalog, OnlyRemovedTagsGo, DropLandsAsShown, ServerKeepsTheDrop, SearchIsTheTyped, ReloadKeepsView, MarksFit |
| `server` | MCServer, `Server.cfg` | CursorCoversUpdates, CredentialWorks, BoardCatchesUp, LeaversAreSignedOut |
| `server_overlaps` | MCServer, `Server_overlaps.cfg` | DeliveryEnds, SessionsRunTheirTime |

The last four runs check several modules at once. The modules share no
variable, so `MCCardPage`, `MCBoardPage` and `MCServer` choose a `panel` in the
initial state: every behaviour is one of a single module and the other modules
stay as they begin. That is the union of their state spaces, not the product, and
loses nothing: no action of one module reads or changes what another has.

`Lists` has what several modules do with lists: keeping the elements at some places
(`KeepPlaces`), those of a set (`Only`), and sorting by an order without ties (`Sorted`).

Every module also has a type invariant (`TypeOK`, `DrawerTypeOK`, `SavesTypeOK`,
...). Those of CardOps, SyncLog, BoardClient, CardFields, Accounts, CardDrawer and FieldSaves
are proved, as part of the inductive invariants; the others are checked with TLC when
their module changes and are in no run.

## CardOps: the operation queue and the optimistic cache

`CardOps.tla` models, for every card, its row in `issue_cache`, its operations, the
workers and the GitLab issue behind it.

| model | code |
|---|---|
| `ops`, `opCount` | `durable_operations`, numbered in the order in which they are stored; `at` is the rank of `created_at`, and `lapsed` is "`updated_at` is more than two minutes old" |
| `rows` | `issue_cache`: `sync` is `sync_state`, `ptr` `pending_operation_id`, `ver` `gitlab_updated_at`, `val` the operation whose content the row shows |
| keys | positive IIDs are GitLab's, `-o` is the temporary key of the card operation `o` created (`local_issue_iid_seq`) |
| `gl` | the GitLab project: an issue exists, is on the board (has an active team label), off it, or gone |
| `worker` | what `ProcessOne` holds: `calling` after the claim, `answered` or `failing` before the final transaction |
| `read` | the issue `reconcileWebhookIssue` has read and not merged |
| `reached`, `deleted`, `late` | history, for the properties only |

A request reads the clock for `created_at` before it opens the transaction that
stores its operation (`board/service.go:341`), and the claim query orders by
`created_at` (`repository.go:529-538`). So `UpdateCard` and `DeleteCard` store the
next operation (`Enqueue`) with any stamp that is not taken yet (`Stamps`), also one
below those already stored; only the create that inserted the card has an earlier
stamp than its edits. `ClaimOperation` goes by `Earlier`, the order of the stamps, while the
card's current operation is the one stored last. `late` has the issues of which an
operation was stored behind one with a later stamp that was still in the queue
(`Overtakes`), and `InOrder` the issues known from the start of which none was.

Actions, each the whole handler: `CreateCard`, `UpdateCard` (all seven edits take
the same path), `DeleteCard`, `RetryOperation`; `ClaimOperation`, `LeaseLapses`;
`CallGitLab` and its three ways to go wrong (`CallRejected`, `CallLosesAnswer`,
`CallFindsNothing`); `CompleteOperation` (the re-keying of a create and the merge
of the canonical issue included), `CompleteDeleteOperation`, `FailOperation`,
`RollBack` (the final transaction finds no row, or the key is taken);
`WorkerCrash`; `ReadIssue` and `ReconcileIssue`; `ExternalChange`. The foreign key
`ON DELETE SET NULL ON UPDATE CASCADE` is `Rekey`.

Abstractions: a payload is the operation that carries it; all edits are one kind;
lane, position and assignees are left to other modules; `ApplyIssue`'s read and
write are one step; a create takes any IID GitLab has not used, so IIDs need not
be given in order; how long a claim lasts is the flag `lapsed`.

What the runs show:

| run | shows |
|---|---|
| `ops_safety` | `ChipTruth` (a pending chip has an unfinished operation of this card, a failed one a failed one, a synced one none), `SyncedReached`, `DeletedIsGone`, with two workers that may outlast their leases and Retry buttons on stale screens |
| `ops_screen` | three operations, with live leases and current screens: `IntentShown` (a waiting or failed card shows the edit stored last) and `FailureIsVisibleOnIssues` (the failure of the operation stored last shows) in whatever order requests are stamped and stored; `OneWorkerPerCard` and `VersionMonotoneOnIssues` of the cards in `InOrder` |
| `ops_live` | `PendingIssueSettles`, `DeletionEnds`: cards stop waiting and deletions end |

`FailureIsVisibleOnIssues`, `OneWorkerPerCard` and `VersionMonotoneOnIssues` speak
of the cards no create operation brought in, because the unrestricted properties
are [false](#where-code-and-documents-disagree).
The last two also need the requests of a card to be stored in the order of their
stamps. Without that (`InOrder` being all of `Known`) the constants of `ops_screen` refute
both: a request stamped first and stored second can be claimed while the other is in a
worker's hands, since nothing with an earlier `created_at` is unfinished; two workers then act on
the issue, and the completion that ends second sets `gitlab_updated_at` without comparing
(`repository.go:632`), so the version goes back. It takes neither an outlived lease
nor a stale screen, only two requests of one card within the time
between reading the clock and the commit.
`OneWorkerPerCard` fails for a created card because a retried create takes the
pointer back and settles the card as synced while a later edit is still queued:
a board read may then drop the row and insert it again while that edit is in a
worker's hands, which detaches its operation, and a new edit of the same IID is
claimed beside it.

## CardFields: the fields of one card

A request reads the whole card, changes some of its fields and writes the whole
card back; a worker sends the fields of its operation's kind, the others it has to
send from the card it claimed. `CardFields.tla` follows one card through that.

| model | code |
|---|---|
| `edits` | the requests and operations, each with its kind, the fields it changes, the card it read and how far it is |
| `stamped` | the order of `created_at`, which is the order in which operations are claimed; it need not be that of the rows |
| `cached`, `issue` | the card in `issue_cache`, the issue in GitLab |
| `observed` | what a read has fetched and not merged |

Actions: `BeginUpdate` (the request reads the card), `StampUpdate` (the operation gets
its `created_at`), `StoreUpdate` (the row and the operation are written);
`ClaimUpdate`, `ApplyUpdate`, `CompleteUpdate` of the worker; `EditInGitLab`;
`ReadCard` and `MergeCard`. The content of a field is the number of the edit that
wrote it, so "this edit survives" can be said of every field. Labels other than
the team's are one field, because the delta sent to GitLab amounts to the difference
between the two lists.

`EditsSurvive`: when everything is done, GitLab has of every field the last edit, and
the board shows it. Two edits of one field made at the same time are excepted, and
so (`Endangered`) is an edit of a field that an operation of another kind sends along
(`SentAlong`): `team` sends the title and the labels, `labels` sends the title, `move`
sends the team and the labels. The stronger `OwnFieldsOnly` is
[false](#where-code-and-documents-disagree). `page_card` runs it with the
kinds `details` and `team`; it also held with `{details, team, due_date}`, 3 edits on
the board and 1 read (787 878 states) and with all six kinds, 2 edits on the board, 1
in GitLab and 1 read (837 944 states). Faults and leases are in CardOps.

## BoardIntake: how changes in GitLab reach the board

`Run` reads the board in three ways, each on its ticker and one at a time; webhook
workers of all instances reconcile single issues beside it. `BoardIntake.tla` has
all of them with the merge they share.

| model | code |
|---|---|
| `gitlab`, `listed` | every issue with its `updated_at` and what the mapper makes of it; and what reads return of it, up to `Lag` later |
| `rows` | `issue_cache`: synced, or with an operation that is queued or has its answer; the version; and whether GitLab has confirmed the row since the read under way began (`gitlab_observed_at` against `StartedAt`) |
| `watermark` | `sync_snapshots.source_revision`; a delta reads from `DeltaOverlap` before it (`Since`) |
| `read` | the read under way: its kind, the pages read, the issues found |
| `inbox`, `worker` | `gitlab_webhook_deliveries`; what each worker holds, and (`early`) whether it began before the read under way did: its observation is stamped with that earlier time |

Actions: `StartRead`, `ReadPage`, `ApplyRead` (the merge, the pruning with `canPrune` and
the new watermark), `ReadFails`; `Receive`, `Claim`, `Expire`, `Fetch`, `Reconcile` (the merge of
one issue and `CompleteWebhook`), `FetchFails`, `Unmapped`, `Crash`; `BeginOperation`, `ApplyIssue`,
`CompleteOperation` for an operation on the same card; `TheyEdit`, `BecomesVisible` and `Tick` for
GitLab and time. A read is paged, so issues change under it; a webhook may be lost
(nothing obliges `Receive`).

| property | says |
|---|---|
| `CursorCoversUpdates` | a card the board lacks changed late enough for the next delta: whatever interleaves, the watermark never runs ahead of what has been merged by more than the overlap |
| `BoardCatchesUp` | once GitLab rests, the board shows its cards and no others, without any webhook. Excepted (`Left`): the last card of a board, which `canPrune` keeps when a read reports nothing |
| `DeliveryEnds` | every delivery is completed or dead in the end, although a slow worker may end a delivery that another has claimed, or completed, since |

`DeliveryEnds` is checked in `server_overlaps`, with two workers on the deliveries of one
issue: each may be slow enough for the other to claim its delivery (`Expire`), and both
then end it in either order. A delivery may be attempted three times with `MaxAttempts` 2 and
be pending again after it was completed, and both happen in the run. The other two
properties are in `server`, with one worker beside the reads.

`Lag + ReadTime <= DeltaOverlap` is an assumption about GitLab and the network, not
about this code: the overlap (two minutes unless configured) is there for it. `server` uses a
`ReadTime` of 0; `CursorCoversUpdates` also held with `ReadTime` 1, `DeltaOverlap` 2 and
`MaxTime` 4 (694 000 states), and is [proved](#proofs) for all values.

## SyncLog: the change log and the clients that replay it

Every transaction that changes what a browser shows ends with
`actionBatch.flush`: it raises `realtime_state.revision`, which locks that row
until the commit, and records the changed rows in `sync_actions` under the new
number. `SyncLog.tla` models the writers up to that commit, the trim of the log, the
notification path of one server instance, and for every client the request the
server runs for it and what it shows.

| model | code |
|---|---|
| `txn`, `lock` | an open transaction, the rows it changed (locked), and the holder of the `realtime_state` row |
| `revision`, `floor`, `log` | `realtime_state.revision`, `action_floor`, `sync_actions` by `sync_id` |
| `data` | the committed tables a bootstrap reads |
| `notified`, `listening`, `wake` | a notification under way, the LISTEN connection, the one-slot channel of `SubscribeRevisions` |
| `req` | a running `SyncActions` (its five statements are five states, `revision` and the page boundary are what it remembers), or a bootstrap, or a stream that waits |
| `screen` | the client's checkpoint and rows |
| `wrote` | history, for the properties only |

Actions: `Write`, `Flush`, `Commit`, `RollBack` of a writing transaction; `Prune`;
`Broadcast`, `ListenerDrops`, `ListenerReconnects`; `Connect`, `Wake`, `Heartbeat`,
`Disconnect` of a stream and `Pull` of a client of `GET /sync`; `SampleBounds`,
`CountBacklog`, `FindBoundary`, `CheckMore`, `ReadPage`; `BootBegin`, `BootRead`,
`BootEnd`, `BootAgain`.

An action is a full-row snapshot, so the content of a row is the revision that wrote
it, and a deletion is a content like another. A user's key is that user's
preferences, recorded for that audience only. A page and its checkpoint reach the
client in the step that reads them, or are lost with the connection; the detour
over `requestCatchUp` and frames dropped while dragging belong to `BoardClient`.
The parts of a bootstrap may be read in any order. The sync status is left out: it
is not a function of the logged transactions (`RecordSyncFailure` records no action).

`BoardHistory.tla` says what all this is for: commits happen one after the other, and
a client shows the board of one of them, restricted to what it may see, never an
older one than before. `ImplementsHistory` is `SyncLog` under that specification,
with `revision`, `wrote` and `screen` as they are.

| run | shows |
|---|---|
| `sync_stream` | two writers and one stream: `ViewIsPast` (the screen is the board of its checkpoint), `ImplementsHistory`, `NoLostWakeUp` (a waiting stream that is behind has a wake-up coming) |
| `sync_live` | `EventuallyShown`, although wake-ups, connections and old actions are lost and a listener may reconnect without a broadcast |

Two constants name the circumstances the properties need. With `PruneUnderReader`
FALSE, a trim does not remove what a running `SyncActions` still has to read: a
checkpoint would have to be seven days old for that, and `ViewIsPast` does not hold
[then](#where-code-and-documents-disagree). With `QuietReconnect` FALSE, the
listener's `Revision` query after `LISTEN` succeeds; if it fails there is no
broadcast, and only the heartbeat brings the stream up to date, which `sync_live`
includes.

## Accounts: logins, sessions and tokens

`Accounts.tla` follows the account of one user: GitLab's token pairs, the logins and
sessions, the callers that need the user's token (requests and workers), and the
directory refreshes that end all of it when the user leaves the project.

| model | code |
|---|---|
| `pairs` | the token pairs GitLab has issued: when each expires, and whether its refresh token was used |
| `logins`, `sessions` | `oauth_states` and the steps of `Complete`; `expires_at` in `auth_sessions` |
| `request` | a request between reading its session, looking at the clock and renewing it |
| `credential`, `call` | the stored pair; `AccessToken` of each caller between its reads, GitLab and its write |
| `refreshing` | `RefreshDirectory` of the ticker and of a webhook worker, between reading the members and `ReplaceDirectory` |
| `lost` | history: pairs whose successor never reached the database |

Actions: `Start`, `ConsumeState`, `ExchangeIdentity`, `CreateSession`, `LoginFails`, `Logout`,
`Prune`; `ReadSession`, `LookAtClock`, `TouchSession`, `DeleteExpiredSession`; `LoadCredential`, `RefreshToken`,
`RefreshFails`, `RefreshAnswerLost`, `StoreRefreshed`, `StoreFails`; `ReadMembers`, `ReplaceDirectory`,
`RefreshDirectoryFails`; `LeaveOrJoin` and `TimePasses` for the world.

| property | says |
|---|---|
| `CredentialWorks` | the stored refresh token is one GitLab still takes, or its user is about to store the next, or that one was lost: no caller overwrites a newer pair with an older one |
| `LeaversAreSignedOut` | whoever leaves for good has no session and no credential in the end, also if a login was half done |
| `SessionsRunTheirTime` | a running session ends only by logout or because the user left, and an ended one does not return, although requests act on what they read earlier |

`server` uses one login and two callers; its properties also held with two logins and
one caller (391 813 states). `server_overlaps` checks `SessionsRunTheirTime` with two
requests that read a session, look at the clock and renew or delete it in any order, and with
two logins, so that a session may begin while another ends. The user stays there and no
caller refreshes a token; the [theorem](#proofs) has all of it, and with a departure it held in
1 047 854 states, which is more than a run that also has the deliveries can take.

## BoardClient: one tab and its cache

`BoardClient.tla` models one tab. The server is a sequence of boards, one per commit,
as `BoardHistory` promises, so a frame or a page is a range of commits and a
bootstrap the number of one; the parts a server adds (paging, wake-ups) are SyncLog's.

| model | code |
|---|---|
| `cards`, `revision` | the bootstrap query's data and its checkpoint |
| `mine`, `post`, `retrying`, `deleting` | the operations the tab knows (`localRetries`), and its requests under way |
| `stream`, `epoch`, `catchUp`, `wanted`, `poll`, `reset` | the `EventSource`; `GET /sync`, the poll and `resetBootstrap`, each with what it has asked or read |
| `dragging`, `missed` | the drag flag, and whether something arrived under it |
| `boards`, `home`, `given`, `hidden` | the server: its boards, the card of each accepted operation, the iids it gave out, queued deletions |
| `touched` | history: the cards the tab acted on |

Actions are grouped in `Mutate` (edits, creates, deletions and retries, their answers and
failures), `Work` (the server's operations and other users), `Read` (catch-up, resets and
polls), `Listen` (stream, frames, heartbeats, lost connections) and `Drag`. A frame that
does not continue the checkpoint starts a catch-up; a page that is refused starts a
reset; frames and pages that arrive during a drag are not applied.

`BoardReplica.tla` says what a tab is for: it shows the board of its checkpoint, which
never goes back, except for the cards its user touched. `FollowsTheLog` is `BoardClient`
under it, with `at <- revision`, `shown <- OthersCards` and `own <- touched`.

| run | shows |
|---|---|
| `client_stream` | an edit, two other users, a deletion, a drag and a lost connection: `FollowsTheLog`, `UnsentEditShown` (an edit the server has not stored yet is on the screen) and `DragSeesOneBoard`; all three without bootstraps after the first (`MaxLoads` 0) |
| `client_create` | `CreatedOnce`: a new card is not listed twice, whichever of the answer, the frame of its temporary row and that of its completion comes first |
| `client_live` | `CatchesUp`: the checkpoint reaches the last commit, with lost connections, refused checkpoints, failed and stale bootstraps |

With a bootstrap fetched while the tab works, the three properties of `client_stream`
are [false](#where-code-and-documents-disagree): it replaces whatever the cache holds.

## The card page

The drawer of a card consists of fields that do not share state with each other. Each
module takes one of them, with other users and late answers as actions of its own;
`MCCardPage` checks them in one run, together with CardFields.

| module | source | what it models | property |
|---|---|---|---|
| `CardDrawer` | `BoardPage.tsx`: `CardDetail`, the guards around it, permanent deletion | which card is open, the drafts of title and description and their bases, the steps to the next card, the dialog and requests of a deletion; cards edited, re-keyed and removed by others | `DraftStaysWithCard`: drafts were started for the card that is shown. `UnsavedHoldsDrawer`: a step loses unsaved drafts only by saving or reverting them, when the card leaves the board or gets its IID, or when the answer to a deletion closes the drawer |
| `FieldSaves` | `useFieldSaveState.ts`, `runCardMutation`, `handleStatusMove`, `handleRetry` | the marker of each field, its timer, the requests and retries, the card's own sync state, the server's operations | `SavedIsStored`: a field marked as saved has its last edit stored. `SavingEnds`: a saving marker has an unanswered request or a timer |
| `CardRelations` | `CardRelationships.tsx`, `relationApi.ts` | the list and its reads, the optimistic removal with its roll-back, the search dialog and the request that relates | `ListEndsTrue`: when nothing is under way the drawer lists what GitLab holds |
| `CardComments` | `BoardPage.tsx`, `boardApi.ts` | the list, the composer, the submissions and what GitLab makes of them | `SubmittedTextSurvives`: what was submitted is stored or executed by GitLab, or still in the composer |
| `DateField` | `packages/ui` `DateField.tsx` | the text and its draft, the calendar with its focus, months and limits | `LastEntryIsKept`: the date entered last is the card's, unless somebody else changed it since, or changed it before and this edit had sent the same date already |
| `QuickActionInput` | `GitLabAutocompleteTextarea.tsx`, `quickActionAutocomplete.ts` | the text it is mounted over (`Drafts`), caret and the cursor the page remembers, the menu, requests of suggestions and the frame after a choice | `MenuIsAtCaret`: what the menu offers, and a choice replaces, stands at the caret, once an event has told the page of the caret |

Two of these properties have exceptions the code needs. `DateField` does not send a date twice in
one edit (`lastEmitted`, `DateField.tsx:349`): if somebody else changes the date in between,
and the user enters the same date again, that entry is dropped. The history `excuse`
tells this case ("repeated") from that of a date changed after the entry ("theirs").
`QuickActionInput` begins with the cursor behind the text and the caret before it
(`GitLabAutocompleteTextarea.tsx:34`, and the browser's focus), and the mouse moves the
caret as it goes down (`Press`) while the cursor follows with the click. The history
`told` says that an event has told the cursor since.

## The board page

`MCBoardPage` checks the modules of the board around its cards.

| module | source | what it models | property |
|---|---|---|---|
| `LabelCatalog` | `LabelManagerDialog.tsx`, `useProjectLabels.ts`, `CardTags`; what the server does with labels | GitLab's labels by identity; the server's row, the browser and an operation by name; the manager's requests and the reads they cause | `MenuFollowsCatalog`: after the manager's requests the menu offers the project's labels. `OnlyRemovedTagsGo`: what a worker takes from a card, the user took from it, or was not shown by its present name |
| `BoardDrag` | `useBoardDrag.ts`, `boardOrder.ts`, `handlePosition`, `handleStatusMove`; `reorderCardPositions`, `laneorder.go` | lanes, positions, hidden cards, sorts; the drag with its preview; the moves in flight, the server's rows | `DropLandsAsShown`: a drop leaves the lanes as the preview showed them and moves no other card past another. `ServerKeepsTheDrop`: the server puts the card where the browser showed it, unless others moved cards, moves overtook each other or a card is deleted |
| `BoardFilter` | `BoardFilters.tsx`, `TokenFilterInput.tsx`, `BoardPage.tsx`, `viewState.ts` | the search and its timers, tokens, pickers with their keyboard, the filter, the window on a closed lane, the address | `SearchIsTheTyped`: the applied search is the one typed last, unless its timer runs. `ReloadKeepsView`: loading the address again shows the same cards in the same way |
| `GanttChart` | `ganttModel.ts`, `GanttView.tsx` | the rows and their order, the timeline derived from the dates, marks, milestones and today's line, the viewport | `MarksFit`: the timeline consists of whole weeks and every mark lies on it with a week to spare |

## Bounds

Every constant that bounds a counter is named `Max...` or listed here; the `.cfg` files
have the values.

**CardOps**: `MaxOps` 2 (3 in `ops_screen`): a create with an edit on top of it, an edit
with a deletion, two requests stored against their stamps and a third operation that
overtakes. Stamps are ranks, so as many as operations. `MaxIssues` 2: one known issue
(`Known` {1}) and one that a create or its repetition makes; it also stands in for
GitLab, since a create is refused (`CallFindsNothing`) once it is used up, which keeps
the repeated creates of a taken key finite. Two workers (the one that stalls and the
one that takes over; one in `ops_live`), and one each of faults, retries and outside
changes, so that a failure, its retry and an outside change can meet (`ops_screen`, with its
third operation, has no outside change: the operations alone bring newer versions). Workers are
symmetric in the safety runs; liveness runs use no symmetry.

**SyncLog**: `MaxRev` 2 commits, enough for one to overtake another and for a page to end
between two; `MCChanges` gives a commit a public row, a public row with the watched
user's preferences, another user's preferences, or nothing. `Budget` 2 stands for the
2000 actions of `syncCatchUpBudget`, and `Limits` {1, 2} puts the page boundary on either
side of a transaction. One trim of any set of recorded actions, one lost connection
of the stream or of the listener; one client at a time, on the stream or paging
(`OneClient`), since clients do not influence each other; two writers where their
order matters, one in `sync_live`.

**BoardClient**: `client_stream` has one edit of this tab, two of others, 3 commits, frames
and pages of up to 2, one deletion, drag and lost connection. `client_create` has a new
card, another user's, 3 commits, 2 failures and a deletion. `client_live` has 2 commits in
frames of 1, so that a tab can fall behind by more than a frame, and one each of
errors, bootstraps, drags and lost connections. `TempsUsed` 5 is a database that has
given out temporary keys before, so that its next one is not one the tab chose.

**BoardIntake and Accounts**: in `server` two issues, because an absence is only believed
when something else is present; one worker, three ticks of the clock, two events
(edits, operations, failures, crashes), an overlap as long as the lag. One login, two
callers that refresh, one request, three token pairs, one departure or return;
sessions and states live for one tick, tokens for none, so each can run out.
`server_overlaps` has two workers, one issue, two events and two attempts: enough for a delivery
to be taken over, ended twice and begun again. Its sessions live for two ticks of the clock, which
reaches 3, so one can be renewed, and be found expired by a request that read it before.

**The pages**: two fields and two edits with three sends (an edit, its successor and a
retry); two related items and one search; two submissions, one of them a quick action;
three entered dates over the edge of a month; texts of
two symbols, the text area mounted over none or over a sign of reference, whose names only GitLab
knows; three cards, of
which one may be hidden, in two lanes; two labels under two names; a page of one
card for the window on a closed lane. Each is the least in which the hazards listed for the module
occur, and the mutants show that the properties notice when they go wrong.

Every run is allowed to stop (`CHECK_DEADLOCK FALSE`): when its budgets are used up and
nothing is queued, nothing is left to do.

## Fairness

Users, other clients, faults, crashes, lost connections and trims are never fair:
nothing obliges them. What is fair:

| specification | fair | because |
|---|---|---|
| CardOps `FairSpec` | a worker's next step, the lapse of a lease | `RunOperations` polls every half second and never stops; time passes |
| SyncLog `FairSpec` | a stream's next step, the broadcast of a notification, the listener's reconnection | `syncEvents` drains until nothing is left, the heartbeat ticks every 15 seconds and `EventSource` reconnects; the listener retries every second |
| BoardClient `FairSpec` | the server's answers and their arrival, frames, the heartbeat, the reconnection, the effect that subscribes again, the end of a drag | requests end, timers and effects run, and a drag ends when the pointer is released or lost |
| BoardIntake `IntakeFairness` | `StartRead` of every kind, strongly: a ticker keeps its tick until `Run` takes it, and `select` is fair among the ready; weakly, reads, workers, the expiry of a claim, the completion of an operation, and that a change becomes visible | the loops never stop, and GitLab's replicas catch up |
| Accounts `AccountFairness` | `ReadMembers` of the ticker, weakly; its `ReplaceDirectory`, strongly | the ticker comes again whatever a refresh ended with, and one in so many refreshes succeeds |

`EventuallyShown` does not exclude that a board which changes without pause starves a
bootstrap: commits are bounded, and each attempt of a bootstrap needs a moment
without one. `MCServer` restates the fairness of its two modules conjunct by
conjunct, each action with the guard of its panel.

## Proofs

Eight modules hold theorems; TLAPS checks them to the last leaf. None assumes more
than the named assumption of its model's constants and what the table gives: the same
circumstances as in the runs, without which the property is
[false](#where-code-and-documents-disagree).

| module | theorem | statement | given |
|---|---|---|---|
| CardOpsProofs | `Invariance`, `TypeCorrect` | `Spec => []IInv`, `Spec => []TypeOK` | |
| | `ChipsAreTrue`, `SyncedMeansReached`, `DeletedMeansGone` | `Spec => []ChipTruth`, `[]SyncedReached`, `[]DeletedIsGone` | |
| | `IntentStaysShown` | `Spec => []IntentShown` | `~StaleScreens` |
| | `QueueInvariance` | `Spec => [](IInv /\ QueueInv)` | `~StaleScreens`, `~LeaseOutlived` |
| | `OneWorkerAtATime`, `FailuresAreShown`, `VersionsNeverGoBack` | `Spec => []OneWorkerPerCard`, `[]FailureIsVisibleOnIssues`, `VersionMonotoneOnIssues` | the same |
| CardFieldsProofs | `EditsAlwaysSurvive` | `FieldsSpec => []EditsSurvive` | |
| SyncLogProofs | `Invariance`, `TypeCorrect`, `NothingSkipped` | `Spec => []IInv`, `[]TypeOK`, `[]ViewIsPast` | `~PruneUnderReader` |
| | `Implements` | `Spec => ImplementsHistory` | `~PruneUnderReader` |
| | `NoWakeUpLost` | `Spec => []NoLostWakeUp` | also `~QuietReconnect` |
| BoardClientProofs | `ClientInvariance`, `CheckpointInvariance` | `Spec => []ClientInv`, `[]BoardAtCheckpoint` | `MaxLoads = 0` |
| | `FollowingTheLog` | `Spec => FollowsTheLog` | `MaxLoads = 0` |
| | `DragsSeeOneBoard` | `Spec => DragSeesOneBoard` | `MaxLoads = 0` |
| | `OwnInvariance` | `Spec /\ [][Heard]_vars => []OwnInv` | `OrdinaryTab` |
| | `EditsStayShown`, `NewCardsAreListedOnce` | `Spec /\ [][Heard]_vars => []UnsentEditShown`, `[]CreatedOnce` | `OrdinaryTab` |
| ServerProofs | `OverlapIsEnough` | `IntakeSpec => []CursorCoversUpdates` | |
| | `CredentialAlwaysWorks`, `AccountsTyped` | `AccountSpec => []CredentialWorks`, `[]AccountTypeOK` | |
| | `SessionsHold` | `AccountSpec => SessionsRunTheirTime` | |
| CardPageProofs | `DraftsAreOfTheCard`, `UnsavedHolds` | `DrawerSpec => []DraftStaysWithCard`, `UnsavedHoldsDrawer` | |
|  | `SavedMeansStored`, `MarkersMoveOn` | `SavesSpec => []SavedIsStored`, `[]SavingEnds` | |
|  | `SubmittedIsKept` | `CommentsSpec => []SubmittedTextSurvives` | |
|  | `RelationsEndTrue` | `RelationsSpec => []ListEndsTrue` | |
|  | `LastDateIsKept` | `DateSpec => []LastEntryIsKept` | |
|  | `MenuFollowsCaret` | `InputSpec => []MenuIsAtCaret` | |
| BoardPageProofs | `MenuEndsTrue`, `OnlyRemovedLabelsGo` | `LabelsSpec => []MenuFollowsCatalog`, `OnlyRemovedTagsGo` | |
|  | `SearchFollowsTyping`, `ReloadsKeepView` | `FilterSpec => []SearchIsTheTyped`, `ReloadKeepsView` | |
|  | `DropsLand`, `ServerPutsItThere` | `DragSpec => DropLandsAsShown`, `ServerKeepsTheDrop` | |
|  | `MarksAlwaysFit` | `GanttSpec => []MarksFit` | |
| ListsProofs | lemmas only | what `KeepPlaces`, `Only` and `Sorted` return, for every list | |

The theorems hold for every value of the constants, and so for any number of cards,
operations, workers, clients, callers, fields, faults and steps.

**CardOps.** None of the properties is inductive alone. `IInv` adds what the code relies on
without saying so: operations name cached rows (`OpsNameRows`, the foreign key), unused
ids are unused (`Numbering`), a create names its own temporary card until it is
synced (`CreateKeys`, `TempRows`), and what a worker remembers of its claim stays
compatible with the tables while others act: its operation may meanwhile have been
ended by another worker or have lost its card, but it never names a different card,
an answered operation did reach GitLab, and an answered deletion left nothing there
(`WorkerInv`). There is one lemma per action; the three final transactions share
`EndOfAttempt`, and the two that remove or re-key rows share `Detach`, `Follow` and
`TruthfulKept`, which say when a truthful row stays truthful under `Rekey`.

`IntentShown` needs two facts beside it: a temporary card waits for or has failed its
create (`TempsWait`), so a merge cannot replace it, and only issues are deleted
(`DeletesOfIssues`), so an edit is never hidden behind the deletion of another card. For
the queue `QueueInv` has what the claim query establishes and the leases keep: an
operation in the queue of a card in `InOrder` has those stored after it waiting, with later stamps
(`QueueOrder`), so that a worker at work holds the one processing operation of its card; and the
row's current operation is the one stored last, of every known card (`CurrentIsNewest`), which
does not need the order. This is
where the two circumstances are used: Retry on a screen that is behind makes an older
operation current, and a worker that outlasts its lease works beside the next.

**CardFields.** `FieldsInv` speaks of what is known rather than of what is stored: every edit
remembers which edits its user had seen, every reading which edits it contains. An edit is
carried out after those it knew of (`EditOrder`), since operations are claimed in the
order of `created_at`; a card has, of the edits it knows, every field that nothing takes
away (`EditsHold`, `CacheHolds`); readings of one issue are ordered by their version, and a
later one knows more (`FoundInOrder`); and once an edit is stored the card in the cache
knows it, because the row has the operation of the edit or of one that knew it, or is newer
than every reading that lacks the edit (`CacheKnows`). The last is why a merge of an old
reading cannot take an edit away, and its case is the longest of the proof.

**SyncLog.** `ViewIsPast` rests on the log being complete above the floor (`LogComplete`),
which rests on numbers being drawn under the row lock (`LockHolds`: whoever holds the
row, and nobody else, has the next number); on what a request remembers between its
statements (`ReaderInv`: the floor stays below its checkpoint, and between the page's end
and the sampled revision nothing visible is skipped); and for bootstraps on the
tables being the sum of the commits (`DataIsCurrent`) and on what has been read being
current while the revision stands (`BootInv`). The assumption about pruning is used
once, for `Prune` and `ReaderInv`. `Implements` maps `Commit` to a commit, `ReadPage` and
`BootEnd` to a refresh, and everything else to a stutter. `NoWakeUpLost` adds that a
request which sampled an older revision will be woken as well (`WakeInv`).

**BoardClient.** `ClientInv` says that the list is the board of the checkpoint in the cards of
others (`BoardAtCheckpoint`), that each of them has one place in it (`ViewTrue`), that boards
have one card of an iid and an operation of others is on one card (`BoardsTrue`), and that
what has been asked for or is on its way starts at or below the checkpoint and has been
committed (`ReadsCommitted`): a page that starts later would leave a gap. Frames and pages are
folds of commits over the list, so the heart of the proof is that `ApplyCommit` takes
the cards of others from one board to the next, wherever the list has them
(`KeepPlaces` and `Upsert`). The hypothesis
`MaxLoads = 0` is that no bootstrap is fetched after the first.

`OwnInv` is about the cards `ClientInv` leaves out, those of this tab. It has four parts. What
the server has stored (`ServerTrue`): an operation stays on the card it was stored with or on
the one GitLab made of it; a temporary card goes in the commit that brings a GitLab iid no
board has shown, and never comes back (`RenamesTrue`); the first card under the iid of a new
card is the one this tab created (`FirstsTrue`). What the requests say (`RequestsTrue`): the
iids this tab gives its new cards are apart from each other and from all the server gives.
What is being deleted is no card with an edit under way (`DeletesTrue`). And the list after
commit `r` (`OwnView`): one place for an iid, no iid that the first `r` commits have not shown
except those of this tab's requests, the operations of this tab only where they were put or
where the log has moved them, and the place of every edit that waits. Reading one more commit
keeps `OwnView` (`ApplyOwn`): a completion takes the place of the temporary card it names
(`CompletionOwn`); any other card written replaces a card of its iid only if no edit of it
waits, and a card of its operation only if that is this tab's own view of the new card
(`SameCard`, `WriteOwn`). So no order of answers, frames and pages takes an edit away or
doubles a card.

`OrdinaryTab` says that no bootstrap is fetched after the first (`MaxLoads = 0`), and that the
tab creates no more cards than there were temporary iids given out before (`TempsUsed`).
`Heard` says which failures a step may be. A request may be lost before the server has
stored its operation, be refused and be sent again, an operation may fail at GitLab and be
retried, and the answer to that may be lost; the answer to an operation the server has stored
is not lost, and no deletion fails. [Below](#where-code-and-documents-disagree) are runs
that violate `UnsentEditShown` with a second bootstrap, with no temporary iid given out
before, and with a lost answer. That no deletion fails is a condition of the proof, and no
counterexample without it is known: all deletions of the model share the id `Deletion`, so
that an operation stays with its card, as `OwnInv` has it, is not true of them.
`client_stream` runs inside the hypothesis; `client_create` also loses the answer to a stored
card and lets a deletion fail, where `CreatedOnce` is model-checked.

**BoardIntake.** A card is settled for a read if it changed more than `Lag` before the read
began. `Reading` says that a read under way has found every settled card it has
passed, and `Working` the same of the card of a worker's delivery; `Clocked` bounds how
far the clock has run ahead of what is listed and of what an operation was answered.
A merge therefore brings every settled card up to date, the watermark it sets is one
of the versions it found, and `Lag + ReadTime <= DeltaOverlap` closes the gap to the
next delta.

**Accounts.** A pair that is not stored yet is held by exactly one login (`LoginsAlone`) or
one caller (`CallsAlone`), and every pair somebody holds has been issued
(`CallersHavePairs`). So whoever stores a pair stores one nobody has used, and a caller
that stores it replaces the pair it was made from. `SessionsHold` needs types only: the statement that
prolongs a session and the one that deletes it test again, in their own `WHERE`, what the
request read before.

**The pages.** `DrawerInv` is `DraftStaysWithCard` with the type invariant, by which a drawer
that shows a card has a form. `SavesInv` relates the marker of a field to the newest
edit of that field (`MarkersAreLatest`), and what has been answered or is marked as
saved to the state the server has of the operation. `CommentsInv` adds to the property
that an answered submission is in GitLab, and that one which is not is in the
composer. `RelationsInv` says that with no request unfinished the list, and the answer of a
read under way, are what GitLab holds; `DateInv` that a draft which is a date was sent, or is the
card's, or has an excuse, and that what this edit sent last is what the user entered last. `LabelsInv` follows the menu and its read in the same way, and says of a worker's
operation that each name it keeps was seen by its user. `FilterInv` is that the only timer running is
that of the text typed last, and `ViewInv` that the people of the view are a list, so that an address
they are all known from gives the same list back. `InputInv` keeps caret and cursor together in the
text once the cursor has been told; what a choice leaves behind is waited for by its frame. `MarksAlwaysFit` needs no invariant: it is arithmetic of weeks, that rounding
down to a Monday and up to the end of a week leaves a week at both ends.

**The drag.** `DragInv` says of the preview of a drag what makes it a plan: the card is
in one lane of it, once, and without the card every lane is the board's order of its visible
cards. A drop takes its position from a neighbour (`WantedBetween`), so
putting the card at that position among all the cards of the lane, hidden ones included,
gives the preview once the hidden ones are taken out again (`OnlyInserted`, `LandsAsSeen`).
A lane that has just been numbered is in the order it was numbered in (`NumberedOrder`); if the
drop changes nothing, the lane has been in that order already, since positions without
holes count the cards in front (`CompactNumbers`, `CompactLands`). For the server, `StraightInv`
says that the moves still on their way lead, one after the other, from the lanes of the server
to those the browser shows (`Chain`), so the server computes for the first of them the order
the browser did when the card was dropped.

**Lists.** The provers cannot instantiate the induction theorems of the library, which
take an operator as a parameter. `ListsProofs` does without: a statement that fails for
some number fails for a least one (`LeastOfNat`, from the well-foundedness of the numbers as a
set of pairs), and the step up to that number refutes it. `KeptPlaces` gives the shape of
what is left of a list, as a function that increases from its places to those of the original;
`Arrangeable` that a finite set with a strict order has an arrangement, and `SortedIs`
that it has only one. Everything said about orders of lanes, places of cards, tokens
and commits rests on these three.

Only model-checked:

- all liveness properties, since fairness and `ENABLED` are out of TLAPS's reach;
- `UnsentEditShown` and `CreatedOnce` outside `Heard`, when the answer to a stored operation is
  lost or a deletion fails: the first is false in larger instances with a lost answer
  ([below](#where-code-and-documents-disagree)); for the second no counterexample was found
  with a second create or an edit beside it, in the part of those instances that was explored.

## Where code and documents disagree

These are properties of the modules that are in no run because the code does not
keep them. Each names the constants in which a run differs from the `.cfg` given.

| property | refuted by | what the code does | what is said |
|---|---|---|---|
| `FailureIsVisible` | `CardOps_screen` | a failed create and its retry take a card's current operation back from a newer edit (`repository.go:738-743`, `:1420-1423`), which then fails without chip or Retry | `design.md:62`: durable failures "expose Retry" |
| `PendingCardSettles` | `CardOps_live` | an edit of a card whose create failed names a negative IID, which the claim query never selects (`repository.go:528`): pending for good, and the failed create cannot be reached | `ARCHITECTURE.md:27`: failed operations "can be retried" |
| `DeletionEnds` | `CardOps_live`, `StaleScreens` TRUE, `MaxOps` 3 | the retry of an older failed edit takes the card from a queued deletion (`repository.go:1420-1423`), whose completion then finds no row of its own (`:705-714`) and is rolled back at every lease | `ARCHITECTURE.md:27`: a failed deletion restores the card, success deletes the row |
| `DeletedStaysDeleted` | `CardOps_safety` | an answer read before a deletion is inserted after it: no row is left to compare with (`cardobservations.go:132-146`) | `ARCHITECTURE.md:27`: merges "reject GitLab data older than a completed local mutation" |
| `VersionMonotone` | `CardOps_safety` | a completion sets `gitlab_updated_at` to its answer's before the merge compares it (`repository.go:611`, `:632`) | `cardobservations.go:56`: a row "newer than the observation is left alone" |
| `OwnFieldsOnly` | `CardPage` | an operation sends fields the user did not change, of the card it claimed (`sync/service.go:355-382`), and a request writes back a whole card it read earlier (`board/service.go:340-371`) | `ARCHITECTURE.md:27`: a worker "sends only that operation's stored fields" |
| `ConfirmedMidSweepIsKept` | `Server` | a webhook that was claimed before a sweep began stamps its card with a time before it, also when it puts the card on the board after; the sweep may prune it | `cardobservations.go:103-105`: the webhook that reconciled it mid-fetch "stamps gitlab_observed_at past StartedAt" |
| `SignInIsNeeded` | `Server` | the refresh of a token fails because another caller has just refreshed it, and the operation fails with the advice to sign in again although the stored credential works | `sync/service.go:464-468`: "sign out and sign in again" |
| `ViewIsPast` | `SyncLog_stream`, `PruneUnderReader` TRUE | `SyncActions` reads the floor in one statement and the page in another (`actions.go:181`, `:241`); a trim in between makes it return a page with a hole, to a client as old as the retention | `actions.go:174-176`: it never leaves a client "permanently and invisibly stale" |
| `BoardAtCheckpoint` | `BoardClient_stream`, `MaxLoads` 1 | a bootstrap of an older commit replaces cache and checkpoint (`App.tsx:62`); a page asked for before is then applied to it (`:105-112`) and the commits in between are never read | `handler_events.go:84-88`: a client that notices a gap "falls back to GET /sync and catches up" |
| `UnsentEditShown` | `BoardClient_stream`, `MaxLoads` 1, `MaxErrors` 1 | a bootstrap also replaces optimistic cards (`App.tsx:62`); if the edit's request then fails no card of the operation is left (`BoardPage.tsx:317-325`) | `design.md:62`: failures "preserve user intent and expose Retry" |
| `UnsentEditShown` | `BoardClient_stream`, `Updates` {u1, u2, u3}, `Theirs` {t1}, `MaxDeletes`, `MaxDrags` and `MaxDrops` 0, `MaxErrors` 1 | the answer to an edit of a temporary card is lost; sent again, it returns the completed card, before the log says so. A frame lists the temporary card again, it is edited once more, and the frame of the completion puts the card of that edit in its place, removing the one with an edit not sent yet (`syncActions.ts:114-117`) | `design.md:62`, as above |
| `UnsentEditShown` | `BoardClient_create`, `TempsUsed` 0 | the completion of a create is matched by IID only (`syncActions.ts:111-118`), so another user's may replace this tab's unsent card with the same temporary IID; it takes a young database | `syncActions.ts:121-123`: "Match the operation first" |
| `IntentKept` | `BoardClient_create`, `Updates` {u1} | the completion of a create replaces the card without asking whether the tab edits it (`syncActions.ts:111-119`), and the edit's request is answered with 404 | `design.md:62`, as above |
| `FailureIsRetryable` | `BoardClient_stream`, `Theirs` {t1}, `Updates` {}, `MaxRev` 4, `MaxErrors` 2 | when the answer to a retry is lost, the card is marked as failed whatever it has become (`BoardPage.tsx:587-589`); if the operation has ended, Retry does nothing (`:579`) | `ARCHITECTURE.md:27`: failed operations "can be retried" |
| `DragSeesOneBoard` | `BoardClient_stream`, `MaxLoads` 1, `MaxErrors` 1 | the fetch of `resetBootstrap` is not held back during a drag | `syncActions.ts:29-30`: drags use "the exact card order visible at drag start" |
| `FilterChangeResetsWindow` | `BoardPage` | the window belongs to the filters it was opened under (`BoardPage.tsx:253-254`): changing them and back shows it as wide as before | `design.md:64`: changing filters "resets the closed-lane window to the latest 50" |
| `ServerPlacesAsShown` | `BoardPage` | the server counts cards whose deletion is pending, which no browser shows, and leaves gaps where cards were deleted (`laneorder.go`, `repository.go:1350`) | `design.md:65`: visible cards act "as insertion anchors" |
| `RetiredNameIsHidden` | `BoardPage` | the cache is rewritten when a label is renamed or deleted, and a frame or a bootstrap read before brings the name back | `LabelManagerDialog.tsx:41-43`: "this only avoids the gap" |
| `FailedFieldIsRetryable` | `CardPage` | of two fields that are edited one after the other, the card keeps the last operation; if the first fails, its marker says failed and the card's Retry is about the other | `SaveIndicator.tsx:17-18`: the "authoritative failure surface stays the card-level alert" |

## Observations

Behaviour that no document speaks of, met while modelling:

- Two requests of one card that are stored in another order than they read the clock
  (`board/service.go:341`) are claimed side by side (`repository.go:529-538`): two workers
  act on the issue, its version may go back (`repository.go:632`), and if the one stored
  first fails after the other has ended, the card shows nothing of it. See
  [CardOps](#cardops-the-operation-queue-and-the-optimistic-cache).
- A frame that ends an operation may overtake the answer to its request: it is
  taken for another's change and the checkpoint moves on, and the answer then shows
  the older row as pending until something else changes the card (`BoardPage.tsx:341-342`,
  `syncActions.ts:20-25`). The field's own marker does resolve. `PendingIsUnfinished` of
  BoardClient says that it does not happen; the constants of `client_stream` refute it.
- A date field sends no date twice in one edit: a date entered again after somebody else
  changed it is dropped (`DateField.tsx:349`). A field that is only focused and left
  writes back the date it showed at first, over a change made meanwhile.
- The text area of a description is mounted with its cursor at the end of the text and
  its caret at the start (`GitLabAutocompleteTextarea.tsx:34`, `BoardPage.tsx:1359-1367`). Until
  a click or a key, and while the mouse is down, a menu may open for a reference away from
  the caret.
- A Gantt timeline that vanishes because nothing is scheduled, and returns at the same
  scale, is not centred on today again (`GanttView.tsx:32-35`).
- After a choice in the autocompletion, a symbol typed before the next frame is typed,
  and the caret is then put back behind the choice (`QuickActionInput!Frame`).
- Reverting a description leaves its edit mode, unless the description is empty.
- Assignees are not among the fields whose difference makes the merge write a row
  (`upsertCardSQL`), so the ones of an overlapping request may stay until something
  else changes.
- Two overlapping renewals may move a session's expiry back by the time between
  their readings of the clock; the session stays alive (`SessionsRunTheirTime`).
- `OneWorkerPerCard` does not hold for cards a create brought in: see
  [CardOps](#cardops-the-operation-queue-and-the-optimistic-cache).

## What is not modelled

- **Row locks** of the card writers (a deadlock of two transactions ends with an error
  of one of them), and the lanes of cards a merge inserts: planned as LaneLocks.
- **The sync status** (`RecordSyncFailure`): what the status line shows is not part of the
  log. The quarantine table and the pruning of settled operations change no card.
- **Directory contents, preferences, profiles, encryption, CSRF tokens**: they keep no
  state that others act on beside the rows of Accounts.
- **The GitLab client's** lifecycle cache and wire formats, the HTTP transport, routing,
  configuration and start-up: conversions and wiring.
- **Migrations** run once before the server starts; the constraints they declare are
  modelled where they act (`Rekey`).
- **Several tabs** of one browser (they share nothing but the server), demo mode, the
  image export and presentational components.
- Formats, texts and layout, except where a property is about them.

Of the hazards in `PROJECT.json`, those without a property say why in their note: the
code lets them happen, or a proved invariant covers them.
