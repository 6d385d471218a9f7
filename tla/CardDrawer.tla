----------------------------- MODULE CardDrawer -----------------------------
(***************************************************************************)
(* The detail drawer of the board page: the card it shows, the drafts of   *)
(* its title and description, the guard that keeps it open while they are  *)
(* unsaved, and the permanent deletion of its card                         *)
(* (web/src/features/board/BoardPage.tsx, CardDetail and its caller).      *)
(*                                                                         *)
(* The cards come from the board's cache: other tabs edit them, remove     *)
(* them and give a new card its IID while the drawer is open.  BoardClient *)
(* models how; here such a change is one action.                           *)
(***************************************************************************)
EXTENDS Integers, Sequences, FiniteSets, SequencesExt

CONSTANTS CardOrder,        \* sequence of IIDs: orderedCards when all are present
          Temp, Final,  \* the temporary IID of a new card, and its IID in GitLab
          Titles, Descriptions,
          BlankText,    \* the title that trims to nothing
          NoCard,       \* no detailIid
          MaxRemote,    \* bound: changes made by others
          MaxDeletes    \* bound: deletions this tab requests

Iids == ToSet(CardOrder)

ASSUME DrawerAssumption == /\ IsInjective(CardOrder)
                           /\ {Temp, Final} \subseteq Iids /\ Temp # Final
                           /\ NoCard \notin Iids
                           /\ BlankText \in Titles /\ Titles # {BlankText} /\ Descriptions # {}
                           /\ MaxRemote \in Nat /\ MaxDeletes \in Nat

VARIABLES cards,        \* the cards of the cache, by IID
          detailIid,    \* the card the page was asked to show
          form,         \* the mounted drawer: drafts, dialog, deletion
          deletes,      \* deletion requests, in the order they were sent
          gone,         \* cards whose deletion the server has accepted
          remote        \* counts the changes made by others

drawerVars == <<cards, detailIid, form, deletes, gone, remote>>

DrawerCard == [title : Titles \ {BlankText}, description : Descriptions, synced : BOOLEAN]

Text(field) == IF field = "title" THEN Titles ELSE Descriptions

Form == [title : Titles, description : Descriptions,
         of : Iids,      \* history: the card the drafts were started for
         nudged : BOOLEAN, deleteOpen : BOOLEAN, deletion : 0 .. MaxDeletes, refused : BOOLEAN]

NoForm == [title |-> NoCard]

Delete == [card : Iids, state : {"sent", "accepted", "refused", "answered"}]

DrawerInit ==
    /\ cards = [i \in Iids \ {Final} |->
                   [title |-> CHOOSE t \in Titles : t # BlankText,
                    description |-> CHOOSE t \in Descriptions : TRUE, synced |-> i # Temp]]
    /\ detailIid = NoCard /\ form = NoForm
    /\ deletes = <<>> /\ gone = {} /\ remote = 0

-----------------------------------------------------------------------------
(* Rendering *)

\* CardDetail is keyed by the IID: a new card mounts a new drawer.
Mounted(iid, card) ==
    [title |-> card.title, description |-> card.description, of |-> iid,
     nudged |-> FALSE, deleteOpen |-> FALSE, deletion |-> 0, refused |-> FALSE]

\* Mutant: without the key, the drawer keeps its state across cards.
RenderedUnkeyed(iid, board, f) ==
    IF iid \notin DOMAIN board THEN NoForm
    ELSE IF form # NoForm THEN f ELSE Mounted(iid, board[iid])

\* The drawer after a render with this detailIid and these cards, where it
\* was left as f.
Rendered(iid, board, f) ==
    IF iid \notin DOMAIN board THEN NoForm
    ELSE IF form # NoForm /\ detailIid = iid THEN f
    ELSE Mounted(iid, board[iid])

ShowCard(iid, board, f) ==
    /\ detailIid' = iid
    /\ cards' = board
    /\ form' = Rendered(iid, board, f)

IsOpen == form # NoForm

\* The deletion is confirmed in a modal dialog over the drawer.
Editable == IsOpen /\ ~form.deleteOpen

DetailsDirty ==
    \/ form.title # cards[detailIid].title
    \/ form.description # cards[detailIid].description

OrderedCards == SelectSeq(CardOrder, LAMBDA i : i \in DOMAIN cards)

-----------------------------------------------------------------------------
(* The user *)

\* Cards are opened from the board, which the open drawer covers.
OpenCard(iid) ==
    /\ ~IsOpen
    /\ iid \in DOMAIN cards
    /\ ShowCard(iid, cards, form)
    /\ UNCHANGED <<deletes, gone, remote>>

EditDraft(field, text) ==
    /\ Editable
    /\ text \in Text(field) \ {form[field]}
    /\ form' = [form EXCEPT ![field] = text]
    /\ UNCHANGED <<cards, detailIid, deletes, gone, remote>>

\* Mutant: leaving asks nothing.
NoGuard(iid) == ShowCard(iid, cards, form)

\* Unsaved drafts refuse to leave and make the bar say why.
GuardExit(iid) ==
    IF DetailsDirty
    THEN /\ form' = [form EXCEPT !.nudged = TRUE]
         /\ UNCHANGED <<cards, detailIid>>
    ELSE ShowCard(iid, cards, form)

LeaveCard(iid) ==
    /\ Editable
    /\ iid \in DOMAIN cards \cup {NoCard}
    /\ GuardExit(iid)
    /\ UNCHANGED <<deletes, gone, remote>>

CloseDrawer == LeaveCard(NoCard)

StepCard(by) ==
    /\ Editable
    /\ LET at == IndexFirstSubSeq(<<detailIid>>, OrderedCards) + by
       IN  at \in DOMAIN OrderedCards /\ LeaveCard(OrderedCards[at])

OpenRelated(iid) == iid # detailIid /\ iid # NoCard /\ LeaveCard(iid)

RevertDetails ==
    /\ Editable /\ DetailsDirty
    /\ form' = [form EXCEPT !.title = cards[detailIid].title,
                            !.description = cards[detailIid].description,
                            !.nudged = FALSE]
    /\ UNCHANGED <<cards, detailIid, deletes, gone, remote>>

\* Title and description are saved together; the card shows them at once.
SubmitDetails ==
    /\ Editable
    /\ form.title # BlankText
    /\ cards' = [cards EXCEPT ![detailIid] = [title |-> form.title, description |-> form.description,
                                              synced |-> FALSE]]
    /\ form' = [form EXCEPT !.nudged = FALSE]
    /\ UNCHANGED <<detailIid, deletes, gone, remote>>

\* The section with the button is there for a synchronized card only.
AskDelete ==
    /\ Editable
    /\ detailIid # Temp /\ cards[detailIid].synced
    /\ form.deletion = 0
    /\ form' = IF DetailsDirty THEN [form EXCEPT !.nudged = TRUE]
               ELSE [form EXCEPT !.deleteOpen = TRUE, !.refused = FALSE]
    /\ UNCHANGED <<cards, detailIid, deletes, gone, remote>>

CancelDelete ==
    /\ IsOpen /\ form.deleteOpen
    /\ form' = [form EXCEPT !.deleteOpen = FALSE]
    /\ UNCHANGED <<cards, detailIid, deletes, gone, remote>>

\* The confirming button closes the dialog and sends the request.
ConfirmDelete ==
    /\ IsOpen /\ form.deleteOpen
    /\ Len(deletes) < MaxDeletes
    /\ deletes' = Append(deletes, [card |-> detailIid, state |-> "sent"])
    /\ form' = [form EXCEPT !.deleteOpen = FALSE, !.deletion = Len(deletes) + 1]
    /\ UNCHANGED <<cards, detailIid, gone, remote>>

-----------------------------------------------------------------------------
(* The deletion *)

ServerAnswers(d) ==
    /\ deletes[d].state = "sent"
    /\ \/ /\ deletes[d].card \notin gone
          /\ deletes' = [deletes EXCEPT ![d].state = "accepted"]
          /\ gone' = gone \cup {deletes[d].card}
       \/ /\ deletes' = [deletes EXCEPT ![d].state = "refused"]
          /\ UNCHANGED gone
    /\ UNCHANGED <<cards, detailIid, form, remote>>

Without(iid) == [i \in DOMAIN cards \ {iid} |-> cards[i]]

\* handleDelete goes on after its request: the card leaves the board, and the
\* page closes its drawer.
DeleteAccepted(d) ==
    /\ deletes[d].state = "accepted"
    /\ ShowCard(NoCard, Without(deletes[d].card), form)
    /\ deletes' = [deletes EXCEPT ![d].state = "answered"]
    /\ UNCHANGED <<gone, remote>>

\* Only the drawer that sent the request shows its failure.
DeleteRefused(d) ==
    /\ deletes[d].state = "refused"
    /\ deletes' = [deletes EXCEPT ![d].state = "answered"]
    /\ form' = IF IsOpen /\ form.deletion = d
               THEN [form EXCEPT !.deletion = 0, !.refused = TRUE] ELSE form
    /\ UNCHANGED <<cards, detailIid, gone, remote>>

-----------------------------------------------------------------------------
(* What reaches the cache meanwhile *)

\* A frame shows another tab's edit, or the end of this card's operation.
RemoteEdit(iid, card) ==
    /\ remote < MaxRemote /\ remote' = remote + 1
    /\ iid \in DOMAIN cards /\ card # cards[iid]
    /\ card.synced => iid # Temp
    /\ cards' = [cards EXCEPT ![iid] = card]
    /\ UNCHANGED <<detailIid, form, deletes, gone>>

OperationEnds(iid) ==
    /\ iid \in DOMAIN cards \ {Temp} /\ ~cards[iid].synced
    /\ cards' = [cards EXCEPT ![iid].synced = TRUE]
    /\ UNCHANGED <<detailIid, form, deletes, gone, remote>>

\* A deletion in GitLab, pruned by the merge.
TheyDelete(iid) ==
    /\ remote < MaxRemote /\ remote' = remote + 1
    /\ iid # Temp
    /\ gone' = gone \cup {iid}
    /\ UNCHANGED <<cards, detailIid, form, deletes>>

\* The frame of a deletion, this tab's or another's.
RemovalSeen(iid) ==
    /\ iid \in gone \cap DOMAIN cards
    /\ ShowCard(detailIid, Without(iid), form)
    /\ UNCHANGED <<deletes, gone, remote>>

\* The new card gets its IID.
Rekeyed ==
    /\ remote < MaxRemote /\ remote' = remote + 1
    /\ Temp \in DOMAIN cards /\ Final \notin gone
    /\ ShowCard(detailIid, [i \in (DOMAIN cards \ {Temp}) \cup {Final} |->
                           IF i = Final THEN [cards[Temp] EXCEPT !.synced = TRUE] ELSE cards[i]], form)
    /\ UNCHANGED <<deletes, gone>>

-----------------------------------------------------------------------------
DrawerNext ==
    \/ \E i \in Iids : OpenCard(i) \/ OpenRelated(i)
    \/ \E f \in {"title", "description"}, t \in Titles \cup Descriptions : EditDraft(f, t)
    \/ CloseDrawer \/ StepCard(-1) \/ StepCard(1) \/ RevertDetails \/ SubmitDetails
    \/ AskDelete \/ CancelDelete \/ ConfirmDelete
    \/ \E d \in DOMAIN deletes : ServerAnswers(d) \/ DeleteAccepted(d) \/ DeleteRefused(d)
    \/ \E i \in Iids : \/ \E c \in DrawerCard : RemoteEdit(i, c)
                       \/ OperationEnds(i) \/ TheyDelete(i) \/ RemovalSeen(i)
    \/ Rekeyed

DrawerSpec == DrawerInit /\ [][DrawerNext]_drawerVars

-----------------------------------------------------------------------------
(* Properties *)

\* Every variable has its type, and the drawer is mounted exactly while the
\* card the page was asked to show is on the board.
DrawerTypeOK ==
    /\ DOMAIN cards \subseteq Iids /\ \A i \in DOMAIN cards : cards[i] \in DrawerCard
    /\ detailIid \in Iids \cup {NoCard}
    /\ IF detailIid \in DOMAIN cards THEN form \in Form ELSE form = NoForm
    /\ deletes \in Seq(Delete) /\ gone \subseteq Iids
    /\ remote \in 0 .. MaxRemote

\* The drafts in the drawer were started for the card it shows: nothing typed
\* for one card can be saved to another, whatever closes, removes or switches
\* the card.
DraftStaysWithCard == IsOpen => form.of = detailIid

\* Unsaved edits hold the drawer open: what the user typed stays until it is
\* saved or reverted.  Two things take it away all the same: the card leaves
\* the board or gets its IID, and the answer to an earlier deletion closes
\* whatever drawer is open.
UnsavedHoldsDrawer ==
    [][IsOpen /\ DetailsDirty
       => \/ SubmitDetails \/ RevertDetails
          \/ form' # NoForm /\ form'.of = form.of
             /\ (\/ <<form.title, form.description>> = <<form'.title, form'.description>>
                 \/ \E f \in {"title", "description"} : EditDraft(f, form'[f]))
          \/ detailIid \notin DOMAIN cards'
          \/ \E d \in DOMAIN deletes : DeleteAccepted(d)]_drawerVars

=============================================================================
