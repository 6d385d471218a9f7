--------------------------- MODULE CardPageProofs ---------------------------
(***************************************************************************)
(* Proofs about the parts of the detail drawer, for every set of cards,    *)
(* fields, texts and labels and any number of edits and requests.  The     *)
(* parts share no state; each has its own invariant.                       *)
(***************************************************************************)
EXTENDS CardDrawer, FieldSaves, CardComments, CardRelations, DateField, QuickActionInput,
        ListsProofs

-----------------------------------------------------------------------------
(* CardDrawer *)

DrawerInv == DrawerTypeOK /\ DraftStaysWithCard

LEMMA OpenForm == ASSUME DrawerInv
                  PROVE  /\ IsOpen <=> detailIid \in DOMAIN cards
                         /\ IsOpen => form \in Form /\ form.of = detailIid
                         /\ \A f \in Form : f # NoForm
<1>1. ASSUME NEW f \in Form PROVE f # NoForm
  BY <1>1 DEF Form, NoForm
<1> QED BY <1>1 DEF DrawerInv, DrawerTypeOK, DraftStaysWithCard, IsOpen

LEMMA DrawerBegins == DrawerInit => DrawerInv
<1> SUFFICES ASSUME DrawerInit PROVE DrawerInv
  OBVIOUS
<1>1. (CHOOSE t \in Titles : t # BlankText) \in Titles \ {BlankText}
  BY DrawerAssumption DEF DrawerAssumption
<1>2. (CHOOSE t \in Descriptions : TRUE) \in Descriptions
  BY DrawerAssumption DEF DrawerAssumption
<1>3. /\ DOMAIN cards \subseteq Iids
      /\ \A i \in DOMAIN cards : cards[i] \in DrawerCard
  BY <1>1, <1>2 DEF DrawerInit, DrawerCard
<1>4. detailIid = NoCard /\ NoCard \notin DOMAIN cards
  BY <1>3, DrawerAssumption DEF DrawerInit, DrawerAssumption
<1> QED BY <1>3, <1>4, DrawerAssumption
        DEF DrawerInit, DrawerAssumption, DrawerInv, DrawerTypeOK, DraftStaysWithCard, IsOpen, Delete

\* Whatever card the page is asked to show, the drawer it renders is that card's.
LEMMA DrawerShowKeeps ==
    ASSUME NEW iid \in Iids \cup {NoCard}, NEW board, DrawerInv, ShowCard(iid, board, form),
           DOMAIN board \subseteq Iids, \A i \in DOMAIN board : board[i] \in DrawerCard,
           deletes' \in Seq(Delete), gone' \subseteq Iids, remote' \in 0 .. MaxRemote
    PROVE  DrawerInv'
<1>1. detailIid' = iid /\ cards' = board /\ form' = Rendered(iid, board, form)
  BY DEF ShowCard
<1>2. IF iid \in DOMAIN board THEN form' \in Form /\ form'.of = iid ELSE form' = NoForm
  <2>1. CASE iid \notin DOMAIN board
    BY <2>1, <1>1 DEF Rendered
  <2>2. CASE iid \in DOMAIN board /\ form # NoForm /\ detailIid = iid
    BY <2>2, <1>1, OpenForm DEF Rendered, IsOpen
  <2>3. CASE iid \in DOMAIN board /\ ~(form # NoForm /\ detailIid = iid)
    <3>1. form' = Mounted(iid, board[iid]) /\ board[iid] \in DrawerCard
      BY <2>3, <1>1 DEF Rendered
    <3>2. iid \in Iids /\ 0 \in 0 .. MaxDeletes
      BY <2>3, DrawerAssumption DEF DrawerAssumption
    <3> QED BY <2>3, <3>1, <3>2 DEF Mounted, Form, DrawerCard
  <2> QED BY <2>1, <2>2, <2>3
<1> QED BY <1>1, <1>2 DEF DrawerInv, DrawerTypeOK, DraftStaysWithCard, IsOpen

\* Where the card stays the same, so does what the drafts are of.
LEMMA FormKeeps ==
    ASSUME DrawerInv, UNCHANGED <<cards, detailIid>>, IsOpen, form' \in Form, form'.of = form.of,
           deletes' \in Seq(Delete), gone' \subseteq Iids, remote' \in 0 .. MaxRemote
    PROVE  DrawerInv'
BY OpenForm DEF DrawerInv, DrawerTypeOK, DraftStaysWithCard, IsOpen

\* What the drawer's own steps make of its form.
LEMMA Forms ==
    ASSUME NEW f \in Form
    PROVE  /\ \A t \in Titles : [f EXCEPT !.title = t] \in Form
           /\ \A t \in Descriptions : [f EXCEPT !.description = t] \in Form
           /\ [f EXCEPT !.nudged = TRUE] \in Form
           /\ [f EXCEPT !.nudged = FALSE] \in Form
           /\ [f EXCEPT !.deleteOpen = TRUE, !.refused = FALSE] \in Form
           /\ [f EXCEPT !.deleteOpen = FALSE] \in Form
BY DEF Form

-----------------------------------------------------------------------------
(* Steps that show a card, or none *)

LEMMA Shorter ==
    ASSUME NEW i, DrawerInv
    PROVE  /\ DOMAIN Without(i) = DOMAIN cards \ {i}
           /\ DOMAIN Without(i) \subseteq Iids
           /\ \A j \in DOMAIN Without(i) : Without(i)[j] \in DrawerCard
BY DEF Without, DrawerInv, DrawerTypeOK

LEMMA OpenKeeps == ASSUME DrawerInv, NEW i \in Iids, OpenCard(i) PROVE DrawerInv'
<1>1. /\ ShowCard(i, cards, form) /\ UNCHANGED <<deletes, gone, remote>>
  BY DEF OpenCard
<1>2. /\ DOMAIN cards \subseteq Iids /\ \A j \in DOMAIN cards : cards[j] \in DrawerCard
      /\ deletes \in Seq(Delete) /\ gone \subseteq Iids /\ remote \in 0 .. MaxRemote
  BY DEF DrawerInv, DrawerTypeOK
<1> QED BY <1>1, <1>2, DrawerShowKeeps

LEMMA LeaveKeeps == ASSUME DrawerInv, NEW i, LeaveCard(i) PROVE DrawerInv'
<1>1. /\ UNCHANGED <<deletes, gone, remote>> /\ i \in Iids \cup {NoCard} /\ IsOpen
      /\ GuardExit(i)
  BY DEF LeaveCard, Editable, DrawerInv, DrawerTypeOK
<1>2. /\ DOMAIN cards \subseteq Iids /\ \A j \in DOMAIN cards : cards[j] \in DrawerCard
      /\ deletes' \in Seq(Delete) /\ gone' \subseteq Iids /\ remote' \in 0 .. MaxRemote
  BY <1>1 DEF DrawerInv, DrawerTypeOK
<1>3. CASE DetailsDirty
  <2>1. form' = [form EXCEPT !.nudged = TRUE] /\ UNCHANGED <<cards, detailIid>>
    BY <1>1, <1>3 DEF GuardExit
  <2>2. form \in Form
    BY <1>1, OpenForm
  <2>3. form' \in Form /\ form'.of = form.of
    BY <2>1, <2>2, Forms DEF Form
  <2> QED BY <1>1, <1>2, <2>1, <2>3, FormKeeps
<1>4. CASE ~DetailsDirty
  <2>1. ShowCard(i, cards, form)
    BY <1>1, <1>4 DEF GuardExit
  <2> QED BY <1>1, <1>2, <2>1, DrawerShowKeeps
<1> QED BY <1>3, <1>4

LEMMA StepKeeps == ASSUME DrawerInv, NEW by \in {-1, 1}, StepCard(by) PROVE DrawerInv'
<1>1. PICK at : LeaveCard(OrderedCards[at])
  BY DEF StepCard
<1> QED BY <1>1, LeaveKeeps

LEMMA RemovalKeeps == ASSUME DrawerInv, NEW i \in Iids, RemovalSeen(i) PROVE DrawerInv'
<1>1. ShowCard(detailIid, Without(i), form) /\ UNCHANGED <<deletes, gone, remote>>
  BY DEF RemovalSeen
<1>2. /\ detailIid \in Iids \cup {NoCard}
      /\ deletes \in Seq(Delete) /\ gone \subseteq Iids /\ remote \in 0 .. MaxRemote
  BY DEF DrawerInv, DrawerTypeOK
<1> QED BY <1>1, <1>2, Shorter, DrawerShowKeeps

LEMMA DeleteTypes ==
    ASSUME NEW s \in Seq(Delete), NEW d \in DOMAIN s, NEW st \in {"sent", "accepted", "refused", "answered"}
    PROVE  [s EXCEPT ![d].state = st] \in Seq(Delete)
<1>1. s[d] \in Delete
  OBVIOUS
<1>2. [s[d] EXCEPT !.state = st] \in Delete
  BY <1>1 DEF Delete
<1> QED BY <1>2

LEMMA AcceptedKeeps == ASSUME DrawerInv, NEW d \in DOMAIN deletes, DeleteAccepted(d) PROVE DrawerInv'
<1>1. /\ ShowCard(NoCard, Without(deletes[d].card), form) /\ UNCHANGED <<gone, remote>>
      /\ deletes' = [deletes EXCEPT ![d].state = "answered"]
  BY DEF DeleteAccepted
<1>2. deletes \in Seq(Delete) /\ gone \subseteq Iids /\ remote \in 0 .. MaxRemote
  BY DEF DrawerInv, DrawerTypeOK
<1>3. deletes' \in Seq(Delete)
  BY <1>1, <1>2, DeleteTypes
<1> QED BY <1>1, <1>2, <1>3, Shorter, DrawerShowKeeps

LEMMA RekeyKeeps == ASSUME DrawerInv, Rekeyed PROVE DrawerInv'
<1> DEFINE board == [i \in (DOMAIN cards \ {Temp}) \cup {Final} |->
                        IF i = Final THEN [cards[Temp] EXCEPT !.synced = TRUE] ELSE cards[i]]
<1>1. /\ ShowCard(detailIid, board, form) /\ UNCHANGED <<deletes, gone>>
      /\ remote < MaxRemote /\ remote' = remote + 1 /\ Temp \in DOMAIN cards
  BY DEF Rekeyed
<1>2. /\ detailIid \in Iids \cup {NoCard} /\ remote' \in 0 .. MaxRemote
      /\ deletes \in Seq(Delete) /\ gone \subseteq Iids
  BY <1>1, DrawerAssumption DEF DrawerInv, DrawerTypeOK, DrawerAssumption
<1>3. DOMAIN board \subseteq Iids
  BY DrawerAssumption DEF DrawerInv, DrawerTypeOK, DrawerAssumption
<1>4. [cards[Temp] EXCEPT !.synced = TRUE] \in DrawerCard
  BY <1>1 DEF DrawerInv, DrawerTypeOK, DrawerCard
<1>5. \A j \in DOMAIN board : board[j] \in DrawerCard
  BY <1>4 DEF DrawerInv, DrawerTypeOK
<1> HIDE DEF board
<1> QED BY <1>1, <1>2, <1>3, <1>5, DrawerShowKeeps

-----------------------------------------------------------------------------
(* Steps of the drawer that is open *)

LEMMA DialogKeeps ==
    ASSUME DrawerInv,
           \/ \E f \in {"title", "description"}, t \in Titles \cup Descriptions : EditDraft(f, t)
           \/ RevertDetails \/ AskDelete \/ CancelDelete
    PROVE  DrawerInv'
<1>1. /\ UNCHANGED <<cards, detailIid, deletes, gone, remote>> /\ IsOpen
  BY DEF EditDraft, RevertDetails, AskDelete, CancelDelete, Editable
<1>2. /\ form \in Form /\ deletes' \in Seq(Delete) /\ gone' \subseteq Iids
      /\ remote' \in 0 .. MaxRemote
  BY <1>1, OpenForm DEF DrawerInv, DrawerTypeOK
<1>3. form' \in Form /\ form'.of = form.of
  <2>1. ASSUME NEW f \in {"title", "description"}, NEW t, EditDraft(f, t)
        PROVE  form' \in Form /\ form'.of = form.of
    BY <2>1, <1>2 DEF EditDraft, Text, Form
  <2>2. ASSUME RevertDetails PROVE form' \in Form /\ form'.of = form.of
    <3>1. cards[detailIid] \in DrawerCard
      BY <1>1, OpenForm DEF DrawerInv, DrawerTypeOK
    <3>2. form' = [form EXCEPT !.title = cards[detailIid].title,
                               !.description = cards[detailIid].description, !.nudged = FALSE]
      BY <2>2 DEF RevertDetails
    <3> QED BY <3>1, <3>2, <1>2 DEF DrawerCard, Form
  <2>3. ASSUME AskDelete PROVE form' \in Form /\ form'.of = form.of
    BY <2>3, <1>2, Forms DEF AskDelete, Form
  <2>4. ASSUME CancelDelete PROVE form' \in Form /\ form'.of = form.of
    BY <2>4, <1>2, Forms DEF CancelDelete, Form
  <2> QED BY <2>1, <2>2, <2>3, <2>4
<1> QED BY <1>1, <1>2, <1>3, FormKeeps

LEMMA ConfirmKeeps == ASSUME DrawerInv, ConfirmDelete PROVE DrawerInv'
<1>1. /\ UNCHANGED <<cards, detailIid, gone, remote>> /\ IsOpen /\ Len(deletes) < MaxDeletes
      /\ deletes' = Append(deletes, [card |-> detailIid, state |-> "sent"])
      /\ form' = [form EXCEPT !.deleteOpen = FALSE, !.deletion = Len(deletes) + 1]
  BY DEF ConfirmDelete
<1>2. form \in Form /\ detailIid \in Iids
  BY <1>1, OpenForm DEF DrawerInv, DrawerTypeOK
<1>3. [card |-> detailIid, state |-> "sent"] \in Delete
  BY <1>2 DEF Delete
<1>4. deletes \in Seq(Delete) /\ gone' \subseteq Iids /\ remote' \in 0 .. MaxRemote
  BY <1>1 DEF DrawerInv, DrawerTypeOK
<1>5. deletes' \in Seq(Delete)
  BY <1>1, <1>3, <1>4
<1>6. Len(deletes) + 1 \in 0 .. MaxDeletes
  BY <1>1, <1>4, DrawerAssumption DEF DrawerAssumption
<1>7. form' \in Form /\ form'.of = form.of
  BY <1>1, <1>2, <1>6 DEF Form
<1> QED BY <1>1, <1>4, <1>5, <1>7, FormKeeps

LEMMA RefusedKeeps == ASSUME DrawerInv, NEW d \in DOMAIN deletes, DeleteRefused(d) PROVE DrawerInv'
<1>1. /\ UNCHANGED <<cards, detailIid, gone, remote>>
      /\ deletes' = [deletes EXCEPT ![d].state = "answered"]
  BY DEF DeleteRefused
<1>2. deletes' \in Seq(Delete) /\ gone' \subseteq Iids /\ remote' \in 0 .. MaxRemote
  BY <1>1, DeleteTypes DEF DrawerInv, DrawerTypeOK
<1>3. CASE IsOpen /\ form.deletion = d
  <2>1. form' = [form EXCEPT !.deletion = 0, !.refused = TRUE]
    BY <1>3 DEF DeleteRefused
  <2>2. form \in Form /\ 0 \in 0 .. MaxDeletes
    BY <1>3, OpenForm, DrawerAssumption DEF DrawerAssumption
  <2>3. form' \in Form /\ form'.of = form.of
    BY <2>1, <2>2 DEF Form
  <2> QED BY <1>1, <1>2, <1>3, <2>3, FormKeeps
<1>4. CASE ~(IsOpen /\ form.deletion = d)
  <2>1. form' = form
    BY <1>4 DEF DeleteRefused
  <2> QED BY <1>1, <1>2, <2>1 DEF DrawerInv, DrawerTypeOK, DraftStaysWithCard, IsOpen
<1> QED BY <1>3, <1>4

LEMMA DeleteAnswerKeeps == ASSUME DrawerInv, NEW d \in DOMAIN deletes, ServerAnswers(d) PROVE DrawerInv'
<1>1. deletes \in Seq(Delete) /\ gone \subseteq Iids
  BY DEF DrawerInv, DrawerTypeOK
<1>2. deletes' \in Seq(Delete)
  BY <1>1, DeleteTypes DEF ServerAnswers
<1>3. deletes[d].card \in Iids
  <2>1. deletes[d] \in Delete
    BY <1>1
  <2> QED BY <2>1 DEF Delete
<1>4. gone' \subseteq Iids
  BY <1>1, <1>3 DEF ServerAnswers
<1> QED BY <1>2, <1>4 DEF ServerAnswers, DrawerInv, DrawerTypeOK, DraftStaysWithCard, IsOpen

-----------------------------------------------------------------------------
(* Steps that change a card under the drawer *)

LEMMA CardKeeps ==
    ASSUME DrawerInv, NEW i \in DOMAIN cards, NEW c \in DrawerCard, cards' = [cards EXCEPT ![i] = c],
           UNCHANGED <<detailIid, deletes, gone>>, remote' \in 0 .. MaxRemote,
           IsOpen => form' \in Form /\ form'.of = form.of, ~IsOpen => UNCHANGED form
    PROVE  DrawerInv'
<1>1. DOMAIN cards' = DOMAIN cards /\ \A j \in DOMAIN cards' : cards'[j] \in DrawerCard
  BY DEF DrawerInv, DrawerTypeOK
<1> QED BY <1>1, OpenForm DEF DrawerInv, DrawerTypeOK, DraftStaysWithCard, IsOpen

LEMMA DetailsKeep == ASSUME DrawerInv, SubmitDetails PROVE DrawerInv'
<1> DEFINE c == [title |-> form.title, description |-> form.description, synced |-> FALSE]
<1>1. /\ cards' = [cards EXCEPT ![detailIid] = c] /\ IsOpen /\ form.title # BlankText
      /\ UNCHANGED <<detailIid, deletes, gone, remote>> /\ form' = [form EXCEPT !.nudged = FALSE]
  BY DEF SubmitDetails, Editable
<1>2. form \in Form /\ detailIid \in DOMAIN cards
  BY <1>1, OpenForm
<1>3. c \in DrawerCard
  BY <1>1, <1>2 DEF Form, DrawerCard
<1>4. form' \in Form /\ form'.of = form.of
  BY <1>1, <1>2, Forms DEF Form
<1>5. remote' \in 0 .. MaxRemote
  BY <1>1 DEF DrawerInv, DrawerTypeOK
<1> HIDE DEF c
<1> QED BY <1>1, <1>2, <1>3, <1>4, <1>5, CardKeeps

LEMMA OthersKeep ==
    ASSUME DrawerInv, NEW i \in Iids,
           \/ \E c \in DrawerCard : RemoteEdit(i, c)
           \/ OperationEnds(i) \/ TheyDelete(i)
    PROVE  DrawerInv'
<1>1. ASSUME NEW c \in DrawerCard, RemoteEdit(i, c) PROVE DrawerInv'
  <2>1. remote' \in 0 .. MaxRemote
    BY <1>1, DrawerAssumption DEF RemoteEdit, DrawerInv, DrawerTypeOK, DrawerAssumption
  <2> QED BY <1>1, <2>1, OpenForm, CardKeeps DEF RemoteEdit
<1>2. ASSUME OperationEnds(i) PROVE DrawerInv'
  <2> DEFINE c == [cards[i] EXCEPT !.synced = TRUE]
  <2>1. i \in DOMAIN cards /\ cards' = [cards EXCEPT ![i] = c]
    BY <1>2 DEF OperationEnds
  <2>2. c \in DrawerCard /\ remote \in 0 .. MaxRemote
    BY <2>1 DEF DrawerInv, DrawerTypeOK, DrawerCard
  <2> HIDE DEF c
  <2> QED BY <1>2, <2>1, <2>2, OpenForm, CardKeeps DEF OperationEnds
<1>3. ASSUME TheyDelete(i) PROVE DrawerInv'
  BY <1>3, DrawerAssumption
     DEF TheyDelete, DrawerInv, DrawerTypeOK, DraftStaysWithCard, IsOpen, DrawerAssumption
<1> QED BY <1>1, <1>2, <1>3

-----------------------------------------------------------------------------
LEMMA DrawerKeeps == ASSUME DrawerInv, [DrawerNext]_drawerVars PROVE DrawerInv'
<1>1. ASSUME UNCHANGED drawerVars PROVE DrawerInv'
  BY <1>1 DEF drawerVars, DrawerInv, DrawerTypeOK, DraftStaysWithCard, IsOpen
<1>2. ASSUME NEW i \in Iids, OpenCard(i) \/ OpenRelated(i) PROVE DrawerInv'
  BY <1>2, OpenKeeps, LeaveKeeps DEF OpenRelated
<1>3. ASSUME CloseDrawer \/ StepCard(-1) \/ StepCard(1) PROVE DrawerInv'
  BY <1>3, LeaveKeeps, StepKeeps DEF CloseDrawer
<1>4. ASSUME NEW d \in DOMAIN deletes, ServerAnswers(d) \/ DeleteAccepted(d) \/ DeleteRefused(d)
      PROVE  DrawerInv'
  BY <1>4, DeleteAnswerKeeps, AcceptedKeeps, RefusedKeeps
<1>5. ASSUME NEW i \in Iids, \/ \E c \in DrawerCard : RemoteEdit(i, c)
                             \/ OperationEnds(i) \/ TheyDelete(i) \/ RemovalSeen(i)
      PROVE  DrawerInv'
  BY <1>5, OthersKeep, RemovalKeeps
<1> QED BY <1>1, <1>2, <1>3, <1>4, <1>5, DialogKeeps, DetailsKeep, ConfirmKeeps, RekeyKeeps
        DEF DrawerNext

\* The drafts in the drawer are of the card it shows, whatever closes, removes
\* or switches that card (BoardPage.tsx keys CardDetail by the IID).
THEOREM DraftsAreOfTheCard == DrawerSpec => []DraftStaysWithCard
<1>1. DrawerInv => DraftStaysWithCard
  BY DEF DrawerInv
<1> QED BY <1>1, DrawerBegins, DrawerKeeps, PTL DEF DrawerSpec

LEMMA DrawerAlways == DrawerSpec => []DrawerInv
BY DrawerBegins, DrawerKeeps, PTL DEF DrawerSpec

-----------------------------------------------------------------------------
(* What a step does to unsaved drafts *)

Held == \/ SubmitDetails \/ RevertDetails
        \/ form' # NoForm /\ form'.of = form.of
           /\ (\/ <<form.title, form.description>> = <<form'.title, form'.description>>
               \/ \E f \in {"title", "description"} : EditDraft(f, form'[f]))
        \/ detailIid \notin DOMAIN cards'
        \/ \E d \in DOMAIN deletes : DeleteAccepted(d)

\* A new form of the same card with the same drafts.
LEMMA SameDrafts ==
    ASSUME form' \in Form, form'.of = form.of, form'.title = form.title,
           form'.description = form.description
    PROVE  Held
<1>1. form' # NoForm
  BY DEF Form, NoForm
<1> QED BY <1>1 DEF Held

LEMMA Untouched == ASSUME DrawerInv, IsOpen, UNCHANGED form PROVE Held
BY OpenForm, SameDrafts

LEMMA GuardHolds == ASSUME DrawerInv, IsOpen, DetailsDirty, NEW i, LeaveCard(i) PROVE Held
<1>1. form' = [form EXCEPT !.nudged = TRUE]
  BY DEF LeaveCard, GuardExit
<1> QED BY <1>1, OpenForm, Forms, SameDrafts DEF Form

\* A frame re-renders the drawer of a card that is still there as it was.
LEMMA FrameHolds ==
    ASSUME DrawerInv, IsOpen, NEW board, ShowCard(detailIid, board, form)
    PROVE  Held
<1>1. cards' = board /\ form' = Rendered(detailIid, board, form)
  BY DEF ShowCard
<1>2. CASE detailIid \in DOMAIN board
  BY <1>1, <1>2, Untouched DEF Rendered, IsOpen
<1>3. CASE detailIid \notin DOMAIN board
  BY <1>1, <1>3 DEF Held
<1> QED BY <1>2, <1>3

LEMMA DialogHolds ==
    ASSUME DrawerInv, IsOpen, DetailsDirty,
           \/ \E f \in {"title", "description"}, t \in Titles \cup Descriptions : EditDraft(f, t)
           \/ AskDelete \/ CancelDelete \/ ConfirmDelete
           \/ \E d \in DOMAIN deletes : DeleteRefused(d)
    PROVE  Held
<1>1. form \in Form
  BY OpenForm
<1>2. ASSUME NEW f \in {"title", "description"}, NEW t, EditDraft(f, t) PROVE Held
  <2>1. /\ form' = [form EXCEPT ![f] = t] /\ t \in Text(f)
        /\ form' \in Form /\ form'.of = form.of /\ form'[f] = t
    BY <1>1, <1>2 DEF EditDraft, Text, Form
  <2>2. form' # NoForm
    BY <2>1 DEF Form, NoForm
  <2> QED BY <1>2, <2>1, <2>2 DEF Held
<1>3. ASSUME AskDelete PROVE Held
  BY <1>1, <1>3, Forms, SameDrafts DEF AskDelete, Form
<1>4. ASSUME CancelDelete PROVE Held
  BY <1>1, <1>4, Forms, SameDrafts DEF CancelDelete, Form
<1>5. ASSUME ConfirmDelete PROVE Held
  <2>1. form' = [form EXCEPT !.deleteOpen = FALSE, !.deletion = Len(deletes) + 1]
    BY <1>5 DEF ConfirmDelete
  <2>2. form' \in Form
    BY <1>5, ConfirmKeeps, OpenForm DEF ConfirmDelete, DrawerInv, DrawerTypeOK, IsOpen
  <2> QED BY <1>1, <2>1, <2>2, SameDrafts DEF Form
<1>6. ASSUME NEW d \in DOMAIN deletes, DeleteRefused(d) PROVE Held
  <2>1. form' \in {form, [form EXCEPT !.deletion = 0, !.refused = TRUE]}
    BY <1>6 DEF DeleteRefused
  <2>2. [form EXCEPT !.deletion = 0, !.refused = TRUE] \in Form
    <3>1. 0 \in 0 .. MaxDeletes
      BY DrawerAssumption DEF DrawerAssumption
    <3> QED BY <1>1, <3>1 DEF Form
  <2>3. CASE form' = form
    BY <2>3, Untouched
  <2>4. CASE form' = [form EXCEPT !.deletion = 0, !.refused = TRUE]
    <3>1. /\ form'.of = form.of /\ form'.title = form.title
          /\ form'.description = form.description
      BY <1>1, <2>4 DEF Form
    <3> QED BY <2>2, <2>4, <3>1, SameDrafts
  <2> QED BY <2>1, <2>3, <2>4
<1> QED BY <1>2, <1>3, <1>4, <1>5, <1>6

LEMMA UnsavedIsHeld ==
    ASSUME DrawerInv, DrawerNext, IsOpen, DetailsDirty
    PROVE  Held
<1>1. ASSUME NEW i \in Iids, OpenCard(i) \/ OpenRelated(i) PROVE Held
  BY <1>1, GuardHolds DEF OpenCard, OpenRelated
<1>2. ASSUME CloseDrawer \/ StepCard(-1) \/ StepCard(1) PROVE Held
  BY <1>2, GuardHolds DEF CloseDrawer, StepCard
<1>3. ASSUME NEW d \in DOMAIN deletes, ServerAnswers(d) \/ DeleteAccepted(d) \/ DeleteRefused(d)
      PROVE  Held
  BY <1>3, Untouched, DialogHolds DEF ServerAnswers, Held
<1>4. ASSUME NEW i \in Iids, \/ \E c \in DrawerCard : RemoteEdit(i, c)
                             \/ OperationEnds(i) \/ TheyDelete(i)
      PROVE  Held
  BY <1>4, Untouched DEF RemoteEdit, OperationEnds, TheyDelete
<1>5. ASSUME NEW i \in Iids, RemovalSeen(i) PROVE Held
  BY <1>5, FrameHolds DEF RemovalSeen
<1>6. ASSUME Rekeyed PROVE Held
  BY <1>6, FrameHolds DEF Rekeyed
<1>7. ASSUME RevertDetails \/ SubmitDetails PROVE Held
  BY <1>7 DEF Held
<1> QED BY <1>1, <1>2, <1>3, <1>4, <1>5, <1>6, <1>7, DialogHolds DEF DrawerNext

\* Unsaved drafts hold the drawer: only saving, reverting, the card leaving the
\* board or the answer to a deletion takes them away (BoardPage.tsx, guardExit).
THEOREM UnsavedHolds == DrawerSpec => UnsavedHoldsDrawer
<1>1. DrawerInv /\ [DrawerNext]_drawerVars => [IsOpen /\ DetailsDirty => Held]_drawerVars
  BY UnsavedIsHeld
<1> QED BY <1>1, DrawerAlways, PTL DEF DrawerSpec, UnsavedHoldsDrawer, Held

-----------------------------------------------------------------------------
(* FieldSaves *)

\* A marker belongs to the last edit of its field.
Latest(f, o) == o \in DOMAIN ops /\ ops[o] = f /\ \A p \in DOMAIN ops : ops[p] = f => p <= o
MarkersAreLatest == \A f \in Fields : saves[f].op # NoOp => Latest(f, saves[f].op)

\* What is marked as saved, or answered, is known to the server.
SavedIsKnown == \A f \in Fields : saves[f].state = "saved" => server.op[saves[f].op] # "unknown"
AnsweredIsKnown == \A k \in DOMAIN sends : sends[k].answer = "ok" => server.op[sends[k].op] # "unknown"

\* What cannot be sent again has been saved: its marker waits for its timer.
SavedWaits == \A f \in Fields : saves[f].op # NoOp /\ saves[f].op \notin localRetries => timers[f] = saves[f].op

SavesInv == /\ SavesTypeOK /\ MarkersAreLatest /\ SavedIsKnown /\ AnsweredIsKnown /\ SavedWaits
            /\ SavingEnds

LEMMA SavesBegin == SavesInit => SavesInv
BY SavesAssumption DEF SavesInit, SavesInv, SavesTypeOK, MarkersAreLatest, SavedIsKnown, AnsweredIsKnown,
   SavedWaits, SavingEnds, Ops, NoOp, NoMarker, Marker, Row, Settled, Sent

\* The inductive invariant says more than the property.
LEMMA SavedByInv == SavesInv => SavedIsStored
BY DEF SavesInv, SavesTypeOK, MarkersAreLatest, Latest, SavedIsKnown, SavedIsStored, NoMarker, Marker, Ops, NoOp
-----------------------------------------------------------------------------
(* One lemma for each action. *)

LEMMA EditKeeps == ASSUME NEW field \in Fields, SavesInv, EditField(field) PROVE SavesInv'
<1> DEFINE op == Len(ops) + 1
<1>1. /\ op \in Ops /\ ops \in Seq(Fields) /\ ops' = Append(ops, field)
      /\ shown' = [op |-> op, state |-> "pending"] /\ localRetries' = localRetries \cup {op}
      /\ saves' = [saves EXCEPT ![field] = [state |-> "saving", op |-> op]]
      /\ timers' = [timers EXCEPT ![field] = NoOp]
      /\ sends' = Append(sends, [op |-> op, answer |-> "none", row |-> Settled])
      /\ retries' = retries /\ server' = server
  BY DEF EditField, Begin, Send, SavesInv, SavesTypeOK
<1>2. /\ Len(ops') = op /\ ops'[op] = field /\ DOMAIN ops = 1 .. Len(ops) /\ DOMAIN ops' = 1 .. op
      /\ \A o \in DOMAIN ops : o < op /\ ops'[o] = ops[o]
  BY <1>1
<1>3. /\ DOMAIN sends' = DOMAIN sends \cup {Len(sends) + 1}
      /\ sends'[Len(sends) + 1] = [op |-> op, answer |-> "none", row |-> Settled]
      /\ \A k \in DOMAIN sends : sends'[k] = sends[k]
  BY <1>1 DEF SavesInv, SavesTypeOK
<1>4. SavesTypeOK'
  <2>1. ops' \in Seq(Fields) /\ Len(ops') <= MaxEdits
    BY <1>1, <1>2, SavesAssumption DEF Ops
  <2>2. [op |-> op, answer |-> "none", row |-> Settled] \in Sent
    BY <1>1 DEF Sent, Row, Settled, NoOp
  <2>3. sends' \in Seq(Sent)
    BY <2>2, <1>1 DEF SavesInv, SavesTypeOK
  <2>4. saves' \in [Fields -> Marker \cup {NoMarker}] /\ timers' \in [Fields -> Ops \cup {NoOp}]
    BY <1>1 DEF SavesInv, SavesTypeOK, Marker, NoOp
  <2> QED BY <2>1, <2>3, <2>4, <1>1 DEF SavesInv, SavesTypeOK, Row, NoOp
<1>5. MarkersAreLatest'
  <2> SUFFICES ASSUME NEW f \in Fields, NEW o, o = saves'[f].op, o # NoOp PROVE Latest(f, o)'
    BY DEF MarkersAreLatest, Latest
  <2>1. CASE f = field
    <3>1. o = op
      BY <2>1, <1>1 DEF SavesInv, SavesTypeOK
    <3>2. \A p \in DOMAIN ops' : p <= op
      BY <1>2
    <3> QED BY <3>1, <3>2, <2>1, <1>2 DEF Latest
  <2>2. CASE f # field
    <3>1. o = saves[f].op
      BY <2>2, <1>1 DEF SavesInv, SavesTypeOK
    <3>2. Latest(f, o)
      BY <3>1 DEF SavesInv, MarkersAreLatest
    <3> QED BY <3>2, <2>2, <1>2 DEF Latest
  <2> QED BY <2>1, <2>2
<1>6. SavedIsKnown'
  BY <1>1 DEF SavedIsKnown, SavesInv, SavesTypeOK
<1>7. AnsweredIsKnown'
  BY <1>1, <1>3 DEF AnsweredIsKnown, SavesInv
<1>8. SavedWaits'
  BY <1>1 DEF SavedWaits, SavesInv, SavesTypeOK
<1>9. SavingEnds'
  <2> SUFFICES ASSUME NEW f \in Fields, saves'[f].state = "saving"
               PROVE  \/ \E k \in DOMAIN sends' : sends'[k].op = saves'[f].op /\ sends'[k].answer # "taken"
                      \/ timers'[f] = saves'[f].op
    BY DEF SavingEnds
  <2>1. CASE f = field
    BY <2>1, <1>1, <1>3 DEF SavesInv, SavesTypeOK
  <2>2. CASE f # field
    <3>1. saves'[f] = saves[f] /\ timers'[f] = timers[f]
      BY <2>2, <1>1 DEF SavesInv, SavesTypeOK
    <3>2. CASE timers[f] = saves[f].op
      BY <3>1, <3>2
    <3>3. CASE timers[f] # saves[f].op
      <4>1. PICK k \in DOMAIN sends : sends[k].op = saves[f].op /\ sends[k].answer # "taken"
        BY <3>1, <3>3 DEF SavesInv, SavingEnds
      <4> QED BY <4>1, <3>1, <1>3
    <3> QED BY <3>2, <3>3
  <2> QED BY <2>1, <2>2
<1> QED BY <1>4, <1>5, <1>6, <1>7, <1>8, <1>9 DEF SavesInv

LEMMA TimerKeeps == ASSUME NEW field \in Fields, SavesInv, SavedTimer(field) PROVE SavesInv'
<1>1. /\ UNCHANGED <<ops, shown, localRetries, sends, retries, server>>
      /\ timers[field] # NoOp /\ timers' = [timers EXCEPT ![field] = NoOp]
      /\ saves' = [saves EXCEPT ![field] = IF saves[field].op = timers[field] THEN NoMarker ELSE saves[field]]
  BY DEF SavedTimer
<1>2. saves \in [Fields -> Marker \cup {NoMarker}] /\ timers \in [Fields -> Ops \cup {NoOp}]
  BY DEF SavesInv, SavesTypeOK
<1>3. \A f \in Fields : saves'[f] # saves[f] => f = field /\ saves'[f] = NoMarker
  BY <1>1, <1>2
<1>4. \A f \in Fields : saves'[f] = saves[f] /\ saves[f].op # NoOp /\ timers'[f] # timers[f]
                        => saves[f].op # timers[f]
  BY <1>1, <1>2 DEF NoMarker
<1>5. SavesTypeOK'
  BY <1>1 DEF SavesInv, SavesTypeOK, NoOp
<1>6. MarkersAreLatest' /\ SavedIsKnown' /\ AnsweredIsKnown'
  BY <1>1, <1>3 DEF SavesInv, MarkersAreLatest, Latest, SavedIsKnown, AnsweredIsKnown, NoMarker, NoOp
<1>7. SavedWaits'
  BY <1>1, <1>3, <1>4 DEF SavesInv, SavedWaits, NoMarker, NoOp
<1>8. SavingEnds'
  BY <1>1, <1>2, <1>3, <1>4 DEF SavesInv, SavingEnds, NoMarker, NoOp, Marker, Ops
<1> QED BY <1>5, <1>6, <1>7, <1>8 DEF SavesInv

LEMMA SentTyped == ASSUME SavesInv, NEW k \in DOMAIN sends
                   PROVE  /\ sends \in Seq(Sent) /\ sends[k] \in Sent
                          /\ sends[k].op \in Ops /\ sends[k].op # NoOp /\ sends[k].row \in Row
<1>1. sends \in Seq(Sent)
  BY DEF SavesInv, SavesTypeOK
<1>2. sends[k] \in Sent
  BY <1>1
<1> QED BY <1>1, <1>2 DEF Sent, Ops, NoOp

\* What an answer does to the markers, the card and the request.
LEMMA SendAnswerKeeps ==
    ASSUME NEW k \in DOMAIN sends, NEW op, NEW state \in {"saved", "failed"}, SavesInv,
           op = sends[k].op, state = "saved" => sends[k].answer = "ok",
           Answered(k), Settle(op, state), shown' \in Row, UNCHANGED <<ops, retries, server>>,
           localRetries' = IF state = "saved" THEN localRetries \ {op} ELSE localRetries \cup {op}
    PROVE  SavesInv'
<1>1. /\ ops' = ops /\ server' = server /\ retries' = retries
      /\ sends' = [sends EXCEPT ![k].answer = "taken"]
      /\ saves' = [f \in Fields |-> IF saves[f].op = op THEN [saves[f] EXCEPT !.state = state] ELSE saves[f]]
      /\ timers' = [f \in Fields |-> IF saves[f].op = op /\ state = "saved" THEN op ELSE timers[f]]
  BY DEF Answered, Settle
<1>2. /\ saves \in [Fields -> Marker \cup {NoMarker}] /\ timers \in [Fields -> Ops \cup {NoOp}]
      /\ sends \in Seq(Sent) /\ sends[k] \in Sent /\ op \in Ops /\ op # NoOp
  BY SentTyped DEF SavesInv, SavesTypeOK
<1>3. /\ DOMAIN sends' = DOMAIN sends
      /\ \A j \in DOMAIN sends : sends'[j].op = sends[j].op /\ (j # k => sends'[j] = sends[j])
      /\ sends'[k].answer = "taken"
  BY <1>1, <1>2 DEF Sent
<1>4. /\ \A f \in Fields : saves'[f].op = saves[f].op
      /\ \A f \in Fields : saves[f].op # op => saves'[f] = saves[f] /\ timers'[f] = timers[f]
      /\ \A f \in Fields : saves[f].op = op => saves'[f].state = state /\ saves'[f] \in Marker
      /\ \A f \in Fields : saves[f].op = op /\ state = "saved" => timers'[f] = op
  BY <1>1, <1>2 DEF Marker, NoMarker, NoOp
<1>5. SavesTypeOK'
  <2>1. [sends[k] EXCEPT !.answer = "taken"] \in Sent
    BY <1>2 DEF Sent
  <2>2. sends' \in Seq(Sent)
    BY <1>1, <1>2, <2>1
  <2>3. saves' \in [Fields -> Marker \cup {NoMarker}]
    <3>1. \A f \in Fields : saves'[f] \in Marker \cup {NoMarker}
      BY <1>2, <1>4
    <3> QED BY <3>1, <1>1
  <2>4. timers' \in [Fields -> Ops \cup {NoOp}]
    BY <1>1, <1>2
  <2> QED BY <2>2, <2>3, <2>4, <1>1, <1>2 DEF SavesInv, SavesTypeOK
<1>6. MarkersAreLatest'
  BY <1>1, <1>4 DEF SavesInv, MarkersAreLatest, Latest
<1>7. SavedIsKnown'
  BY <1>1, <1>4 DEF SavesInv, SavedIsKnown, AnsweredIsKnown
<1>8. AnsweredIsKnown'
  BY <1>1, <1>3 DEF SavesInv, AnsweredIsKnown
<1>9. SavedWaits'
  BY <1>1, <1>4 DEF SavesInv, SavedWaits
<1>10. SavingEnds'
  <2> SUFFICES ASSUME NEW f \in Fields, saves'[f].state = "saving"
               PROVE  \/ \E j \in DOMAIN sends' : sends'[j].op = saves'[f].op /\ sends'[j].answer # "taken"
                      \/ timers'[f] = saves'[f].op
    BY DEF SavingEnds
  <2>1. saves[f].op # op
    BY <1>4
  <2>2. CASE timers[f] = saves[f].op
    BY <2>1, <2>2, <1>4
  <2>3. CASE timers[f] # saves[f].op
    <3>1. PICK j \in DOMAIN sends : sends[j].op = saves[f].op /\ sends[j].answer # "taken"
      BY <2>1, <2>3, <1>4 DEF SavesInv, SavingEnds
    <3> QED BY <3>1, <2>1, <1>3, <1>4
  <2> QED BY <2>2, <2>3
<1> QED BY <1>5, <1>6, <1>7, <1>8, <1>9, <1>10 DEF SavesInv

LEMMA SuccessKeeps == ASSUME NEW k \in DOMAIN sends, SavesInv, SaveSucceeds(k) PROVE SavesInv'
<1>1. shown \in Row /\ sends[k].row \in Row
  BY SentTyped DEF SavesInv, SavesTypeOK
<1>2. shown' \in Row
  BY <1>1 DEF SaveSucceeds
<1> QED BY <1>2, SendAnswerKeeps DEF SaveSucceeds

LEMMA FailureKeeps == ASSUME NEW k \in DOMAIN sends, SavesInv, SaveFails(k) PROVE SavesInv'
<1>1. shown \in Row
  BY DEF SavesInv, SavesTypeOK
<1>2. shown' \in Row
  BY <1>1 DEF SaveFails, Row
<1> QED BY <1>2, SendAnswerKeeps DEF SaveFails

\* Where the markers and the requests rest, the server may learn but not forget.
LEMMA ServerKeeps ==
    ASSUME SavesInv, SavesTypeOK', UNCHANGED <<ops, saves, timers, localRetries>>,
           \A o \in Ops : server'.op[o] = "unknown" => server.op[o] = "unknown",
           AnsweredIsKnown', SavingEnds'
    PROVE  SavesInv'
<1>1. \A f \in Fields : saves[f].state = "saved" => saves[f].op \in Ops
  BY DEF SavesInv, SavesTypeOK, Marker, NoMarker
<1> QED BY <1>1 DEF SavesInv, MarkersAreLatest, Latest, SavedIsKnown, SavedWaits

LEMMA TakeKeeps == ASSUME NEW k \in DOMAIN sends, SavesInv, ServerTakes(k) PROVE SavesInv'
<1> DEFINE op == sends[k].op
<1>1. /\ UNCHANGED <<ops, saves, timers, shown, localRetries, retries>>
      /\ sends[k].answer = "none"
      /\ server' = IF server.op[op] = "unknown"
                   THEN [op |-> [server.op EXCEPT ![op] = "pending"], row |-> [op |-> op, state |-> "pending"]]
                   ELSE server
      /\ sends' = [sends EXCEPT ![k] = [op |-> op, answer |-> "ok", row |-> server'.row]]
  BY DEF ServerTakes
<1>2. sends \in Seq(Sent) /\ sends[k] \in Sent /\ op \in Ops
  BY SentTyped
<1>3. server' \in [op : [Ops -> {"unknown", "pending", "failed", "done"}], row : Row] /\ server'.op[op] # "unknown"
      /\ \A o \in Ops : server'.op[o] = "unknown" => server.op[o] = "unknown"
  BY <1>1, <1>2 DEF SavesInv, SavesTypeOK, Row
<1>4. [op |-> op, answer |-> "ok", row |-> server'.row] \in Sent
  BY <1>2, <1>3 DEF Sent
<1>5. /\ DOMAIN sends' = DOMAIN sends /\ sends' \in Seq(Sent)
      /\ sends'[k].op = op /\ sends'[k].answer = "ok"
      /\ \A j \in DOMAIN sends : j # k => sends'[j] = sends[j]
  BY <1>1, <1>2, <1>4
<1>6. SavesTypeOK'
  BY <1>1, <1>3, <1>5 DEF SavesInv, SavesTypeOK
<1>7. AnsweredIsKnown'
  <2> SUFFICES ASSUME NEW j \in DOMAIN sends, sends'[j].answer = "ok" PROVE server'.op[sends'[j].op] # "unknown"
    BY <1>5 DEF AnsweredIsKnown
  <2>1. CASE j # k
    <3>1. sends[j].op \in Ops /\ server.op[sends[j].op] # "unknown"
      BY <2>1, <1>5, SentTyped DEF SavesInv, AnsweredIsKnown
    <3> QED BY <3>1, <2>1, <1>3, <1>5
  <2> QED BY <2>1, <1>3, <1>5
<1>8. SavingEnds'
  BY <1>1, <1>5 DEF SavesInv, SavingEnds
<1> QED BY <1>1, <1>3, <1>6, <1>7, <1>8, ServerKeeps

LEMMA EndKeeps ==
    ASSUME NEW op \in Ops, NEW state \in {"done", "failed"}, SavesInv, ServerEnds(op, state) PROVE SavesInv'
<1>1. server' \in [op : [Ops -> {"unknown", "pending", "failed", "done"}], row : Row]
      /\ \A o \in Ops : server'.op[o] = "unknown" => server.op[o] = "unknown"
  BY DEF ServerEnds, SavesInv, SavesTypeOK, Row, Settled
<1>2. UNCHANGED <<ops, saves, timers, shown, localRetries, sends, retries>>
  BY DEF ServerEnds
<1>3. SavesTypeOK' /\ SavingEnds'
  BY <1>1, <1>2 DEF SavesInv, SavesTypeOK, SavingEnds
<1>4. AnsweredIsKnown'
  BY <1>1, <1>2, SentTyped DEF SavesInv, AnsweredIsKnown
<1> QED BY <1>1, <1>2, <1>3, <1>4, ServerKeeps

LEMMA RetryEndKeeps == ASSUME NEW op \in Ops, SavesInv, RetryEnds(op) PROVE SavesInv'
<1>1. UNCHANGED <<ops, saves, timers, localRetries, sends>> /\ retries' \subseteq Ops
  BY DEF RetryEnds, SavesInv, SavesTypeOK
<1>2. /\ server' \in [op : [Ops -> {"unknown", "pending", "failed", "done"}], row : Row]
      /\ \A o \in Ops : server'.op[o] = "unknown" => server.op[o] = "unknown"
  BY DEF RetryEnds, SavesInv, SavesTypeOK, Row
<1>3. shown' \in Row
  BY DEF RetryEnds, SavesInv, SavesTypeOK, Row
<1>4. SavesTypeOK' /\ SavingEnds'
  BY <1>1, <1>2, <1>3 DEF SavesInv, SavesTypeOK, SavingEnds
<1>5. AnsweredIsKnown'
  BY <1>1, <1>2, SentTyped DEF SavesInv, AnsweredIsKnown
<1> QED BY <1>1, <1>2, <1>4, <1>5, ServerKeeps

LEMMA RowKeeps == ASSUME SavesInv, RowSeen PROVE SavesInv'
<1>1. UNCHANGED <<ops, saves, timers, localRetries, sends, retries, server>> /\ shown' \in Row
  BY DEF RowSeen, SavesInv, SavesTypeOK
<1>2. SavesTypeOK' /\ SavingEnds' /\ AnsweredIsKnown'
  BY <1>1 DEF SavesInv, SavesTypeOK, SavingEnds, AnsweredIsKnown
<1> QED BY <1>1, <1>2, ServerKeeps

LEMMA RetryCardKeeps == ASSUME SavesInv, RetryCard PROVE SavesInv'
<1> DEFINE op == shown.op
<1>1. /\ op # NoOp /\ shown' = [shown EXCEPT !.state = "pending"]
      /\ saves' = [f \in Fields |-> IF saves[f].op = op THEN [saves[f] EXCEPT !.state = "saving"] ELSE saves[f]]
      /\ UNCHANGED <<ops, timers, localRetries, server>>
      /\ IF op \in localRetries
         THEN sends' = Append(sends, [op |-> op, answer |-> "none", row |-> Settled]) /\ retries' = retries
         ELSE retries' = retries \cup {op} /\ sends' = sends
  BY DEF RetryCard, RetryMarker, Send
<1>2. /\ saves \in [Fields -> Marker \cup {NoMarker}] /\ sends \in Seq(Sent)
      /\ shown \in Row /\ op \in Ops
  BY <1>1 DEF SavesInv, SavesTypeOK, Row
<1>3. /\ \A f \in Fields : saves'[f].op = saves[f].op
      /\ \A f \in Fields : saves[f].op # op => saves'[f] = saves[f]
      /\ \A f \in Fields : saves[f].op = op => saves'[f].state = "saving" /\ saves'[f] \in Marker
  BY <1>1, <1>2 DEF Marker, NoMarker, NoOp
<1>4. /\ sends' \in Seq(Sent) /\ DOMAIN sends \subseteq DOMAIN sends'
      /\ \A k \in DOMAIN sends : sends'[k] = sends[k]
      /\ \A k \in DOMAIN sends' \ DOMAIN sends : sends'[k].answer = "none"
      /\ op \in localRetries => \E k \in DOMAIN sends' : sends'[k].op = op /\ sends'[k].answer = "none"
  <2>1. CASE op \in localRetries
    <3>1. [op |-> op, answer |-> "none", row |-> Settled] \in Sent
      BY <1>2 DEF Sent, Row, Settled, NoOp
    <3>2. DOMAIN sends = 1 .. Len(sends) /\ DOMAIN sends' = 1 .. (Len(sends) + 1)
      BY <2>1, <1>1, <1>2
    <3>3. sends'[Len(sends) + 1] = [op |-> op, answer |-> "none", row |-> Settled]
      BY <2>1, <1>1, <1>2
    <3>4. sends' \in Seq(Sent) /\ \A k \in DOMAIN sends : sends'[k] = sends[k]
      <4> DEFINE entry == [op |-> op, answer |-> "none", row |-> Settled]
      <4>1. sends' = Append(sends, entry) /\ entry \in Sent /\ sends \in Seq(Sent)
        BY <2>1, <3>1, <1>1, <1>2
      <4> HIDE DEF entry
      <4> QED BY <4>1
    <3>5. \A k \in DOMAIN sends' \ DOMAIN sends : k = Len(sends) + 1
      BY <3>2, <1>2
    <3>6. DOMAIN sends \subseteq DOMAIN sends' /\ Len(sends) + 1 \in DOMAIN sends'
      BY <3>2, <1>2
    <3> QED BY <3>3, <3>4, <3>5, <3>6
  <2>2. CASE op \notin localRetries
    BY <2>2, <1>1, <1>2
  <2> QED BY <2>1, <2>2
<1>5. SavesTypeOK'
  <2>1. saves' \in [Fields -> Marker \cup {NoMarker}]
    <3>1. \A f \in Fields : saves'[f] \in Marker \cup {NoMarker}
      BY <1>2, <1>3
    <3> QED BY <3>1, <1>1
  <2> QED BY <2>1, <1>1, <1>2, <1>4 DEF SavesInv, SavesTypeOK, Row
<1>6. MarkersAreLatest' /\ SavedIsKnown' /\ SavedWaits'
  BY <1>1, <1>3 DEF SavesInv, MarkersAreLatest, Latest, SavedIsKnown, SavedWaits
<1>7. AnsweredIsKnown'
  BY <1>1, <1>4 DEF SavesInv, AnsweredIsKnown
<1>8. SavingEnds'
  <2> SUFFICES ASSUME NEW f \in Fields, saves'[f].state = "saving"
               PROVE  \/ \E j \in DOMAIN sends' : sends'[j].op = saves'[f].op /\ sends'[j].answer # "taken"
                      \/ timers'[f] = saves'[f].op
    BY DEF SavingEnds
  <2>1. CASE saves[f].op = op /\ op \in localRetries
    BY <2>1, <1>3, <1>4
  <2>2. CASE saves[f].op = op /\ op \notin localRetries
    BY <2>2, <1>1, <1>3 DEF SavesInv, SavedWaits
  <2>3. CASE saves[f].op # op
    <3>1. saves[f].state = "saving"
      BY <2>3, <1>3
    <3> QED BY <2>3, <3>1, <1>1, <1>3, <1>4 DEF SavesInv, SavingEnds
  <2> QED BY <2>1, <2>2, <2>3
<1> QED BY <1>5, <1>6, <1>7, <1>8 DEF SavesInv

-----------------------------------------------------------------------------
LEMMA SavesInvariance == SavesSpec => []SavesInv
<1>1. SavesInv /\ UNCHANGED savesVars => SavesInv'
  BY DEF SavesInv, savesVars, SavesTypeOK, MarkersAreLatest, Latest, SavedIsKnown, AnsweredIsKnown,
         SavedWaits, SavingEnds
<1>2. SavesInv /\ [SavesNext]_savesVars => SavesInv'
  BY <1>1, EditKeeps, TimerKeeps, SuccessKeeps, FailureKeeps, TakeKeeps, EndKeeps, RetryEndKeeps, RowKeeps,
     RetryCardKeeps DEF SavesNext
<1> QED BY <1>2, SavesBegin, PTL DEF SavesSpec

\* However answers, retries and frames of one card are interleaved, a field is
\* marked as saved only if the server has stored the last edit of that field.
\* (useFieldSaveState.ts:74)
THEOREM SavedMeansStored == SavesSpec => []SavedIsStored
  BY SavesInvariance, SavedByInv, PTL

\* No field is marked as saving without an answer or a timer to come.
\* (useFieldSaveState.ts:103)
THEOREM MarkersMoveOn == SavesSpec => []SavingEnds
<1>1. SavesInv => SavingEnds
  BY DEF SavesInv
<1> QED BY <1>1, SavesInvariance, PTL

-----------------------------------------------------------------------------
(* CardComments *)

Submission == [at : {"sent", "done", "landed", "failed"}, text : Texts, note : Nat]

\* What GitLab has of a text.
Has(text) == \/ text \in executed
             \/ \E n \in 1 .. Len(notes) : notes[n] = text

\* GitLab has answered a submission of the text.
TextAnswered(text) == \E s \in 1 .. Len(submissions) : /\ submissions[s].text = text
                                                   /\ submissions[s].at \in {"done", "landed"}

\* A text that was submitted and not edited since is that of the composer's
\* submission; GitLab has what it answered, and what did not land is still in
\* the composer.
CommentsInv ==
    /\ notes \in Seq(Texts) /\ submissions \in Seq(Submission)
    /\ current \in 0 .. Len(submissions) /\ body \in Texts \cup {EmptyBody}
    /\ kept \in Texts \cup {EmptyBody}
    /\ kept # EmptyBody => current # 0 /\ submissions[current].text = kept
    /\ kept # EmptyBody => submissions[current].at = "landed" \/ body = kept
    /\ \A text \in Texts : TextAnswered(text) => Has(text)

LEMMA CommentsBegin == CommentsInit => CommentsInv
<1> SUFFICES ASSUME CommentsInit PROVE CommentsInv
  OBVIOUS
<1>1. notes \in Seq(Texts)
  <2>1. CASE notes = <<>>
    BY <2>1
  <2>2. ASSUME NEW t \in Texts, notes = <<t>> PROVE notes \in Seq(Texts)
    BY <2>2
  <2> QED BY <2>1, <2>2 DEF CommentsInit
<1>2. submissions = <<>> /\ submissions \in Seq(Submission) /\ Len(submissions) = 0
  BY DEF CommentsInit
<1>3. \A text \in Texts : ~TextAnswered(text)
  BY <1>2 DEF TextAnswered
<1> QED BY <1>1, <1>2, <1>3 DEF CommentsInit, CommentsInv

\* Notes are only added: what GitLab has it keeps.
LEMMA HasStays ==
    ASSUME notes \in Seq(Texts), executed \subseteq executed', NEW text, Has(text),
           \/ UNCHANGED notes
           \/ \E t \in Texts : notes' = Append(notes, t)
    PROVE  Has(text)'
<1>1. CASE text \in executed
  BY <1>1 DEF Has
<1>2. ASSUME NEW n \in 1 .. Len(notes), notes[n] = text PROVE Has(text)'
  <2>1. n \in 1 .. Len(notes') /\ notes'[n] = text
    BY <1>2
  <2> QED BY <2>1 DEF Has
<1> QED BY <1>1, <1>2 DEF Has

\* The list and the notes of others leave the composer alone.
LEMMA ListKeeps ==
    ASSUME CommentsInv, UNCHANGED <<Composer, executed>>,
           \/ UNCHANGED notes
           \/ \E t \in Texts : notes' = Append(notes, t)
    PROVE  CommentsInv'
<1>1. /\ notes \in Seq(Texts) /\ notes' \in Seq(Texts) /\ executed \subseteq executed'
      /\ UNCHANGED submissions
  BY DEF CommentsInv, Composer
<1>2. \A text \in Texts : TextAnswered(text)' => Has(text)'
  <2> SUFFICES ASSUME NEW text \in Texts, TextAnswered(text)' PROVE Has(text)'
    OBVIOUS
  <2>1. TextAnswered(text)
    BY <1>1 DEF TextAnswered
  <2> QED BY <1>1, <2>1, HasStays DEF CommentsInv
<1> QED BY <1>1, <1>2 DEF CommentsInv, Composer

LEMMA TypingKeeps ==
    ASSUME CommentsInv, \/ \E t \in Texts \cup {EmptyBody} : TypeComment(t)
                        \/ ReopenComposer
    PROVE  CommentsInv'
<1>1. /\ UNCHANGED <<notes, submissions, executed>> /\ kept' = EmptyBody /\ current' \in {0, current}
      /\ body' \in Texts \cup {EmptyBody}
  BY DEF TypeComment, ReopenComposer
<1>2. \A text \in Texts : TextAnswered(text)' => Has(text)'
  BY <1>1 DEF CommentsInv, TextAnswered, Has
<1> QED BY <1>1, <1>2 DEF CommentsInv

LEMMA CommentSubmitKeeps ==
    ASSUME CommentsInv, Submit PROVE CommentsInv'
<1> DEFINE new == [at |-> "sent", text |-> body, note |-> 0]
<1>1. /\ UNCHANGED <<notes, executed, body>> /\ submissions' = Append(submissions, new)
      /\ current' = Len(submissions) + 1 /\ kept' = body
  BY DEF Submit, Mutate
<1>2. new \in Submission /\ new.at = "sent" /\ new.text = body /\ body \in Texts
  <2>1. body \in Texts
    BY DEF Submit, Mutate, CommentsInv
  <2> QED BY <2>1 DEF Submission
<1> HIDE DEF new
<1>3. /\ submissions \in Seq(Submission) /\ submissions' \in Seq(Submission)
      /\ Len(submissions') = Len(submissions) + 1 /\ submissions'[current'] = new
      /\ \A s \in 1 .. Len(submissions) : submissions'[s] = submissions[s]
  BY <1>1, <1>2 DEF CommentsInv
<1>4. \A s \in 1 .. Len(submissions') : s \in 1 .. Len(submissions) \/ s = current'
  BY <1>1, <1>3
<1>5. current' \in 0 .. Len(submissions') /\ current' # 0
  BY <1>1, <1>3
<1>6. \A text \in Texts : TextAnswered(text)' => Has(text)'
  <2> SUFFICES ASSUME NEW text \in Texts, TextAnswered(text)' PROVE Has(text)'
    OBVIOUS
  <2>1. TextAnswered(text)
    BY <1>2, <1>3, <1>4 DEF TextAnswered
  <2> QED BY <1>1, <2>1 DEF CommentsInv, Has
<1> QED BY <1>1, <1>2, <1>3, <1>5, <1>6 DEF CommentsInv

\* One submission changes, not its text.
LEMMA SubmissionKeeps ==
    ASSUME CommentsInv, NEW s \in 1 .. Len(submissions), NEW new \in Submission,
           submissions' = [submissions EXCEPT ![s] = new], new.text = submissions[s].text,
           UNCHANGED <<current, kept>>, executed \subseteq executed',
           \/ UNCHANGED notes
           \/ \E t \in Texts : notes' = Append(notes, t),
           new.at \in {"done", "landed"} => TextAnswered(new.text) \/ Has(new.text)',
           body' = IF s = current /\ new.at = "landed" THEN EmptyBody ELSE body,
           submissions[s].at # "landed"
    PROVE  CommentsInv'
<1>1. /\ notes \in Seq(Texts) /\ notes' \in Seq(Texts)
      /\ submissions \in Seq(Submission) /\ submissions' \in Seq(Submission)
      /\ Len(submissions') = Len(submissions) /\ submissions'[s] = new
      /\ \A q \in 1 .. Len(submissions) : q # s => submissions'[q] = submissions[q]
  <2>1. notes \in Seq(Texts) /\ submissions \in Seq(Submission)
    BY DEF CommentsInv
  <2>2. notes' \in Seq(Texts)
    BY <2>1
  <2> QED BY <2>1, <2>2
<1>2. \A text \in Texts : TextAnswered(text)' => Has(text)'
  <2> SUFFICES ASSUME NEW text \in Texts, TextAnswered(text)' PROVE Has(text)'
    OBVIOUS
  <2>1. CASE TextAnswered(text)
    BY <1>1, <2>1, HasStays DEF CommentsInv
  <2>2. CASE ~TextAnswered(text)
    BY <1>1, <2>2 DEF TextAnswered
  <2> QED BY <2>1, <2>2
<1>3. \A q \in 1 .. Len(submissions) : submissions'[q].text = submissions[q].text
  BY <1>1
<1>4. kept' # EmptyBody => submissions'[current'].at = "landed" \/ body' = kept'
  BY <1>1 DEF CommentsInv
<1> QED BY <1>1, <1>2, <1>3, <1>4 DEF CommentsInv

LEMMA SubmissionAnswerKeeps ==
    ASSUME CommentsInv, NEW s \in DOMAIN submissions, GitLabComments(s)
    PROVE  CommentsInv'
<1>1. /\ notes \in Seq(Texts) /\ submissions \in Seq(Submission) /\ submissions[s] \in Submission
      /\ s \in 1 .. Len(submissions) /\ s # 0 /\ submissions[s].at = "sent"
      /\ UNCHANGED <<body, current, kept>>
  BY DEF CommentsInv, GitLabComments, State
<1>2. CASE submissions[s].text \in QuickActions
  <2>0. PICK new : new = [submissions[s] EXCEPT !.at = "done"]
    OBVIOUS
  <2>1. new \in Submission /\ new.at = "done" /\ new.text = submissions[s].text
    BY <1>1, <2>0 DEF Submission
  <2>2. /\ submissions' = [submissions EXCEPT ![s] = new] /\ UNCHANGED notes
        /\ executed' = executed \cup {submissions[s].text}
    BY <1>2, <2>0 DEF GitLabComments
  <2>3. Has(new.text)'
    BY <2>1, <2>2, <1>1 DEF Has
  <2> QED BY <1>1, <2>1, <2>2, <2>3, SubmissionKeeps
<1>3. CASE submissions[s].text \notin QuickActions
  <2>0. PICK new : new = [at |-> "done", text |-> submissions[s].text, note |-> Len(notes) + 1]
    OBVIOUS
  <2>1. new \in Submission /\ new.at = "done" /\ new.text = submissions[s].text
    BY <1>1, <2>0 DEF Submission
  <2>2. /\ submissions' = [submissions EXCEPT ![s] = new] /\ UNCHANGED executed
        /\ notes' = Append(notes, submissions[s].text)
    BY <1>3, <2>0 DEF GitLabComments
  <2>3. Len(notes) + 1 \in 1 .. Len(notes') /\ notes'[Len(notes) + 1] = submissions[s].text
    BY <1>1, <2>2 DEF Submission
  <2>4. Has(new.text)'
    BY <2>1, <2>3 DEF Has
  <2> QED BY <1>1, <2>1, <2>2, <2>4, SubmissionKeeps DEF Submission
<1> QED BY <1>2, <1>3
LEMMA LandingKeeps ==
    ASSUME CommentsInv, NEW s \in DOMAIN submissions, CommentLands(s) \/ CommentFails(s)
    PROVE  CommentsInv'
<1>1. /\ submissions \in Seq(Submission) /\ submissions[s] \in Submission /\ s \in 1 .. Len(submissions)
      /\ UNCHANGED <<notes, executed, current, kept>>
      /\ submissions[s].at \in {"sent", "done"}
  BY DEF CommentsInv, CommentLands, CommentFails, State
<1>2. CASE CommentLands(s)
  <2>0. PICK new : new = [submissions[s] EXCEPT !.at = "landed"]
    OBVIOUS
  <2>1. new \in Submission /\ new.at = "landed" /\ new.text = submissions[s].text
    BY <1>1, <2>0 DEF Submission
  <2>2. /\ submissions' = [submissions EXCEPT ![s] = new]
        /\ body' = IF s = current THEN EmptyBody ELSE body
    BY <1>2, <2>0 DEF CommentLands
  <2>3. TextAnswered(new.text)
    BY <1>1, <1>2, <2>1 DEF CommentLands, State, TextAnswered
  <2> QED BY <1>1, <2>1, <2>2, <2>3, SubmissionKeeps
<1>3. CASE CommentFails(s)
  <2>0. PICK new : new = [submissions[s] EXCEPT !.at = "failed"]
    OBVIOUS
  <2>1. new \in Submission /\ new.at = "failed" /\ new.text = submissions[s].text
    BY <1>1, <2>0 DEF Submission
  <2>2. submissions' = [submissions EXCEPT ![s] = new] /\ body' = body
    BY <1>3, <2>0 DEF CommentFails
  <2> QED BY <1>1, <2>1, <2>2, SubmissionKeeps
<1> QED BY <1>2, <1>3

LEMMA CommentsKeep == ASSUME CommentsInv, [CommentsNext]_commentsVars PROVE CommentsInv'
<1>1. ASSUME UNCHANGED commentsVars PROVE CommentsInv'
  BY <1>1, ListKeeps DEF commentsVars, Composer
<1>2. ASSUME InvalidateComments \/ ReadComments \/ CommentsLand PROVE CommentsInv'
  BY <1>2, ListKeeps DEF InvalidateComments, ReadComments, CommentsLand
<1>3. ASSUME NEW t \in Texts \ QuickActions, TheyComment(t) PROVE CommentsInv'
  BY <1>3, ListKeeps DEF TheyComment
<1>4. ASSUME NEW s \in DOMAIN submissions, GitLabComments(s) \/ CommentLands(s) \/ CommentFails(s)
      PROVE  CommentsInv'
  BY <1>4, SubmissionAnswerKeeps, LandingKeeps
<1> QED BY <1>1, <1>2, <1>3, <1>4, CommentSubmitKeeps, TypingKeeps DEF CommentsNext

\* What was submitted and not edited since is in GitLab or still in the composer
\* (BoardPage.tsx, commentMutation and its onSuccess).
THEOREM SubmittedIsKept == CommentsSpec => []SubmittedTextSurvives
<1>1. ASSUME CommentsInv PROVE SubmittedTextSurvives
  <2> SUFFICES ASSUME kept # EmptyBody, body # kept
               PROVE  Has(kept)
    BY DEF SubmittedTextSurvives, Has
  <2>1. /\ kept \in Texts /\ submissions[current].text = kept
        /\ submissions[current].at = "landed" /\ current \in 1 .. Len(submissions)
    BY <1>1 DEF CommentsInv
  <2>2. TextAnswered(kept)
    BY <2>1 DEF TextAnswered
  <2> QED BY <1>1, <2>1, <2>2 DEF CommentsInv
<1> QED BY <1>1, CommentsBegin, CommentsKeep, PTL DEF CommentsSpec

-----------------------------------------------------------------------------
(* CardRelations *)

NothingAsked == (\A i \in Items : removing[i] = "idle") /\ (\A s \in saving : s.state # "done")

\* The list is what GitLab holds, and so is what a read has found, unless an
\* invalidation is still to come or this tab was not told.
RelationsInv ==
    /\ removing \in [Items -> {"idle", "sent", "done", "refused"}]
    /\ confirming \in Items \cup {NoItem}
    /\ \A s \in saving : "state" \in DOMAIN s
    /\ mounted /\ reading = Quiet /\ ~list.failed /\ ~behind /\ NothingAsked => list.data = related
    /\ reading.at = "answered" /\ ~behind /\ NothingAsked => reading.items = related

ReadStates == /\ Quiet.at = "none" /\ Asked.at = "sent" /\ Asked # Quiet
              /\ \A r : Answer(r).at = "answered" /\ Answer(r).items = r

LEMMA ReadStatesDiffer == ReadStates
BY DEF ReadStates, Quiet, Asked, Answer

LEMMA RelationsBegin == RelationsInit => RelationsInv
BY ReadStatesDiffer DEF RelationsInit, RelationsInv, NothingAsked, ReadStates

\* What an invalidation leaves: a read to come, or a closed card whose next drawer
\* reads, or the mark of a read that went on.
LEMMA Invalidated ==
    ASSUME RelationsInv, Invalidate, UNCHANGED <<mounted, confirming>>,
           removing' \in [Items -> {"idle", "sent", "done", "refused"}],
           \A s \in saving' : "state" \in DOMAIN s
    PROVE  RelationsInv'
<1>1. CASE mounted
  BY <1>1, ReadStatesDiffer DEF Invalidate, RelationsInv, ReadStates
<1>2. CASE ~mounted
  BY <1>2, ReadStatesDiffer DEF Invalidate, RelationsInv, ReadStates
<1> QED BY <1>1, <1>2

\* The drawer and the dialogs leave the list, the reads and the items alone.
LEMMA ListUntouched ==
    ASSUME RelationsInv, UNCHANGED <<related, list, reading, removing, behind>>,
           mounted' => mounted, confirming' \in Items \cup {NoItem},
           \A s \in saving' : "state" \in DOMAIN s,
           (\A s \in saving' : s.state # "done") => \A s \in saving : s.state # "done"
    PROVE  RelationsInv'
<1>1. NothingAsked' => NothingAsked
  BY DEF NothingAsked
<1> QED BY <1>1 DEF RelationsInv

LEMMA DrawerKeepsList ==
    ASSUME RelationsInv, MountCard \/ UnmountCard
    PROVE  RelationsInv'
<1>1. CASE MountCard
  <2>1. /\ UNCHANGED <<related, list, behind, removing, confirming, saving>>
        /\ reading' = IF reading = Quiet THEN Asked ELSE reading
    BY <1>1 DEF MountCard, Unremoved, Unsaved
  <2>2. NothingAsked' = NothingAsked /\ reading' # Quiet
    BY <2>1, ReadStatesDiffer DEF NothingAsked, ReadStates
  <2> QED BY <2>1, <2>2, ReadStatesDiffer DEF RelationsInv, ReadStates
<1>2. CASE UnmountCard
  <2>1. /\ UNCHANGED <<related, list, reading, removing, behind>> /\ ~mounted' /\ confirming' = NoItem
        /\ saving' = {[s EXCEPT !.here = FALSE] : s \in saving}
    BY <1>2 DEF UnmountCard
  <2>2. \A s \in saving : LET t == [s EXCEPT !.here = FALSE]
                          IN  "state" \in DOMAIN t /\ t.state = s.state
    BY DEF RelationsInv
  <2>3. \A s \in saving' : "state" \in DOMAIN s
    BY <2>1, <2>2
  <2>4. (\A s \in saving' : s.state # "done") => \A s \in saving : s.state # "done"
    BY <2>1, <2>2
  <2> QED BY <2>1, <2>3, <2>4, ListUntouched
<1> QED BY <1>1, <1>2

LEMMA ReadsKeepList ==
    ASSUME RelationsInv, ReadRelated \/ ReadLands \/ ReadFails \/ RetryRead
    PROVE  RelationsInv'
<1>1. UNCHANGED <<related, mounted, removing, confirming, saving>>
  BY DEF ReadRelated, ReadLands, ReadFails, RetryRead, Unremoved, Unsaved
<1>2. NothingAsked' = NothingAsked
  BY <1>1 DEF NothingAsked
<1>3. CASE ReadRelated
  <2>1. reading' = Answer(related) /\ UNCHANGED list
    BY <1>3 DEF ReadRelated
  <2>2. reading'.at = "answered" /\ reading'.items = related /\ reading' # Quiet
    BY <2>1, ReadStatesDiffer DEF ReadStates
  <2> QED BY <1>1, <1>2, <2>2 DEF RelationsInv
<1>4. CASE ReadLands
  <2>1. /\ reading.at = "answered" /\ list' = [data |-> reading.items, failed |-> FALSE]
        /\ reading' = Quiet /\ UNCHANGED behind
    BY <1>4 DEF ReadLands
  <2>2. reading'.at # "answered"
    BY <2>1, ReadStatesDiffer DEF ReadStates
  <2> QED BY <1>1, <1>2, <2>1, <2>2 DEF RelationsInv
<1>5. CASE ReadFails
  <2>1. list'.failed /\ reading' = Quiet
    <3>1. list' = [list EXCEPT !.failed = TRUE] /\ reading' = Quiet
      BY <1>5 DEF ReadFails
    <3> QED BY <3>1
  <2> QED BY <1>1, <2>1, ReadStatesDiffer DEF RelationsInv, ReadStates
<1>6. CASE RetryRead
  BY <1>1, <1>6, ReadStatesDiffer DEF RetryRead, RelationsInv, ReadStates
<1> QED BY <1>3, <1>4, <1>5, <1>6

LEMMA RemovalsKeepList ==
    ASSUME RelationsInv,
           \/ ConfirmRemoval
           \/ \E i \in Items : BeginRemoval(i) \/ GitLabRemoves(i) \/ Removed(i) \/ RemovalRolledBack(i)
    PROVE  RelationsInv'
<1>1. CASE ConfirmRemoval
  <2>1. /\ confirming \in Items /\ confirming' = NoItem
        /\ removing' = [removing EXCEPT ![confirming] = "sent"] /\ UNCHANGED saving
    BY <1>1 DEF ConfirmRemoval, RelationsInv, Unsaved
  <2>2. ~NothingAsked' /\ removing' \in [Items -> {"idle", "sent", "done", "refused"}]
    BY <2>1 DEF NothingAsked, RelationsInv
  <2> QED BY <2>1, <2>2 DEF RelationsInv
<1>2. ASSUME NEW i \in Items, BeginRemoval(i) PROVE RelationsInv'
  BY <1>2, ListUntouched DEF BeginRemoval, Unsaved, RelationsInv
<1>3. ASSUME NEW i \in Items, GitLabRemoves(i) PROVE RelationsInv'
  <2>1. /\ \E to \in {"done", "refused"} : removing' = [removing EXCEPT ![i] = to]
        /\ UNCHANGED <<confirming, saving>>
    BY <1>3 DEF GitLabRemoves, Unsaved
  <2>2. ~NothingAsked' /\ removing' \in [Items -> {"idle", "sent", "done", "refused"}]
    BY <1>3, <2>1 DEF NothingAsked, RelationsInv
  <2> QED BY <2>1, <2>2 DEF RelationsInv
<1>4. ASSUME NEW i \in Items, Removed(i) \/ RemovalRolledBack(i) PROVE RelationsInv'
  <2>1. /\ removing' = [removing EXCEPT ![i] = "idle"] /\ Invalidate
        /\ UNCHANGED <<mounted, confirming, saving>>
    BY <1>4 DEF Removed, RemovalRolledBack, Unsaved
  <2> QED BY <2>1, Invalidated DEF RelationsInv
<1> QED BY <1>1, <1>2, <1>3, <1>4

\* A request that GitLab has carried out is waited for, until its answer or the end of it.
LEMMA SavesKeepList ==
    ASSUME RelationsInv,
           \/ SaveRelation
           \/ \E s \in saving : GitLabRelates(s) \/ SaveLands(s) \/ SaveRefused(s)
    PROVE  RelationsInv'
<1>0. \A x : \A s \in saving : LET t == [s EXCEPT !.state = x] IN "state" \in DOMAIN t /\ t.state = x
  BY DEF RelationsInv
<1>1. CASE SaveRelation
  <2>1. PICK items : saving' = saving \cup {[no |-> dialog.no, mode |-> dialog.mode, items |-> items,
                                             here |-> TRUE, state |-> "sent"]}
    BY <1>1 DEF SaveRelation
  <2>2. \A s \in saving' : "state" \in DOMAIN s
    BY <2>1 DEF RelationsInv
  <2>3. UNCHANGED <<related, mounted, list, reading, removing, confirming, behind>>
    BY <1>1 DEF SaveRelation, Unremoved
  <2> QED BY <2>1, <2>2, <2>3, ListUntouched DEF RelationsInv
<1>2. ASSUME NEW s \in saving, GitLabRelates(s) PROVE RelationsInv'
  <2>1. /\ saving' = (saving \ {s}) \cup {[s EXCEPT !.state = "done"]}
        /\ UNCHANGED <<removing, confirming>>
    BY <1>2 DEF GitLabRelates, Unremoved
  <2>2. ~NothingAsked' /\ \A t \in saving' : "state" \in DOMAIN t
    BY <1>0, <2>1 DEF NothingAsked, RelationsInv
  <2> QED BY <2>1, <2>2 DEF RelationsInv
<1>3. ASSUME NEW s \in saving, SaveLands(s) PROVE RelationsInv'
  <2>1. /\ saving' = (saving \ {s}) \cup {[s EXCEPT !.state = "landed"]}
        /\ Invalidate /\ UNCHANGED <<mounted, removing, confirming>>
    BY <1>3 DEF SaveLands, Unremoved
  <2>2. \A t \in saving' : "state" \in DOMAIN t
    BY <1>0, <2>1 DEF RelationsInv
  <2> QED BY <2>1, <2>2, Invalidated DEF RelationsInv
<1>4. ASSUME NEW s \in saving, SaveRefused(s) PROVE RelationsInv'
  <2>1. /\ saving' = saving \ {s} /\ behind' = (behind \/ s.state = "done")
        /\ UNCHANGED <<related, mounted, list, reading, removing, confirming>>
    BY <1>4 DEF SaveRefused, Unremoved
  <2>2. CASE s.state = "done"
    BY <2>1, <2>2 DEF RelationsInv
  <2>3. CASE s.state # "done"
    <3>1. (\A t \in saving' : t.state # "done") => \A t \in saving : t.state # "done"
      BY <2>1, <2>3
    <3>2. NothingAsked' => NothingAsked
      BY <2>1, <3>1 DEF NothingAsked
    <3> QED BY <2>1, <2>3, <3>2 DEF RelationsInv
  <2> QED BY <2>2, <2>3
<1> QED BY <1>1, <1>2, <1>3, <1>4

LEMMA DialogsKeepList ==
    ASSUME RelationsInv,
           \/ CancelRemoval \/ CloseDialog \/ Debounced \/ LinkInstead \/ UNCHANGED relationsVars
           \/ \E i \in Items : PickCandidate(i)
           \/ \E m \in Modes : OpenDialog(m)
           \/ \E q \in Queries \cup {TooShort} : TypeSearch(q)
    PROVE  RelationsInv'
<1>1. /\ UNCHANGED <<related, mounted, list, reading, removing, behind, saving>>
      /\ confirming' \in {confirming, NoItem}
  BY DEF CancelRemoval, CloseDialog, Debounced, LinkInstead, PickCandidate, OpenDialog, TypeSearch,
         Unremoved, Unsaved, relationsVars
<1> QED BY <1>1, ListUntouched DEF RelationsInv

LEMMA RelationsStep == ASSUME RelationsInv, [RelationsNext]_relationsVars PROVE RelationsInv'
<1>1. ASSUME NEW i \in Items, TheyRelate(i) PROVE RelationsInv'
  BY <1>1 DEF TheyRelate, RelationsInv, Unremoved, Unsaved
<1> QED BY <1>1, DrawerKeepsList, ReadsKeepList, RemovalsKeepList, SavesKeepList, DialogsKeepList
        DEF RelationsNext

\* Once the reads, removals and dialogs are over, the drawer lists what GitLab holds,
\* whatever was rolled back, refused or read in between (CardRelationships.tsx).
THEOREM RelationsEndTrue == RelationsSpec => []ListEndsTrue
<1>1. RelationsInv => ListEndsTrue
  BY DEF RelationsInv, ListEndsTrue, NothingAsked
<1> QED BY <1>1, RelationsBegin, RelationsStep, PTL DEF RelationsSpec

-----------------------------------------------------------------------------
(* DateField *)

\* What the field has sent is what was entered last, and a draft that is a date was
\* sent, or is the card's date, or somebody else has changed that since.
DateInv ==
    /\ LastEntryIsKept
    /\ editing.last.set => meant = editing.last.day
    /\ editing.draft.is = "date" =>
           \/ editing.last.set /\ editing.last.day = editing.draft.day
           \/ excuse # "none"
           \/ editing.draft.day = value

\* Sending a date the user enters: it is the card's date then, unless this edit has
\* sent it before and somebody has changed the card's since.
LEMMA EnteringKeeps ==
    ASSUME DateInv, NEW d, Emit(d), Entered(d)
    PROVE  LastEntryIsKept' /\ meant' = d
<1>1. /\ value' = IF d # value /\ ~(editing.last.set /\ editing.last.day = d) THEN d ELSE value
      /\ meant' = d
      /\ excuse' = IF excuse # "none" /\ editing.last.set /\ editing.last.day = d
                   THEN "repeated" ELSE "none"
  BY DEF Emit, Entered
<1>2. CASE editing.last.set /\ editing.last.day = d
  <2>1. value' = value /\ (excuse' = "none" => excuse = "none")
    BY <1>1, <1>2
  <2> QED BY <1>1, <1>2, <2>1 DEF DateInv, LastEntryIsKept
<1>3. CASE ~(editing.last.set /\ editing.last.day = d)
  BY <1>1, <1>3 DEF LastEntryIsKept
<1> QED BY <1>1, <1>2, <1>3

LEMMA NowhereIsBlank == Nowhere.draft.is = "blank" /\ ~Nowhere.last.set
BY DEF Nowhere

LEMMA DateBegins == DateInit => DateInv
BY NowhereIsBlank DEF DateInit, DateInv, LastEntryIsKept

LEMMA FocusKeepsDate == ASSUME DateInv, FocusInput PROVE DateInv'
<1>1. /\ editing' = [on |-> TRUE, draft |-> Shows(value), last |-> Nowhere.last]
      /\ UNCHANGED <<value, meant, excuse>>
  BY DEF FocusInput
<1>2. editing'.draft = Shows(value) /\ editing'.last = Nowhere.last
  BY <1>1
<1>3. Shows(value).is = "date" => Shows(value).day = value
  BY DEF Shows, BlankDate, Complete
<1> QED BY <1>1, <1>2, <1>3, NowhereIsBlank DEF DateInv, LastEntryIsKept

LEMMA ChangingKeepsDate == ASSUME DateInv, NEW text, ChangeDraft(text) PROVE DateInv'
<1>1. CASE text.is = "date"
  <2>1. /\ Emit(text.day) /\ Entered(text.day)
        /\ editing' = [on |-> TRUE, draft |-> text, last |-> [set |-> TRUE, day |-> text.day]]
    BY <1>1 DEF ChangeDraft
  <2>2. editing'.draft = text /\ editing'.last.set /\ editing'.last.day = text.day
    BY <2>1
  <2>3. LastEntryIsKept' /\ meant' = text.day
    BY <2>1, EnteringKeeps
  <2> QED BY <2>2, <2>3 DEF DateInv
<1>2. CASE text.is # "date"
  <2>1. /\ editing' = [on |-> TRUE, draft |-> text, last |-> editing.last]
        /\ UNCHANGED <<value, meant, excuse>>
    BY <1>2 DEF ChangeDraft
  <2>2. editing'.draft = text /\ editing'.last = editing.last
    BY <2>1
  <2> QED BY <1>2, <2>1, <2>2 DEF DateInv, LastEntryIsKept
<1> QED BY <1>1, <1>2

\* Leaving the field: there is no draft then.
LEMMA NoDraft == ASSUME LastEntryIsKept', editing' = Nowhere PROVE DateInv'
BY NowhereIsBlank DEF DateInv

LEMMA CommittingKeepsDate == ASSUME DateInv, CommitDraft PROVE DateInv'
<1>1. CASE editing.draft.is = "blank"
  <2>1. Emit(NoDate) /\ Entered(NoDate)
    BY <1>1 DEF CommitDraft
  <2> QED BY <2>1, EnteringKeeps, NoDraft DEF CommitDraft
<1>2. CASE editing.draft.is = "date"
  <2>1. Emit(editing.draft.day) /\ UNCHANGED <<meant, excuse>>
    BY <1>2 DEF CommitDraft
  <2>2. LastEntryIsKept'
    BY <1>2, <2>1 DEF DateInv, Emit, LastEntryIsKept
  <2> QED BY <2>2, NoDraft DEF CommitDraft
<1>3. CASE editing.draft.is # "blank" /\ editing.draft.is # "date"
  <2>1. UNCHANGED <<value, meant, excuse>>
    BY <1>3 DEF CommitDraft
  <2> QED BY <2>1, NoDraft DEF CommitDraft, DateInv, LastEntryIsKept
<1> QED BY <1>1, <1>2, <1>3

LEMMA ChoosingKeepsDate == ASSUME DateInv, NEW d, SelectDate(d) PROVE DateInv'
BY EnteringKeeps, NoDraft DEF SelectDate, DropsDraft

LEMMA CalendarKeepsDate ==
    ASSUME DateInv,
           \/ OpenCalendar \/ CloseCalendar
           \/ \E to : MoveDay(to)
           \/ \E n \in {-1, 1} : PageMonths(n) \/ MonthButton(n)
           \/ \E week \in Days : Scroll(week)
           \/ UNCHANGED dateVars
    PROVE  DateInv'
<1>1. UNCHANGED <<value, editing, meant, excuse>>
  BY DEF OpenCalendar, CloseCalendar, MoveDay, PageMonths, MonthButton, Scroll, dateVars
<1> QED BY <1>1 DEF DateInv, LastEntryIsKept

LEMMA DateStep == ASSUME DateInv, [DateNext]_dateVars PROVE DateInv'
<1>1. CASE AbandonDraft
  BY <1>1, NoDraft DEF AbandonDraft, DateInv, LastEntryIsKept
<1>2. ASSUME NEW d, TheyChangeDate(d) PROVE DateInv'
  BY <1>2 DEF TheyChangeDate, DateInv, LastEntryIsKept
<1> QED BY <1>1, <1>2, FocusKeepsDate, ChangingKeepsDate, CommittingKeepsDate, ChoosingKeepsDate,
        CalendarKeepsDate DEF DateNext

\* The date entered last is the card's, typed, committed or chosen in any order, and no
\* draft replaces it, unless somebody else has changed it since, or did before and the
\* date entered is the one this edit had sent already, which the field drops
\* (DateField.tsx:349).
THEOREM LastDateIsKept == DateSpec => []LastEntryIsKept
<1>1. DateInv => LastEntryIsKept
  BY DEF DateInv
<1> QED BY <1>1, DateBegins, DateStep, PTL DEF DateSpec

-----------------------------------------------------------------------------
(* QuickActionInput *)

\* Once the cursor has been told of the caret, and the frame after a choice has come, the
\* caret is where the cursor is, in the text.
InputInv ==
    /\ content \in Seq(Symbols)
    /\ DOMAIN box = {"cursor", "caret", "focused", "active", "dismissed", "frame", "told"}
    /\ box.cursor \in Nat /\ box.caret \in 0 .. Len(content) /\ box.frame \in Nat \cup {NoFrame}
    /\ box.told /\ box.frame = NoFrame => box.caret = SafeCursor
    /\ \A request \in DOMAIN suggested : suggested[request] \in Seq(Letters)

LEMMA Lesser == ASSUME NEW m \in Nat, NEW n \in Nat PROVE Min({m, n}) = IF m <= n THEN m ELSE n
<1>1. PICK k : k = IF m <= n THEN m ELSE n
  OBVIOUS
<1>2. k \in {m, n} /\ \A j \in {m, n} : k =< j
  BY <1>1
<1>3. Min({m, n}) \in {m, n} /\ \A j \in {m, n} : Min({m, n}) =< j
  BY <1>2 DEF Min
<1> QED BY <1>1, <1>2, <1>3

LEMMA GreatestUpTo ==
    ASSUME NEW m \in Nat, NEW T, T \subseteq 0 .. m, T # {}
    PROVE  Max(T) \in T /\ \A n \in T : n <= Max(T)
<1> DEFINE U == {m - n : n \in T}
<1>1. U \subseteq Nat /\ U # {}
  <2>1. \A n \in T : m - n \in Nat
    OBVIOUS
  <2> QED BY <2>1
<1>2. PICK u \in U : \A v \in U : u <= v
  <2> HIDE DEF U
  <2> QED BY <1>1, LeastOfNat
<1>3. PICK k \in T : u = m - k
  BY <1>2
<1>4. \A n \in T : k >= n
  <2> TAKE n \in T
  <2>1. m - k <= m - n
    BY <1>2, <1>3
  <2>2. n \in 0 .. m /\ k \in 0 .. m
    OBVIOUS
  <2> QED BY <2>1, <2>2
<1>5. Max(T) \in T /\ \A n \in T : Max(T) >= n
  BY <1>3, <1>4 DEF Max
<1> QED BY <1>5

LEMMA InputBegins == InputInit => InputInv
<1> SUFFICES ASSUME InputInit PROVE InputInv
  OBVIOUS
<1>1. content \in Seq(Symbols) /\ DOMAIN suggested = {}
  BY InputAssumption DEF InputInit, InputAssumption
<1>2. /\ DOMAIN box = {"cursor", "caret", "focused", "active", "dismissed", "frame", "told"}
      /\ box.cursor = Len(content) /\ box.caret = 0 /\ box.frame = NoFrame /\ box.told = FALSE
  BY DEF InputInit
<1>3. Len(content) \in Nat
  BY <1>1
<1> QED BY <1>1, <1>2, <1>3 DEF InputInv

LEMMA CursorInText == ASSUME InputInv PROVE SafeCursor \in 0 .. Len(content)
<1>1. content \in Seq(Symbols) /\ box.cursor \in Nat /\ Len(content) \in Nat
  BY DEF InputInv
<1> QED BY <1>1, Lesser DEF SafeCursor

LEMMA LineEndsAtCursor ==
    ASSUME InputInv
    PROVE  /\ LineStart \in 0 .. SafeCursor
           /\ Line \in Seq(Symbols) /\ Len(Line) = SafeCursor - LineStart
<1> DEFINE T == {0} \cup {i \in 1 .. SafeCursor : content[i] = NewLine}
<1>1. SafeCursor \in 0 .. Len(content) /\ content \in Seq(Symbols) /\ Len(content) \in Nat
  BY CursorInText DEF InputInv
<1>2. T \subseteq 0 .. SafeCursor /\ T # {} /\ SafeCursor \in Nat
  BY <1>1
<1>3. LineStart \in 0 .. SafeCursor
  <2> HIDE DEF T
  <2>1. Max(T) \in T
    BY <1>2, GreatestUpTo
  <2>2. LineStart = Max(T)
    BY DEF LineStart, T
  <2> QED BY <1>2, <2>1, <2>2
<1>4. Line \in Seq(Symbols) /\ Len(Line) = SafeCursor - LineStart
  <2>1. PICK a, b : a = LineStart /\ b = SafeCursor
    OBVIOUS
  <2>2. SubSeq(content, a + 1, b) \in Seq(Symbols) /\ Len(SubSeq(content, a + 1, b)) = b - a
    BY <1>1, <1>3, <2>1
  <2> QED BY <2>1, <2>2 DEF Line
<1> QED BY <1>3, <1>4

-----------------------------------------------------------------------------

\* A reference at the cursor: its sign, and the length of its query.
LEMMA ExplicitFound ==
    ASSUME InputInv, Explicit # <<>>
    PROVE  Explicit[1] \in Signs /\ Explicit[2] \in 0 .. (Len(Line) - 1)
<1> DEFINE places == (1 .. Len(References)) \X (0 .. Len(Line))
           matched == {m \in places : RefersAt(References[m[1]], m[2])}
           Before(m) == \A o \in matched : m[1] <= o[1]
<1>1. References \in Seq(Signs) /\ Len(Line) \in Nat
  BY InputAssumption, LineEndsAtCursor DEF InputAssumption
<1>2. matched # {} /\ Explicit = LET first == CHOOSE m \in matched : Before(m)
                                 IN  <<References[first[1]], first[2]>>
  BY DEF Explicit
<1>3. \E m \in matched : Before(m)
  <2> DEFINE firsts == {m[1] : m \in matched}
  <2>1. firsts \subseteq Nat /\ firsts # {}
    <3>1. \A m \in matched : m[1] \in Nat
      <4>1. matched \subseteq places
        OBVIOUS
      <4>2. \A m \in places : m[1] \in 1 .. Len(References)
        OBVIOUS
      <4>3. \A n \in 1 .. Len(References) : n \in Nat
        OBVIOUS
      <4> HIDE DEF places, matched
      <4> QED BY <4>1, <4>2, <4>3
    <3>2. matched # {}
      BY <1>2
    <3> HIDE DEF places, matched
    <3> QED BY <3>1, <3>2
  <2>2. PICK n \in firsts : \A k \in firsts : n <= k
    <3> HIDE DEF firsts
    <3> QED BY <2>1, LeastOfNat
  <2> QED BY <2>2
<1>4. PICK first \in matched : Explicit = <<References[first[1]], first[2]>>
  BY <1>2, <1>3
<1>5. /\ first[1] \in 1 .. Len(References) /\ first[2] \in 0 .. Len(Line)
      /\ RefersAt(References[first[1]], first[2])
  BY <1>4
<1>6. first[2] < Len(Line)
  BY <1>5 DEF RefersAt
<1> QED BY <1>1, <1>4, <1>5, <1>6

\* The sign that a command hints at.
LEMMA HintsAreSigns == ASSUME InputInv PROVE Hint \subseteq Signs
<1> SUFFICES ASSUME NEW sign \in Hint PROVE sign \in Signs
  OBVIOUS
<1>1. PICK c \in Typed : /\ c.params # <<>>
                         /\ sign = c.params[Min({ArgumentCount + 1, Len(c.params)})]
  BY DEF Hint
<1>2. c.params \in Seq(Signs) /\ Len(c.params) \in Nat /\ Len(c.params) # 0
  <2>1. c \in ToSet(QuickCommands)
    BY DEF Typed, Commands
  <2>2. c \in [name : Letters, params : Seq(Signs)]
    <3>1. PICK k \in DOMAIN QuickCommands : c = QuickCommands[k]
      BY <2>1 DEF ToSet
    <3> DEFINE Command == [name : Letters, params : Seq(Signs)]
    <3>2. QuickCommands \in Seq(Command)
      BY InputAssumption DEF InputAssumption
    <3>3. QuickCommands[k] \in Command
      <4> HIDE DEF Command
      <4> QED BY <3>1, <3>2
    <3> QED BY <3>1, <3>3
  <2>3. c.params \in Seq(Signs)
    BY <2>2
  <2> QED BY <1>1, <2>3
<1>3. ArgumentCount \in Nat
  <2>1. IsFiniteSet({i \in 4 .. Len(Line) : Line[i] # Blank /\ Line[i - 1] = Blank})
    <3>1. IsFiniteSet(4 .. Len(Line))
      BY LineEndsAtCursor, CursorInText, FS_Interval DEF InputInv
    <3> QED BY <3>1, FS_Subset
  <2> QED BY <2>1, FS_CardinalityType DEF ArgumentCount
<1>4. PICK params, k : params = c.params /\ k = Min({ArgumentCount + 1, Len(c.params)})
  OBVIOUS
<1>5. k \in 1 .. Len(params)
  BY <1>2, <1>3, <1>4, Lesser
<1>6. params \in Seq(Signs) /\ sign = params[k]
  BY <1>1, <1>2, <1>4
<1> QED BY <1>5, <1>6

Written == Seq(Symbols)   \* what is written in the area

LEMMA OfferedAreTexts ==
    ASSUME InputInv, NEW sign \in Signs, NEW query
    PROVE  Offered(sign, query) \in Seq(Written)
<1>0. sign \in Symbols /\ Letters \subseteq Symbols
  BY DEF Symbols
<1>1. ASSUME NEW names \in Seq(Letters) PROVE Insert(sign, names) \in Seq(Written)
  <2>1. \A k \in 1 .. Len(names) : <<sign, names[k]>> \in Written
    BY <1>0 DEF Written
  <2> QED BY <2>1 DEF Insert
<1>2. Found(query, Known[sign]) \in Seq(Letters)
  <2>1. Known[sign] \in Seq(Letters)
    BY InputAssumption DEF InputAssumption
  <2> QED BY <2>1, OnlyKeeps DEF Found
<1>3. Remote(sign) \in Seq(Written)
  BY <1>1 DEF Remote, InputInv
<1>4. Only(Remote(sign), ToSet(Remote(sign)) \ ToSet(Insert(sign, Found(query, Known[sign])))) \in Seq(Written)
  BY <1>3, OnlyKeeps
<1> QED BY <1>1, <1>2, <1>4 DEF Offered, Merge

LEMMA CommandsAreTexts == ASSUME InputInv PROVE CommandItems \in Seq(Written)
<1> DEFINE Command == [name : Letters, params : Seq(Signs)]
           item(c) == <<Slash, c.name>> \o (IF c.params = <<>> THEN <<>> ELSE <<Blank, c.params[1]>>)
<1>1. (IF commandsKnown THEN QuickCommands ELSE <<>>) \in Seq(Command)
  BY InputAssumption DEF InputAssumption
<1>2. PICK found \in Seq(Command) : CommandItems = [k \in DOMAIN found |-> item(found[k])]
  <2> DEFINE found == Only(IF commandsKnown THEN QuickCommands ELSE <<>>,
                           {c \in Commands : Len(Line) = 1 \/ Tail(Line) = <<c.name>>})
  <2>1. found \in Seq(Command)
    <3> HIDE DEF Command
    <3> QED BY <1>1, OnlyKeeps
  <2> QED BY <2>1 DEF CommandItems
<1>3. ASSUME NEW c \in Command PROVE item(c) \in Written
  <2>1. c.name \in Symbols /\ Slash \in Symbols /\ Blank \in Symbols /\ c.params \in Seq(Signs) /\ Signs \subseteq Symbols
    BY DEF Symbols
  <2>2. CASE c.params = <<>>
    BY <2>1, <2>2 DEF Written
  <2>3. CASE c.params # <<>>
    <3>1. c.params[1] \in Symbols
      BY <2>1, <2>3
    <3>2. <<Slash, c.name>> \in Seq(Symbols) /\ <<Blank, c.params[1]>> \in Seq(Symbols)
      BY <2>1, <3>1
    <3> QED BY <2>3, <3>2 DEF Written
  <2> QED BY <2>2, <2>3
<1> HIDE DEF item, Command
<1> QED BY <1>2, <1>3

LEMMA OfferIsAtCursor ==
    ASSUME InputInv
    PROVE  Offer.start \in 0 .. SafeCursor /\ Offer.items \in Seq(Written)
<1>1. SafeCursor \in Nat
  BY CursorInText
<1>2. CASE IsCommand
  <2>1. Offer.start = LineStart /\ Offer.items = CommandItems
    BY <1>2 DEF Offer
  <2> QED BY <2>1, LineEndsAtCursor, CommandsAreTexts
<1>3. CASE ~IsCommand /\ Explicit # <<>>
  <2>1. Offer.start = SafeCursor - Explicit[2] - 1 /\ Offer.items = Offered(Explicit[1], EndOfLine(Explicit[2]))
    BY <1>3 DEF Offer
  <2>2. Explicit[1] \in Signs /\ Explicit[2] \in 0 .. (Len(Line) - 1)
    BY <1>3, ExplicitFound
  <2> QED BY <1>1, <2>1, <2>2, LineEndsAtCursor, OfferedAreTexts
<1>4. CASE ~IsCommand /\ Explicit = <<>> /\ Hint # {}
  <2>1. Offer.start = SafeCursor /\ Offer.items = Offered(CHOOSE sign \in Hint : TRUE, <<>>)
    BY <1>4 DEF Offer
  <2>2. (CHOOSE sign \in Hint : TRUE) \in Signs
    BY <1>4, HintsAreSigns
  <2> QED BY <1>1, <2>1, <2>2, OfferedAreTexts
<1>5. CASE ~IsCommand /\ Explicit = <<>> /\ Hint = {}
  BY <1>1, <1>5 DEF Offer
<1> QED BY <1>2, <1>3, <1>4, <1>5

-----------------------------------------------------------------------------

\* A caret that is told, or that the text stops, or that has yet to be told.
LEMMA CaretIsCursor ==
    ASSUME InputInv, content' \in Seq(Symbols), DOMAIN box' = DOMAIN box, box'.cursor \in Nat,
           box'.caret \in 0 .. Len(content'), box'.frame \in Nat \cup {NoFrame},
           box'.told /\ box'.frame = NoFrame => box'.cursor = box'.caret \/ Len(content') = 0,
           suggested' = suggested
    PROVE  InputInv'
<1>1. Len(content') \in Nat
  OBVIOUS
<1>2. SafeCursor' = IF box'.cursor <= Len(content') THEN box'.cursor ELSE Len(content')
  BY <1>1, Lesser DEF SafeCursor
<1>3. box'.told /\ box'.frame = NoFrame => box'.caret = SafeCursor'
  BY <1>1, <1>2
<1> QED BY <1>3 DEF InputInv

LEMMA TypingKeepsCaret == ASSUME InputInv, \/ \E s \in Symbols : Type(s)
                                     \/ Erase
                    PROVE  InputInv'
<1>1. /\ content \in Seq(Symbols) /\ Len(content) \in Nat /\ box.caret \in 0 .. Len(content)
      /\ {"cursor", "caret", "told", "active", "dismissed"} \subseteq DOMAIN box /\ box.frame \in Nat \cup {NoFrame}
  BY DEF InputInv
<1>2. PICK text, at : text \in Seq(Symbols) /\ at \in 0 .. Len(text) /\ Edited(text, at)
  <2>1. CASE Erase
    <3>1. /\ RemoveAt(content, box.caret) \in Seq(Symbols)
          /\ Len(RemoveAt(content, box.caret)) = Len(content) - 1
      BY <1>1, <2>1 DEF Erase, RemoveAt
    <3> QED BY <1>1, <2>1, <3>1 DEF Erase
  <2>2. ASSUME NEW s \in Symbols, Type(s) PROVE \E text \in Seq(Symbols) : \E at \in 0 .. Len(text) : Edited(text, at)
    <3>1. /\ InsertAt(content, box.caret + 1, s) \in Seq(Symbols)
          /\ Len(InsertAt(content, box.caret + 1, s)) = Len(content) + 1
      BY <1>1 DEF InsertAt
    <3> QED BY <1>1, <2>2, <3>1 DEF Type
  <2> QED BY <2>1, <2>2
<1>3. /\ content' = text /\ DOMAIN box' = DOMAIN box
      /\ box'.caret = at /\ box'.cursor = at /\ box'.frame = box.frame /\ suggested' = suggested
  BY <1>1, <1>2 DEF Edited
<1> QED BY <1>1, <1>2, <1>3, CaretIsCursor

LEMMA MovingKeepsCaret == ASSUME InputInv, \/ \E at \in 0 .. Len(content) : MoveCaret(at) \/ Press(at)
                                           \/ Emptied \/ Frame
                          PROVE  InputInv'
<1>1. /\ content \in Seq(Symbols) /\ Len(content) \in Nat /\ box.frame \in Nat \cup {NoFrame} /\ box.cursor \in Nat
      /\ {"cursor", "caret", "told", "active", "focused", "frame"} \subseteq DOMAIN box
  BY DEF InputInv
<1>2. ASSUME NEW at \in 0 .. Len(content), MoveCaret(at) PROVE InputInv'
  <2>1. /\ content' = content /\ DOMAIN box' = DOMAIN box
        /\ box'.caret = at /\ box'.cursor = at /\ box'.frame = box.frame /\ suggested' = suggested
    BY <1>1, <1>2 DEF MoveCaret
  <2> QED BY <1>1, <2>1, CaretIsCursor
<1>3. ASSUME NEW at \in 0 .. Len(content), Press(at) PROVE InputInv'
  <2>1. /\ content' = content /\ DOMAIN box' = DOMAIN box /\ box'.told = FALSE
        /\ box'.caret = at /\ box'.cursor = box.cursor /\ box'.frame = box.frame /\ suggested' = suggested
    BY <1>1, <1>3 DEF Press
  <2> QED BY <1>1, <2>1, CaretIsCursor
<1>4. CASE Emptied
  <2>1. /\ content' = <<>> /\ DOMAIN box' = DOMAIN box
        /\ box'.caret = 0 /\ box'.cursor = box.cursor /\ box'.frame = box.frame /\ suggested' = suggested
    BY <1>1, <1>4 DEF Emptied
  <2>2. content' \in Seq(Symbols) /\ Len(content') = 0
    BY <2>1
  <2> QED BY <1>1, <2>1, <2>2, CaretIsCursor
<1>5. CASE Frame
  <2>1. PICK at : at = Min({box.frame, Len(content)})
    OBVIOUS
  <2>2. box.frame \in Nat
    BY <1>1, <1>5 DEF Frame
  <2>3. at \in 0 .. Len(content)
    BY <1>1, <2>1, <2>2, Lesser
  <2>4. /\ content' = content /\ DOMAIN box' = DOMAIN box
        /\ box'.caret = at /\ box'.cursor = at /\ box'.frame = NoFrame /\ suggested' = suggested
    BY <1>1, <1>5, <2>1 DEF Frame
  <2> QED BY <1>1, <2>3, <2>4, CaretIsCursor
<1> QED BY <1>2, <1>3, <1>4, <1>5

LEMMA ChoosingKeepsCaret == ASSUME InputInv, NEW k, Choose(k) PROVE InputInv'
<1>1. /\ content \in Seq(Symbols) /\ Len(content) \in Nat
      /\ {"cursor", "caret", "dismissed", "frame"} \subseteq DOMAIN box
  BY DEF InputInv
<1>2. /\ Offer.start \in 0 .. SafeCursor /\ SafeCursor \in 0 .. Len(content)
      /\ Offer.items \in Seq(Written) /\ k \in DOMAIN Offer.items
  BY OfferIsAtCursor, CursorInText DEF Choose
<1>3. PICK start, item : start = Offer.start /\ item = Offer.items[k]
  OBVIOUS
<1>4. item \in Seq(Symbols) /\ Len(item) \in Nat /\ start \in Nat /\ start <= Len(content)
  BY <1>1, <1>2, <1>3 DEF Written
<1>5. /\ content' = SubSeq(content, 1, start) \o item \o SubSeq(content, SafeCursor + 1, Len(content))
      /\ DOMAIN box' = DOMAIN box
      /\ box'.caret = Len(content') /\ box'.cursor = start + Len(item) /\ box'.frame = start + Len(item)
      /\ suggested' = suggested
  BY <1>1, <1>3 DEF Choose
<1>6. content' \in Seq(Symbols)
  BY <1>1, <1>2, <1>4, <1>5
<1>7. /\ Len(content') \in 0 .. Len(content') /\ start + Len(item) \in Nat
      /\ start + Len(item) # NoFrame
  BY <1>4, <1>6 DEF NoFrame
<1> QED BY <1>6, <1>5, <1>6, <1>7, CaretIsCursor

LEMMA OthersKeepCaret ==
    ASSUME InputInv,
           \/ \E is \in BOOLEAN : Focused(is)
           \/ \E step \in {1, -1} : Arrow(step)
           \/ \E request \in asked, name \in Letters : SuggestionsLand(request, <<name>>)
           \/ Escape \/ CommandsLand \/ Defer \/ UNCHANGED inputVars
    PROVE  InputInv'
<1>1. /\ content' = content /\ DOMAIN box' = DOMAIN box
      /\ box'.cursor = box.cursor /\ box'.caret = box.caret /\ box'.frame = box.frame
      /\ box'.told = box.told
  BY DEF InputInv, Focused, Arrow, SuggestionsLand, Escape, CommandsLand, Defer, inputVars
<1>2. \A request \in DOMAIN suggested' : suggested'[request] \in Seq(Letters)
  <2>1. CASE suggested' = suggested
    BY <2>1 DEF InputInv
  <2>2. ASSUME NEW request \in asked, NEW name \in Letters, SuggestionsLand(request, <<name>>)
        PROVE  \A r \in DOMAIN suggested' : suggested'[r] \in Seq(Letters)
    <3>1. <<name>> \in Seq(Letters)
      OBVIOUS
    <3> QED BY <2>1, <2>2, <3>1 DEF SuggestionsLand, InputInv
  <2> QED BY <2>1, <2>2 DEF Focused, Arrow, Escape, CommandsLand, Defer, inputVars
<1>3. SafeCursor' = SafeCursor
  BY <1>1 DEF SafeCursor
<1> QED BY <1>1, <1>2, <1>3 DEF InputInv

LEMMA InputStep == ASSUME InputInv, [InputNext]_inputVars PROVE InputInv'
BY TypingKeepsCaret, MovingKeepsCaret, ChoosingKeepsCaret, OthersKeepCaret DEF InputNext, Enter

\* What the menu offers, and a choice replaces, stands at the caret, whatever text the
\* area was mounted over and whatever was typed, clicked, chosen, fetched or replaced in
\* between, as soon as an event has told the cursor of the caret
\* (GitLabAutocompleteTextarea.tsx).
THEOREM MenuFollowsCaret == InputSpec => []MenuIsAtCaret
<1>1. InputInv => MenuIsAtCaret
  BY DEF InputInv, MenuIsAtCaret
<1> QED BY <1>1, InputBegins, InputStep, PTL DEF InputSpec

=============================================================================
