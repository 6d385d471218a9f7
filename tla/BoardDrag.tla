----------------------------- MODULE BoardDrag -----------------------------
(***************************************************************************)
(* Dragging cards on the board: the preview of the drag (useBoardDrag.ts), *)
(* the position a drop asks for (boardOrder.ts), what the browser shows at *)
(* once (handlePosition and handleStatusMove in BoardPage.tsx), and where  *)
(* the server puts the card (reorderCardPositions, laneorder.go).          *)
(*                                                                         *)
(* A lane is ordered by position and then by iid.  The browser asks for a  *)
(* place among the cards it knows of; the server keeps its own positions.  *)
(***************************************************************************)
EXTENDS Lists

CONSTANTS Iids,         \* the iids of the cards
          Lanes,
          MaxDrops,     \* bound: moves this browser asks for
          MaxHidden,    \* bound: cards the filters hide
          MaxChanges    \* bound: moves of anybody, and deletions

ASSUME DragAssumption == /\ Iids \subseteq Nat /\ IsFiniteSet(Iids)
                         /\ MaxDrops \in Nat /\ MaxHidden \in Nat /\ MaxChanges \in Nat

VARIABLES rows,         \* server: lane and position of each card
          leaving,      \* server: cards whose deletion is pending; no browser shows them
          gone,         \* cards deleted
          board,        \* browser: lane and position of each card
          hiddenCards,  \* browser: cards the filters hide
          sortMode,     \* "manual" or "due", which stands for the other six
          drag,         \* the drag: its card, its lane, the groups at its start and now
          asked,        \* moves this browser has asked for, by number
          others,       \* counts the moves of others, and deletions
          told,         \* FALSE: the stream has news for the browser
          straight      \* history: nobody has moved a card the browser does not know of

dragVars == <<rows, leaving, gone, board, hiddenCards, sortMode, drag, asked, others, told, straight>>

NoDrag == [card |-> 0]
Place == [lane : Lanes, position : 0 .. Cardinality(Iids)]

-----------------------------------------------------------------------------
(* Orders (model.ts, boardOrder.ts) *)

\* compareBoardCards, "manual".
ManualBefore(at) ==
    {p \in Iids \X Iids : \/ at[p[1]].position < at[p[2]].position
                          \/ at[p[1]].position = at[p[2]].position /\ p[1] < p[2]}

InLane(at, cards, lane) == {c \in cards : at[c].lane = lane}

ManualOrder(at, cards, lane) == Sorted(InLane(at, cards, lane), ManualBefore(at))

\* The presentation sort; the dates stand in the order of the iids.
DueBefore == {p \in Iids \X Iids : p[1] < p[2]}
DueOrder(at, cards, lane) == Sorted(InLane(at, cards, lane), DueBefore)

Shown == Iids \ (gone \cup leaving)
Visible == Shown \ hiddenCards

Groups(at) == [l \in Lanes |-> IF sortMode = "manual" THEN ManualOrder(at, Visible, l)
                               ELSE DueOrder(at, Visible, l)]

Holds(s, c) == \E k \in 1 .. Len(s) : s[k] = c
LaneIn(groups, c) == CHOOSE l \in Lanes : Holds(groups[l], c)
PlaceIn(s, c) == CHOOSE k \in 1 .. Len(s) : s[k] = c

\* A lane numbered from 0, as patches and writeChangedLanes write it.
Numbered(at, lane, order) ==
    [c \in Iids |-> IF Holds(order, c) THEN [lane |-> lane, position |-> PlaceIn(order, c) - 1] ELSE at[c]]

Inserted(order, position, c) ==
    LET to == IF position > Len(order) THEN Len(order) ELSE position
    IN  InsertAt(order, to + 1, c)

-----------------------------------------------------------------------------
DragInit ==
    /\ rows \in {r \in [Iids -> Place] :
                    \A l \in Lanes : LET cards == InLane(r, Iids, l)
                                     IN  {r[c].position : c \in cards} = 0 .. Cardinality(cards) - 1}
    /\ leaving = {} /\ gone = {}
    /\ board = rows /\ hiddenCards = {} /\ sortMode = "manual"
    /\ drag = NoDrag /\ asked = <<>> /\ others = 0 /\ told = TRUE /\ straight = TRUE

-----------------------------------------------------------------------------
(* The view *)

Filter(cards) ==
    /\ drag = NoDrag /\ hiddenCards # cards /\ hiddenCards' = cards
    /\ UNCHANGED <<rows, leaving, gone, board, sortMode, drag, asked, others, told, straight>>

SortBy(mode) ==
    /\ drag = NoDrag /\ sortMode # mode /\ sortMode' = mode
    /\ UNCHANGED <<rows, leaving, gone, board, hiddenCards, drag, asked, others, told, straight>>

-----------------------------------------------------------------------------
(* The drag *)

OnDragStart(c) ==
    /\ drag = NoDrag /\ c \in Visible /\ Len(asked) < MaxDrops /\ Len(asked) + others < MaxChanges
    /\ drag' = [card |-> c, from |-> board[c].lane, initial |-> Groups(board), groups |-> Groups(board)]
    /\ UNCHANGED <<rows, leaving, gone, board, hiddenCards, sortMode, asked, others, told, straight>>

\* Under the manual sort the card goes wherever it is held, under another sort
\* only to the place the sort gives it in the lane it is held over.
OnDragOver(lane, k) ==
    /\ drag # NoDrag
    /\ LET c == drag.card
           without == [l \in Lanes |-> Only(drag.groups[l], Iids \ {c})]
           preview == [board EXCEPT ![c].lane = lane]
       IN  drag' = [drag EXCEPT !.groups =
                       IF sortMode = "manual"
                       THEN [without EXCEPT ![lane] = Inserted(@, k, c)]
                       ELSE IF lane = drag.from THEN drag.initial ELSE Groups(preview)]
    /\ UNCHANGED <<rows, leaving, gone, board, hiddenCards, sortMode, asked, others, told, straight>>

\* Mutant: the card goes behind the next visible card.
WantedBehindNext(c, lane) ==
    LET seen == drag.groups[lane]
        k == PlaceIn(seen, c)
        rest == ManualOrder(board, Shown \ {c}, lane)
    IN  IF k < Len(seen) THEN PlaceIn(rest, seen[k + 1])
        ELSE IF k > 1 THEN PlaceIn(rest, seen[k - 1])
        ELSE Len(rest)

\* canonicalPositionForVisibleOrder: before the next visible card, else after
\* the previous one, else at the end.
WantedPosition(c, lane) ==
    LET seen == drag.groups[lane]
        k == PlaceIn(seen, c)
        rest == ManualOrder(board, Shown \ {c}, lane)
    IN  IF k < Len(seen) THEN PlaceIn(rest, seen[k + 1]) - 1
        ELSE IF k > 1 THEN PlaceIn(rest, seen[k - 1])
        ELSE Len(rest)

AskToMove(c, lane, position, order) ==
    /\ asked' = Append(asked, [card |-> c, lane |-> lane, position |-> position, order |-> order,
                               straight |-> straight, at |-> "sent"])
    /\ drag' = NoDrag

\* planCardDrop, planCardMove, handlePosition: a position equal to the card's
\* own means there is nothing to do; else both lanes are numbered anew.
DropByHand ==
    /\ drag # NoDrag /\ sortMode = "manual"
    /\ LET c == drag.card
           lane == LaneIn(drag.groups, c)
           position == WantedPosition(c, lane)
           source == ManualOrder(board, Shown \ {c}, board[c].lane)
           rest == ManualOrder(board, Shown \ {c}, lane)
           order == Inserted(rest, position, c)
       IN  IF board[c] = [lane |-> lane, position |-> position]
           THEN drag' = NoDrag /\ UNCHANGED <<board, asked>>
           ELSE /\ board' = Numbered(Numbered(board, board[c].lane, source), lane, order)
                /\ AskToMove(c, lane, position, order)
    /\ UNCHANGED <<rows, leaving, gone, hiddenCards, sortMode, others, told, straight>>

\* handleStatusMove: only the lane changes; the position is left to the server.
DropOnLane ==
    /\ drag # NoDrag /\ sortMode # "manual"
    /\ LET c == drag.card
           lane == LaneIn(drag.groups, c)
       IN  IF lane = drag.from THEN drag' = NoDrag /\ UNCHANGED <<board, asked>>
           ELSE /\ board' = [board EXCEPT ![c].lane = lane]
                /\ AskToMove(c, lane, -1, <<>>)
    /\ straight' = (straight /\ asked' = asked)
    /\ UNCHANGED <<rows, leaving, gone, hiddenCards, sortMode, others, told>>

CancelDrag ==
    /\ drag # NoDrag /\ drag' = NoDrag
    /\ UNCHANGED <<rows, leaving, gone, board, hiddenCards, sortMode, asked, others, told, straight>>

-----------------------------------------------------------------------------
(* The server *)

\* Mutant: the card is taken out of its lane after the place was found.
ReorderedLate(at, c, lane, position) ==
    LET stored == Iids \ gone
        from == ManualOrder(at, stored \ {c}, at[c].lane)
        whole == ManualOrder(at, stored, lane)
        to == Only(Inserted(whole, position + 1, 0), (Iids \cup {0}) \ {c})
        order == [k \in 1 .. Len(to) |-> IF to[k] = 0 THEN c ELSE to[k]]
    IN  IF at[c] = [lane |-> lane, position |-> position] THEN at
        ELSE Numbered(Numbered(at, at[c].lane, from), lane, order)

\* reorderCardPositions, under its guard: nothing to do where the row is.
Reordered(at, c, lane, position) ==
    LET stored == Iids \ gone
        from == ManualOrder(at, stored \ {c}, at[c].lane)
        to == ManualOrder(at, stored \ {c}, lane)
    IN  IF at[c] = [lane |-> lane, position |-> position] THEN at
        ELSE Numbered(Numbered(at, at[c].lane, from), lane, Inserted(to, position, c))

\* Requests are handled in any order; one that failed is sent again later.
ServerMoves(n) ==
    /\ asked[n].at = "sent"
    /\ LET c == asked[n].card
           position == IF asked[n].position = -1 THEN rows[c].position ELSE asked[n].position
           accepted == c \in Iids \ (gone \cup leaving)
           inTurn == \A m \in 1 .. Len(asked) : (m < n) <=> asked[m].at = "done"
       IN  /\ rows' = IF accepted THEN Reordered(rows, c, asked[n].lane, position) ELSE rows
           /\ straight' = (straight /\ inTurn /\ accepted)
    /\ asked' = [asked EXCEPT ![n].at = "done"]
    /\ told' = FALSE
    /\ UNCHANGED <<leaving, gone, board, hiddenCards, sortMode, drag, others>>

TheyMove(c, lane, position) ==
    /\ c \in Iids \ (gone \cup leaving) /\ Len(asked) + others < MaxChanges /\ others' = others + 1
    /\ rows' = Reordered(rows, c, lane, position)
    /\ rows' # rows
    /\ told' = FALSE /\ straight' = FALSE
    /\ UNCHANGED <<leaving, gone, board, hiddenCards, sortMode, drag, asked>>

\* A deletion is accepted: the card leaves every browser, not its lane.
BeginDeletion(c) ==
    /\ c \in Shown /\ Len(asked) + others < MaxChanges /\ others' = others + 1 /\ drag = NoDrag
    /\ leaving' = leaving \cup {c}
    /\ UNCHANGED <<rows, gone, board, hiddenCards, sortMode, drag, asked, told, straight>>

\* CompleteDeleteOperation: the row goes, the others keep their positions, and
\* the frame numbers the lane from 0.
EndDeletion(c) ==
    /\ c \in leaving /\ leaving' = leaving \ {c} /\ gone' = gone \cup {c}
    /\ board' = IF drag = NoDrag
                THEN Numbered(board, rows[c].lane,
                              ManualOrder(rows, {d \in Shown : board[d].lane = rows[c].lane}, rows[c].lane))
                ELSE board
    /\ UNCHANGED <<rows, hiddenCards, sortMode, drag, asked, others, told, straight>>

\* The stream, or a bootstrap, brings the rows; not during a drag, nor over
\* moves that are on their way.
BoardIsTold ==
    /\ ~told /\ drag = NoDrag /\ \A n \in 1 .. Len(asked) : asked[n].at = "done"
    /\ told' = TRUE /\ board' = rows
    /\ straight' = TRUE
    /\ UNCHANGED <<rows, leaving, gone, hiddenCards, sortMode, drag, asked, others>>

DragNext ==
    \/ \E cards \in {h \in SUBSET Iids : Cardinality(h) <= MaxHidden} : Filter(cards)
    \/ \E mode \in {"manual", "due"} : SortBy(mode)
    \/ \E c \in Iids : OnDragStart(c) \/ BeginDeletion(c) \/ EndDeletion(c)
    \/ \E lane \in Lanes, k \in 0 .. Cardinality(Iids) - 1 :
          OnDragOver(lane, k) \/ \E c \in Iids : TheyMove(c, lane, k)
    \/ DropByHand \/ DropOnLane \/ CancelDrag
    \/ \E n \in 1 .. Len(asked) : ServerMoves(n)
    \/ BoardIsTold

DragSpec == DragInit /\ [][DragNext]_dragVars

-----------------------------------------------------------------------------
(* Properties *)

\* The types; the card that is dragged is in one of the groups of the preview,
\* wherever it is held.
DragTypeOK ==
    /\ rows \in [Iids -> Place] /\ board \in [Iids -> Place]
    /\ leaving \subseteq Iids /\ gone \subseteq Iids /\ leaving \cap gone = {}
    /\ hiddenCards \subseteq Iids /\ sortMode \in {"manual", "due"}
    /\ drag # NoDrag => drag.card \in Iids /\ \E l \in Lanes : Holds(drag.groups[l], drag.card)
    /\ Len(asked) <= MaxDrops

Compact(at, lane) == {at[c].position : c \in InLane(at, Shown, lane)} = 0 .. Cardinality(InLane(at, Shown, lane)) - 1

\* A manual drop leaves each lane as the preview showed it, with the visible
\* cards as anchors, and moves no other card past another, hidden ones
\* included (design.md:65).  A lane whose positions have holes is excepted.
DropLandsAsShown ==
    [][DropByHand => \A l \in Lanes :
          /\ Compact(board, l) => Only(ManualOrder(board', Shown, l), Visible) = drag.groups[l]
          /\ Only(ManualOrder(board', Shown \ {drag.card}, l), Shown) = ManualOrder(board, Shown \ {drag.card}, l)
      ]_dragVars

\* The server puts the card where the browser showed it, hidden cards
\* included, unless others moved cards, this browser's moves came in another
\* order or went by lane alone, or a card is being or was deleted.
ServerKeepsTheDrop ==
    [][\A n \in 1 .. Len(asked) :
          ServerMoves(n) /\ straight' /\ asked[n].straight /\ asked[n].order # <<>>
          /\ leaving \cup gone = {}
          => ManualOrder(rows', Iids, asked[n].lane) = asked[n].order]_dragVars

\* design.md:65, without the last exception: the deletion of another card does
\* not matter to where a card is put.
ServerPlacesAsShown ==
    [][\A n \in 1 .. Len(asked) :
          ServerMoves(n) /\ straight' /\ asked[n].straight /\ asked[n].order # <<>>
          => ManualOrder(rows', Shown, asked[n].lane) = Only(asked[n].order, Shown)]_dragVars
=============================================================================
