---------------------------- MODULE BoardFilter ----------------------------
(***************************************************************************)
(* What the board shows: the search field with its tokens                  *)
(* (TokenFilterInput.tsx), the pickers (BoardFilters.tsx), the search that *)
(* waits for the typing to settle, the filter itself, the window on a      *)
(* closed lane (BoardPage.tsx), and the view kept in the address           *)
(* (viewState.ts).                                                         *)
(*                                                                         *)
(* Text is abstracted to what it finds.  The address is written by an      *)
(* effect after every change, so it is always that of the present view.    *)
(***************************************************************************)
EXTENDS Lists

CONSTANTS TeamList, PeopleList, LabelList,  \* what the pickers offer, in order
          NoTeam,
          FilterCards,   \* the cards of one closed lane
          TeamOf, PeopleOf, FirstCarried, \* of each card: team, people, and its labels at first
          Texts, NoText, \* what can be typed; a query is one word or none
          Finds,         \* Finds[t]: cards, values and categories a text matches
          Page,          \* CLOSED_LANE_PAGE_SIZE
          MaxFilters,    \* bound: changes of the view, and texts typed
          MaxNews        \* bound: changes of cards, directory and labels

ASSUME FilterAssumption == /\ PeopleList \in Seq(ToSet(PeopleList))
                           /\ NoText \in Texts /\ Page \in Nat \ {0}
                           /\ MaxFilters \in Nat /\ MaxNews \in Nat

VARIABLES view,          \* BoardViewState; its query is the settled one
          typed,         \* filterQuery
          timers,        \* texts that wait for typing to settle
          expansion,     \* closedLaneExpansion: its scope, and the limit of the lane
          field,         \* the token field and its popup
          picker,        \* the open picker and the texts typed in pickers
          known,         \* active teams and members, and labels of the project
          catalogLoaded, \* labelsQuery.isSuccess
          carried,       \* the labels of each card
          viewChanges, news \* count what the bounds bound

filterVars == <<view, typed, timers, expansion, field, picker, known, catalogLoaded, carried,
                viewChanges, news>>

Categories == <<"team", "member", "label">>
Closed == [pending |-> "none", text |-> NoText, focused |-> FALSE, dismissed |-> FALSE, active |-> 1]
NoPicker == [open |-> "none", text |-> [k \in ToSet(Categories) |-> NoText]]
Everything == [query |-> NoText, team |-> NoTeam, people |-> <<>>, labels |-> <<>>,
               sort |-> "due-asc", mode |-> "board", scale |-> "day"]
Matched(text, x) == text = NoText \/ x \in Finds[text]

-----------------------------------------------------------------------------
(* What is shown *)

\* A label filter no label and no card answers to is ignored.
AppliedLabels ==
    {l \in ToSet(view.labels) : catalogLoaded => l \in known \/ \E c \in FilterCards : l \in carried[c]}

\* filteredCards.
Matching ==
    {c \in FilterCards : /\ view.team = NoTeam \/ TeamOf[c] = view.team
                         /\ view.people = <<>> \/ PeopleOf[c] \cap ToSet(view.people) # {}
                         /\ AppliedLabels \subseteq carried[c]
                         /\ Matched(view.query, c)}

Scope == <<view.query, view.team, view.people, view.labels>>
Limit == IF expansion.scope = Scope THEN expansion.limit ELSE Page

\* revealMoreClosedCards.
RevealMore ==
    LET total == Cardinality(Matching)
    IN  /\ total > Limit
        /\ expansion' = [scope |-> Scope, limit |-> IF Limit + Page < total THEN Limit + Page ELSE total]

Reveal == /\ view.mode = "board" /\ RevealMore
          /\ UNCHANGED <<view, typed, timers, field, picker, known, catalogLoaded, carried,
                         viewChanges, news>>

-----------------------------------------------------------------------------
(* The view and the address *)

\* Mutant: parameters.set for each member, not append.
AddressOfOneMember(v) ==
    [v EXCEPT !.people = IF @ = <<>> THEN @ ELSE <<@[Len(@)]>>,
              !.scale = IF v.mode = "gantt" THEN @ ELSE "day"]

\* serializeBoardViewState: the scale is that of the Gantt view only.
Address(v) == [v EXCEPT !.scale = IF v.mode = "gantt" THEN @ ELSE "day"]

\* parseBoardViewState: an unknown team or member is dropped, a label is not.
ParsedView(v) == [v EXCEPT !.team = IF @ \in known THEN @ ELSE NoTeam,
                           !.people = Only(@, known)]

FilterInit ==
    /\ known = ToSet(TeamList) \cup ToSet(PeopleList) \cup ToSet(LabelList)
    /\ carried = FirstCarried
    /\ view = Everything /\ typed = NoText /\ timers = {}
    /\ expansion = [scope |-> <<>>, limit |-> Page]
    /\ field = Closed /\ picker = NoPicker /\ catalogLoaded = FALSE
    /\ viewChanges = 0 /\ news = 0

\* The page is loaded again.
Reload ==
    /\ viewChanges > 0
    /\ view' = ParsedView(Address(view)) /\ typed' = view'.query /\ timers' = {}
    /\ expansion' = [scope |-> <<>>, limit |-> Page]
    /\ field' = Closed /\ picker' = NoPicker /\ catalogLoaded' = FALSE
    /\ UNCHANGED <<known, carried, viewChanges, news>>

Changes == viewChanges < MaxFilters /\ viewChanges' = viewChanges + 1
World == <<known, catalogLoaded, carried, news>>

\* Mutant: the clean-up of the effect does not clear its timer.
WaitingAlso(next) == timers \cup ({next} \ {NoText})

\* The effect of filterQuery: one timer, none for a blank query.
WaitingFor(next) == {next} \ {NoText}

\* changeFilterQuery: clearing does not wait.
ChangeQuery(next, v) ==
    /\ typed' = next
    /\ timers' = IF next = typed THEN timers ELSE WaitingFor(next)
    /\ view' = [v EXCEPT !.query = IF next = NoText THEN NoText ELSE @]

Settled(text) ==
    /\ text \in timers /\ timers' = timers \ {text}
    /\ view' = [view EXCEPT !.query = text]
    /\ UNCHANGED <<typed, expansion, field, picker, World, viewChanges>>

\* The sort menu of the board, the view switch, the scale of the Gantt view.
Present(v) ==
    /\ v # view /\ Changes /\ view' = v
    /\ UNCHANGED <<typed, timers, expansion, field, picker, World>>

ClearSearch ==
    /\ typed # NoText /\ field.pending = "none" /\ Changes /\ ChangeQuery(NoText, view)
    /\ UNCHANGED <<expansion, field, picker, World>>

ClearAll ==
    /\ Changes
    /\ ChangeQuery(NoText, [view EXCEPT !.team = NoTeam, !.people = <<>>, !.labels = <<>>])
    /\ UNCHANGED <<expansion, field, picker, World>>

-----------------------------------------------------------------------------
(* The token field *)

Without(s, x) == Only(s, ToSet(s) \ {x})
Toggled(s, x) == IF x \in ToSet(s) THEN Without(s, x) ELSE Append(s, x)

Options ==
    CASE field.pending = "team" ->
             Only(TeamList, {t \in known \ {view.team} : Matched(field.text, t)})
      [] field.pending = "member" ->
             Only(PeopleList, {p \in known \ ToSet(view.people) : Matched(field.text, p)})
      [] field.pending = "label" ->
             Only(LabelList, {l \in known \ ToSet(view.labels) : catalogLoaded /\ Matched(field.text, l)})
      [] OTHER -> Only(Categories, {k \in ToSet(Categories) : Matched(typed, k)})

Open == field.focused /\ (field.pending # "none" \/ (~field.dismissed /\ Options # <<>>))
Clamped == IF field.active > Len(Options) THEN (IF Options = <<>> THEN 1 ELSE Len(Options)) ELSE field.active
NotPending(f) == [f EXCEPT !.pending = "none", !.text = NoText, !.active = 1]

Focus == /\ ~field.focused /\ picker.open = "none"
         /\ field' = [field EXCEPT !.focused = TRUE, !.dismissed = FALSE]
         /\ UNCHANGED <<view, typed, timers, expansion, picker, World, viewChanges>>

Blur == /\ field.focused /\ field' = [NotPending(field) EXCEPT !.focused = FALSE]
        /\ UNCHANGED <<view, typed, timers, expansion, picker, World, viewChanges>>

Type(text) ==
    /\ field.focused /\ Changes
    /\ field' = [field EXCEPT !.dismissed = FALSE, !.active = 1,
                              !.text = IF field.pending = "none" THEN @ ELSE text]
    /\ IF field.pending = "none" THEN ChangeQuery(text, view) ELSE UNCHANGED <<view, typed, timers>>
    /\ UNCHANGED <<expansion, picker, World>>

Arrow(step) ==
    /\ Open /\ Options # <<>>
    /\ field' = [field EXCEPT !.active = ((Clamped - 1 + step) % Len(Options)) + 1]
    /\ UNCHANGED <<view, typed, timers, expansion, picker, World, viewChanges>>

\* choose: a category takes the typed prefix of its name out of the search.
Choose(k) ==
    /\ Open /\ k <= Len(Options) /\ Changes
    /\ LET option == Options[k]
       IN  IF field.pending = "none"
           THEN /\ ChangeQuery(NoText, view)
                /\ field' = [NotPending(field) EXCEPT !.pending = option]
           ELSE /\ view' = CASE field.pending = "team" -> [view EXCEPT !.team = option]
                             [] field.pending = "member" -> [view EXCEPT !.people = Append(@, option)]
                             [] OTHER -> [view EXCEPT !.labels = Append(@, option)]
                /\ field' = NotPending(field)
                /\ UNCHANGED <<typed, timers>>
    /\ UNCHANGED <<expansion, picker, World>>

Enter == Choose(Clamped)

\* ArrowDown with the popup closed.
Reopen ==
    /\ field.focused /\ ~Open /\ field' = [field EXCEPT !.dismissed = FALSE, !.active = 1]
    /\ UNCHANGED <<view, typed, timers, expansion, picker, World, viewChanges>>

\* Escape gives up the token, else closes the popup, else clears the search.
Escape ==
    /\ field.focused
    /\ IF field.pending # "none" THEN field' = NotPending(field) /\ UNCHANGED <<view, typed, timers, viewChanges>>
       ELSE IF Open THEN field' = [field EXCEPT !.dismissed = TRUE] /\ UNCHANGED <<view, typed, timers, viewChanges>>
       ELSE Changes /\ ChangeQuery(NoText, view) /\ field' = [NotPending(field) EXCEPT !.focused = FALSE]
    /\ UNCHANGED <<expansion, picker, World>>

\* Tokens stand in the order team, members, labels.
TeamToken == view.team # NoTeam /\ view.team \in known
LastTokenRemoved ==
    CASE view.labels # <<>> -> [view EXCEPT !.labels = Front(@)]
      [] view.labels = <<>> /\ view.people # <<>> -> [view EXCEPT !.people = Front(@)]
      [] view.labels = <<>> /\ view.people = <<>> /\ TeamToken -> [view EXCEPT !.team = NoTeam]
      [] OTHER -> view

\* Backspace at the start of the field.
Backspace ==
    /\ field.focused
    /\ IF field.pending # "none"
       THEN field.text = NoText /\ field' = NotPending(field) /\ UNCHANGED <<view, viewChanges>>
       ELSE LastTokenRemoved # view /\ Changes /\ view' = LastTokenRemoved /\ UNCHANGED field
    /\ UNCHANGED <<typed, timers, expansion, picker, World>>

HasToken(kind) == CASE kind = "team" -> TeamToken [] kind = "member" -> view.people # <<>>
                    [] kind = "label" -> view.labels # <<>>

\* A click on a token chooses another of its kind.
EditToken(kind) ==
    /\ picker.open = "none" /\ HasToken(kind)
    /\ field' = [field EXCEPT !.pending = kind, !.text = NoText, !.active = 1, !.focused = TRUE,
                              !.dismissed = IF field.focused THEN @ ELSE FALSE]
    /\ UNCHANGED <<view, typed, timers, expansion, picker, World, viewChanges>>

\* The cross on a token; the field has the focus then.
RemoveToken(v) ==
    /\ picker.open = "none" /\ v # view /\ Changes /\ view' = v
    /\ field' = IF field.focused THEN field ELSE [field EXCEPT !.focused = TRUE, !.dismissed = FALSE]
    /\ UNCHANGED <<typed, timers, expansion, picker, World>>

-----------------------------------------------------------------------------
(* The pickers *)

Pick(v) == /\ Changes /\ view' = v /\ UNCHANGED <<typed, timers, expansion, field, World>>
CanPick(kind) == picker.open \in {kind, "compact"}

\* A picker forgets its text when it closes, by choice, Escape or blur.
OpenPicker(kind) ==
    /\ picker.open = "none" /\ ~field.focused
    /\ picker' = [picker EXCEPT !.open = kind]
    /\ UNCHANGED <<view, typed, timers, expansion, field, World, viewChanges>>

ClosePicker == /\ picker.open # "none" /\ picker' = NoPicker
               /\ UNCHANGED <<view, typed, timers, expansion, field, World, viewChanges>>

\* From the compact dialog to the label manager: the texts are kept.
ManageLabels == /\ picker.open = "compact" /\ picker' = [picker EXCEPT !.open = "none"]
                /\ UNCHANGED <<view, typed, timers, expansion, field, World, viewChanges>>

TypeInPicker(kind, text) ==
    /\ CanPick(kind) /\ picker.text[kind] # text /\ picker' = [picker EXCEPT !.text[kind] = text]
    /\ Changes /\ UNCHANGED <<view, typed, timers, expansion, field, World>>

PickTeam(t) ==
    /\ CanPick("team") /\ t # view.team
    /\ IF t = NoTeam THEN picker.text["team"] = NoText ELSE t \in known /\ Matched(picker.text["team"], t)
    /\ Pick([view EXCEPT !.team = t])
    /\ picker' = IF picker.open = "team" THEN NoPicker ELSE picker

\* toggleMember; toggleGroup, for the members the text leaves in sight.
PickMembers(group) ==
    /\ CanPick("member") /\ group # {} /\ \A p \in group : p \in known /\ Matched(picker.text["member"], p)
    /\ Pick([view EXCEPT !.people = IF group \subseteq ToSet(@) THEN Only(@, ToSet(@) \ group)
                                    ELSE @ \o SetToSeq(group \ ToSet(@))])
    /\ UNCHANGED picker

PickLabel(l) ==
    /\ CanPick("label")
    /\ l \in ToSet(view.labels) \/ (catalogLoaded /\ l \in known /\ Matched(picker.text["label"], l))
    /\ Pick([view EXCEPT !.labels = Toggled(@, l)])
    /\ UNCHANGED picker

\* "All members", and "clear" in the compact dialog.
PickAll ==
    /\ \/ CanPick("member") /\ picker.text["member"] = NoText /\ Pick([view EXCEPT !.people = <<>>])
       \/ picker.open = "compact" /\ Pick([view EXCEPT !.team = NoTeam, !.people = <<>>, !.labels = <<>>])
    /\ UNCHANGED picker

-----------------------------------------------------------------------------
(* News *)

CatalogLands == /\ ~catalogLoaded /\ catalogLoaded' = TRUE
                /\ UNCHANGED <<view, typed, timers, expansion, field, picker, known, carried,
                               viewChanges, news>>

News == news < MaxNews /\ news' = news + 1
        /\ UNCHANGED <<view, typed, timers, expansion, field, picker, catalogLoaded, viewChanges>>

\* A team or a member leaves the directory, or a label the project.
Retire(x) == News /\ x \in known /\ known' = known \ {x} /\ UNCHANGED carried

\* The labels of a card change.
Updated(c, labels) == News /\ carried' = [carried EXCEPT ![c] = labels] /\ UNCHANGED known

FilterNext ==
    \/ Reveal \/ Reload \/ ClearSearch \/ ClearAll
    \/ \E text \in Texts : Settled(text) \/ Type(text)
                           \/ \E kind \in ToSet(Categories) : TypeInPicker(kind, text)
    \/ \E sort \in {"due-asc", "manual"} : view.mode = "board" /\ Present([view EXCEPT !.sort = sort])
    \/ \E mode \in {"board", "gantt"} : Present([view EXCEPT !.mode = mode])
    \/ \E scale \in {"day", "week"} : view.mode = "gantt" /\ Present([view EXCEPT !.scale = scale])
    \/ TeamToken /\ RemoveToken([view EXCEPT !.team = NoTeam])
    \/ \E p \in ToSet(view.people) : RemoveToken([view EXCEPT !.people = Without(@, p)])
    \/ \E l \in ToSet(view.labels) : RemoveToken([view EXCEPT !.labels = Without(@, l)])
    \/ Focus \/ Blur \/ Enter \/ Reopen \/ Escape \/ Backspace
    \/ \E step \in {1, -1} : Arrow(step)
    \/ \E k \in 1 .. Len(Options) : Choose(k)
    \/ \E kind \in ToSet(Categories) : EditToken(kind) \/ OpenPicker(kind)
    \/ OpenPicker("compact") \/ ClosePicker \/ ManageLabels \/ PickAll
    \/ \E t \in ToSet(TeamList) \cup {NoTeam} : PickTeam(t)
    \/ \E group \in SUBSET ToSet(PeopleList) : PickMembers(group)
    \/ \E l \in ToSet(LabelList) : PickLabel(l)
    \/ CatalogLands \/ \E x \in known : Retire(x)
    \/ \E c \in FilterCards, labels \in {{}, ToSet(LabelList)} : Updated(c, labels)

FilterSpec == FilterInit /\ [][FilterNext]_filterVars

-----------------------------------------------------------------------------
(* Properties *)

\* The types; no value is filtered by twice, whatever way it was chosen, and a
\* token is being chosen only while the field has the focus.
FilterTypeOK ==
    /\ IsInjective(view.people) /\ ToSet(view.people) \subseteq ToSet(PeopleList)
    /\ IsInjective(view.labels) /\ ToSet(view.labels) \subseteq ToSet(LabelList)
    /\ view.team \in ToSet(TeamList) \cup {NoTeam}
    /\ typed \in Texts /\ view.query \in Texts /\ timers \subseteq Texts
    /\ field.pending # "none" => field.focused
    /\ expansion.limit \in Page .. Cardinality(FilterCards) + Page

\* The search that is applied is the one that was typed last, unless its timer
\* still runs: no earlier timer fires after it, nor after the search is cleared.
SearchIsTheTyped == timers = {} => view.query = typed

\* The address is the view: loading the page again shows the same cards in the
\* same way, once the typing has settled and while all that is filtered by exists.
ReloadKeepsView ==
    [][Reload /\ timers = {}
       /\ ({view.team} \ {NoTeam}) \cup ToSet(view.people) \cup ToSet(view.labels) \subseteq known
       => /\ Matching' = Matching /\ typed' = typed
          /\ view'.sort = view.sort /\ view'.mode = view.mode
          /\ view.mode = "gantt" => view'.scale = view.scale]_filterVars

\* design.md:64: "Changing search or filters resets the closed-lane window to
\* the latest 50."
FilterChangeResetsWindow == [][Scope' # Scope => Limit' = Page]_filterVars
=============================================================================
