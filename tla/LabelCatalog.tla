---------------------------- MODULE LabelCatalog ----------------------------
(***************************************************************************)
(* Project labels: the label manager (LabelManagerDialog.tsx), the menu of *)
(* labels every picker reads (useProjectLabels.ts), the tags of a card     *)
(* (CardTags in BoardPage.tsx), and what the server does with them: label  *)
(* administration goes to GitLab at once, the labels of a card go through  *)
(* a durable operation that names labels.                                  *)
(*                                                                         *)
(* In GitLab a card carries labels by identity and a rename follows; in    *)
(* the server's row, in the browser and in an operation a label is a name. *)
(***************************************************************************)
EXTENDS Integers, FiniteSets

CONSTANTS LabelIds,     \* general labels, some of which are yet to be created
          Names,        \* names users give to general labels
          TeamLabels,   \* names the directory owns
          Gone,         \* the name of a label that does not exist
          MaxRequests,  \* bound: requests of the label manager
          MaxTagEdits,  \* bound: edits of the card's labels
          MaxElsewhere  \* bound: edits of the card made in GitLab

ASSUME LabelsAssumption == /\ Names \cap TeamLabels = {} /\ Gone \notin Names \cup TeamLabels
                           /\ MaxRequests \in Nat /\ MaxTagEdits \in Nat /\ MaxElsewhere \in Nat

VARIABLES catalog,      \* in GitLab: the name of each general label
          tagged,       \* in GitLab: the general labels of the card
          team,         \* in GitLab: the team label of the card
          row,          \* server: names in the card's row
          operation,    \* server: the pending operation: names, and what led to it
          tags,         \* browser: names on the card in the bootstrap cache
          menu,         \* browser: the project-labels query
          menuRead,     \* its read under way
          boardRead,    \* the bootstrap read under way
          tagWrite,     \* the browser's request for the card's labels
          editing,      \* the label whose row is an edit form, or Gone
          doomed,       \* the label in the delete confirmation, or Gone
          requests,     \* requests of the label manager
          requested, tagEdits, elsewhere, \* count what the bounds bound
          retired,      \* history: names this browser saw renamed away or deleted
          menuBehind    \* history: an answer was lost since the last read of the menu

labelsVars == <<catalog, tagged, team, row, operation, tags, menu, menuRead, boardRead, tagWrite,
                editing, doomed, requests, requested, tagEdits, elsewhere, retired, menuBehind>>

General == Names \cup {Gone}
NoWrite == [open |-> FALSE, names |-> {}, seen |-> {}, removed |-> {}]
Nothing == [at |-> "none", names |-> {}]
Sent == [at |-> "sent", names |-> {}]
Existing(c) == {i \in LabelIds : c[i] # Gone}
NamesOf(c, ids) == {c[i] : i \in ids} \ {Gone}
CardNames == NamesOf(catalog, tagged) \cup {team}

LabelsInit ==
    /\ catalog \in {c \in [LabelIds -> General] :
                       \A i, j \in LabelIds : c[i] = c[j] /\ c[i] # Gone => i = j}
    /\ tagged \in SUBSET Existing(catalog) /\ team \in TeamLabels
    /\ row = CardNames /\ tags = row
    /\ operation = NoWrite /\ tagWrite = NoWrite
    /\ menu = NamesOf(catalog, LabelIds)
    /\ menuRead = Nothing /\ boardRead = Nothing
    /\ editing = Gone /\ doomed = Gone /\ requests = {}
    /\ requested = 0 /\ tagEdits = 0 /\ elsewhere = 0
    /\ retired = {} /\ menuBehind = FALSE

Counts == <<requested, tagEdits, elsewhere>>
GitLabCard == <<tagged, team>>
Manager == <<editing, doomed, requests>>
Reads == <<menuRead, boardRead>>
History == <<retired, menuBehind>>

-----------------------------------------------------------------------------
(* The card's tags *)

\* runCardMutation: the patched names are shown at once and sent.
WriteTags(names, removed) ==
    /\ ~tagWrite.open /\ tagEdits < MaxTagEdits /\ tagEdits' = tagEdits + 1
    /\ tags' = names
    /\ tagWrite' = [open |-> TRUE, names |-> names, seen |-> tags, removed |-> removed]

\* Mutant: a general label takes the place of the others.
WithReplacing(name) == {n \in tags : name \notin TeamLabels /\ n \in TeamLabels} \cup {name}

\* add: a team label takes the place of the card's team label.
With(name) == {n \in tags : name \in TeamLabels => n \notin TeamLabels} \cup {name}

AddTag(name) ==
    /\ name \in (menu \cup TeamLabels) \ tags
    /\ WriteTags(With(name), IF name \in TeamLabels THEN tags \cap TeamLabels ELSE {})
    /\ retired' = retired \ {name}        \* history: from a menu that still offers it
    /\ UNCHANGED <<catalog, GitLabCard, row, operation, menu, Reads, Manager, requested, elsewhere, menuBehind>>

\* remove: the last team label is locked.
RemoveTag(name) ==
    /\ name \in tags /\ (name \in TeamLabels => Cardinality(tags \cap TeamLabels) > 1)
    /\ WriteTags(tags \ {name}, {name})
    /\ UNCHANGED <<catalog, GitLabCard, row, operation, menu, Reads, Manager, requested, elsewhere, History>>

\* UpdateLabels wants exactly one team label.  The operation captures the names.
ServerAccepts ==
    /\ tagWrite.open /\ tagWrite' = NoWrite
    /\ IF Cardinality(tagWrite.names \cap TeamLabels) = 1
       THEN row' = tagWrite.names /\ operation' = tagWrite
       ELSE UNCHANGED <<row, operation>>
    /\ UNCHANGED <<catalog, GitLabCard, tags, menu, Reads, Manager, Counts, History>>

\* ApplyIssue: names become labels, and a name no label has any more is dropped.
WorkerApplies ==
    /\ operation.open /\ operation' = NoWrite
    /\ tagged' = {i \in Existing(catalog) : catalog[i] \in operation.names}
    /\ team' \in operation.names \cap TeamLabels
    /\ UNCHANGED <<catalog, row, tags, menu, Reads, tagWrite, Manager, Counts, History>>

\* A board read takes the card's labels over unless an edit of them is pending.
BoardPoll ==
    /\ ~operation.open /\ row # CardNames /\ row' = CardNames
    /\ UNCHANGED <<catalog, GitLabCard, operation, tags, menu, Reads, tagWrite, Manager, Counts, History>>

\* The sync stream brings the row's names, unless an edit is on its way.
StreamTags ==
    /\ ~tagWrite.open /\ tags # row /\ tags' = row
    /\ retired' = retired \ row           \* history: the server has them again, or still
    /\ UNCHANGED <<catalog, GitLabCard, row, operation, menu, Reads, tagWrite, Manager, Counts, menuBehind>>

TheyTag(i) ==
    /\ catalog[i] # Gone /\ elsewhere < MaxElsewhere /\ elsewhere' = elsewhere + 1
    /\ tagged' = IF i \in tagged THEN tagged \ {i} ELSE tagged \cup {i}
    /\ UNCHANGED <<catalog, team, row, operation, tags, menu, Reads, tagWrite, Manager, requested,
                   tagEdits, History>>

-----------------------------------------------------------------------------
(* The label manager *)

OpenForm(i) ==
    /\ catalog[i] # Gone /\ catalog[i] \in menu /\ editing # i /\ editing' = i
    /\ UNCHANGED <<catalog, GitLabCard, row, operation, tags, menu, Reads, tagWrite, doomed, requests,
                   Counts, History>>

OpenConfirmation(i) ==
    /\ catalog[i] # Gone /\ catalog[i] \in menu /\ doomed = Gone /\ doomed' = i
    /\ UNCHANGED <<catalog, GitLabCard, row, operation, tags, menu, Reads, tagWrite, editing, requests,
                   Counts, History>>

CancelManager ==
    /\ <<editing, doomed>> # <<Gone, Gone>> /\ editing' = Gone /\ doomed' = Gone
    /\ UNCHANGED <<catalog, GitLabCard, row, operation, tags, menu, Reads, tagWrite, requests, Counts, History>>

\* The form knows the name its label had when the menu was read.
Ask(kind, i, name) ==
    /\ requested < MaxRequests /\ requested' = requested + 1
    /\ \A r \in requests : r.kind # kind
    /\ requests' = requests \cup {[kind |-> kind, id |-> i, was |-> catalog[i], name |-> name, at |-> "sent"]}
    /\ UNCHANGED <<catalog, GitLabCard, row, operation, tags, menu, Reads, tagWrite, editing,
                   tagEdits, elsewhere, History>>

AskCreate(name) == /\ \E i \in LabelIds : catalog[i] = Gone /\ Ask("create", i, name)
                   /\ UNCHANGED doomed
AskRename(name) == /\ editing # Gone /\ catalog[editing] # name
                   /\ Ask("rename", editing, name) /\ UNCHANGED doomed
\* The confirmation closes on the click.
AskDelete == doomed # Gone /\ doomed' = Gone /\ Ask("delete", doomed, Gone)

\* CreateLabel, UpdateLabel, DeleteLabel: reserved names are refused, and
\* GitLab refuses a name that is taken or a label that is gone.
GitLabDoes(r) ==
    /\ r \in requests /\ r.at = "sent"
    /\ r.name \notin TeamLabels /\ (r.name = Gone \/ \A j \in LabelIds : catalog[j] # r.name)
    /\ IF r.kind = "create" THEN catalog[r.id] = Gone ELSE catalog[r.id] # Gone
    /\ catalog' = [catalog EXCEPT ![r.id] = r.name]
    /\ tagged' = IF r.kind = "delete" THEN tagged \ {r.id} ELSE tagged
    /\ requests' = (requests \ {r}) \cup {[r EXCEPT !.at = "done"]}
    /\ UNCHANGED <<team, row, operation, tags, menu, Reads, tagWrite, editing, doomed, Counts, History>>

\* Refused or not sent, or done and the answer is lost: nothing is read again.
RequestFails(r) ==
    /\ r \in requests /\ requests' = requests \ {r}
    /\ menuBehind' = (menuBehind \/ r.at = "done")
    /\ UNCHANGED <<catalog, GitLabCard, row, operation, tags, menu, Reads, tagWrite, editing, doomed,
                   Counts, retired>>

\* Mutant: the menu is not read again.
SettleBoardOnly == menuRead' = menuRead /\ boardRead' = Sent

\* settle: the menu and the bootstrap are read again, earlier answers dropped.
Settle == menuRead' = Sent /\ boardRead' = Sent

\* rewriteCards: the names shown on the cards follow the rename or the deletion.
Rewritten(r) ==
    CASE r.kind = "rename" /\ r.was \in tags -> (tags \ {r.was}) \cup {r.name}
      [] r.kind = "delete" -> tags \ {r.was}
      [] OTHER -> tags

ManagerLands(r) ==
    /\ r \in requests /\ r.at = "done" /\ r.kind # "create"
    /\ requests' = requests \ {r}
    /\ tags' = Rewritten(r)
    /\ editing' = IF r.kind = "rename" THEN Gone ELSE editing
    /\ doomed' = IF r.kind = "delete" THEN Gone ELSE doomed
    /\ Settle
    /\ retired' = (retired \cup {r.was}) \ {r.name}
    /\ UNCHANGED <<catalog, GitLabCard, row, operation, menu, tagWrite, Counts, menuBehind>>

\* onCreated: the new label goes on the card the picker belongs to.
CreateLands(r) ==
    /\ r \in requests /\ r.at = "done" /\ r.kind = "create"
    /\ requests' = requests \ {r}
    /\ WriteTags(With(r.name), {})
    /\ Settle
    /\ retired' = retired \ {r.name}
    /\ UNCHANGED <<catalog, GitLabCard, row, operation, menu, editing, doomed, requested, elsewhere, menuBehind>>

-----------------------------------------------------------------------------
(* The queries *)

ServeMenu ==
    /\ menuRead.at = "sent" /\ menuBehind' = FALSE
    /\ menuRead' = [at |-> "answered", names |-> NamesOf(catalog, LabelIds)]
    /\ UNCHANGED <<catalog, GitLabCard, row, operation, tags, menu, boardRead, tagWrite, Manager, Counts, retired>>

MenuLands ==
    /\ menuRead.at = "answered" /\ menuRead' = Nothing /\ menu' = menuRead.names
    /\ UNCHANGED <<catalog, GitLabCard, row, operation, tags, boardRead, tagWrite, Manager, Counts, History>>

ServeBoard ==
    /\ boardRead.at = "sent" /\ boardRead' = [at |-> "answered", names |-> row]
    /\ UNCHANGED <<catalog, GitLabCard, row, operation, tags, menu, menuRead, tagWrite, Manager, Counts, History>>

BoardLands ==
    /\ boardRead.at = "answered" /\ boardRead' = Nothing /\ tags' = boardRead.names
    /\ UNCHANGED <<catalog, GitLabCard, row, operation, menu, menuRead, tagWrite, Manager, Counts, History>>

LabelsNext ==
    \/ \E n \in Names \cup TeamLabels : AddTag(n) \/ RemoveTag(n) \/ AskCreate(n)
    \/ \E n \in Names : AskRename(n)
    \/ ServerAccepts \/ WorkerApplies \/ BoardPoll \/ StreamTags
    \/ \E i \in LabelIds : TheyTag(i) \/ OpenForm(i) \/ OpenConfirmation(i)
    \/ CancelManager \/ AskDelete
    \/ \E r \in requests : GitLabDoes(r) \/ RequestFails(r) \/ ManagerLands(r) \/ CreateLands(r)
    \/ ServeMenu \/ MenuLands \/ ServeBoard \/ BoardLands

LabelsSpec == LabelsInit /\ [][LabelsNext]_labelsVars

-----------------------------------------------------------------------------
(* Properties *)

\* The types; the row of the server has exactly one team label, whatever the
\* browsers send.
LabelsTypeOK ==
    /\ catalog \in [LabelIds -> General] /\ tagged \subseteq Existing(catalog) /\ team \in TeamLabels
    /\ row \subseteq Names \cup TeamLabels /\ tags \subseteq Names \cup TeamLabels
    /\ menu \subseteq Names /\ retired \subseteq Names
    /\ editing \in LabelIds \cup {Gone} /\ doomed \in LabelIds \cup {Gone}
    /\ Cardinality(row \cap TeamLabels) = 1

\* Tags are written as a whole list of names, through a browser, a row and an
\* operation that may all be old: what the worker takes from the card is what
\* the user took from it, or a label the user was not shown by its present name.
OnlyRemovedTagsGo ==
    [][WorkerApplies =>
         \A i \in tagged \ tagged' :
            catalog[i] \in operation.removed \/ catalog[i] \notin operation.seen]_labelsVars

\* Once the manager's requests and the reads they ask for are over, the menu
\* offers the labels of the project.
MenuFollowsCatalog ==
    menuRead = Nothing /\ requests = {} /\ ~menuBehind => menu = NamesOf(catalog, LabelIds)

\* LabelManagerDialog.tsx:41-43: a renamed or deleted label leaves the cards'
\* labels stale, "both are rewritten here", "this only avoids the gap": a name
\* this browser saw retired is not on a card again.
RetiredNameIsHidden == \A n \in retired : n \notin NamesOf(catalog, LabelIds) => n \notin tags
=============================================================================
