--------------------------- MODULE CardRelations ---------------------------
(***************************************************************************)
(* The relations of the open card (CardRelationships.tsx, relationApi.ts): *)
(* the list read from GitLab, the optimistic removal of a row with its     *)
(* roll-back, and the dialogs that search for work items and relate them.  *)
(*                                                                         *)
(* Child and Linked items have the same life in a list of their own; this  *)
(* is one of the two lists.  The query cache outlives the drawer.          *)
(***************************************************************************)
EXTENDS Integers, FiniteSets

CONSTANTS Items,        \* work items
          Queries,      \* search texts
          Matches,      \* the items GitLab finds for each text
          TooShort,     \* a text isValidSearch rejects
          Unloaded,     \* a query without data
          MaxSaves,     \* bound: dialogs that are opened
          MaxChanges    \* bound: removals, dialogs, changes by others, failed reads

ASSUME RelationsAssumption == /\ Matches \in [Queries -> SUBSET Items]
                              /\ TooShort \notin Queries
                              /\ Unloaded \notin Items
                              /\ MaxSaves \in Nat /\ MaxChanges \in Nat

VARIABLES related,      \* in GitLab: the items related to the card
          mounted,      \* the drawer shows the card
          list,         \* the query: its data, and whether the last read failed
          reading,      \* the fetch under way: "none", "sent", or what it has read
          removing,     \* the state of each item's removal
          previous,     \* what each removal put aside to roll back to
          confirming,   \* the item in the confirmation dialog
          dialog,       \* the open dialog: its number, mode, text and picks
          saving,       \* requests of the dialogs; "here" while their drawer is open
          changes,      \* counts what MaxChanges bounds
          behind        \* history: GitLab changed and this tab was not told, since the last read

relationsVars == <<related, mounted, list, reading, removing, previous, confirming,
                   dialog, saving, changes, behind>>

Modes == {"create", "attach", "link"}
NoItem == "no item"
NoDialog == [no |-> 0]
Unread == {Unloaded}
Quiet == [at |-> "none", items |-> {}]
Asked == [at |-> "sent", items |-> {}]
Answer(r) == [at |-> "answered", items |-> r]
Dialog == [no : 1 .. MaxSaves, mode : Modes, text : Queries \cup {TooShort},
           debounced : Queries \cup {TooShort}, picked : SUBSET Items]

RelationsInit ==
    /\ related \in SUBSET Items
    /\ mounted = FALSE
    /\ list = [data |-> Unread, failed |-> FALSE]
    /\ reading = Quiet
    /\ removing = [i \in Items |-> "idle"]
    /\ previous = [i \in Items |-> {}]
    /\ confirming = NoItem /\ dialog = NoDialog
    /\ saving = {}
    /\ changes = 0 /\ behind = FALSE

Unsaved == UNCHANGED <<dialog, saving>>
Unremoved == UNCHANGED <<removing, previous, confirming>>

-----------------------------------------------------------------------------
(* The query *)

\* invalidateQueries: a mounted query is read anew, and the answer to an
\* earlier read is dropped.  Nothing reads a closed card's list, and a read
\* that is under way goes on: a drawer that opens before it lands shows it.
Invalidate ==
    /\ reading' = IF mounted THEN Asked ELSE reading
    /\ behind' = (behind \/ (~mounted /\ reading # Quiet))

\* The drawer opens on the card; its data is stale by default.
MountCard ==
    /\ ~mounted /\ mounted' = TRUE
    /\ reading' = IF reading = Quiet THEN Asked ELSE reading
    /\ UNCHANGED <<related, list, changes, behind>> /\ Unremoved /\ Unsaved

UnmountCard ==
    /\ mounted /\ mounted' = FALSE
    /\ confirming' = NoItem /\ dialog' = NoDialog
    /\ saving' = {[s EXCEPT !.here = FALSE] : s \in saving}
    /\ UNCHANGED <<related, list, reading, removing, previous, changes, behind>>

ReadRelated ==
    /\ reading = Asked
    /\ reading' = Answer(related)
    /\ behind' = FALSE
    /\ UNCHANGED <<related, mounted, list, changes>> /\ Unremoved /\ Unsaved

ReadLands ==
    /\ reading.at = "answered"
    /\ list' = [data |-> reading.items, failed |-> FALSE]
    /\ reading' = Quiet
    /\ UNCHANGED <<related, mounted, changes, behind>> /\ Unremoved /\ Unsaved

ReadFails ==
    /\ reading # Quiet /\ changes < MaxChanges
    /\ list' = [list EXCEPT !.failed = TRUE]
    /\ reading' = Quiet /\ changes' = changes + 1
    /\ UNCHANGED <<related, mounted, behind>> /\ Unremoved /\ Unsaved

RetryRead ==
    /\ mounted /\ list.failed /\ reading = Quiet
    /\ reading' = Asked
    /\ UNCHANGED <<related, mounted, list, changes, behind>> /\ Unremoved /\ Unsaved

-----------------------------------------------------------------------------
(* Removing a row *)

BeginRemoval(i) ==
    /\ mounted /\ dialog = NoDialog /\ confirming = NoItem
    /\ i \in list.data /\ ~list.failed
    /\ removing[i] = "idle"       \* bound: one removal of an item at a time
    /\ confirming' = i
    /\ changes < MaxChanges /\ changes' = changes + 1
    /\ UNCHANGED <<related, mounted, list, reading, removing, previous, behind>> /\ Unsaved

CancelRemoval ==
    /\ confirming # NoItem /\ confirming' = NoItem
    /\ UNCHANGED <<related, mounted, list, reading, removing, previous, changes, behind>> /\ Unsaved

\* onMutate: the read under way is cancelled, the list put aside, the row gone.
ConfirmRemoval ==
    /\ confirming # NoItem /\ confirming' = NoItem
    /\ removing' = [removing EXCEPT ![confirming] = "sent"]
    /\ previous' = [previous EXCEPT ![confirming] = list.data]
    /\ list' = [data |-> list.data \ {confirming}, failed |-> FALSE]
    /\ reading' = Quiet
    /\ UNCHANGED <<related, mounted, changes, behind>> /\ Unsaved

GitLabRemoves(i) ==
    /\ removing[i] = "sent"
    /\ \/ related' = related \ {i} /\ removing' = [removing EXCEPT ![i] = "done"]
       \/ removing' = [removing EXCEPT ![i] = "refused"] /\ UNCHANGED related
    /\ UNCHANGED <<mounted, list, reading, previous, confirming, changes, behind>> /\ Unsaved

\* onSettled: the list is read again.
Removed(i) ==
    /\ removing[i] = "done"
    /\ removing' = [removing EXCEPT ![i] = "idle"]
    /\ Invalidate
    /\ UNCHANGED <<related, mounted, list, previous, confirming, changes>> /\ Unsaved

\* Mutant: a failed removal puts the list back and leaves it.
RollBackOnly(i) ==
    /\ removing[i] \in {"done", "refused"}
    /\ removing' = [removing EXCEPT ![i] = "idle"]
    /\ list' = [data |-> previous[i], failed |-> FALSE]
    /\ UNCHANGED <<related, mounted, reading, previous, confirming, changes, behind>> /\ Unsaved

\* onError, onSettled: the list goes back to what it was before this removal,
\* and is read again.  The answer to a removal may be lost.
RemovalRolledBack(i) ==
    /\ removing[i] \in {"done", "refused"}
    /\ removing' = [removing EXCEPT ![i] = "idle"]
    /\ list' = [data |-> previous[i], failed |-> FALSE]
    /\ Invalidate
    /\ UNCHANGED <<related, mounted, previous, confirming, changes>> /\ Unsaved

-----------------------------------------------------------------------------
(* Adding items *)

OpenDialog(mode) ==
    /\ mounted /\ dialog = NoDialog /\ confirming = NoItem
    /\ \E n \in 1 .. MaxSaves :
          /\ \A s \in saving : s.no < n
          /\ dialog' = [no |-> n, mode |-> mode, text |-> TooShort, debounced |-> TooShort, picked |-> {}]
    /\ changes < MaxChanges /\ changes' = changes + 1
    /\ UNCHANGED <<related, mounted, list, reading, saving, behind>> /\ Unremoved

CloseDialog ==
    /\ dialog # NoDialog /\ dialog' = NoDialog
    /\ UNCHANGED <<related, mounted, list, reading, saving, changes, behind>> /\ Unremoved

TypeSearch(q) ==
    /\ dialog # NoDialog /\ q # dialog.text
    /\ dialog' = [dialog EXCEPT !.text = q]
    /\ UNCHANGED <<related, mounted, list, reading, saving, changes, behind>> /\ Unremoved

\* After a pause the text becomes the key of the search; a short one is not sent.
Debounced ==
    /\ dialog # NoDialog /\ dialog.debounced # dialog.text
    /\ dialog' = [dialog EXCEPT !.debounced = dialog.text]
    /\ UNCHANGED <<related, mounted, list, reading, saving, changes, behind>> /\ Unremoved

\* The answer to a search is cached under its text, so whenever it comes it is
\* shown for that text alone.
Candidates ==
    IF dialog = NoDialog \/ dialog.debounced = TooShort \/ dialog.mode = "create" THEN {}
    ELSE Matches[dialog.debounced]

\* One child is attached at a time; links are collected across searches.
PickCandidate(i) ==
    /\ i \in Candidates
    /\ dialog' = [dialog EXCEPT !.picked =
                     IF dialog.mode = "attach" THEN {i}
                     ELSE IF i \in @ THEN @ \ {i} ELSE @ \cup {i}]
    /\ UNCHANGED <<related, mounted, list, reading, saving, changes, behind>> /\ Unremoved

\* An Issue cannot be a child: the text moves to the other dialog, which
\* searches for it at once.
LinkInstead ==
    /\ dialog # NoDialog /\ dialog.mode = "attach" /\ Candidates = {} /\ dialog.text # TooShort
    /\ dialog' = [dialog EXCEPT !.mode = "link", !.debounced = dialog.text, !.picked = {}]
    /\ UNCHANGED <<related, mounted, list, reading, saving, changes, behind>> /\ Unremoved

\* The new Task of a "create" dialog is some item that was not there.
SaveRelation ==
    /\ dialog # NoDialog /\ \A s \in saving : s.no # dialog.no
    /\ \E items \in IF dialog.mode = "create" THEN {{i} : i \in Items \ related} ELSE {dialog.picked} :
          /\ items # {}
          /\ dialog.mode = "create" => dialog.text # TooShort
          /\ saving' = saving \cup {[no |-> dialog.no, mode |-> dialog.mode, items |-> items,
                                    here |-> TRUE, state |-> "sent"]}
    /\ UNCHANGED <<related, mounted, list, reading, dialog, changes, behind>> /\ Unremoved

GitLabRelates(s) ==
    /\ s \in saving /\ s.state = "sent"
    /\ saving' = (saving \ {s}) \cup {[s EXCEPT !.state = "done"]}
    /\ related' = related \cup s.items
    /\ UNCHANGED <<mounted, list, reading, dialog, changes, behind>> /\ Unremoved

\* onSaved closes whichever dialog its section has open by then, unless the
\* drawer was closed, and the list is read again.
SaveLands(s) ==
    /\ s \in saving /\ s.state = "done"
    /\ saving' = (saving \ {s}) \cup {[s EXCEPT !.state = "landed"]}
    /\ dialog' = IF s.here /\ dialog # NoDialog /\ (dialog.mode = "link" <=> s.mode = "link")
                 THEN NoDialog ELSE dialog
    /\ Invalidate
    /\ UNCHANGED <<related, mounted, list, changes>> /\ Unremoved

\* The dialog stays, with what was entered and an inline error.
SaveRefused(s) ==
    /\ s \in saving /\ s.state \in {"sent", "done"}
    /\ saving' = saving \ {s}
    /\ behind' = (behind \/ s.state = "done")
    /\ UNCHANGED <<related, mounted, list, reading, dialog, changes>> /\ Unremoved

TheyRelate(i) ==
    /\ changes < MaxChanges /\ changes' = changes + 1
    /\ related' = IF i \in related THEN related \ {i} ELSE related \cup {i}
    /\ behind' = TRUE
    /\ UNCHANGED <<mounted, list, reading>> /\ Unremoved /\ Unsaved

-----------------------------------------------------------------------------
RelationsNext ==
    \/ MountCard \/ UnmountCard \/ ReadRelated \/ ReadLands \/ ReadFails \/ RetryRead
    \/ CancelRemoval \/ ConfirmRemoval
    \/ \E i \in Items : \/ BeginRemoval(i) \/ GitLabRemoves(i) \/ Removed(i) \/ RemovalRolledBack(i)
                        \/ PickCandidate(i) \/ TheyRelate(i)
    \/ CloseDialog \/ Debounced \/ LinkInstead \/ SaveRelation
    \/ \E m \in Modes : OpenDialog(m)
    \/ \E q \in Queries \cup {TooShort} : TypeSearch(q)
    \/ \E s \in saving : GitLabRelates(s) \/ SaveLands(s) \/ SaveRefused(s)

RelationsSpec == RelationsInit /\ [][RelationsNext]_relationsVars

-----------------------------------------------------------------------------
(* Properties *)

\* The types; a dialog is open only over the drawer, and never over the
\* confirmation of a removal.
RelationsTypeOK ==
    /\ related \subseteq Items /\ mounted \in BOOLEAN
    /\ list.data \in SUBSET Items \cup {Unread} /\ list.failed \in BOOLEAN
    /\ reading \in {Quiet, Asked} \cup {Answer(r) : r \in SUBSET Items}
    /\ removing \in [Items -> {"idle", "sent", "done", "refused"}]
    /\ previous \in [Items -> SUBSET Items]
    /\ confirming \in Items \cup {NoItem} /\ dialog \in Dialog \cup {NoDialog}
    /\ dialog # NoDialog => mounted /\ confirming = NoItem

\* When nothing is under way the drawer lists what GitLab holds: roll-backs to
\* lists put aside before other removals, and reads that raced them, leave no
\* trace.
ListEndsTrue ==
    mounted /\ reading = Quiet /\ ~list.failed /\ ~behind
    /\ (\A i \in Items : removing[i] = "idle") /\ (\A s \in saving : s.state = "landed")
    => list.data = related

=============================================================================
