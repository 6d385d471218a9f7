---------------------------- MODULE MCCardPage ----------------------------
(***************************************************************************)
(* The parts of the detail drawer for TLC, and what the server makes of    *)
(* the fields it edits.  In the models they share no state, so each        *)
(* behaviour is of one of them and the others stay as they begin.          *)
(***************************************************************************)
EXTENDS CardDrawer, FieldSaves, CardRelations, CardComments, DateField, QuickActionInput,
        CardFields, TLC

CONSTANTS t, a, f, q1, i1, i2, member, refSign

MCCardOrder == <<t, a, f>>
MCMatches == q1 :> {i1, i2}
MCMonthStarts == <<0, 10, 14, 24>>
MCNoDate == 1000

MCDrafts == {<<>>, <<refSign>>}
MCReferences == <<refSign>>
MCQuickCommands == <<[name |-> member, params |-> <<refSign>>]>>
MCKnown == refSign :> <<>>

VARIABLE panel

pageVars == <<panel, drawerVars, savesVars, relationsVars, commentsVars, dateVars, inputVars, fieldsVars>>

PageInit ==
    /\ panel \in {"drawer", "saves", "relations", "comments", "date", "input", "fields"}
    /\ DrawerInit /\ SavesInit /\ RelationsInit /\ CommentsInit /\ DateInit /\ InputInit
    /\ FieldsInit
    /\ panel # "relations" => related = {}
    /\ panel # "comments" => notes = <<>>
    /\ panel # "date" => value = NoDate
    /\ panel # "input" => content = <<>>

PageNext ==
    /\ UNCHANGED panel
    /\ \/ /\ panel = "drawer" /\ DrawerNext
          /\ UNCHANGED <<savesVars, relationsVars, commentsVars, dateVars, inputVars, fieldsVars>>
       \/ /\ panel = "saves" /\ SavesNext
          /\ UNCHANGED <<drawerVars, relationsVars, commentsVars, dateVars, inputVars, fieldsVars>>
       \/ /\ panel = "relations" /\ RelationsNext
          /\ UNCHANGED <<drawerVars, savesVars, commentsVars, dateVars, inputVars, fieldsVars>>
       \/ /\ panel = "comments" /\ CommentsNext
          /\ UNCHANGED <<drawerVars, savesVars, relationsVars, dateVars, inputVars, fieldsVars>>
       \/ /\ panel = "date" /\ DateNext
          /\ UNCHANGED <<drawerVars, savesVars, relationsVars, commentsVars, inputVars, fieldsVars>>
       \/ /\ panel = "input" /\ InputNext
          /\ UNCHANGED <<drawerVars, savesVars, relationsVars, commentsVars, dateVars, fieldsVars>>
       \/ /\ panel = "fields" /\ FieldsNext
          /\ UNCHANGED <<drawerVars, savesVars, relationsVars, commentsVars, dateVars, inputVars>>

PageSpec == PageInit /\ [][PageNext]_pageVars
=============================================================================
