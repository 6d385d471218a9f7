---------------------------- MODULE MCBoardPage ----------------------------
(***************************************************************************)
(* The parts of the board page for TLC.  They share no state, so each      *)
(* behaviour is of one of them and the others stay as they begin.          *)
(***************************************************************************)
EXTENDS LabelCatalog, BoardDrag, BoardFilter, GanttChart, TLC

CONSTANTS TeamT, TeamU, p, q, x, w, c1, c2, c3

MCTeamList == <<TeamT>>
MCPeopleList == <<p, q>>
MCLabelList == <<x>>
MCCards == {c1, c2, c3}
MCTeamOf == [c \in MCCards |-> IF c = c3 THEN NoTeam ELSE TeamT]
MCPeopleOf == [c \in MCCards |-> IF c = c1 THEN {p} ELSE {q}]
MCFirstCarried == [c \in MCCards |-> IF c = c2 THEN {x} ELSE {}]
MCFinds == w :> {c1, c2, p, x, TeamT, "label"} @@ NoText :> {}

MCTeamKeys == <<TeamT, TeamU>>

VARIABLE panel

pageVars == <<panel, labelsVars, dragVars, filterVars, ganttVars>>

FirstCatalog == [i \in LabelIds |-> IF i = CHOOSE j \in LabelIds : TRUE THEN CHOOSE n \in Names : TRUE ELSE Gone]
FirstRows == [i \in Iids |-> [lane |-> CHOOSE l \in Lanes : TRUE, position |-> i - 1]]

PageInit ==
    /\ panel \in {"labels", "drag", "filter", "gantt"}
    /\ LabelsInit /\ DragInit /\ FilterInit /\ GanttInit
    /\ panel # "labels" => /\ catalog = FirstCatalog /\ tagged = {}
                           /\ team = CHOOSE n \in TeamLabels : TRUE
    /\ IF panel = "drag" THEN rows[1].lane = FirstRows[1].lane   \* the lanes are alike
       ELSE rows = FirstRows

PageNext ==
    /\ UNCHANGED panel
    /\ \/ panel = "labels" /\ LabelsNext /\ UNCHANGED <<dragVars, filterVars, ganttVars>>
       \/ panel = "drag" /\ DragNext /\ UNCHANGED <<labelsVars, filterVars, ganttVars>>
       \/ panel = "filter" /\ FilterNext /\ UNCHANGED <<labelsVars, dragVars, ganttVars>>
       \/ panel = "gantt" /\ GanttNext /\ UNCHANGED <<labelsVars, dragVars, filterVars>>

PageSpec == PageInit /\ [][PageNext]_pageVars
=============================================================================
