----------------------------- MODULE GanttChart -----------------------------
(***************************************************************************)
(* The Gantt view of the board (ganttModel.ts, GanttView.tsx): which cards *)
(* it lists in which order, the timeline that is derived from their dates, *)
(* the marks drawn on it, and when its viewport is centred.                *)
(*                                                                         *)
(* A day is an integer, as in the code: days since 1 January 1970, a       *)
(* Thursday.  A date that may be null is a set of at most one day.         *)
(***************************************************************************)
EXTENDS Integers, Sequences, FiniteSets, SequencesExt, FiniteSetsExt

CONSTANTS GanttCards,   \* IIDs
          TeamKeys,     \* sequence: the team keys by sort order, which is also that of the keys
          MinDay, MaxDay, \* bounds of the days a date can be
          Days,         \* the days of cards
          TodayDay,     \* taipeiDateAfter(0) as a day
          Milestones,   \* the days of the directory's milestones
          Positions     \* in a lane

ASSUME GanttAssumption == /\ GanttCards \subseteq Nat /\ Positions \subseteq Nat
                          /\ MinDay \in Int /\ MaxDay \in Int
                          /\ Days \cup {TodayDay} \subseteq MinDay .. MaxDay
                          /\ Milestones \subseteq Int

VARIABLES plan,       \* the cards that pass the filters
          directory,  \* the keys of the directory's teams
          chart       \* the view: its mode and scale, the mounted viewport, scrolledScale

ganttVars == <<plan, directory, chart>>

Date == {{}} \cup {{d} : d \in Days}

Plan == [start : Date, due : Date, team : ToSet(TeamKeys), position : Positions, closed : BOOLEAN]

-----------------------------------------------------------------------------
(* The view model *)

\* openBoardCards
GanttOpen == {c \in DOMAIN plan : ~plan[c].closed}

DaysOf(c) == plan[c].start \cup plan[c].due
Scheduled == {c \in GanttOpen : DaysOf(c) # {}}

\* scheduleItem
ScheduleKind(c) ==
    LET start == plan[c].start  due == plan[c].due
    IN  IF start = {} THEN "due-milestone"
        ELSE IF due = {} THEN "start-marker"
        ELSE IF \A s \in start, d \in due : s <= d THEN "range" ELSE "invalid"

AnchorDay(c) == Min(DaysOf(c))
EndDay(c) == Min(IF plan[c].due # {} THEN plan[c].due ELSE plan[c].start)

\* A team that left the directory is sorted behind the others.
TeamRank(team) == IndexFirstSubSeq(<<team>>, TeamKeys) + IF team \in directory THEN 0 ELSE Len(TeamKeys)

\* The groups in their order, first their scheduled cards, then the others.
PlaceKey(c) == IF c \in Scheduled
               THEN <<0, TeamRank(plan[c].team), AnchorDay(c), EndDay(c), c>>
               ELSE <<1, TeamRank(plan[c].team), plan[c].position, c, 0>>

RowBefore(a, b) ==
    \E k \in 1 .. 5 : /\ PlaceKey(a)[k] < PlaceKey(b)[k]
                      /\ \A j \in 1 .. k - 1 : PlaceKey(a)[j] = PlaceKey(b)[j]

\* What the arrows of the drawer walk while the Gantt view is shown.
GanttOrder == SetToSortSeq(GanttOpen, RowBefore)

StartOfWeek(d) == d - ((d + 3) % 7)

\* createTimeline: the weeks of all dates and today, and one more at each end.
Charted == {TodayDay} \cup UNION {DaysOf(c) : c \in Scheduled}
FirstDay == StartOfWeek(Min(Charted)) - 7

\* Mutant: the last week is not followed by another.
PastDayWithoutSpare == StartOfWeek(Max(Charted)) + 7

PastDay == StartOfWeek(Max(Charted)) + 14
TotalDays == PastDay - FirstDay

Weeks == {d \in FirstDay .. PastDay - 1 : (d - FirstDay) % 7 = 0}
Units == IF chart.scale = "week" THEN Weeks ELSE FirstDay .. PastDay - 1

\* offsetStyle, and the marks of a row: where each begins and how many days it spans
OffsetDays(d) == d - FirstDay
DayMarks(c) ==
    IF ScheduleKind(c) = "range"
    THEN {<<OffsetDays(s), e - s + 1>> : s \in plan[c].start, e \in plan[c].due}
    ELSE {<<OffsetDays(d), 1>> : d \in DaysOf(c)}

\* ganttMilestoneMarkers
MilestoneMarkers == IF Scheduled = {} THEN {} ELSE {d \in Milestones : FirstDay <= d /\ d < PastDay}

-----------------------------------------------------------------------------
(* The view *)

\* The effect after a render centres the viewport once for each scale; the
\* element goes with the timeline, the mark of the scale only with the view.
Rendered(mode, scale) ==
    LET drawn == mode = "gantt" /\ Scheduled' # {}
    IN  chart' = [mode |-> mode, scale |-> scale,
                  viewport |-> IF ~drawn THEN "none"
                               ELSE IF chart.scrolledScale # scale THEN "centred"
                               ELSE IF chart.viewport = "none" THEN "left"
                               ELSE chart.viewport,
                  scrolledScale |-> IF mode # "gantt" THEN "none"
                                    ELSE IF drawn THEN scale ELSE chart.scrolledScale]

\* The board, before its cards have been filtered and shown.
GanttInit ==
    /\ plan = <<>>
    /\ directory = ToSet(TeamKeys)
    /\ chart = [mode |-> "board", scale |-> "day", viewport |-> "none", scrolledScale |-> "none"]

ShowMode(mode) == mode # chart.mode /\ UNCHANGED <<plan, directory>> /\ Rendered(mode, chart.scale)

ShowScale(scale) ==
    /\ chart.mode = "gantt" /\ scale # chart.scale
    /\ UNCHANGED <<plan, directory>> /\ Rendered("gantt", scale)

\* A card is edited or moved, here or elsewhere.
Values(field) == IF field \in {"start", "due"} THEN Date
                 ELSE IF field = "team" THEN ToSet(TeamKeys)
                 ELSE IF field = "position" THEN Positions ELSE BOOLEAN

Replan(c, field) ==
    /\ \E v \in Values(field) : plan' = [plan EXCEPT ![c][field] = v]
    /\ UNCHANGED directory /\ Rendered(chart.mode, chart.scale)

\* A filter or a deletion takes a card away, or brings one back.
Drop(c) ==
    /\ plan' = [o \in DOMAIN plan \ {c} |-> plan[o]]
    /\ UNCHANGED directory /\ Rendered(chart.mode, chart.scale)

Bring(c, p) ==
    /\ plan' = [o \in DOMAIN plan \cup {c} |-> IF o = c THEN p ELSE plan[o]]
    /\ UNCHANGED directory /\ Rendered(chart.mode, chart.scale)

RefreshTeams(keys) ==
    /\ directory' = keys
    /\ UNCHANGED plan /\ Rendered(chart.mode, chart.scale)

GanttNext ==
    \/ \E mode \in {"board", "gantt"} : ShowMode(mode)
    \/ \E scale \in {"day", "week"} : ShowScale(scale)
    \/ \E c \in DOMAIN plan : Drop(c) \/ \E field \in DOMAIN plan[c] : Replan(c, field)
    \/ \E c \in GanttCards \ DOMAIN plan, p \in Plan : Bring(c, p)
    \/ \E keys \in SUBSET ToSet(TeamKeys) : RefreshTeams(keys)

GanttSpec == GanttInit /\ [][GanttNext]_ganttVars

-----------------------------------------------------------------------------
(* Properties *)

\* The types; the viewport is there with the timeline and was centred for its
\* scale, or has been mounted again since; the order lists each open card once.
GanttTypeOK ==
    /\ DOMAIN plan \subseteq GanttCards /\ \A c \in DOMAIN plan : plan[c] \in Plan
    /\ directory \subseteq ToSet(TeamKeys)
    /\ chart.mode \in {"board", "gantt"} /\ chart.scale \in {"day", "week"}
    /\ chart.viewport # "none" <=> chart.mode = "gantt" /\ Scheduled # {}
    /\ chart.viewport # "none" => chart.scrolledScale = chart.scale
    /\ IsInjective(GanttOrder) /\ ToSet(GanttOrder) = GanttOpen

\* Whatever is scheduled, the timeline consists of whole weeks from a Monday
\* on, every mark of a row lies on it with a week to spare at both ends, spans
\* a day at least, and so does today's line.  (createTimeline, ScheduleMark)
MarksFit ==
    Scheduled # {} =>
        /\ (FirstDay + 3) % 7 = 0 /\ TotalDays % 7 = 0
        /\ 7 <= OffsetDays(TodayDay) /\ OffsetDays(TodayDay) < TotalDays - 7
        /\ \A c \in Scheduled : \A mark \in DayMarks(c) :
               7 <= mark[1] /\ 1 <= mark[2] /\ mark[1] + mark[2] <= TotalDays - 7
=============================================================================
