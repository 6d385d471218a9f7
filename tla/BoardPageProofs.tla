-------------------------- MODULE BoardPageProofs --------------------------
(***************************************************************************)
(* Proofs about the parts of the board page, for every set of cards,       *)
(* labels and texts and every plan.  The parts share no state; each has    *)
(* its own invariant.                                                      *)
(***************************************************************************)
EXTENDS GanttChart, LabelCatalog, BoardFilter, BoardDrag, ListsProofs

-----------------------------------------------------------------------------
(* GanttChart *)

\* Days between two bounds have a first and a last: Min and Max are what
\* their names say without an induction over the set.
LEMMA FirstOfDays ==
    ASSUME NEW S, S \subseteq MinDay .. MaxDay, S # {}
    PROVE  Min(S) \in S /\ \A y \in S : Min(S) <= y
<1> DEFINE T == {d - MinDay : d \in S}
<1>1. T \subseteq Nat /\ T # {}
  <2>1. \A d \in S : d - MinDay \in Nat
    BY GanttAssumption DEF GanttAssumption
  <2> QED BY <2>1
<1>2. PICK m \in T : \A t \in T : m <= t
  <2> HIDE DEF T
  <2> QED BY <1>1, LeastOfNat
<1>3. PICK x \in S : m = x - MinDay
  BY <1>2
<1>4. \A y \in S : x <= y
  <2> TAKE y \in S
  <2>1. y - MinDay \in T
    OBVIOUS
  <2>2. x - MinDay <= y - MinDay
    BY <1>2, <1>3, <2>1
  <2> QED BY <2>2, GanttAssumption DEF GanttAssumption
<1> QED BY <1>4 DEF Min

LEMMA LastOfDays ==
    ASSUME NEW S, S \subseteq MinDay .. MaxDay, S # {}
    PROVE  Max(S) \in S /\ \A y \in S : y <= Max(S)
<1> DEFINE T == {MaxDay - d : d \in S}
<1>1. T \subseteq Nat /\ T # {}
  <2>1. \A d \in S : MaxDay - d \in Nat
    BY GanttAssumption DEF GanttAssumption
  <2> QED BY <2>1
<1>2. PICK m \in T : \A t \in T : m <= t
  <2> HIDE DEF T
  <2> QED BY <1>1, LeastOfNat
<1>3. PICK x \in S : m = MaxDay - x
  BY <1>2
<1>4. \A y \in S : x >= y
  <2> TAKE y \in S
  <2>1. MaxDay - y \in T
    OBVIOUS
  <2>2. MaxDay - x <= MaxDay - y
    BY <1>2, <1>3, <2>1
  <2> QED BY <2>2, GanttAssumption DEF GanttAssumption
<1>5. \E z \in S : \A y \in S : z >= y
  BY <1>4
<1>6. Max(S) \in S /\ \A y \in S : Max(S) >= y
  BY <1>5 DEF Max
<1> QED BY <1>6, GanttAssumption DEF GanttAssumption

\* A week begins on its Monday, at most six days back.
LEMMA WeekBegins ==
    ASSUME NEW d \in Int
    PROVE  /\ StartOfWeek(d) \in Int /\ (StartOfWeek(d) + 3) % 7 = 0
           /\ StartOfWeek(d) <= d /\ d <= StartOfWeek(d) + 6
  BY DEF StartOfWeek

-----------------------------------------------------------------------------
(* MarksFit *)

PlanOK == DOMAIN plan \subseteq GanttCards /\ \A c \in DOMAIN plan : plan[c] \in Plan

LEMMA DateDays == ASSUME NEW date \in Date PROVE date \subseteq MinDay .. MaxDay
  BY GanttAssumption DEF GanttAssumption, Date

LEMMA ChartedDays ==
    ASSUME PlanOK
    PROVE  /\ \A c \in DOMAIN plan : plan[c].start \in Date /\ plan[c].due \in Date
           /\ \A c \in Scheduled : c \in DOMAIN plan /\ DaysOf(c) \subseteq Charted
           /\ Charted \subseteq MinDay .. MaxDay /\ TodayDay \in Charted
<1>1. \A c \in DOMAIN plan : plan[c].start \in Date /\ plan[c].due \in Date
  BY DEF PlanOK, Plan
<1>2. \A c \in Scheduled : c \in DOMAIN plan
  BY DEF Scheduled, GanttOpen
<1>3. \A c \in Scheduled : DaysOf(c) \subseteq MinDay .. MaxDay
  BY <1>1, <1>2, DateDays DEF DaysOf
<1> QED BY <1>1, <1>2, <1>3, GanttAssumption DEF Charted, GanttAssumption

\* Numbers that are weeks apart from a Monday are weeks apart.
LEMMA WholeWeeks ==
    ASSUME NEW x \in Int, NEW y \in Int, (x + 3) % 7 = 0, (y + 3) % 7 = 0
    PROVE  (x - 7 + 3) % 7 = 0 /\ (y + 14 - (x - 7)) % 7 = 0
  OBVIOUS

LEMMA TimelineCovers ==
    ASSUME PlanOK
    PROVE  /\ FirstDay \in Int /\ PastDay \in Int
           /\ (FirstDay + 3) % 7 = 0 /\ TotalDays % 7 = 0
           /\ \A d \in Charted : d \in Int /\ FirstDay + 7 <= d /\ d < PastDay - 7
<1> DEFINE lo == Min(Charted)  hi == Max(Charted)
<1>1. Charted \subseteq MinDay .. MaxDay /\ Charted # {}
  BY ChartedDays
<1>2. lo \in Charted /\ \A d \in Charted : lo <= d
  BY <1>1, FirstOfDays
<1>3. hi \in Charted /\ \A d \in Charted : d <= hi
  BY <1>1, LastOfDays
<1>4. \A d \in Charted : d \in Int
  BY <1>1, GanttAssumption DEF GanttAssumption
<1>5. /\ StartOfWeek(lo) \in Int /\ (StartOfWeek(lo) + 3) % 7 = 0 /\ StartOfWeek(lo) <= lo
      /\ StartOfWeek(hi) \in Int /\ (StartOfWeek(hi) + 3) % 7 = 0 /\ hi <= StartOfWeek(hi) + 6
  BY <1>2, <1>3, <1>4, WeekBegins
<1>6. FirstDay = StartOfWeek(lo) - 7 /\ PastDay = StartOfWeek(hi) + 14
  BY DEF FirstDay, PastDay
<1>7. (FirstDay + 3) % 7 = 0 /\ TotalDays % 7 = 0
  BY <1>5, <1>6, WholeWeeks DEF TotalDays
<1>8. \A d \in Charted : FirstDay + 7 <= d /\ d < PastDay - 7
  <2> TAKE d \in Charted
  <2>1. d \in Int /\ lo \in Int /\ hi \in Int /\ lo <= d /\ d <= hi
    BY <1>2, <1>3, <1>4
  <2> HIDE DEF lo, hi
  <2> QED BY <2>1, <1>5, <1>6
<1> QED BY <1>4, <1>5, <1>6, <1>7, <1>8

LEMMA PlanFits == PlanOK => MarksFit
<1> SUFFICES ASSUME PlanOK PROVE MarksFit
  OBVIOUS
<1>1. /\ FirstDay \in Int /\ PastDay \in Int
      /\ (FirstDay + 3) % 7 = 0 /\ TotalDays % 7 = 0
      /\ \A d \in Charted : d \in Int /\ FirstDay + 7 <= d /\ d < PastDay - 7
  BY TimelineCovers
<1>2. TotalDays = PastDay - FirstDay
  BY DEF TotalDays
<1>3. 7 <= OffsetDays(TodayDay) /\ OffsetDays(TodayDay) < TotalDays - 7
  BY <1>1, <1>2, ChartedDays DEF OffsetDays
<1>4. ASSUME NEW c \in Scheduled, NEW mark \in DayMarks(c)
      PROVE  7 <= mark[1] /\ 1 <= mark[2] /\ mark[1] + mark[2] <= TotalDays - 7
  <2>1. plan[c].start \subseteq Charted /\ plan[c].due \subseteq Charted
    BY ChartedDays DEF DaysOf
  <2>2. CASE ScheduleKind(c) = "range"
    <3>1. PICK s \in plan[c].start, e \in plan[c].due : mark = <<OffsetDays(s), e - s + 1>>
      BY <2>2 DEF DayMarks
    <3>2. s <= e
      BY <2>2 DEF ScheduleKind
    <3> QED BY <3>1, <3>2, <2>1, <1>1, <1>2 DEF OffsetDays
  <2>3. CASE ScheduleKind(c) # "range"
    <3>1. PICK d \in DaysOf(c) : mark = <<OffsetDays(d), 1>>
      BY <2>3 DEF DayMarks
    <3> QED BY <3>1, <2>1, <1>1, <1>2 DEF OffsetDays, DaysOf
  <2> QED BY <2>2, <2>3
<1> QED BY <1>1, <1>3, <1>4 DEF MarksFit

LEMMA Replanned ==
    ASSUME NEW p \in Plan, NEW part \in {"start", "due", "team", "position", "closed"}, NEW v \in Values(part)
    PROVE  [p EXCEPT ![part] = v] \in Plan
<1>1. CASE part \in {"start", "due"}
  BY <1>1 DEF Plan, Values
<1>2. CASE part = "team"
  BY <1>2 DEF Plan, Values
<1>3. CASE part = "position"
  BY <1>3 DEF Plan, Values
<1>4. CASE part = "closed"
  BY <1>4 DEF Plan, Values
<1> QED BY <1>1, <1>2, <1>3, <1>4

LEMMA PlanIsTyped == GanttSpec => []PlanOK
<1>1. GanttInit => PlanOK
  BY DEF GanttInit, PlanOK
<1>2. PlanOK /\ [GanttNext]_ganttVars => PlanOK'
  <2> SUFFICES ASSUME PlanOK, [GanttNext]_ganttVars PROVE PlanOK'
    OBVIOUS
  <2>1. CASE UNCHANGED plan
    BY <2>1 DEF PlanOK
  <2>2. ASSUME NEW c \in DOMAIN plan, NEW part \in DOMAIN plan[c], Replan(c, part) PROVE PlanOK'
    <3>1. PICK v \in Values(part) : plan' = [plan EXCEPT ![c][part] = v]
      BY <2>2 DEF Replan
    <3>2. plan[c] \in Plan /\ part \in {"start", "due", "team", "position", "closed"}
      BY DEF PlanOK, Plan
    <3>3. [plan[c] EXCEPT ![part] = v] \in Plan
      BY <3>1, <3>2, Replanned
    <3> QED BY <3>1, <3>3 DEF PlanOK
  <2>3. ASSUME NEW c \in DOMAIN plan, Drop(c) PROVE PlanOK'
    BY <2>3 DEF PlanOK, Drop
  <2>4. ASSUME NEW c \in GanttCards, NEW p \in Plan, Bring(c, p) PROVE PlanOK'
    BY <2>4 DEF PlanOK, Bring
  <2> QED BY <2>1, <2>2, <2>3, <2>4 DEF GanttNext, ShowMode, ShowScale, RefreshTeams, ganttVars
<1> QED BY <1>1, <1>2, PTL DEF GanttSpec

\* Whatever dates the cards get, every mark of the Gantt view and today's line
\* lie on its timeline, which consists of whole weeks.  (ganttModel.ts:132)
THEOREM MarksAlwaysFit == GanttSpec => []MarksFit
  BY PlanIsTyped, PlanFits, PTL

-----------------------------------------------------------------------------
(* LabelCatalog *)

\* A request keeps its fields, names a label that can be, and was done only if its
\* name is not a team's.
RequestOK(r) ==
    /\ r = [kind |-> r.kind, id |-> r.id, was |-> r.was, name |-> r.name, at |-> r.at]
    /\ r.name \in General \cup TeamLabels
    /\ r.kind # "delete" => r.name # Gone
    /\ r.at = "done" => r.name \notin TeamLabels

\* What a write leaves out of the names it was made from, the user took away.
NamesKept(write) == write.seen \subseteq write.names \cup write.removed

\* No answer is on its way that the menu does not know of.
MenuTold == ~menuBehind /\ \A r \in requests : r.at # "done"

LabelsInv ==
    /\ catalog \in [LabelIds -> General] /\ tagged \subseteq Existing(catalog)
    /\ \A r \in requests : RequestOK(r)
    /\ NamesKept(tagWrite) /\ NamesKept(operation)
    /\ MenuTold => /\ menuRead.at = "none" => menu = NamesOf(catalog, LabelIds)
                   /\ menuRead.at = "answered" => menuRead.names = NamesOf(catalog, LabelIds)

LEMMA LabelsBegin == LabelsInit => LabelsInv
<1> SUFFICES ASSUME LabelsInit PROVE LabelsInv
  OBVIOUS
<1>1. catalog \in [LabelIds -> General] /\ tagged \subseteq Existing(catalog) /\ requests = {}
  BY DEF LabelsInit
<1>2. NamesKept(tagWrite) /\ NamesKept(operation)
  BY DEF LabelsInit, NoWrite, NamesKept
<1>3. menu = NamesOf(catalog, LabelIds) /\ menuRead.at = "none"
  BY DEF LabelsInit, Nothing
<1> QED BY <1>1, <1>2, <1>3 DEF LabelsInv

\* A step that leaves the project's labels and the manager alone.
LEMMA TagsMove ==
    ASSUME LabelsInv, UNCHANGED <<catalog, menu, menuRead, requests, menuBehind>>,
           tagged' \subseteq Existing(catalog), NamesKept(tagWrite)', NamesKept(operation)'
    PROVE  LabelsInv'
BY DEF LabelsInv, MenuTold, Existing, NamesOf, RequestOK

LEMMA TagWritesKeep ==
    ASSUME LabelsInv, NEW n, AddTag(n) \/ RemoveTag(n)
    PROVE  LabelsInv'
<1>1. NamesKept(tagWrite)'
  BY DEF AddTag, RemoveTag, WriteTags, With, NamesKept
<1>2. /\ UNCHANGED <<catalog, menu, menuRead, requests, menuBehind>>
      /\ tagged' = tagged /\ operation' = operation
  BY DEF AddTag, RemoveTag, GitLabCard, Reads, Manager, History
<1> QED BY <1>1, <1>2, TagsMove DEF LabelsInv, NamesKept

LEMMA CardStepsKeep ==
    ASSUME LabelsInv,
           \/ ServerAccepts \/ WorkerApplies \/ BoardPoll \/ StreamTags \/ ServeBoard \/ BoardLands
           \/ \E i \in LabelIds : TheyTag(i)
    PROVE  LabelsInv'
<1>1. UNCHANGED <<catalog, menu, menuRead, requests, menuBehind>>
  BY DEF ServerAccepts, WorkerApplies, BoardPoll, StreamTags, ServeBoard, BoardLands, TheyTag,
     Reads, Manager, History
<1>2. tagged' \subseteq Existing(catalog)
  BY DEF ServerAccepts, WorkerApplies, BoardPoll, StreamTags, ServeBoard, BoardLands, TheyTag,
     GitLabCard, LabelsInv, Existing
<1>3. NamesKept(tagWrite)' /\ NamesKept(operation)'
  <2>1. tagWrite' \in {tagWrite, NoWrite} /\ operation' \in {operation, tagWrite, NoWrite}
    BY DEF ServerAccepts, WorkerApplies, BoardPoll, StreamTags, ServeBoard, BoardLands, TheyTag
  <2> QED BY <2>1 DEF LabelsInv, NamesKept, NoWrite
<1> QED BY <1>1, <1>2, <1>3, TagsMove

LEMMA AskingKeeps ==
    ASSUME LabelsInv, NEW kind, NEW i, NEW n, Ask(kind, i, n),
           n \in General \cup TeamLabels, kind # "delete" => n # Gone
    PROVE  LabelsInv'
<1> DEFINE r == [kind |-> kind, id |-> i, was |-> catalog[i], name |-> n, at |-> "sent"]
<1>1. requests' = requests \cup {r} /\ RequestOK(r) /\ r.at # "done"
  BY DEF Ask, RequestOK
<1>2. /\ UNCHANGED <<catalog, menu, menuRead, tagWrite, operation, menuBehind>> /\ tagged' = tagged
  BY DEF Ask, GitLabCard, Reads, History
<1> HIDE DEF r
<1>3. (MenuTold' => MenuTold) /\ \A q \in requests' : RequestOK(q)
  BY <1>1, <1>2 DEF MenuTold, LabelsInv
<1> QED BY <1>2, <1>3 DEF LabelsInv, NamesKept, Existing, NamesOf, RequestOK

LEMMA GitLabKeepsLabels ==
    ASSUME LabelsInv, NEW r, GitLabDoes(r)
    PROVE  LabelsInv'
<1> DEFINE d == [r EXCEPT !.at = "done"]
<1>1. /\ r \in requests /\ RequestOK(r) /\ r.name \notin TeamLabels /\ catalog \in [LabelIds -> General]
  BY DEF GitLabDoes, LabelsInv
<1>2. d = [kind |-> r.kind, id |-> r.id, was |-> r.was, name |-> r.name, at |-> "done"]
  BY <1>1 DEF RequestOK
<1>3. RequestOK(d) /\ d.at = "done"
  BY <1>1, <1>2 DEF RequestOK
<1>4. /\ requests' = (requests \ {r}) \cup {d}
      /\ catalog' = [catalog EXCEPT ![r.id] = r.name]
      /\ tagged' = IF r.kind = "delete" THEN tagged \ {r.id} ELSE tagged
      /\ tagWrite' = tagWrite /\ operation' = operation
  BY DEF GitLabDoes
<1> HIDE DEF d
<1>5. catalog' \in [LabelIds -> General] /\ tagged' \subseteq Existing(catalog)'
  <2>1. r.name \in General /\ (r.kind # "delete" => r.name # Gone)
    BY <1>1 DEF RequestOK
  <2> QED BY <2>1, <1>1, <1>4 DEF LabelsInv, Existing
<1>6. ~MenuTold' /\ \A q \in requests' : RequestOK(q)
  BY <1>3, <1>4 DEF MenuTold, LabelsInv
<1> QED BY <1>4, <1>5, <1>6 DEF LabelsInv, NamesKept, RequestOK

LEMMA AnswersKeepLabels ==
    ASSUME LabelsInv, NEW r, RequestFails(r) \/ ManagerLands(r) \/ CreateLands(r)
    PROVE  LabelsInv'
<1>1. /\ r \in requests /\ requests' = requests \ {r} /\ RequestOK(r)
      /\ catalog' = catalog /\ tagged' = tagged /\ operation' = operation /\ menu' = menu
  BY DEF RequestFails, ManagerLands, CreateLands, LabelsInv, GitLabCard
<1>2. /\ \A q \in requests' : RequestOK(q)'
      /\ catalog' \in [LabelIds -> General] /\ tagged' \subseteq Existing(catalog)'
      /\ NamesKept(operation)'
  BY <1>1 DEF LabelsInv, RequestOK, Existing, NamesKept
<1>3. NamesKept(tagWrite)'
  <2>1. CASE RequestFails(r) \/ ManagerLands(r)
    BY <2>1 DEF RequestFails, ManagerLands, LabelsInv, NamesKept
  <2>2. CASE CreateLands(r)
    <3>1. r.name \notin TeamLabels
      BY <1>1, <2>2 DEF CreateLands, RequestOK
    <3> QED BY <2>2, <3>1 DEF CreateLands, WriteTags, With, NamesKept
  <2> QED BY <2>1, <2>2
<1>4. MenuTold' => /\ menuRead'.at = "none" => menu' = NamesOf(catalog', LabelIds)
                   /\ menuRead'.at = "answered" => menuRead'.names = NamesOf(catalog', LabelIds)
  <2>1. CASE RequestFails(r)
    <3>1. menuRead' = menuRead /\ (MenuTold' => MenuTold)
      BY <1>1, <2>1 DEF RequestFails, MenuTold, Reads
    <3> QED BY <1>1, <3>1 DEF LabelsInv
  <2>2. CASE ManagerLands(r) \/ CreateLands(r)
    BY <2>2 DEF ManagerLands, CreateLands, Settle, Sent
  <2> QED BY <2>1, <2>2
<1> QED BY <1>2, <1>3, <1>4 DEF LabelsInv, NamesOf

LEMMA MenuReadsKeep ==
    ASSUME LabelsInv, ServeMenu \/ MenuLands
    PROVE  LabelsInv'
<1>1. /\ catalog' = catalog /\ tagged' = tagged /\ operation' = operation /\ tagWrite' = tagWrite
      /\ requests' = requests
  BY DEF ServeMenu, MenuLands, GitLabCard, Manager
<1>2. MenuTold' => /\ menuRead'.at = "none" => menu' = NamesOf(catalog', LabelIds)
                   /\ menuRead'.at = "answered" => menuRead'.names = NamesOf(catalog', LabelIds)
  <2>1. CASE ServeMenu
    BY <1>1, <2>1 DEF ServeMenu
  <2>2. CASE MenuLands
    <3>1. /\ menuRead.at = "answered" /\ menu' = menuRead.names /\ menuRead' = Nothing
          /\ MenuTold' => MenuTold
      BY <1>1, <2>2 DEF MenuLands, MenuTold, History
    <3> QED BY <1>1, <3>1 DEF LabelsInv, Nothing
  <2> QED BY <2>1, <2>2
<1> QED BY <1>1, <1>2 DEF LabelsInv, NamesKept, RequestOK, Existing

LEMMA LabelsStep == LabelsInv /\ [LabelsNext]_labelsVars => LabelsInv'
<1> SUFFICES ASSUME LabelsInv, [LabelsNext]_labelsVars PROVE LabelsInv'
  OBVIOUS
<1>1. ASSUME NEW n \in Names \cup TeamLabels, AskCreate(n) PROVE LabelsInv'
  BY <1>1, AskingKeeps, LabelsAssumption DEF AskCreate, General, LabelsAssumption
<1>2. ASSUME NEW n \in Names, AskRename(n) PROVE LabelsInv'
  BY <1>2, AskingKeeps, LabelsAssumption DEF AskRename, General, LabelsAssumption
<1>3. CASE AskDelete
  BY <1>3, AskingKeeps DEF AskDelete, General
<1>4. CASE CancelManager \/ (\E i \in LabelIds : OpenForm(i) \/ OpenConfirmation(i)) \/ UNCHANGED labelsVars
  <2>1. /\ UNCHANGED <<catalog, menu, menuRead, requests, menuBehind>>
        /\ tagged' = tagged /\ tagWrite' = tagWrite /\ operation' = operation
    BY <1>4 DEF CancelManager, OpenForm, OpenConfirmation, labelsVars, GitLabCard, Reads, History
  <2> QED BY <2>1, TagsMove DEF LabelsInv, NamesKept
<1> QED BY <1>1, <1>2, <1>3, <1>4, TagWritesKeep, CardStepsKeep, GitLabKeepsLabels, AnswersKeepLabels,
        MenuReadsKeep DEF LabelsNext

LEMMA LabelsAlways == LabelsSpec => []LabelsInv
BY LabelsBegin, LabelsStep, PTL DEF LabelsSpec

\* Once the manager's requests and the reads they ask for are over, the menu has the
\* project's labels, whatever was answered late, refused or read in between
\* (useProjectLabels.ts, LabelManagerDialog.tsx settle).
THEOREM MenuEndsTrue == LabelsSpec => []MenuFollowsCatalog
<1>1. LabelsInv => MenuFollowsCatalog
  BY DEF LabelsInv, MenuFollowsCatalog, MenuTold, Nothing
<1> QED BY <1>1, LabelsAlways, PTL

\* Of a card's labels the worker takes off those the user took off, or ones the user
\* did not see by the name they have now (BoardPage.tsx CardTags, service.go UpdateLabels).
THEOREM OnlyRemovedLabelsGo == LabelsSpec => OnlyRemovedTagsGo
<1> DEFINE Kept == WorkerApplies => \A i \in tagged \ tagged' :
                       catalog[i] \in operation.removed \/ catalog[i] \notin operation.seen
<1>1. LabelsInv /\ [LabelsNext]_labelsVars => [Kept]_labelsVars
  <2> SUFFICES ASSUME LabelsInv, WorkerApplies, NEW i \in tagged \ tagged'
               PROVE  catalog[i] \in operation.removed \/ catalog[i] \notin operation.seen
    OBVIOUS
  <2>1. i \in Existing(catalog) /\ tagged' = {j \in Existing(catalog) : catalog[j] \in operation.names}
    BY DEF LabelsInv, WorkerApplies
  <2> QED BY <2>1 DEF LabelsInv, NamesKept
<1> QED BY <1>1, LabelsAlways, PTL DEF LabelsSpec, OnlyRemovedTagsGo

-----------------------------------------------------------------------------
(* BoardFilter *)

\* A timer that runs is that of the text that was typed last, and never of a blank
\* one; without a timer the search is applied.
FilterInv == /\ "query" \in DOMAIN view
             /\ timers \subseteq {typed} /\ NoText \notin timers
             /\ SearchIsTheTyped

\* Whatever else of the view changes, the search and its timer stay.
LEMMA SearchStays ==
    ASSUME FilterInv, "query" \in DOMAIN view', view'.query = view.query, UNCHANGED <<typed, timers>>
    PROVE  FilterInv'
BY DEF FilterInv, SearchIsTheTyped

\* The changes of a view that leave its search alone.
LEMMA OtherChoices ==
    ASSUME NEW v, "query" \in DOMAIN v,
           NEW k \in {"team", "people", "labels", "sort", "mode", "scale"}, NEW x
    PROVE  LET w == [v EXCEPT ![k] = x] IN "query" \in DOMAIN w /\ w.query = v.query
OBVIOUS

\* Typing, choosing a category and clearing: the text is applied, or has the one timer.
LEMMA QueryKeeps ==
    ASSUME FilterInv, NEW next, NEW v, "query" \in DOMAIN v, v.query = view.query,
           ChangeQuery(next, v)
    PROVE  FilterInv'
<1>1. /\ typed' = next /\ view' = [v EXCEPT !.query = IF next = NoText THEN NoText ELSE @]
      /\ timers' = IF next = typed THEN timers ELSE {next} \ {NoText}
  BY DEF ChangeQuery, WaitingFor
<1>2. /\ "query" \in DOMAIN view'
      /\ view'.query = IF next = NoText THEN NoText ELSE view.query
  BY <1>1
<1> QED BY <1>1, <1>2 DEF FilterInv, SearchIsTheTyped

LEMMA FilterBegins == FilterInit => FilterInv
BY DEF FilterInit, FilterInv, SearchIsTheTyped, Everything

\* The address keeps the search as it is, and the page that is loaded applies it.
LEMMA ReloadKeeps == ASSUME FilterInv, Reload PROVE FilterInv'
<1> DEFINE a == Address(view)
<1>1. "query" \in DOMAIN a
  BY DEF Address, FilterInv
<1>2. "query" \in DOMAIN ParsedView(a)
  BY <1>1 DEF ParsedView
<1>3. view' = ParsedView(a) /\ typed' = view'.query /\ timers' = {}
  BY DEF Reload
<1> QED BY <1>2, <1>3 DEF FilterInv, SearchIsTheTyped

\* The timer that fires is that of the text in the field.
LEMMA SettledKeeps == ASSUME FilterInv, NEW text, Settled(text) PROVE FilterInv'
<1>1. text = typed /\ view' = [view EXCEPT !.query = text] /\ timers' = {} /\ typed' = typed
  BY DEF FilterInv, Settled
<1> QED BY <1>1 DEF FilterInv, SearchIsTheTyped

LEMMA TypingKeepsSearch ==
    ASSUME FilterInv,
           \/ ClearSearch \/ ClearAll \/ Escape
           \/ \E text \in Texts : Type(text)
    PROVE  FilterInv'
<1> DEFINE Same(v) == "query" \in DOMAIN v /\ v.query = view.query
           v1 == [view EXCEPT !.team = NoTeam]
           v2 == [v1 EXCEPT !.people = <<>>]
           v3 == [v2 EXCEPT !.labels = <<>>]
<1>1. Same(view) /\ Same(v1)
  BY OtherChoices DEF FilterInv
<1>2. Same(v2)
  BY <1>1, OtherChoices
<1>3. Same(v3)
  BY <1>2, OtherChoices
<1>4. \/ ChangeQuery(NoText, view) \/ ChangeQuery(NoText, v3)
      \/ \E text \in Texts : ChangeQuery(text, view)
      \/ UNCHANGED <<view, typed, timers>>
  BY DEF ClearSearch, ClearAll, Escape, Type
<1>5. UNCHANGED <<view, typed, timers>> => FilterInv'
  BY SearchStays, <1>1
<1> QED BY <1>1, <1>3, <1>4, <1>5, QueryKeeps

LEMMA ChoiceKeepsSearch == ASSUME FilterInv, NEW k, Choose(k) PROVE FilterInv'
<1>1. CASE field.pending = "none"
  <2>1. ChangeQuery(NoText, view)
    BY <1>1 DEF Choose
  <2> QED BY <2>1, QueryKeeps DEF FilterInv
<1>2. CASE field.pending # "none"
  <2>1. UNCHANGED <<typed, timers>>
    BY <1>2 DEF Choose
  <2>2. \E part \in {"team", "people", "labels"} : \E x : view' = [view EXCEPT ![part] = x]
    <3> DEFINE option == Options[k]
    <3>1. view' = CASE field.pending = "team" -> [view EXCEPT !.team = option]
                    [] field.pending = "member" -> [view EXCEPT !.people = Append(@, option)]
                    [] OTHER -> [view EXCEPT !.labels = Append(@, option)]
      BY <1>2 DEF Choose
    <3> HIDE DEF option
    <3>2. \/ view' = [view EXCEPT !["team"] = option]
          \/ view' = [view EXCEPT !["people"] = Append(view.people, option)]
          \/ view' = [view EXCEPT !["labels"] = Append(view.labels, option)]
      BY <3>1
    <3> QED BY <3>2
  <2>3. "query" \in DOMAIN view' /\ view'.query = view.query
    BY <2>2, OtherChoices DEF FilterInv
  <2> QED BY <2>1, <2>3, SearchStays
<1> QED BY <1>1, <1>2


LEMMA LastTokenKeeps ==
    ASSUME FilterInv PROVE "query" \in DOMAIN LastTokenRemoved /\ LastTokenRemoved.query = view.query
BY DEF LastTokenRemoved, FilterInv

LEMMA TokensKeepSearch ==
    ASSUME FilterInv,
           \/ Backspace
           \/ TeamToken /\ RemoveToken([view EXCEPT !.team = NoTeam])
           \/ \E p \in ToSet(view.people) : RemoveToken([view EXCEPT !.people = Without(@, p)])
           \/ \E l \in ToSet(view.labels) : RemoveToken([view EXCEPT !.labels = Without(@, l)])
    PROVE  FilterInv'
<1>1. CASE Backspace
  <2>1. UNCHANGED <<typed, timers>> /\ (view' = view \/ view' = LastTokenRemoved)
    BY <1>1 DEF Backspace
  <2> QED BY <2>1, LastTokenKeeps, SearchStays DEF FilterInv
<1>2. CASE RemoveToken([view EXCEPT !.team = NoTeam])
  BY <1>2, SearchStays DEF RemoveToken, FilterInv
<1>3. CASE \E p \in ToSet(view.people) : RemoveToken([view EXCEPT !.people = Without(@, p)])
  <2>1. PICK p : RemoveToken([view EXCEPT !.people = Without(@, p)])
    BY <1>3
  <2> QED BY <2>1, SearchStays DEF RemoveToken, FilterInv
<1>4. CASE \E l \in ToSet(view.labels) : RemoveToken([view EXCEPT !.labels = Without(@, l)])
  <2>1. PICK l : RemoveToken([view EXCEPT !.labels = Without(@, l)])
    BY <1>4
  <2> QED BY <2>1, SearchStays DEF RemoveToken, FilterInv
<1> QED BY <1>1, <1>2, <1>3, <1>4

LEMMA PicksKeepSearch ==
    ASSUME FilterInv,
           \/ PickAll
           \/ \E t : PickTeam(t)
           \/ \E group : PickMembers(group)
           \/ \E l : PickLabel(l)
    PROVE  FilterInv'
<1>1. CASE PickAll
  BY <1>1, SearchStays DEF PickAll, Pick, FilterInv
<1>2. ASSUME NEW t, PickTeam(t) PROVE FilterInv'
  BY <1>2, SearchStays DEF PickTeam, Pick, FilterInv
<1>3. ASSUME NEW group, PickMembers(group) PROVE FilterInv'
  BY <1>3, SearchStays DEF PickMembers, Pick, FilterInv
<1>4. ASSUME NEW l, PickLabel(l) PROVE FilterInv'
  BY <1>4, SearchStays DEF PickLabel, Pick, FilterInv
<1> QED BY <1>1, <1>2, <1>3, <1>4

LEMMA PresentingKeeps ==
    ASSUME FilterInv,
           \/ \E sort \in {"due-asc", "manual"} : Present([view EXCEPT !.sort = sort])
           \/ \E mode \in {"board", "gantt"} : Present([view EXCEPT !.mode = mode])
           \/ \E scale \in {"day", "week"} : Present([view EXCEPT !.scale = scale])
    PROVE  FilterInv'
<1>1. ASSUME NEW sort, Present([view EXCEPT !.sort = sort]) PROVE FilterInv'
  BY <1>1, SearchStays DEF Present, FilterInv
<1>2. ASSUME NEW mode, Present([view EXCEPT !.mode = mode]) PROVE FilterInv'
  BY <1>2, SearchStays DEF Present, FilterInv
<1>3. ASSUME NEW scale, Present([view EXCEPT !.scale = scale]) PROVE FilterInv'
  BY <1>3, SearchStays DEF Present, FilterInv
<1> QED BY <1>1, <1>2, <1>3

\* The popup, the dialogs, the closed lane and the news of others.
LEMMA RestKeepsSearch ==
    ASSUME FilterInv,
           \/ Reveal \/ Focus \/ Blur \/ Reopen \/ ClosePicker \/ ManageLabels \/ CatalogLands
           \/ \E step \in {1, -1} : Arrow(step)
           \/ \E kind : EditToken(kind) \/ OpenPicker(kind)
           \/ \E kind, text : TypeInPicker(kind, text)
           \/ \E x : Retire(x)
           \/ \E c, labels : Updated(c, labels)
           \/ UNCHANGED filterVars
    PROVE  FilterInv'
<1>1. UNCHANGED <<view, typed, timers>>
  BY DEF Reveal, Focus, Blur, Reopen, ClosePicker, ManageLabels, CatalogLands, Arrow, EditToken,
         OpenPicker, TypeInPicker, Retire, Updated, News, filterVars
<1> QED BY <1>1, SearchStays DEF FilterInv

LEMMA FilterStep == ASSUME FilterInv, [FilterNext]_filterVars PROVE FilterInv'
<1>1. CASE Reload
  BY <1>1, ReloadKeeps
<1>2. CASE \E text \in Texts : Settled(text)
  BY <1>2, SettledKeeps
<1>3. CASE Enter \/ \E k \in 1 .. Len(Options) : Choose(k)
  BY <1>3, ChoiceKeepsSearch DEF Enter
<1>4. CASE \/ \E sort \in {"due-asc", "manual"} : view.mode = "board" /\ Present([view EXCEPT !.sort = sort])
           \/ \E mode \in {"board", "gantt"} : Present([view EXCEPT !.mode = mode])
           \/ \E scale \in {"day", "week"} : view.mode = "gantt" /\ Present([view EXCEPT !.scale = scale])
  BY <1>4, PresentingKeeps
<1>5. CASE \/ Reveal \/ Focus \/ Blur \/ Reopen \/ ClosePicker \/ ManageLabels \/ CatalogLands
           \/ \E step \in {1, -1} : Arrow(step)
           \/ \E kind \in ToSet(Categories) : EditToken(kind) \/ OpenPicker(kind)
           \/ OpenPicker("compact")
           \/ \E text \in Texts, kind \in ToSet(Categories) : TypeInPicker(kind, text)
           \/ \E x \in known : Retire(x)
           \/ \E c \in FilterCards, labels \in {{}, ToSet(LabelList)} : Updated(c, labels)
           \/ UNCHANGED filterVars
  BY <1>5, RestKeepsSearch
<1>6. CASE \/ PickAll \/ \E t \in ToSet(TeamList) \cup {NoTeam} : PickTeam(t)
           \/ \E group \in SUBSET ToSet(PeopleList) : PickMembers(group)
           \/ \E l \in ToSet(LabelList) : PickLabel(l)
  BY <1>6, PicksKeepSearch
<1> QED BY <1>1, <1>2, <1>3, <1>4, <1>5, <1>6, TypingKeepsSearch, TokensKeepSearch DEF FilterNext

\* The search that is applied is the one typed last, unless its timer still runs: no
\* timer of an earlier text fires (BoardPage.tsx, the effect of filterQuery).
THEOREM SearchFollowsTyping == FilterSpec => []SearchIsTheTyped
<1>1. FilterInv => SearchIsTheTyped
  BY DEF FilterInv
<1> QED BY <1>1, FilterBegins, FilterStep, PTL DEF FilterSpec

\* A list of anything.
IsList(s) == \E S : s \in Seq(S)

\* A view has its parts, and its people are a list.
ViewInv == /\ DOMAIN view = {"query", "team", "people", "labels", "sort", "mode", "scale"}
           /\ IsList(view.people)

LEMMA ViewStays ==
    ASSUME ViewInv, DOMAIN view' = DOMAIN view, IsList(view'.people)
    PROVE  ViewInv'
BY DEF ViewInv

LEMMA OnlyIsList == ASSUME NEW s, IsList(s), NEW S PROVE IsList(Only(s, S))
<1>1. PICK A : s \in Seq(A)
  BY DEF IsList
<1>2. Only(s, S) \in Seq(A)
  BY <1>1, OnlyKeeps
<1> QED BY <1>2 DEF IsList

LEMMA AppendIsList == ASSUME NEW s, IsList(s), NEW x PROVE IsList(Append(s, x))
<1>1. PICK A : s \in Seq(A)
  BY DEF IsList
<1>2. s \in Seq(A \cup {x})
  BY <1>1
<1>3. Append(s, x) \in Seq(A \cup {x})
  BY <1>2
<1> QED BY <1>3 DEF IsList

LEMMA FrontIsList == ASSUME NEW s, IsList(s), s # <<>> PROVE IsList(Front(s))
<1>1. PICK A : s \in Seq(A)
  BY DEF IsList
<1>2. Len(s) \in Nat /\ Len(s) >= 1
  BY <1>1
<1>3. Front(s) \in Seq(A)
  BY <1>1, <1>2 DEF Front
<1> QED BY <1>3 DEF IsList

\* People that are picked together are put behind the ones of before, in some order.
LEMMA GroupIsList ==
    ASSUME NEW s, IsList(s), NEW group \in SUBSET ToSet(PeopleList)
    PROVE  IsList(s \o SetToSeq(group))
<1>1. IsFiniteSet(group)
  <2>1. PICK people, n : people = ToSet(PeopleList) /\ n = Len(PeopleList)
    OBVIOUS
  <2>2. PeopleList \in Seq(people) /\ n \in Nat /\ PeopleList \in [1 .. n -> people]
    BY <2>1, FilterAssumption DEF FilterAssumption
  <2>3. \A p \in people : \E k \in 1 .. n : PeopleList[k] = p
    BY <2>1, <2>2 DEF ToSet
  <2>4. PeopleList \in Surjection(1 .. n, people)
    BY <2>2, <2>3 DEF Surjection
  <2>5. IsFiniteSet(1 .. n)
    BY <2>2, FS_Interval
  <2>6. IsFiniteSet(people)
    BY <2>4, <2>5, FS_Surjection
  <2> QED BY <2>1, <2>6, FS_Subset
<1>2. \E f \in [1 .. Cardinality(group) -> group] : IsInjective(f)
  <2>1. ExistsBijection(1 .. Cardinality(group), group)
    BY <1>1, FS_CardinalityType
  <2>2. PICK f : f \in Bijection(1 .. Cardinality(group), group)
    BY <2>1, Fun_ExistsBij
  <2> QED BY <2>2 DEF Bijection, Injection
<1>3. SetToSeq(group) \in Seq(group)
  <2>1. SetToSeq(group) \in [1 .. Cardinality(group) -> group]
    BY <1>2 DEF SetToSeq
  <2>2. Cardinality(group) \in Nat
    BY <1>1, FS_CardinalityType
  <2> QED BY <2>1, <2>2
<1>4. PICK A : s \in Seq(A)
  BY DEF IsList
<1>5. s \in Seq(A \cup group) /\ SetToSeq(group) \in Seq(A \cup group)
  BY <1>3, <1>4
<1>6. s \o SetToSeq(group) \in Seq(A \cup group)
  BY <1>5
<1> QED BY <1>6 DEF IsList

\* Only keeps a list whose elements are all wanted.
LEMMA OnlyAll ==
    ASSUME NEW s, IsList(s), NEW S, ToSet(s) \subseteq S
    PROVE  Only(s, S) = s
<1>1. PICK A : s \in Seq(A)
  BY DEF IsList
<1>2. PICK n, P : n = Len(s) /\ P = DOMAIN s
  OBVIOUS
<1>3. n \in Nat /\ P = 1 .. n /\ P \in SUBSET DOMAIN s
  BY <1>1, <1>2
<1>4. {k \in DOMAIN s : s[k] \in S} = P
  BY <1>2 DEF ToSet
<1>5. PICK r : r = KeepPlaces(s, P)
  OBVIOUS
<1>6. Only(s, S) = r
  BY <1>4, <1>5 DEF Only
<1>7. r \in Seq(A) /\ \E g : Lists(g, r, s, P)
  <2>1. KeepPlaces(s, P) \in Seq(A) /\ \E g : Lists(g, KeepPlaces(s, P), s, P)
    BY <1>1, <1>3, KeptPlaces
  <2> QED BY <1>5, <2>1
<1>8. PICK g : Lists(g, r, s, P)
  BY <1>7
<1>9. /\ g \in [DOMAIN r -> P] /\ \A k \in DOMAIN r : r[k] = s[g[k]]
      /\ \A i, j \in DOMAIN r : i < j => g[i] < g[j]
      /\ \A j \in P : \E k \in DOMAIN r : g[k] = j
  BY <1>8 DEF Lists
<1>10. PICK R : R = {p \in P \X P : p[1] < p[2]}
  OBVIOUS
<1>11. \A x, y \in P : <<x, y>> \in R <=> x < y
  BY <1>10
<1>12. g \in Seq(P) /\ DOMAIN g = DOMAIN r /\ Arranges(g, P, R)
  <2>1. DOMAIN r = 1 .. Len(r) /\ Len(r) \in Nat
    BY <1>7
  <2>2. g \in Seq(P)
    BY <1>9, <2>1
  <2> QED BY <1>9, <1>11, <2>2 DEF Arranges
<1>13. PICK h : h = [k \in P |-> k]
  OBVIOUS
<1>14. h \in Seq(P) /\ DOMAIN h = P /\ (\A k \in P : h[k] = k) /\ Arranges(h, P, R)
  <2>1. DOMAIN h = P /\ \A k \in P : h[k] = k
    BY <1>13
  <2>2. h \in [1 .. n -> P]
    BY <1>3, <1>13
  <2>3. h \in Seq(P)
    BY <1>3, <2>2
  <2> QED BY <1>11, <2>1, <2>3 DEF Arranges
<1>15. \A x, y \in P : <<x, y>> \in R => <<y, x>> \notin R
  BY <1>3, <1>11
<1>16. g = h
  BY <1>12, <1>14, <1>15, ArrangedOnce
<1>17. DOMAIN r = DOMAIN s /\ \A k \in DOMAIN s : r[k] = s[k]
  BY <1>2, <1>9, <1>12, <1>14, <1>16
<1>18. r = s
  BY <1>1, <1>7, <1>17
<1> QED BY <1>6, <1>18

LEMMA ViewBegins == FilterInit => ViewInv
<1> SUFFICES ASSUME FilterInit PROVE ViewInv
  OBVIOUS
<1>1. view = Everything
  BY DEF FilterInit
<1>2. <<>> \in Seq({})
  OBVIOUS
<1>3. IsList(Everything.people)
  BY <1>2 DEF Everything, IsList
<1> QED BY <1>1, <1>3 DEF ViewInv, Everything

LEMMA ViewStep == ASSUME ViewInv, [FilterNext]_filterVars PROVE ViewInv'
<1> USE DEF ViewInv
<1>e. IsList(<<>>)
  <2>1. <<>> \in Seq({})
    OBVIOUS
  <2> QED BY <2>1 DEF IsList
<1>1. ASSUME NEW next, ChangeQuery(next, view) PROVE ViewInv'
  BY <1>1 DEF ChangeQuery
<1>2. CASE UNCHANGED view
  BY <1>2
<1>3. CASE Reload
  <2>1. view' = ParsedView(Address(view))
    BY <1>3 DEF Reload
  <2>2. PICK a : a = Address(view)
    OBVIOUS
  <2>3. DOMAIN a = DOMAIN view /\ a.people = view.people
    BY <2>2 DEF Address
  <2>4. view' = ParsedView(a)
    BY <2>1, <2>2
  <2>5. DOMAIN view' = DOMAIN a /\ view'.people = Only(a.people, known)
    BY <2>3, <2>4 DEF ParsedView
  <2>6. IsList(Only(view.people, known))
    BY OnlyIsList
  <2> QED BY <2>3, <2>5, <2>6
<1>4. CASE ClearAll
  <2>1. PICK v : v = [view EXCEPT !.team = NoTeam, !.people = <<>>, !.labels = <<>>]
    OBVIOUS
  <2>2. DOMAIN v = DOMAIN view /\ v.people = <<>>
    BY <2>1
  <2>3. ChangeQuery(NoText, v)
    BY <1>4, <2>1 DEF ClearAll
  <2>4. DOMAIN view' = DOMAIN v /\ view'.people = v.people
    BY <2>2, <2>3 DEF ChangeQuery
  <2> QED BY <1>e, <2>2, <2>4
<1>5. ASSUME NEW k, Choose(k) PROVE ViewInv'
  <2>1. CASE field.pending = "none"
    BY <1>1, <1>5, <2>1 DEF Choose
  <2>2. CASE field.pending # "none"
    <3>1. PICK option : view' = CASE field.pending = "team" -> [view EXCEPT !.team = option]
                                  [] field.pending = "member" -> [view EXCEPT !.people = Append(@, option)]
                                  [] OTHER -> [view EXCEPT !.labels = Append(@, option)]
      BY <1>5, <2>2 DEF Choose
    <3>2. IsList(Append(view.people, option))
      BY AppendIsList
    <3>3. CASE field.pending = "team"
      BY <3>1, <3>3
    <3>4. CASE field.pending = "member"
      BY <3>1, <3>2, <3>4
    <3>5. CASE field.pending # "team" /\ field.pending # "member"
      BY <3>1, <3>5
    <3> QED BY <3>3, <3>4, <3>5
  <2> QED BY <2>1, <2>2
<1>6. CASE Backspace
  <2>1. view' = view \/ view' = LastTokenRemoved
    BY <1>6 DEF Backspace
  <2>2. view.people # <<>> => IsList(Front(view.people))
    BY FrontIsList
  <2> QED BY <2>1, <2>2 DEF LastTokenRemoved
<1>7. CASE RemoveToken([view EXCEPT !.team = NoTeam])
  BY <1>7 DEF RemoveToken
<1>8. ASSUME NEW p, RemoveToken([view EXCEPT !.people = Without(@, p)]) PROVE ViewInv'
  <2>1. IsList(Without(view.people, p))
    BY OnlyIsList DEF Without
  <2> QED BY <1>8, <2>1 DEF RemoveToken
<1>9. ASSUME NEW l, RemoveToken([view EXCEPT !.labels = Without(@, l)]) PROVE ViewInv'
  BY <1>9 DEF RemoveToken
<1>10. ASSUME NEW group \in SUBSET ToSet(PeopleList), PickMembers(group) PROVE ViewInv'
  <2>1. PICK people, S : /\ people = Only(view.people, S) \/ people = view.people \o SetToSeq(group \ ToSet(view.people))
                         /\ view' = [view EXCEPT !.people = people]
    BY <1>10 DEF PickMembers, Pick
  <2>2. IsList(Only(view.people, S))
    BY OnlyIsList
  <2>3. IsList(view.people \o SetToSeq(group \ ToSet(view.people)))
    <3>1. group \ ToSet(view.people) \in SUBSET ToSet(PeopleList)
      OBVIOUS
    <3> QED BY <3>1, GroupIsList
  <2>4. IsList(people)
    BY <2>1, <2>2, <2>3
  <2> QED BY <2>1, <2>4
<1>11. ASSUME NEW t, PickTeam(t) PROVE ViewInv'
  BY <1>11 DEF PickTeam, Pick
<1>12. ASSUME NEW l, PickLabel(l) PROVE ViewInv'
  BY <1>12 DEF PickLabel, Pick
<1>13. CASE PickAll
  BY <1>e, <1>13 DEF PickAll, Pick
<1>14. ASSUME NEW text, Settled(text) PROVE ViewInv'
  BY <1>14 DEF Settled
<1>15. ASSUME NEW x, \/ Present([view EXCEPT !.sort = x]) \/ Present([view EXCEPT !.mode = x])
                     \/ Present([view EXCEPT !.scale = x])
       PROVE  ViewInv'
  BY <1>15 DEF Present
<1>16. CASE \/ Reveal \/ Focus \/ Blur \/ Reopen \/ ClosePicker \/ ManageLabels \/ CatalogLands
            \/ \E step \in {1, -1} : Arrow(step)
            \/ \E kind \in ToSet(Categories) : EditToken(kind) \/ OpenPicker(kind)
            \/ OpenPicker("compact")
            \/ \E text \in Texts, kind \in ToSet(Categories) : TypeInPicker(kind, text)
            \/ \E x \in known : Retire(x)
            \/ \E c \in FilterCards, labels \in {{}, ToSet(LabelList)} : Updated(c, labels)
            \/ UNCHANGED filterVars
  <2>1. UNCHANGED view
    BY <1>16 DEF Reveal, Focus, Blur, Reopen, ClosePicker, ManageLabels, CatalogLands, Arrow, EditToken,
         OpenPicker, TypeInPicker, Retire, Updated, News, filterVars
  <2> QED BY <1>2, <2>1
<1>17. CASE ClearSearch \/ Escape \/ \E text \in Texts : Type(text)
  <2>1. UNCHANGED view \/ \E next : ChangeQuery(next, view)
    BY <1>17 DEF ClearSearch, Escape, Type
  <2> QED BY <1>1, <1>2, <2>1
<1>18. CASE Enter
  BY <1>5, <1>18 DEF Enter
<1> QED BY <1>3, <1>4, <1>5, <1>6, <1>7, <1>8, <1>9, <1>10, <1>11, <1>12, <1>13, <1>14, <1>15, <1>16, <1>17, <1>18 DEF FilterNext

\* Loading the page again shows the same cards in the same way, once the typing has
\* settled and while all that is filtered by exists (parseBoardViewState,
\* serializeBoardViewState).
THEOREM ReloadsKeepView == FilterSpec => ReloadKeepsView
<1> DEFINE Same == Reload /\ timers = {}
                   /\ ({view.team} \ {NoTeam}) \cup ToSet(view.people) \cup ToSet(view.labels) \subseteq known
                   => /\ Matching' = Matching /\ typed' = typed
                      /\ view'.sort = view.sort /\ view'.mode = view.mode
                      /\ view.mode = "gantt" => view'.scale = view.scale
<1>1. ASSUME FilterInv, ViewInv, [FilterNext]_filterVars PROVE [Same]_filterVars
  <2> SUFFICES ASSUME Reload, timers = {}, view.team # NoTeam => view.team \in known,
                      ToSet(view.people) \subseteq known, ToSet(view.labels) \subseteq known
               PROVE  /\ Matching' = Matching /\ typed' = typed
                      /\ view'.sort = view.sort /\ view'.mode = view.mode
                      /\ view.mode = "gantt" => view'.scale = view.scale
    OBVIOUS
  <2>1. PICK a : a = Address(view)
    OBVIOUS
  <2>2. /\ DOMAIN a = DOMAIN view /\ a.query = view.query /\ a.team = view.team /\ a.people = view.people
        /\ a.labels = view.labels /\ a.sort = view.sort /\ a.mode = view.mode
        /\ view.mode = "gantt" => a.scale = view.scale
    BY <1>1, <2>1 DEF Address, ViewInv
  <2>3. view' = ParsedView(a) /\ typed' = view'.query /\ UNCHANGED <<known, carried>>
    BY <2>1 DEF Reload
  <2>4. /\ view'.query = a.query /\ view'.labels = a.labels /\ view'.sort = a.sort /\ view'.mode = a.mode
        /\ view'.scale = a.scale /\ view'.people = Only(a.people, known)
        /\ view'.team = IF a.team \in known THEN a.team ELSE NoTeam
    BY <1>1, <2>2, <2>3 DEF ParsedView, ViewInv
  <2>5. view'.team = view.team
    BY <2>2, <2>4
  <2>6. view'.people = view.people
    <3>1. Only(view.people, known) = view.people
      BY <1>1, OnlyAll DEF ViewInv
    <3> QED BY <2>2, <2>4, <3>1
  <2>7. view'.query = view.query /\ view'.labels = view.labels
    BY <2>2, <2>4
  <2>8. AppliedLabels = ToSet(view.labels) /\ AppliedLabels' = ToSet(view.labels)
    BY <2>3, <2>7 DEF AppliedLabels
  <2>9. Matching' = Matching
    BY <2>3, <2>5, <2>6, <2>7, <2>8 DEF Matching
  <2>10. typed' = typed
    BY <1>1, <2>3, <2>7 DEF FilterInv, SearchIsTheTyped
  <2> QED BY <2>2, <2>4, <2>9, <2>10
<1>2. FilterSpec => []FilterInv
  BY FilterBegins, FilterStep, PTL DEF FilterSpec
<1>3. FilterSpec => []ViewInv
  BY ViewBegins, ViewStep, PTL DEF FilterSpec
<1> QED BY <1>1, <1>2, <1>3, PTL DEF FilterSpec, ReloadKeepsView

-----------------------------------------------------------------------------
(* BoardDrag: lists of cards *)

Places == [Iids -> [lane : Lanes, position : Nat]]
Once(order) == order \in Seq(Iids) /\ \A i, j \in DOMAIN order : order[i] = order[j] => i = j

LEMMA PlaceFound ==
    ASSUME NEW order, Once(order)
    PROVE  /\ \A k \in DOMAIN order : Holds(order, order[k]) /\ PlaceIn(order, order[k]) = k
           /\ \A c : Holds(order, c) => PlaceIn(order, c) \in DOMAIN order /\ order[PlaceIn(order, c)] = c
<1>1. DOMAIN order = 1 .. Len(order)
  BY DEF Once
<1>2. \A c : Holds(order, c) => PlaceIn(order, c) \in DOMAIN order /\ order[PlaceIn(order, c)] = c
  BY <1>1 DEF Holds, PlaceIn
<1>3. \A k \in DOMAIN order : Holds(order, order[k])
  BY <1>1 DEF Holds
<1> QED BY <1>2, <1>3 DEF Once

\* Only leaves two elements in their order.
LEMMA OnlyInOrder ==
    ASSUME NEW A, NEW list \in Seq(A), NEW S, NEW i \in DOMAIN list, NEW j \in DOMAIN list, i < j,
           list[i] \in S, list[j] \in S
    PROVE  \E a, b \in DOMAIN Only(list, S) : a < b /\ Only(list, S)[a] = list[i] /\ Only(list, S)[b] = list[j]
<1> DEFINE P == {k \in DOMAIN list : list[k] \in S}
           r == KeepPlaces(list, P)
<1>1. P \in SUBSET DOMAIN list /\ i \in P /\ j \in P
  OBVIOUS
<1>2. r \in Seq(A) /\ \E g : Lists(g, r, list, P)
  <2> HIDE DEF P
  <2> QED BY <1>1, KeptPlaces
<1>3. PICK g : Lists(g, r, list, P)
  BY <1>2
<1>4. Only(list, S) = r
  BY DEF Only
<1> HIDE DEF r, P
<1>5. PICK a \in DOMAIN r : g[a] = i
  BY <1>1, <1>3 DEF Lists
<1>6. PICK b \in DOMAIN r : g[b] = j
  BY <1>1, <1>3 DEF Lists
<1>7. a < b
  <2>1. a \in Nat /\ b \in Nat /\ i \in Nat /\ j \in Nat
    BY <1>2
  <2>2. CASE b < a
    BY <2>1, <2>2, <1>3, <1>5, <1>6 DEF Lists
  <2>3. CASE a = b
    BY <2>1, <2>3, <1>5, <1>6
  <2> QED BY <2>1, <2>2, <2>3
<1>8. r[a] = list[i] /\ r[b] = list[j]
  BY <1>3, <1>5, <1>6 DEF Lists
<1> QED BY <1>4, <1>7, <1>8

\* A list that has the elements of order that are in S, in the same order.
LEMMA OnlyIs ==
    ASSUME NEW order, Once(order), NEW s, Once(s), NEW S,
           \A c \in Iids : Holds(s, c) <=> Holds(order, c) /\ c \in S,
           \A i, j \in DOMAIN s : i < j => PlaceIn(order, s[i]) < PlaceIn(order, s[j])
    PROVE  Only(order, S) = s
<1> DEFINE A == {c \in Iids : Holds(order, c)}
           R == {p \in A \X A : PlaceIn(order, p[1]) < PlaceIn(order, p[2])}
<1>1. \A c \in A : PlaceIn(order, c) \in Nat
  BY PlaceFound DEF Once
<1>2. order \in Seq(A) /\ Arranges(order, A, R)
  <2>1. \A k \in DOMAIN order : order[k] \in A /\ PlaceIn(order, order[k]) = k
    BY PlaceFound DEF Once
  <2>2. \A c \in A : \E k \in DOMAIN order : order[k] = c
    BY PlaceFound
  <2>3. order \in Seq(A)
    BY <2>1 DEF Once
  <2>4. \A i, j \in DOMAIN order : i < j => <<order[i], order[j]>> \in R
    BY <2>1
  <2> HIDE DEF A, R
  <2> QED BY <2>1, <2>2, <2>3, <2>4 DEF Arranges
<1>3. s \in Seq(A \cap S) /\ Arranges(s, A \cap S, R)
  <2>1. \A k \in DOMAIN s : s[k] \in A \cap S
    <3> TAKE k \in DOMAIN s
    <3>1. s[k] \in Iids /\ Holds(s, s[k])
      BY PlaceFound DEF Once
    <3> QED BY <3>1
  <2>2. \A c \in A \cap S : \E k \in DOMAIN s : s[k] = c
    BY PlaceFound
  <2>3. s \in Seq(A \cap S)
    BY <2>1 DEF Once
  <2>4. \A i, j \in DOMAIN s : i < j => <<s[i], s[j]>> \in R
    BY <2>1
  <2> HIDE DEF A, R
  <2> QED BY <2>1, <2>2, <2>3, <2>4 DEF Arranges
<1>4. \A x, y \in A \cap S : <<x, y>> \in R => <<y, x>> \notin R
  BY <1>1
<1> HIDE DEF A, R
<1>5. Only(order, S) \in Seq(A \cap S) /\ Arranges(Only(order, S), A \cap S, R)
  BY <1>2, OnlyArranges
<1> QED BY <1>3, <1>4, <1>5, ArrangedOnce

-----------------------------------------------------------------------------
(* BoardDrag: the manual order *)

LEMMA ManualStrict ==
    ASSUME NEW at \in Places, NEW cards \in SUBSET Iids, NEW lane
    PROVE  IsFiniteSet(InLane(at, cards, lane)) /\ Strict(InLane(at, cards, lane), ManualBefore(at))
<1>1. \A c \in Iids : at[c].position \in Nat /\ c \in Nat
  BY DragAssumption DEF Places, DragAssumption
<1>2. IsFiniteSet(InLane(at, cards, lane))
  BY DragAssumption, FS_Subset DEF DragAssumption, InLane
<1>3. InLane(at, cards, lane) \subseteq Iids
  BY DEF InLane
<1>4. \A x, y \in Iids : <<x, y>> \in ManualBefore(at) <=>
          \/ at[x].position < at[y].position
          \/ at[x].position = at[y].position /\ x < y
  BY DEF ManualBefore
<1>5. Strict(Iids, ManualBefore(at))
  <2>1. \A x, y \in Iids : <<x, y>> \in ManualBefore(at) => <<y, x>> \notin ManualBefore(at)
    BY <1>1, <1>4
  <2>2. \A x, y, z \in Iids : <<x, y>> \in ManualBefore(at) /\ <<y, z>> \in ManualBefore(at)
                              => <<x, z>> \in ManualBefore(at)
    BY <1>1, <1>4
  <2>3. \A x, y \in Iids : x # y => <<x, y>> \in ManualBefore(at) \/ <<y, x>> \in ManualBefore(at)
    BY <1>1, <1>4
  <2> QED BY <2>1, <2>2, <2>3 DEF Strict
<1> QED BY <1>2, <1>3, <1>5 DEF Strict

LEMMA ManualArranges ==
    ASSUME NEW at \in Places, NEW cards \in SUBSET Iids, NEW lane
    PROVE  LET order == ManualOrder(at, cards, lane)
           IN  /\ order \in Seq(InLane(at, cards, lane))
               /\ Arranges(order, InLane(at, cards, lane), ManualBefore(at))
               /\ Once(order) /\ \A c : Holds(order, c) <=> c \in cards /\ at[c].lane = lane
<1> DEFINE order == ManualOrder(at, cards, lane)
           S == InLane(at, cards, lane)
<1>1. Strict(S, ManualBefore(at)) /\ order \in Seq(S) /\ Arranges(order, S, ManualBefore(at))
  <2> HIDE DEF S
  <2>1. IsFiniteSet(S) /\ Strict(S, ManualBefore(at))
    BY ManualStrict DEF S
  <2> QED BY <2>1, SortedArranges DEF ManualOrder, S
<1>2. S \subseteq Iids /\ \A c : c \in S <=> c \in cards /\ at[c].lane = lane
  BY DEF InLane
<1> HIDE DEF S, order
<1>3. order \in Seq(Iids) /\ DOMAIN order = 1 .. Len(order)
  BY <1>1, <1>2
<1>4. ASSUME NEW i \in DOMAIN order, NEW j \in DOMAIN order, order[i] = order[j] PROVE i = j
  <2>1. i \in Int /\ j \in Int /\ order[i] \in S
    BY <1>1, <1>3
  <2>2. ~(i < j) /\ ~(j < i)
    BY <2>1, <1>1, <1>4 DEF Arranges, Strict
  <2> QED BY <2>1, <2>2
<1>5. \A c : Holds(order, c) <=> c \in S
  BY <1>1, <1>3 DEF Holds, Arranges
<1>6. Once(order)
  BY <1>3, <1>4 DEF Once
<1> QED BY <1>1, <1>2, <1>5, <1>6 DEF S, order

LEMMA ManualIs ==
    ASSUME NEW at \in Places, NEW cards \in SUBSET Iids, NEW lane, NEW list, Once(list),
           \A c \in Iids : Holds(list, c) <=> c \in cards /\ at[c].lane = lane,
           \A i, j \in DOMAIN list : i < j => <<list[i], list[j]>> \in ManualBefore(at)
    PROVE  ManualOrder(at, cards, lane) = list
<1>1. IsFiniteSet(InLane(at, cards, lane)) /\ Strict(InLane(at, cards, lane), ManualBefore(at))
  BY ManualStrict
<1>2. \A k \in DOMAIN list : list[k] \in InLane(at, cards, lane)
  BY PlaceFound DEF InLane, Once
<1>3. \A c \in InLane(at, cards, lane) : \E k \in DOMAIN list : list[k] = c
  BY PlaceFound DEF InLane
<1>4. list \in Seq(InLane(at, cards, lane))
  BY <1>2 DEF Once
<1>5. Arranges(list, InLane(at, cards, lane), ManualBefore(at))
  BY <1>2, <1>3 DEF Arranges
<1> QED BY <1>1, <1>4, <1>5, SortedIs DEF ManualOrder

\* The order is that of the positions: whoever agrees on them agrees on it.
LEMMA SameOrder ==
    ASSUME NEW at \in Places, NEW to \in Places, NEW cards \in SUBSET Iids, NEW lane,
           \A c \in cards : at[c].lane = lane <=> to[c].lane = lane,
           \A c \in cards : at[c].lane = lane => at[c].position = to[c].position
    PROVE  ManualOrder(to, cards, lane) = ManualOrder(at, cards, lane)
<1> DEFINE order == ManualOrder(at, cards, lane)
<1>1. /\ Once(order) /\ \A c : Holds(order, c) <=> c \in cards /\ at[c].lane = lane
      /\ \A i, j \in DOMAIN order : i < j => <<order[i], order[j]>> \in ManualBefore(at)
  BY ManualArranges DEF Arranges
<1> HIDE DEF order
<1>2. \A k \in DOMAIN order : order[k] \in Iids /\ at[order[k]].position = to[order[k]].position
  BY <1>1, PlaceFound
<1>3. \A i, j \in DOMAIN order : i < j => <<order[i], order[j]>> \in ManualBefore(to)
  BY <1>1, <1>2 DEF ManualBefore
<1> QED BY <1>1, <1>3, ManualIs DEF order

LEMMA OnlyManual ==
    ASSUME NEW at \in Places, NEW cards \in SUBSET Iids, NEW lane, NEW S
    PROVE  Only(ManualOrder(at, cards, lane), S) = ManualOrder(at, cards \cap S, lane)
<1> DEFINE A == InLane(at, cards, lane)
           order == ManualOrder(at, cards, lane)
<1>1. order \in Seq(A) /\ Arranges(order, A, ManualBefore(at))
  BY ManualArranges
<1>2. A \cap S = InLane(at, cards \cap S, lane)
  BY DEF InLane
<1>3. Only(order, S) \in Seq(A \cap S) /\ Arranges(Only(order, S), A \cap S, ManualBefore(at))
  <2> HIDE DEF A, order
  <2> QED BY <1>1, OnlyArranges
<1>4. /\ IsFiniteSet(InLane(at, cards \cap S, lane))
      /\ Strict(InLane(at, cards \cap S, lane), ManualBefore(at))
  BY ManualStrict
<1> QED BY <1>2, <1>3, <1>4, SortedIs DEF ManualOrder

-----------------------------------------------------------------------------
(* BoardDrag: numbering and inserting *)

LEMMA NumberedPlaces ==
    ASSUME NEW at \in Places, NEW lane \in Lanes, NEW order, Once(order)
    PROVE  /\ Numbered(at, lane, order) \in Places
           /\ \A k \in DOMAIN order : Numbered(at, lane, order)[order[k]] = [lane |-> lane, position |-> k - 1]
           /\ \A c \in Iids : ~Holds(order, c) => Numbered(at, lane, order)[c] = at[c]
<1>1. \A k \in DOMAIN order : /\ order[k] \in Iids /\ k - 1 \in Nat
                              /\ Holds(order, order[k]) /\ PlaceIn(order, order[k]) = k
  BY PlaceFound DEF Once
<1>2. \A c : Holds(order, c) => PlaceIn(order, c) - 1 \in Nat
  BY <1>1, PlaceFound
<1> QED BY <1>1, <1>2 DEF Numbered, Places

LEMMA NumberedOrder ==
    ASSUME NEW at \in Places, NEW lane \in Lanes, NEW order, Once(order), NEW cards \in SUBSET Iids,
           \A c \in Iids : Holds(order, c) => c \in cards,
           \A c \in cards : at[c].lane = lane => Holds(order, c)
    PROVE  ManualOrder(Numbered(at, lane, order), cards, lane) = order
<1> DEFINE to == Numbered(at, lane, order)
<1>1. /\ to \in Places
      /\ \A k \in DOMAIN order : to[order[k]] = [lane |-> lane, position |-> k - 1]
      /\ \A c \in Iids : ~Holds(order, c) => to[c] = at[c]
  BY NumberedPlaces
<1> HIDE DEF to
<1>2. \A k \in DOMAIN order : order[k] \in Iids /\ to[order[k]].lane = lane /\ to[order[k]].position = k - 1
  <2> TAKE k \in DOMAIN order
  <2>1. order[k] \in Iids
    BY DEF Once
  <2>2. to[order[k]] = [lane |-> lane, position |-> k - 1]
    BY <1>1
  <2> QED BY <2>1, <2>2
<1>3. \A c \in Iids : Holds(order, c) <=> c \in cards /\ to[c].lane = lane
  <2> TAKE c \in Iids
  <2>1. CASE Holds(order, c)
    BY <2>1, <1>2, PlaceFound
  <2>2. CASE ~Holds(order, c)
    BY <2>2, <1>1
  <2> QED BY <2>1, <2>2
<1>4. \A i, j \in DOMAIN order : i < j => <<order[i], order[j]>> \in ManualBefore(to)
  <2> SUFFICES ASSUME NEW i \in DOMAIN order, NEW j \in DOMAIN order, i < j
               PROVE  <<order[i], order[j]>> \in ManualBefore(to)
    OBVIOUS
  <2>1. to[order[i]].position < to[order[j]].position
    BY <1>2 DEF Once
  <2> QED BY <1>2, <2>1 DEF ManualBefore
<1> QED BY <1>1, <1>3, <1>4, ManualIs DEF to

\* The order has c behind the first q cards of rest.
Puts(order, rest, q, c) ==
    /\ Once(order) /\ Len(order) = Len(rest) + 1
    /\ order[q + 1] = c
    /\ \A k \in DOMAIN rest : /\ k <= q => order[k] = rest[k]
                              /\ k > q => order[k + 1] = rest[k]
    /\ \A d : Holds(order, d) <=> d = c \/ Holds(rest, d)

LEMMA InsertedPlaces ==
    ASSUME NEW rest, Once(rest), NEW c \in Iids, ~Holds(rest, c), NEW p \in Nat
    PROVE  \E q \in 0 .. Len(rest) : (p <= Len(rest) => q = p) /\ Puts(Inserted(rest, p, c), rest, q, c)
<1>0. PICK q, order : q = (IF p > Len(rest) THEN Len(rest) ELSE p) /\ order = Inserted(rest, p, c)
  OBVIOUS
<1>1. rest \in Seq(Iids) /\ Len(rest) \in Nat /\ DOMAIN rest = 1 .. Len(rest) /\ q \in 0 .. Len(rest)
  BY <1>0 DEF Once
<1>2. order = InsertAt(rest, q + 1, c)
  BY <1>0 DEF Inserted
<1>3. /\ order \in Seq(Iids) /\ Len(order) = Len(rest) + 1
      /\ \A k \in 1 .. Len(rest) + 1 : order[k] = IF k <= q THEN rest[k] ELSE IF k = q + 1 THEN c ELSE rest[k - 1]
  <2>1. order = SubSeq(rest, 1, q) \o <<c>> \o SubSeq(rest, q + 1, Len(rest))
    <3>1. (q + 1) - 1 = q
      BY <1>1
    <3> QED BY <1>2, <3>1 DEF InsertAt
  <2>2. /\ SubSeq(rest, 1, q) \in Seq(Iids) /\ Len(SubSeq(rest, 1, q)) = q
        /\ \A k \in 1 .. q : SubSeq(rest, 1, q)[k] = rest[k]
    BY <1>1
  <2>3. /\ SubSeq(rest, q + 1, Len(rest)) \in Seq(Iids) /\ Len(SubSeq(rest, q + 1, Len(rest))) = Len(rest) - q
        /\ \A k \in 1 .. Len(rest) - q : SubSeq(rest, q + 1, Len(rest))[k] = rest[q + k]
    <3>1. PICK n : n = Len(rest)
      OBVIOUS
    <3>2. /\ SubSeq(rest, q + 1, n) \in Seq(Iids) /\ Len(SubSeq(rest, q + 1, n)) = n - q
          /\ \A k \in 1 .. n - q : SubSeq(rest, q + 1, n)[k] = rest[q + k]
      BY <1>1, <3>1
    <3> QED BY <3>1, <3>2
  <2>4. PICK a, b : a = SubSeq(rest, 1, q) /\ b = SubSeq(rest, q + 1, Len(rest))
    OBVIOUS
  <2>5. a \in Seq(Iids) /\ Len(a) = q /\ b \in Seq(Iids) /\ Len(b) = Len(rest) - q /\ order = a \o <<c>> \o b
    BY <2>1, <2>2, <2>3, <2>4
  <2>6. order \in Seq(Iids) /\ Len(order) = Len(rest) + 1
    BY <2>5, <1>1
  <2>7. \A k \in 1 .. Len(rest) + 1 : order[k] = IF k <= q THEN a[k] ELSE IF k = q + 1 THEN c ELSE b[k - q - 1]
    BY <2>5, <1>1
  <2>8. \A k \in 1 .. Len(rest) + 1 : k > q + 1 => k - q - 1 \in 1 .. Len(rest) - q /\ q + (k - q - 1) = k - 1
    BY <1>1
  <2>9. ASSUME NEW k \in 1 .. Len(rest) + 1
        PROVE  order[k] = IF k <= q THEN rest[k] ELSE IF k = q + 1 THEN c ELSE rest[k - 1]
    <3>1. CASE k <= q
      <4>1. k \in 1 .. q
        BY <1>1, <3>1
      <4>2. order[k] = a[k] /\ a[k] = rest[k]
        BY <2>2, <2>4, <2>7, <3>1, <4>1
      <4> QED BY <3>1, <4>2
    <3>2. CASE ~(k <= q) /\ k # q + 1
      <4>1. k > q + 1
        BY <1>1, <3>2
      <4>2. order[k] = b[k - q - 1] /\ k - q - 1 \in 1 .. Len(rest) - q /\ q + (k - q - 1) = k - 1
        BY <2>7, <2>8, <3>2, <4>1
      <4>3. b[k - q - 1] = rest[q + (k - q - 1)]
        BY <2>3, <2>4, <4>2
      <4> QED BY <3>2, <4>2, <4>3
    <3> QED BY <2>7, <3>1, <3>2
  <2> QED BY <2>6, <2>9
<1>4. DOMAIN order = 1 .. Len(rest) + 1
  BY <1>3
<1>q. q \in Int /\ q >= 0 /\ q <= Len(rest) /\ Len(rest) \in Int /\ Len(order) = Len(rest) + 1
  BY <1>1, <1>3
<1>5. \A k \in DOMAIN rest : rest[k] # c
  BY <1>1 DEF Holds
<1>6. ASSUME NEW i \in DOMAIN order, NEW j \in DOMAIN order, order[i] = order[j] PROVE i = j
  <2> DEFINE From(m, n) == order[m] = rest[n] /\ ((n <= q /\ m = n) \/ (n > q /\ m = n + 1))
  <2>1. ASSUME NEW m \in DOMAIN order PROVE (m = q + 1 /\ order[m] = c) \/ \E n \in DOMAIN rest : From(m, n)
    <3>1. m \in 1 .. Len(rest) + 1 /\ m \in Int
      BY <1>4, <1>q
    <3>2. CASE m <= q
      <4>1. m \in DOMAIN rest /\ order[m] = rest[m]
        BY <1>1, <1>3, <1>q, <3>1, <3>2
      <4> QED BY <4>1, <3>2
    <3>3. CASE m = q + 1
      <4>1. order[m] = c
        BY <1>3, <1>q, <3>1, <3>3
      <4> QED BY <4>1, <3>3
    <3>4. CASE m > q + 1
      <4>1. m - 1 \in DOMAIN rest /\ order[m] = rest[m - 1]
        BY <1>1, <1>3, <1>q, <3>1, <3>4
      <4>2. m - 1 > q /\ m = (m - 1) + 1
        BY <1>q, <3>1, <3>4
      <4> QED BY <4>1, <4>2
    <3> QED BY <1>q, <3>1, <3>2, <3>3, <3>4
  <2>2. \A k, m \in DOMAIN rest : rest[k] = rest[m] => k = m
    BY DEF Once
  <2>3. CASE i = q + 1 /\ order[i] = c
    BY <1>5, <1>6, <2>1, <2>3
  <2>4. CASE j = q + 1 /\ order[j] = c
    BY <1>5, <1>6, <2>1, <2>4
  <2>5. CASE (\E n \in DOMAIN rest : From(i, n)) /\ \E n \in DOMAIN rest : From(j, n)
    <3>1. PICK n \in DOMAIN rest : From(i, n)
      BY <2>5
    <3>2. PICK m \in DOMAIN rest : From(j, m)
      BY <2>5
    <3>3. n = m
      BY <1>6, <2>2, <3>1, <3>2
    <3> QED BY <1>1, <1>q, <3>1, <3>2, <3>3
  <2> HIDE DEF From
  <2> QED BY <2>1, <2>3, <2>4, <2>5
<1>7. /\ order[q + 1] = c
      /\ \A k \in DOMAIN rest : /\ k <= q => order[k] = rest[k]
                                /\ k > q => order[k + 1] = rest[k]
  BY <1>1, <1>3
<1>8. \A d : Holds(order, d) <=> d = c \/ Holds(rest, d)
  <2> TAKE d
  <2>1. ASSUME Holds(order, d) PROVE d = c \/ Holds(rest, d)
    <3>1. PICK k \in 1 .. Len(rest) + 1 : order[k] = d
      BY <2>1, <1>3 DEF Holds
    <3>2. \A m \in 1 .. Len(rest) : Holds(rest, rest[m])
      BY DEF Holds
    <3>3. k <= q => k \in 1 .. Len(rest)
      BY <3>1, <1>q
    <3>4. k > q + 1 => k - 1 \in 1 .. Len(rest)
      BY <3>1, <1>q
    <3>5. k <= q \/ k = q + 1 \/ k > q + 1
      BY <3>1, <1>q
    <3> QED BY <3>1, <3>2, <3>3, <3>4, <3>5, <1>1, <1>3
  <2>2. ASSUME Holds(rest, d) PROVE Holds(order, d)
    <3>1. PICK k \in DOMAIN rest : rest[k] = d
      BY <2>2, <1>1 DEF Holds
    <3>2. k \in 1 .. Len(order) /\ k + 1 \in 1 .. Len(order)
      <4>1. Len(order) = Len(rest) + 1
        BY <1>3
      <4>2. k \in 1 .. Len(rest)
        BY <1>1
      <4> QED BY <4>1, <4>2, <1>1
    <3>3. k <= q \/ k > q
      <4>1. k \in Int
        BY <1>1
      <4> QED BY <4>1, <1>q
    <3>4. order[k] = d \/ order[k + 1] = d
      BY <3>1, <3>3, <1>7
    <3> QED BY <3>2, <3>4 DEF Holds
  <2>3. Holds(order, c)
    <3>1. q + 1 \in 1 .. Len(order)
      BY <1>q
    <3> QED BY <3>1, <1>7 DEF Holds
  <2> QED BY <2>1, <2>2, <2>3
<1>9. Once(order)
  BY <1>3, <1>6 DEF Once
<1>10. Puts(order, rest, q, c)
  BY <1>3, <1>7, <1>8, <1>9 DEF Puts
<1>11. p <= Len(rest) => q = p
  <2>1. Len(rest) \in Nat
    BY <1>1
  <2> QED BY <1>0, <2>1
<1>12. q \in 0 .. Len(rest) /\ Puts(Inserted(rest, p, c), rest, q, c)
  BY <1>0, <1>1, <1>10
<1> QED BY <1>11, <1>12

LEMMA OnlyInserted ==
    ASSUME NEW rest, Once(rest), NEW c \in Iids, ~Holds(rest, c), NEW p \in Nat
    PROVE  Only(Inserted(rest, p, c), Iids \ {c}) = rest
<1>1. PICK q \in 0 .. Len(rest) : Puts(Inserted(rest, p, c), rest, q, c)
  BY InsertedPlaces
<1> DEFINE order == Inserted(rest, p, c)
<1>2. /\ Once(order) /\ Len(order) = Len(rest) + 1
      /\ \A k \in DOMAIN rest : /\ k <= q => order[k] = rest[k]
                                /\ k > q => order[k + 1] = rest[k]
      /\ \A d : Holds(order, d) <=> d = c \/ Holds(rest, d)
  BY <1>1 DEF Puts
<1> HIDE DEF order
<1>3. DOMAIN rest = 1 .. Len(rest) /\ DOMAIN order = 1 .. Len(rest) + 1 /\ Len(rest) \in Nat
  BY <1>2 DEF Once
<1>4. \A k \in DOMAIN rest : PlaceIn(order, rest[k]) = IF k <= q THEN k ELSE k + 1
  <2> TAKE k \in DOMAIN rest
  <2>1. k \in DOMAIN order /\ k + 1 \in DOMAIN order
    BY <1>3
  <2>2. PlaceIn(order, order[k]) = k /\ PlaceIn(order, order[k + 1]) = k + 1
    BY <1>2, <2>1, PlaceFound
  <2> QED BY <1>2, <1>3, <2>2
<1>5. \A i, j \in DOMAIN rest : i < j => PlaceIn(order, rest[i]) < PlaceIn(order, rest[j])
  BY <1>2, <1>3, <1>4
<1>6. \A d \in Iids : Holds(rest, d) <=> Holds(order, d) /\ d \in Iids \ {c}
  BY <1>2
<1> QED BY <1>2, <1>5, <1>6, OnlyIs DEF order

-----------------------------------------------------------------------------
(* BoardDrag: the preview *)

Move == [card : Iids, lane : Lanes, position : Nat \cup {-1}, order : Seq(Iids), straight : BOOLEAN,
         at : {"sent", "done"}]

\* The card that is dragged is in one of the groups; the others stand in each group as
\* they do on the board.
Previews(groups, c) ==
    /\ groups \in [Lanes -> Seq(Iids)]
    /\ \E l \in Lanes : Holds(groups[l], c)
    /\ sortMode = "manual" =>
           /\ \A l \in Lanes : /\ Once(groups[l])
                               /\ Only(groups[l], Iids \ {c}) = ManualOrder(board, Visible \ {c}, l)
           /\ \A l, m \in Lanes : Holds(groups[l], c) /\ Holds(groups[m], c) => l = m

DragInv ==
    /\ rows \in Places /\ board \in Places /\ asked \in Seq(Move)
    /\ hiddenCards \subseteq Iids /\ sortMode \in {"manual", "due"} /\ straight \in BOOLEAN
    /\ drag # NoDrag => /\ DOMAIN drag = {"card", "from", "initial", "groups"}
                        /\ drag.card \in Visible
                        /\ Previews(drag.groups, drag.card) /\ Previews(drag.initial, drag.card)

LEMMA SomeCards == Shown \subseteq Iids /\ Visible \subseteq Shown
BY DEF Shown, Visible

LEMMA DueArranges ==
    ASSUME NEW at, NEW cards \in SUBSET Iids, NEW lane
    PROVE  /\ DueOrder(at, cards, lane) \in Seq(Iids)
           /\ \A c \in cards : at[c].lane = lane => Holds(DueOrder(at, cards, lane), c)
<1> DEFINE S == InLane(at, cards, lane)
           order == DueOrder(at, cards, lane)
<1>1. S \subseteq Iids /\ IsFiniteSet(S) /\ \A c : c \in S <=> c \in cards /\ at[c].lane = lane
  <2>1. S \subseteq Iids /\ \A c : c \in S <=> c \in cards /\ at[c].lane = lane
    BY DEF InLane
  <2> QED BY <2>1, DragAssumption, FS_Subset DEF DragAssumption
<1>2. Strict(S, DueBefore)
  <2>1. \A x \in S : x \in Nat /\ x \in Iids
    BY <1>1, DragAssumption DEF DragAssumption
  <2> HIDE DEF S
  <2>2. \A x, y \in S : <<x, y>> \in DueBefore <=> x < y
    BY <2>1 DEF DueBefore
  <2> QED BY <2>1, <2>2 DEF Strict
<1>3. order \in Seq(S) /\ Arranges(order, S, DueBefore)
  <2> HIDE DEF S
  <2> QED BY <1>1, <1>2, SortedArranges DEF DueOrder, S
<1> HIDE DEF S, order
<1>4. order \in Seq(Iids) /\ DOMAIN order = 1 .. Len(order)
  BY <1>1, <1>3
<1>5. \A c \in S : Holds(order, c)
  BY <1>3, <1>4 DEF Holds, Arranges
<1> QED BY <1>1, <1>4, <1>5 DEF order

\* A drag begins with the groups that are shown, and under another sort than the manual
\* one it shows the sorted groups of a board with the card in another lane.
LEMMA GroupsPreview ==
    ASSUME board \in Places, NEW at \in Places, NEW c \in Visible, at[c].lane \in Lanes,
           sortMode = "manual" => at = board, sortMode \in {"manual", "due"}
    PROVE  Previews(Groups(at), c)
<1>1. Visible \subseteq Iids /\ c \in Iids
  BY SomeCards
<1>2. CASE sortMode = "manual"
  <2>1. \A l \in Lanes : Groups(at)[l] = ManualOrder(board, Visible, l)
    BY <1>2 DEF Groups
  <2>2. ASSUME NEW l \in Lanes
        PROVE  /\ Once(ManualOrder(board, Visible, l))
               /\ Holds(ManualOrder(board, Visible, l), c) <=> board[c].lane = l
    BY <1>1, ManualArranges
  <2>3. ASSUME NEW l \in Lanes
        PROVE  Only(ManualOrder(board, Visible, l), Iids \ {c}) = ManualOrder(board, Visible \ {c}, l)
    <3>1. Visible \cap (Iids \ {c}) = Visible \ {c}
      BY <1>1
    <3> QED BY <1>1, <3>1, OnlyManual
  <2>4. Groups(at) \in [Lanes -> Seq(Iids)]
    <3>1. \A l \in Lanes : Groups(at)[l] \in Seq(Iids)
      BY <2>1, <2>2 DEF Once
    <3> QED BY <3>1 DEF Groups
  <2> QED BY <1>2, <2>1, <2>2, <2>3, <2>4 DEF Previews
<1>3. CASE sortMode # "manual"
  <2>1. \A l \in Lanes : Groups(at)[l] = DueOrder(at, Visible, l)
    BY <1>3 DEF Groups
  <2>2. \A l \in Lanes : DueOrder(at, Visible, l) \in Seq(Iids)
    BY <1>1, DueArranges
  <2>3. Holds(DueOrder(at, Visible, at[c].lane), c)
    BY <1>1, DueArranges
  <2>4. Groups(at) \in [Lanes -> Seq(Iids)]
    BY <2>1, <2>2 DEF Groups
  <2> QED BY <1>3, <2>1, <2>3, <2>4 DEF Previews
<1> QED BY <1>2, <1>3

LEMMA PlacesMove ==
    ASSUME NEW at \in Places, NEW c \in Iids, NEW lane \in Lanes
    PROVE  [at EXCEPT ![c].lane = lane] \in Places /\ [at EXCEPT ![c].lane = lane][c].lane = lane
BY DEF Places

\* Under the manual sort the card goes where it is held.
LEMMA HeldPreview ==
    ASSUME board \in Places, sortMode = "manual", NEW c \in Visible, NEW groups, Previews(groups, c),
           NEW lane \in Lanes, NEW k \in Nat
    PROVE  Previews([[l \in Lanes |-> Only(groups[l], Iids \ {c})] EXCEPT ![lane] = Inserted(@, k, c)], c)
<1>1. c \in Iids /\ Visible \ {c} \in SUBSET Iids /\ (Visible \ {c}) \cap (Iids \ {c}) = Visible \ {c}
  BY SomeCards
<1>2. PICK without : without = [l \in Lanes |-> Only(groups[l], Iids \ {c})]
  OBVIOUS
<1>3. PICK moved : moved = [without EXCEPT ![lane] = Inserted(@, k, c)]
  OBVIOUS
<1>4. ASSUME NEW l \in Lanes
      PROVE  /\ without[l] = ManualOrder(board, Visible \ {c}, l)
             /\ Once(without[l]) /\ ~Holds(without[l], c)
             /\ Only(without[l], Iids \ {c}) = without[l]
  <2>1. without[l] = ManualOrder(board, Visible \ {c}, l)
    BY <1>2 DEF Previews
  <2>2. Once(without[l]) /\ ~Holds(without[l], c)
    <3>1. /\ Once(ManualOrder(board, Visible \ {c}, l))
          /\ Holds(ManualOrder(board, Visible \ {c}, l), c) <=> c \in Visible \ {c} /\ board[c].lane = l
      BY <1>1, ManualArranges
    <3> QED BY <2>1, <3>1
  <2>3. Only(ManualOrder(board, Visible \ {c}, l), Iids \ {c}) = ManualOrder(board, Visible \ {c}, l)
    <3>1. Only(ManualOrder(board, Visible \ {c}, l), Iids \ {c})
              = ManualOrder(board, (Visible \ {c}) \cap (Iids \ {c}), l)
      BY <1>1, OnlyManual
    <3> QED BY <1>1, <3>1
  <2> QED BY <2>1, <2>2, <2>3
<1>5. /\ moved = [l \in Lanes |-> moved[l]] /\ moved[lane] = Inserted(without[lane], k, c)
      /\ \A l \in Lanes : l # lane => moved[l] = without[l]
  BY <1>2, <1>3
<1>6. PICK q \in 0 .. Len(without[lane]) : Puts(moved[lane], without[lane], q, c)
  BY <1>1, <1>4, <1>5, InsertedPlaces
<1>7. Once(moved[lane]) /\ Holds(moved[lane], c)
  BY <1>6 DEF Puts
<1>8. Only(moved[lane], Iids \ {c}) = without[lane]
  BY <1>1, <1>4, <1>5, OnlyInserted
<1>9. \A l \in Lanes : Once(moved[l]) /\ Only(moved[l], Iids \ {c}) = ManualOrder(board, Visible \ {c}, l)
  BY <1>4, <1>5, <1>7, <1>8
<1>10. moved \in [Lanes -> Seq(Iids)]
  <2>1. \A l \in Lanes : moved[l] \in Seq(Iids)
    BY <1>9 DEF Once
  <2> QED BY <1>5, <2>1
<1>11. \A l, m \in Lanes : Holds(moved[l], c) /\ Holds(moved[m], c) => l = m
  BY <1>4, <1>5
<1>12. Previews(moved, c)
  BY <1>7, <1>9, <1>10, <1>11 DEF Previews
<1> QED BY <1>2, <1>3, <1>12

\* The card is held over a lane.
LEMMA OverKeeps ==
    ASSUME DragInv, NEW lane \in Lanes, NEW k \in Nat, OnDragOver(lane, k)
    PROVE  DragInv'
<1>0. PICK c : c = drag.card
  OBVIOUS
<1>1. /\ drag # NoDrag /\ c \in Visible /\ c \in Iids /\ board \in Places
      /\ DOMAIN drag = {"card", "from", "initial", "groups"}
      /\ Previews(drag.groups, c) /\ Previews(drag.initial, c) /\ sortMode \in {"manual", "due"}
  BY <1>0, SomeCards DEF DragInv, OnDragOver
<1>2. UNCHANGED <<rows, leaving, gone, board, hiddenCards, sortMode, asked, straight>>
  BY DEF OnDragOver
<1>3. PICK groups : Previews(groups, c) /\ drag' = [drag EXCEPT !.groups = groups]
  <2>1. CASE sortMode = "manual"
    <3>1. drag' = [drag EXCEPT !.groups =
                      [[l \in Lanes |-> Only(drag.groups[l], Iids \ {c})] EXCEPT ![lane] = Inserted(@, k, c)]]
      BY <1>0, <2>1 DEF OnDragOver
    <3>2. Previews([[l \in Lanes |-> Only(drag.groups[l], Iids \ {c})] EXCEPT ![lane] = Inserted(@, k, c)], c)
      BY <1>1, <2>1, HeldPreview
    <3> QED BY <3>1, <3>2
  <2>2. CASE sortMode # "manual" /\ lane = drag.from
    <3>1. drag' = [drag EXCEPT !.groups = drag.initial]
      BY <2>2 DEF OnDragOver
    <3> QED BY <1>1, <3>1
  <2>3. CASE sortMode # "manual" /\ lane # drag.from
    <3>1. PICK preview : preview = [board EXCEPT ![c].lane = lane]
      OBVIOUS
    <3>2. drag' = [drag EXCEPT !.groups = Groups(preview)]
      BY <1>0, <2>3, <3>1 DEF OnDragOver
    <3>3. preview \in Places /\ preview[c].lane \in Lanes
      <4>1. [board EXCEPT ![c].lane = lane] \in Places /\ [board EXCEPT ![c].lane = lane][c].lane = lane
        BY <1>1, PlacesMove
      <4> QED BY <3>1, <4>1
    <3>4. Previews(Groups(preview), c)
      BY <1>1, <2>3, <3>3, GroupsPreview
    <3> QED BY <3>2, <3>4
  <2> QED BY <2>1, <2>2, <2>3
<1>4. PICK initial : initial = drag.initial
  OBVIOUS
<1>5. DOMAIN drag' = DOMAIN drag /\ drag'.card = c /\ drag'.groups = groups /\ drag'.initial = initial
  BY <1>0, <1>1, <1>3, <1>4
<1>6. /\ Visible' = Visible /\ sortMode' = sortMode
      /\ \A l \in Lanes : ManualOrder(board, Visible \ {c}, l)' = ManualOrder(board, Visible \ {c}, l)
  BY <1>2 DEF Visible, Shown
<1>7. Previews(groups, c)' /\ Previews(initial, c)'
  BY <1>1, <1>3, <1>4, <1>6 DEF Previews
<1> QED BY <1>1, <1>2, <1>5, <1>6, <1>7 DEF DragInv

-----------------------------------------------------------------------------
(* BoardDrag: a move *)

\* The card goes to the place of the lane; the lane it leaves and its lane are numbered.
Moved(at, cards, c, lane, p) ==
    Numbered(Numbered(at, at[c].lane, ManualOrder(at, cards \ {c}, at[c].lane)),
             lane, Inserted(ManualOrder(at, cards \ {c}, lane), p, c))

\* The card stands in the lane behind the first q cards of rest.
Lands(to, rest, c, lane, q) ==
    /\ to[c] = [lane |-> lane, position |-> q]
    /\ \A k \in DOMAIN rest : to[rest[k]] = [lane |-> lane, position |-> IF k <= q THEN k - 1 ELSE k]

Keeps(at, to, cards) == \A l : ManualOrder(to, cards, l) = ManualOrder(at, cards, l)

LEMMA MovedPlaces ==
    ASSUME NEW at \in Places, NEW cards \in SUBSET Iids, NEW c \in cards, NEW lane \in Lanes, NEW p \in Nat
    PROVE  \E to, rest :
              /\ to = Moved(at, cards, c, lane, p) /\ rest = ManualOrder(at, cards \ {c}, lane)
              /\ to \in Places /\ ManualOrder(to, cards, lane) = Inserted(rest, p, c)
              /\ \A d \in cards \ {c} : to[d].lane = at[d].lane
              /\ \E q \in 0 .. Len(rest) : (p <= Len(rest) => q = p) /\ Lands(to, rest, c, lane, q)
              /\ Keeps(at, to, cards \ {c})
<1>r. PICK rest : rest = ManualOrder(at, cards \ {c}, lane)
  OBVIOUS
<1>0. PICK home : home = at[c].lane
  OBVIOUS
<1>1. PICK source, mid, order, to :
          /\ source = ManualOrder(at, cards \ {c}, home)
          /\ mid = Numbered(at, home, source)
          /\ order = Inserted(rest, p, c)
          /\ to = Numbered(mid, lane, order)
  OBVIOUS
<1>2. to = Moved(at, cards, c, lane, p)
  BY <1>0, <1>1, <1>r DEF Moved
<1>3. cards \ {c} \in SUBSET Iids /\ c \in Iids /\ home \in Lanes
  BY <1>0 DEF Places
<1>4. Once(source) /\ \A d : Holds(source, d) <=> d \in cards \ {c} /\ at[d].lane = home
  <2>1. LET list == ManualOrder(at, cards \ {c}, home)
        IN  Once(list) /\ \A d : Holds(list, d) <=> d \in cards \ {c} /\ at[d].lane = home
    BY <1>3, ManualArranges
  <2> QED BY <1>1, <2>1
<1>5. /\ mid \in Places /\ \A k \in DOMAIN source : mid[source[k]] = [lane |-> home, position |-> k - 1]
      /\ \A d \in Iids : ~Holds(source, d) => mid[d] = at[d]
  <2>1. /\ Numbered(at, home, source) \in Places
        /\ \A k \in DOMAIN source :
              Numbered(at, home, source)[source[k]] = [lane |-> home, position |-> k - 1]
        /\ \A d \in Iids : ~Holds(source, d) => Numbered(at, home, source)[d] = at[d]
    BY <1>3, <1>4, NumberedPlaces
  <2> QED BY <1>1, <2>1
<1>6. \A d \in Iids : mid[d].lane = at[d].lane
  <2> TAKE d \in Iids
  <2>1. CASE Holds(source, d)
    <3>1. PICK k \in DOMAIN source : source[k] = d
      BY <2>1, <1>4, PlaceFound
    <3>2. mid[d] = [lane |-> home, position |-> k - 1]
      BY <3>1, <1>5
    <3>3. at[d].lane = home
      BY <2>1, <1>4
    <3> QED BY <3>2, <3>3
  <2>2. CASE ~Holds(source, d)
    BY <2>2, <1>5
  <2> QED BY <2>1, <2>2
<1>7. Once(rest) /\ \A d : Holds(rest, d) <=> d \in cards \ {c} /\ at[d].lane = lane
  <2>1. LET list == ManualOrder(at, cards \ {c}, lane)
        IN  Once(list) /\ \A d : Holds(list, d) <=> d \in cards \ {c} /\ at[d].lane = lane
    BY <1>3, ManualArranges
  <2> QED BY <1>r, <2>1
<1>8. PICK q \in 0 .. Len(rest) : (p <= Len(rest) => q = p) /\ Puts(order, rest, q, c)
  <2>1. ~Holds(rest, c)
    BY <1>7
  <2> QED BY <1>1, <1>3, <1>7, <2>1, InsertedPlaces
<1>9. /\ Once(order) /\ Len(order) = Len(rest) + 1 /\ order[q + 1] = c
      /\ \A k \in DOMAIN rest : /\ k <= q => order[k] = rest[k]
                                /\ k > q => order[k + 1] = rest[k]
      /\ \A d : Holds(order, d) <=> d = c \/ Holds(rest, d)
  BY <1>8 DEF Puts
<1>10. /\ to \in Places /\ \A k \in DOMAIN order : to[order[k]] = [lane |-> lane, position |-> k - 1]
       /\ \A d \in Iids : ~Holds(order, d) => to[d] = mid[d]
  <2>1. /\ Numbered(mid, lane, order) \in Places
        /\ \A k \in DOMAIN order : Numbered(mid, lane, order)[order[k]] = [lane |-> lane, position |-> k - 1]
        /\ \A d \in Iids : ~Holds(order, d) => Numbered(mid, lane, order)[d] = mid[d]
    BY <1>5, <1>9, NumberedPlaces
  <2> QED BY <1>1, <2>1
<1>11. Len(rest) \in Nat /\ DOMAIN rest = 1 .. Len(rest) /\ DOMAIN order = 1 .. Len(rest) + 1 /\ q \in Int
  BY <1>7, <1>8, <1>9 DEF Once
<1>12. to[c] = [lane |-> lane, position |-> q]
  <2>1. q + 1 \in DOMAIN order /\ (q + 1) - 1 = q
    BY <1>8, <1>11
  <2> QED BY <1>9, <1>10, <2>1
<1>13. ASSUME NEW k \in DOMAIN rest
       PROVE  to[rest[k]] = [lane |-> lane, position |-> IF k <= q THEN k - 1 ELSE k]
  <2>1. k \in DOMAIN order /\ k + 1 \in DOMAIN order /\ (k + 1) - 1 = k /\ k \in Int
    BY <1>11
  <2>2. CASE k <= q
    <3>1. rest[k] = order[k]
      BY <1>9, <2>2
    <3>2. to[order[k]] = [lane |-> lane, position |-> k - 1]
      BY <1>10, <2>1
    <3> QED BY <2>2, <3>1, <3>2
  <2>3. CASE k > q
    <3>1. ~(k <= q)
      BY <1>11, <2>1, <2>3
    <3>2. rest[k] = order[k + 1]
      BY <1>9, <2>3
    <3>3. to[order[k + 1]] = [lane |-> lane, position |-> k]
      BY <1>10, <2>1
    <3> QED BY <3>1, <3>2, <3>3
  <2> QED BY <1>11, <2>1, <2>2, <2>3
<1>14. \A d \in cards \ {c} : to[d].lane = at[d].lane
  <2> TAKE d \in cards \ {c}
  <2>1. CASE Holds(rest, d)
    <3>1. PICK k \in DOMAIN rest : rest[k] = d
      BY <2>1, <1>7, PlaceFound
    <3>2. to[d] = [lane |-> lane, position |-> IF k <= q THEN k - 1 ELSE k]
      BY <3>1, <1>13
    <3>3. at[d].lane = lane
      BY <2>1, <1>7
    <3> QED BY <3>2, <3>3
  <2>2. CASE ~Holds(rest, d)
    BY <2>2, <1>3, <1>6, <1>9, <1>10
  <2> QED BY <2>1, <2>2
<1>15. ManualOrder(to, cards, lane) = order
  <2>1. \A d \in Iids : Holds(order, d) => d \in cards
    BY <1>7, <1>9
  <2>2. \A d \in cards : mid[d].lane = lane => Holds(order, d)
    BY <1>6, <1>7, <1>9
  <2>3. ManualOrder(Numbered(mid, lane, order), cards, lane) = order
    BY <1>5, <1>9, <2>1, <2>2, NumberedOrder
  <2> QED BY <1>1, <2>3
<1>16. ASSUME NEW l PROVE ManualOrder(to, cards \ {c}, l) = ManualOrder(at, cards \ {c}, l)
  <2>1. CASE l = lane
    <3>1. \A d \in Iids : Holds(rest, d) <=> d \in cards \ {c} /\ to[d].lane = lane
      BY <1>7, <1>14
    <3>2. ASSUME NEW i \in DOMAIN rest, NEW j \in DOMAIN rest, i < j
          PROVE  <<rest[i], rest[j]>> \in ManualBefore(to)
      <4>1. /\ to[rest[i]].position = IF i <= q THEN i - 1 ELSE i
            /\ to[rest[j]].position = IF j <= q THEN j - 1 ELSE j
        <5>1. /\ to[rest[i]] = [lane |-> lane, position |-> IF i <= q THEN i - 1 ELSE i]
              /\ to[rest[j]] = [lane |-> lane, position |-> IF j <= q THEN j - 1 ELSE j]
          BY <1>13
        <5> QED BY <5>1
      <4>2. to[rest[i]].position < to[rest[j]].position
        BY <1>11, <3>2, <4>1
      <4>3. rest[i] \in Iids /\ rest[j] \in Iids
        BY <1>7 DEF Once
      <4> QED BY <4>2, <4>3 DEF ManualBefore
    <3>3. Once(rest) /\ to \in Places
      BY <1>7, <1>10
    <3>4. ManualOrder(to, cards \ {c}, lane) = rest
      BY <1>3, <3>1, <3>2, <3>3, ManualIs
    <3> QED BY <1>r, <2>1, <3>4
  <2>2. CASE l # lane
    <3>1. \A d \in cards \ {c} : at[d].lane = l => ~Holds(order, d)
      BY <1>7, <1>9, <2>2
    <3>2. \A d \in cards \ {c} : at[d].lane = l => to[d] = mid[d]
      BY <1>3, <1>10, <3>1
    <3>3. ManualOrder(mid, cards \ {c}, l) = ManualOrder(at, cards \ {c}, l)
      <4>1. CASE l = home
        <5>1. \A d \in Iids : Holds(source, d) => d \in cards \ {c}
          BY <1>4
        <5>2. \A d \in cards \ {c} : at[d].lane = home => Holds(source, d)
          BY <1>4
        <5>3. ManualOrder(Numbered(at, home, source), cards \ {c}, home) = source
          BY <1>3, <1>4, <5>1, <5>2, NumberedOrder
        <5> QED BY <1>1, <4>1, <5>3
      <4>2. CASE l # home
        <5>1. \A d \in cards \ {c} : at[d].lane = l => mid[d] = at[d]
          BY <1>3, <1>4, <1>5, <4>2
        <5> QED BY <1>3, <1>5, <1>6, <5>1, SameOrder
      <4> QED BY <4>1, <4>2
    <3>4. ManualOrder(to, cards \ {c}, l) = ManualOrder(mid, cards \ {c}, l)
      <4>1. \A d \in cards \ {c} : mid[d].lane = l <=> to[d].lane = l
        BY <1>3, <1>6, <1>14
      <4>2. \A d \in cards \ {c} : mid[d].lane = l => mid[d].position = to[d].position
        BY <1>3, <1>6, <3>2
      <4> QED BY <1>3, <1>5, <1>10, <4>1, <4>2, SameOrder
    <3> QED BY <3>3, <3>4
  <2> QED BY <2>1, <2>2
<1>17. q \in 0 .. Len(rest) /\ (p <= Len(rest) => q = p) /\ Lands(to, rest, c, lane, q)
  BY <1>8, <1>12, <1>13 DEF Lands
<1>18. ManualOrder(to, cards, lane) = Inserted(rest, p, c) /\ Keeps(at, to, cards \ {c})
  BY <1>1, <1>15, <1>16 DEF Keeps
<1> QED BY <1>r, <1>2, <1>10, <1>14, <1>17, <1>18

-----------------------------------------------------------------------------
(* BoardDrag: the place that a drop asks for *)

\* The card is the kth that is seen in the lane, and what is seen besides stands there
\* as it stands among the rest of the lane's cards.
Sees(seen, rest, c, k) ==
    /\ Once(seen) /\ k \in DOMAIN seen /\ seen[k] = c /\ Once(rest)
    /\ \A i \in DOMAIN seen : i # k => Holds(rest, seen[i])
    /\ \A i, j \in DOMAIN seen : i < j /\ i # k /\ j # k => PlaceIn(rest, seen[i]) < PlaceIn(rest, seen[j])

\* The preview of a lane: the card is its kth.
Preview(seen, at, some, lane, c, k) ==
    /\ Once(seen) /\ k \in DOMAIN seen /\ seen[k] = c
    /\ Only(seen, Iids \ {c}) = ManualOrder(at, some \ {c}, lane)

LEMMA PreviewSees ==
    ASSUME NEW at \in Places, NEW cards \in SUBSET Iids, NEW some \in SUBSET cards, NEW c \in some, NEW lane,
           NEW seen, NEW k, Preview(seen, at, some, lane, c, k)
    PROVE  /\ Sees(seen, ManualOrder(at, cards \ {c}, lane), c, k)
           /\ \A d \in Iids : Holds(seen, d) <=> d = c \/ (d \in some \ {c} /\ at[d].lane = lane)
<1>0. PICK S : S = Iids \ {c}
  OBVIOUS
<1>a. PICK U, V : U = cards \ {c} /\ V = some \ {c}
  OBVIOUS
<1>1. PICK rest, anchors : rest = ManualOrder(at, U, lane) /\ anchors = ManualOrder(at, V, lane)
  OBVIOUS
<1>2. U \in SUBSET Iids /\ V \in SUBSET Iids /\ V \subseteq U
  BY <1>a
<1>3. /\ Once(rest) /\ \A d : Holds(rest, d) <=> d \in U /\ at[d].lane = lane
      /\ Arranges(rest, InLane(at, U, lane), ManualBefore(at))
  <2>1. LET r == ManualOrder(at, U, lane)
        IN  /\ Once(r) /\ \A d : Holds(r, d) <=> d \in U /\ at[d].lane = lane
            /\ Arranges(r, InLane(at, U, lane), ManualBefore(at))
    BY <1>2, ManualArranges
  <2> QED BY <1>1, <2>1
<1>4. /\ Once(anchors) /\ \A d : Holds(anchors, d) <=> d \in V /\ at[d].lane = lane
      /\ Arranges(anchors, InLane(at, V, lane), ManualBefore(at))
  <2>1. LET r == ManualOrder(at, V, lane)
        IN  /\ Once(r) /\ \A d : Holds(r, d) <=> d \in V /\ at[d].lane = lane
            /\ Arranges(r, InLane(at, V, lane), ManualBefore(at))
    BY <1>2, ManualArranges
  <2> QED BY <1>1, <2>1
<1>11. Once(seen) /\ seen \in Seq(Iids) /\ k \in DOMAIN seen
  BY DEF Once, Preview
<1>5. Only(seen, S) = anchors
  BY <1>0, <1>a, <1>1 DEF Preview
<1>6. /\ \A i \in DOMAIN anchors : anchors[i] \in S /\ \E j \in DOMAIN seen : anchors[i] = seen[j]
      /\ \A j \in DOMAIN seen : seen[j] \in S => \E i \in DOMAIN anchors : anchors[i] = seen[j]
  <2>1. LET r == Only(seen, S)
        IN  /\ \A i \in DOMAIN r : r[i] \in S /\ \E j \in DOMAIN seen : r[i] = seen[j]
            /\ \A j \in DOMAIN seen : seen[j] \in S => \E i \in DOMAIN r : r[i] = seen[j]
    BY <1>11, OnlyKeeps
  <2> QED BY <1>5, <2>1
<1>7. ASSUME NEW i \in DOMAIN seen, i # k PROVE seen[i] \in S /\ Holds(anchors, seen[i]) /\ Holds(rest, seen[i])
  <2>1. seen[i] \in S
    BY <1>0, <1>7 DEF Once, Preview
  <2>2. Holds(anchors, seen[i])
    <3>1. PICK j \in DOMAIN anchors : anchors[j] = seen[i]
      BY <1>6, <2>1
    <3> QED BY <3>1, <1>4, PlaceFound
  <2> QED BY <1>2, <1>3, <1>4, <2>1, <2>2
<1>8. ASSUME NEW i \in DOMAIN seen, NEW j \in DOMAIN seen, i < j, i # k, j # k
      PROVE  PlaceIn(rest, seen[i]) < PlaceIn(rest, seen[j])
  <2>1. seen[i] \in S /\ seen[j] \in S /\ Holds(rest, seen[i]) /\ Holds(rest, seen[j])
    BY <1>7, <1>8
  <2>2. PICK a \in DOMAIN anchors, b \in DOMAIN anchors : a < b /\ anchors[a] = seen[i] /\ anchors[b] = seen[j]
    <3>1. \E a, b \in DOMAIN Only(seen, S) : a < b /\ Only(seen, S)[a] = seen[i]
                                                           /\ Only(seen, S)[b] = seen[j]
      BY <1>11, <1>8, <2>1, OnlyInOrder
    <3> QED BY <1>5, <3>1
  <2>3. <<seen[i], seen[j]>> \in ManualBefore(at)
    BY <1>4, <2>2 DEF Arranges
  <2>4. PICK x, y : x = PlaceIn(rest, seen[i]) /\ y = PlaceIn(rest, seen[j])
    OBVIOUS
  <2>5. x \in DOMAIN rest /\ y \in DOMAIN rest /\ rest[x] = seen[i] /\ rest[y] = seen[j]
    BY <1>3, <2>1, <2>4, PlaceFound
  <2>6. x \in Nat /\ y \in Nat
    BY <1>3, <2>5 DEF Once
  <2>7. x # y
    <3>1. seen[i] # seen[j]
      <4>1. i # j
        BY <1>8, <1>11
      <4> QED BY <1>11, <4>1 DEF Once
    <3> QED BY <2>5, <3>1
  <2>8. ~(y < x)
    <3>1. ASSUME y < x PROVE <<seen[j], seen[i]>> \in ManualBefore(at)
      BY <1>3, <2>5, <3>1 DEF Arranges
    <3>2. Strict(InLane(at, U, lane), ManualBefore(at))
      BY <1>2, ManualStrict
    <3>3. seen[i] \in InLane(at, U, lane) /\ seen[j] \in InLane(at, U, lane)
      BY <1>3, <2>1 DEF InLane
    <3> QED BY <2>3, <3>1, <3>2, <3>3 DEF Strict
  <2> QED BY <2>4, <2>6, <2>7, <2>8
<1>9. ASSUME NEW d \in Iids PROVE Holds(seen, d) <=> d = c \/ (d \in V /\ at[d].lane = lane)
  <2>1. Holds(seen, c)
    BY PlaceFound DEF Preview
  <2>2. ASSUME Holds(seen, d), d # c PROVE Holds(anchors, d)
    <3>1. PICK i \in DOMAIN seen : seen[i] = d
      BY <1>11, <2>2, PlaceFound
    <3>2. i # k
      BY <2>2, <3>1 DEF Preview
    <3> QED BY <1>7, <3>1, <3>2
  <2>3. ASSUME Holds(anchors, d) PROVE Holds(seen, d)
    <3>1. PICK i \in DOMAIN anchors : anchors[i] = d
      BY <1>4, <2>3, PlaceFound
    <3>2. PICK j \in DOMAIN seen : seen[j] = d
      BY <1>6, <3>1
    <3> QED BY <1>11, <3>2, PlaceFound
  <2>4. Holds(anchors, d) <=> d \in V /\ at[d].lane = lane
    BY <1>4
  <2>5. Holds(seen, d) => d = c \/ (d \in V /\ at[d].lane = lane)
    BY <2>2, <2>4
  <2>6. d = c \/ (d \in V /\ at[d].lane = lane) => Holds(seen, d)
    BY <2>1, <2>3, <2>4
  <2> QED BY <2>5, <2>6
<1>10. Sees(seen, rest, c, k)
  BY <1>3, <1>7, <1>8 DEF Sees, Preview
<1> QED BY <1>a, <1>1, <1>9, <1>10

\* The place is behind what is seen before the card, and before what is seen behind it.
Between(seen, rest, k, p) ==
    /\ p \in 0 .. Len(rest)
    /\ \A i \in DOMAIN seen : /\ i < k => PlaceIn(rest, seen[i]) <= p
                              /\ i > k => PlaceIn(rest, seen[i]) > p

LEMMA WantedBetween ==
    ASSUME NEW seen, NEW rest, NEW c, NEW k, Sees(seen, rest, c, k)
    PROVE  /\ k < Len(seen) => Between(seen, rest, k, PlaceIn(rest, seen[k + 1]) - 1)
           /\ k = Len(seen) /\ k > 1 => Between(seen, rest, k, PlaceIn(rest, seen[k - 1]))
           /\ k = Len(seen) /\ k = 1 => Between(seen, rest, k, Len(rest))
<1>1. /\ seen \in Seq(Iids) /\ Len(seen) \in Nat /\ DOMAIN seen = 1 .. Len(seen) /\ k \in 1 .. Len(seen)
      /\ Once(rest) /\ rest \in Seq(Iids) /\ Len(rest) \in Nat /\ DOMAIN rest = 1 .. Len(rest)
  BY DEF Sees, Once
<1>2. \A i \in DOMAIN seen : i # k => PlaceIn(rest, seen[i]) \in 1 .. Len(rest)
  <2> TAKE i \in DOMAIN seen
  <2>1. i # k => Holds(rest, seen[i])
    BY DEF Sees
  <2> QED BY <1>1, <2>1, PlaceFound
<1>3. \A i, j \in DOMAIN seen : i < j /\ i # k /\ j # k => PlaceIn(rest, seen[i]) < PlaceIn(rest, seen[j])
  BY DEF Sees
<1>4. ASSUME k < Len(seen) PROVE Between(seen, rest, k, PlaceIn(rest, seen[k + 1]) - 1)
  <2>1. k + 1 \in DOMAIN seen /\ k + 1 # k /\ k \in Int
    BY <1>1, <1>4
  <2>2. PICK n : n = PlaceIn(rest, seen[k + 1])
    OBVIOUS
  <2>3. n \in 1 .. Len(rest)
    BY <1>2, <2>1, <2>2
  <2>4. \A i \in DOMAIN seen : i < k => PlaceIn(rest, seen[i]) < n
    <3> TAKE i \in DOMAIN seen
    <3>1. i < k => i < k + 1 /\ i # k
      BY <1>1
    <3> QED BY <1>3, <2>1, <2>2, <3>1
  <2>5. \A i \in DOMAIN seen : i > k => PlaceIn(rest, seen[i]) >= n
    <3> SUFFICES ASSUME NEW i \in DOMAIN seen, i > k PROVE PlaceIn(rest, seen[i]) >= n
      OBVIOUS
    <3>1. CASE i = k + 1
      BY <2>2, <2>3, <3>1
    <3>2. CASE i > k + 1
      <4>1. n < PlaceIn(rest, seen[i])
        BY <1>1, <1>3, <2>1, <2>2, <3>2
      <4>2. PlaceIn(rest, seen[i]) \in 1 .. Len(rest)
        BY <1>1, <1>2
      <4> QED BY <1>1, <2>3, <4>1, <4>2
    <3> QED BY <1>1, <3>1, <3>2
  <2>6. ASSUME NEW i \in DOMAIN seen
        PROVE  /\ i < k => PlaceIn(rest, seen[i]) <= n - 1
               /\ i > k => PlaceIn(rest, seen[i]) > n - 1
    <3>1. i # k => PlaceIn(rest, seen[i]) \in 1 .. Len(rest)
      BY <1>2
    <3>2. i \in Int
      BY <1>1
    <3> QED BY <1>1, <2>1, <2>3, <2>4, <2>5, <3>1, <3>2
  <2>7. n - 1 \in 0 .. Len(rest)
    BY <1>1, <2>3
  <2> QED BY <2>2, <2>6, <2>7 DEF Between
<1>5. ASSUME k = Len(seen), k > 1 PROVE Between(seen, rest, k, PlaceIn(rest, seen[k - 1]))
  <2>1. k - 1 \in DOMAIN seen /\ k - 1 # k /\ k \in Int
    <3>1. k > 1
      BY <1>5
    <3> QED BY <1>1, <3>1
  <2>2. PICK n : n = PlaceIn(rest, seen[k - 1])
    OBVIOUS
  <2>3. n \in 1 .. Len(rest)
    BY <1>2, <2>1, <2>2
  <2>4. \A i \in DOMAIN seen : i < k => PlaceIn(rest, seen[i]) <= n
    <3> SUFFICES ASSUME NEW i \in DOMAIN seen, i < k PROVE PlaceIn(rest, seen[i]) <= n
      OBVIOUS
    <3>1. CASE i = k - 1
      BY <2>2, <2>3, <3>1
    <3>2. CASE i < k - 1
      <4>1. PlaceIn(rest, seen[i]) < n
        BY <1>1, <1>3, <2>1, <2>2, <3>2
      <4>2. PlaceIn(rest, seen[i]) \in 1 .. Len(rest)
        BY <1>1, <1>2, <2>1, <3>2
      <4> QED BY <1>1, <2>3, <4>1, <4>2
    <3> QED BY <1>1, <3>1, <3>2
  <2>5. \A i \in DOMAIN seen : ~(i > k)
    BY <1>1, <1>5
  <2>6. n \in 0 .. Len(rest)
    BY <1>1, <2>3
  <2> QED BY <2>2, <2>4, <2>5, <2>6 DEF Between
<1>6. ASSUME k = Len(seen), k = 1 PROVE Between(seen, rest, k, Len(rest))
  <2>1. \A i \in DOMAIN seen : ~(i > k) /\ ~(i < k)
    BY <1>1, <1>6
  <2>2. Len(rest) \in 0 .. Len(rest)
    BY <1>1
  <2> QED BY <2>1, <2>2 DEF Between
<1> QED BY <1>4, <1>5, <1>6

\* A card that stands at that place is seen where it was held.
LEMMA LandsAsSeen ==
    ASSUME NEW to \in Places, NEW some \in SUBSET Iids, NEW lane, NEW seen, NEW rest, NEW c, NEW k, NEW p,
           Sees(seen, rest, c, k), Between(seen, rest, k, p), Lands(to, rest, c, lane, p),
           \A d \in Iids : Holds(seen, d) <=> d \in some /\ to[d].lane = lane
    PROVE  ManualOrder(to, some, lane) = seen
<1>1. Once(seen) /\ k \in DOMAIN seen /\ seen[k] = c /\ Once(rest) /\ DOMAIN rest = 1 .. Len(rest)
  BY DEF Sees, Once
<1>2. Len(rest) \in Nat /\ DOMAIN seen = 1 .. Len(seen) /\ p \in 0 .. Len(rest) /\ k \in Int
  BY <1>1 DEF Once, Between
<1>3. to[c].position = p
  BY DEF Lands
<1>4. ASSUME NEW i \in DOMAIN seen, i # k
      PROVE  /\ PlaceIn(rest, seen[i]) \in 1 .. Len(rest)
             /\ to[seen[i]].position = IF PlaceIn(rest, seen[i]) <= p THEN PlaceIn(rest, seen[i]) - 1
                                       ELSE PlaceIn(rest, seen[i])
  <2>1. PICK n : n = PlaceIn(rest, seen[i])
    OBVIOUS
  <2>2. Holds(rest, seen[i])
    BY <1>4 DEF Sees
  <2>3. n \in DOMAIN rest /\ rest[n] = seen[i]
    BY <1>1, <2>1, <2>2, PlaceFound
  <2>4. to[rest[n]] = [lane |-> lane, position |-> IF n <= p THEN n - 1 ELSE n]
    BY <2>3 DEF Lands
  <2> QED BY <1>1, <2>1, <2>3, <2>4
<1>5. ASSUME NEW i \in DOMAIN seen, NEW j \in DOMAIN seen, i < j
      PROVE  <<seen[i], seen[j]>> \in ManualBefore(to)
  <2>1. i \in Int /\ j \in Int
    BY <1>2
  <2>2. to[seen[i]].position < to[seen[j]].position
    <3>1. CASE i = k
      <4>1. PlaceIn(rest, seen[j]) > p /\ j # k
        BY <1>2, <1>5, <2>1, <3>1 DEF Between
      <4>2. PlaceIn(rest, seen[j]) \in 1 .. Len(rest) /\ to[seen[j]].position = PlaceIn(rest, seen[j])
        BY <1>2, <1>4, <4>1
      <4> QED BY <1>1, <1>2, <1>3, <3>1, <4>1, <4>2
    <3>2. CASE j = k
      <4>1. PlaceIn(rest, seen[i]) <= p /\ i # k
        BY <1>2, <1>5, <2>1, <3>2 DEF Between
      <4>2. PlaceIn(rest, seen[i]) \in 1 .. Len(rest) /\ to[seen[i]].position = PlaceIn(rest, seen[i]) - 1
        BY <1>2, <1>4, <4>1
      <4> QED BY <1>1, <1>2, <1>3, <3>2, <4>1, <4>2
    <3>3. CASE i # k /\ j # k
      <4>1. PICK x, y : x = PlaceIn(rest, seen[i]) /\ y = PlaceIn(rest, seen[j])
        OBVIOUS
      <4>2. x < y
        BY <1>5, <3>3, <4>1 DEF Sees
      <4>3. /\ x \in 1 .. Len(rest) /\ y \in 1 .. Len(rest)
            /\ to[seen[i]].position = IF x <= p THEN x - 1 ELSE x
            /\ to[seen[j]].position = IF y <= p THEN y - 1 ELSE y
        BY <1>4, <3>3, <4>1
      <4> QED BY <1>2, <4>2, <4>3
    <3> QED BY <3>1, <3>2, <3>3
  <2>3. seen[i] \in Iids /\ seen[j] \in Iids
    BY <1>1 DEF Once
  <2> QED BY <2>2, <2>3 DEF ManualBefore
<1> QED BY <1>1, <1>5, ManualIs

-----------------------------------------------------------------------------
(* BoardDrag: a lane without holes *)

LEMMA OrderLength ==
    ASSUME NEW at \in Places, NEW cards \in SUBSET Iids, NEW lane
    PROVE  Len(ManualOrder(at, cards, lane)) = Cardinality(InLane(at, cards, lane))
<1>1. PICK S, R : S = InLane(at, cards, lane) /\ R = ManualBefore(at)
  OBVIOUS
<1>2. IsFiniteSet(S) /\ Strict(S, R)
  BY <1>1, ManualStrict
<1>3. Sorted(S, R) \in [1 .. Cardinality(S) -> S]
  BY <1>2, Arrangeable DEF Sorted
<1>4. Cardinality(S) \in Nat
  BY <1>2, FS_CardinalityType
<1>5. Len(Sorted(S, R)) = Cardinality(S)
  BY <1>3, <1>4
<1> QED BY <1>1, <1>5 DEF ManualOrder

\* Positions that do not fall along the lane and are those from 0 to one less than its
\* cards number it from 0.
LEMMA CompactNumbers ==
    ASSUME NEW n \in Nat, NEW f \in [1 .. n -> Nat],
           \A i, j \in 1 .. n : i < j => f[i] <= f[j],
           \A x \in 0 .. n - 1 : \E i \in 1 .. n : f[i] = x
    PROVE  \A k \in 1 .. n : f[k] = k - 1
<1>1. ASSUME NEW k \in 1 .. n, f[k] > k - 1 PROVE FALSE
  <2> DEFINE T == {i \in 1 .. n : f[i] > i - 1}
  <2>1. T \subseteq Nat /\ T # {}
    <3>1. k \in T
      BY <1>1
    <3>2. T \subseteq Nat
      OBVIOUS
    <3> HIDE DEF T
    <3> QED BY <3>1, <3>2
  <2>2. PICK x \in T : \A y \in T : x <= y
    <3> HIDE DEF T
    <3> QED BY <2>1, LeastOfNat
  <2>3. x \in 1 .. n /\ f[x] > x - 1 /\ x - 1 \in 0 .. n - 1
    BY <2>2
  <2>4. PICK i \in 1 .. n : f[i] = x - 1
    BY <2>3
  <2>5. CASE i < x
    <3>1. i \in T
      BY <2>3, <2>4, <2>5
    <3> QED BY <2>2, <2>3, <2>5, <3>1
  <2>6. CASE x < i
    <3>1. f[x] <= f[i] /\ f[x] \in Nat
      BY <2>3, <2>6
    <3> QED BY <2>3, <2>4, <3>1
  <2>7. CASE x = i
    BY <2>3, <2>4, <2>7
  <2> QED BY <2>3, <2>5, <2>6, <2>7
<1>2. ASSUME NEW k \in 1 .. n, f[k] < k - 1 PROVE FALSE
  <2> DEFINE T == {n - i : i \in {j \in 1 .. n : f[j] < j - 1}}
  <2>1. T \subseteq Nat /\ T # {}
    <3>1. n - k \in T
      BY <1>2
    <3>2. T \subseteq Nat
      OBVIOUS
    <3> HIDE DEF T
    <3> QED BY <3>1, <3>2
  <2>2. PICK m \in T : \A y \in T : m <= y
    <3> HIDE DEF T
    <3> QED BY <2>1, LeastOfNat
  <2>3. PICK x \in 1 .. n : f[x] < x - 1 /\ m = n - x
    BY <2>2
  <2>4. x - 1 \in 0 .. n - 1 /\ f[x] \in Nat
    BY <2>3
  <2>5. PICK i \in 1 .. n : f[i] = x - 1
    BY <2>4
  <2>6. CASE x < i
    <3>1. n - i \in T
      <4>1. f[i] < i - 1
        BY <2>3, <2>5, <2>6
      <4> QED BY <4>1
    <3>2. m <= n - i
      BY <2>2, <3>1
    <3> QED BY <2>3, <2>6, <3>2
  <2>7. CASE i < x
    <3>1. f[i] <= f[x]
      BY <2>7
    <3> QED BY <2>3, <2>4, <2>5, <3>1
  <2>8. CASE x = i
    BY <2>3, <2>5, <2>8
  <2> QED BY <2>6, <2>7, <2>8
<1>3. \A k \in 1 .. n : f[k] \in Nat
  OBVIOUS
<1> QED BY <1>1, <1>2, <1>3

Dense(at, cards, lane) ==
    {at[d].position : d \in InLane(at, cards, lane)} = 0 .. Cardinality(InLane(at, cards, lane)) - 1

Stands(at, c, lane, p) == at[c] = [lane |-> lane, position |-> p]

\* A card of a lane without holes stands behind as many of the rest as its position says.
LEMMA CompactLands ==
    ASSUME NEW at \in Places, NEW cards \in SUBSET Iids, NEW c \in cards, NEW lane \in Lanes, NEW p \in Nat,
           Stands(at, c, lane, p), Dense(at, cards, lane)
    PROVE  Lands(at, ManualOrder(at, cards \ {c}, lane), c, lane, p)
<1>1. PICK order, n : order = ManualOrder(at, cards, lane) /\ n = Len(order)
  OBVIOUS
<1>2. /\ Once(order) /\ \A d : Holds(order, d) <=> d \in cards /\ at[d].lane = lane
      /\ Arranges(order, InLane(at, cards, lane), ManualBefore(at))
  <2>1. LET r == ManualOrder(at, cards, lane)
        IN  /\ Once(r) /\ \A d : Holds(r, d) <=> d \in cards /\ at[d].lane = lane
            /\ Arranges(r, InLane(at, cards, lane), ManualBefore(at))
    BY ManualArranges
  <2> QED BY <1>1, <2>1
<1>3. n \in Nat /\ DOMAIN order = 1 .. n /\ \A k \in 1 .. n : order[k] \in Iids
  BY <1>1, <1>2 DEF Once
<1>4. n = Cardinality(InLane(at, cards, lane))
  BY <1>1, OrderLength
<1> DEFINE f == [k \in 1 .. n |-> at[order[k]].position]
<1>5. f \in [1 .. n -> Nat]
  BY <1>3 DEF Places
<1>6. ASSUME NEW i \in 1 .. n, NEW j \in 1 .. n, i < j PROVE f[i] <= f[j]
  <2>1. <<order[i], order[j]>> \in ManualBefore(at)
    BY <1>2, <1>3, <1>6 DEF Arranges
  <2>2. at[order[i]].position \in Nat /\ at[order[j]].position \in Nat
    BY <1>3 DEF Places
  <2> QED BY <2>1, <2>2 DEF ManualBefore
<1>7. ASSUME NEW x \in 0 .. n - 1 PROVE \E i \in 1 .. n : f[i] = x
  <2>1. PICK d \in InLane(at, cards, lane) : at[d].position = x
    BY <1>4 DEF Dense
  <2>2. PICK i \in DOMAIN order : order[i] = d
    BY <1>2, <2>1 DEF Arranges
  <2> QED BY <1>3, <2>1, <2>2
<1>8. \A k \in 1 .. n : f[k] = k - 1
  <2> HIDE DEF f
  <2> QED BY <1>3, <1>5, <1>6, <1>7, CompactNumbers
<1>9. \A k \in 1 .. n : at[order[k]].position = k - 1 /\ at[order[k]].lane = lane
  <2> TAKE k \in 1 .. n
  <2>1. Holds(order, order[k])
    BY <1>2, <1>3, PlaceFound
  <2> QED BY <1>2, <1>8, <2>1
<1>10. PICK m \in 1 .. n : order[m] = c
  <2>1. Holds(order, c)
    BY <1>2 DEF Stands
  <2> QED BY <1>2, <1>3, <2>1, PlaceFound
<1>11. m = p + 1
  <2>1. at[order[m]].position = m - 1 /\ at[c].position = p
    BY <1>9 DEF Stands
  <2> QED BY <1>10, <2>1
<1> DEFINE list == [k \in 1 .. n - 1 |-> IF k <= p THEN order[k] ELSE order[k + 1]]
<1>12. /\ list \in Seq(Iids) /\ DOMAIN list = 1 .. n - 1
       /\ \A k \in 1 .. n - 1 : /\ k <= p => list[k] = order[k] /\ k \in 1 .. n
                                /\ k > p => list[k] = order[k + 1] /\ k + 1 \in 1 .. n
  BY <1>3, <1>10, <1>11
<1> HIDE DEF f, list
<1>13. \A k \in DOMAIN list : /\ at[list[k]].position = IF k <= p THEN k - 1 ELSE k
                              /\ at[list[k]].lane = lane /\ list[k] \in Iids
  <2> TAKE k \in DOMAIN list
  <2>1. CASE k <= p
    BY <1>3, <1>9, <1>12, <2>1
  <2>2. CASE k > p
    <3>1. list[k] = order[k + 1] /\ k + 1 \in 1 .. n
      BY <1>12, <2>2
    <3>2. at[order[k + 1]].position = (k + 1) - 1 /\ at[order[k + 1]].lane = lane /\ order[k + 1] \in Iids
      BY <1>3, <1>9, <3>1
    <3>3. k \in Int /\ ~(k <= p) /\ (k + 1) - 1 = k
      BY <1>12, <2>2
    <3> QED BY <3>1, <3>2, <3>3
  <2> QED BY <1>12, <2>1, <2>2
<1>14. \A i, j \in DOMAIN list : i < j => at[list[i]].position < at[list[j]].position
  BY <1>12, <1>13
<1>15. Once(list)
  <2>1. \A i \in DOMAIN list : i \in Int
    BY <1>12
  <2>2. \A i \in DOMAIN list : at[list[i]].position \in Nat
    BY <1>13 DEF Places
  <2>3. ASSUME NEW i \in DOMAIN list, NEW j \in DOMAIN list, list[i] = list[j] PROVE i = j
    <3>1. ~(i < j) /\ ~(j < i)
      BY <1>14, <2>2, <2>3
    <3> QED BY <2>1, <3>1
  <2> QED BY <1>12, <2>3 DEF Once
<1>16. ASSUME NEW d \in Iids PROVE Holds(list, d) <=> d \in cards \ {c} /\ at[d].lane = lane
  <2>1. ASSUME Holds(list, d) PROVE d \in cards \ {c} /\ at[d].lane = lane
    <3>1. PICK k \in DOMAIN list : list[k] = d
      BY <1>15, <2>1, PlaceFound
    <3>2. PICK i \in 1 .. n : order[i] = d /\ i # m
      BY <1>10, <1>11, <1>12, <3>1
    <3>3. Holds(order, d)
      BY <1>2, <1>3, <3>2, PlaceFound
    <3>4. d # c
      BY <1>2, <1>3, <1>10, <3>2 DEF Once
    <3> QED BY <1>2, <3>3, <3>4
  <2>2. ASSUME d \in cards \ {c}, at[d].lane = lane PROVE Holds(list, d)
    <3>1. Holds(order, d)
      BY <1>2, <2>2
    <3>2. PICK i \in 1 .. n : order[i] = d
      BY <1>2, <1>3, <3>1, PlaceFound
    <3>3. i # m
      BY <1>10, <2>2, <3>2
    <3>4. \E k \in DOMAIN list : list[k] = d
      <4>1. CASE i <= p
        <5>1. i \in 1 .. n - 1
          BY <1>3, <1>10, <1>11, <4>1
        <5> QED BY <1>12, <3>2, <4>1, <5>1
      <4>2. CASE i > p
        <5>1. i - 1 \in 1 .. n - 1 /\ i - 1 > p /\ (i - 1) + 1 = i
          BY <1>3, <1>11, <3>3, <4>2
        <5>2. list[i - 1] = order[(i - 1) + 1]
          BY <1>12, <5>1
        <5> QED BY <1>12, <3>2, <5>1, <5>2
      <4> QED BY <4>1, <4>2
    <3> QED BY <1>15, <3>4, PlaceFound
  <2> QED BY <2>1, <2>2
<1>17. \A i, j \in DOMAIN list : i < j => <<list[i], list[j]>> \in ManualBefore(at)
  BY <1>13, <1>14 DEF ManualBefore
<1>18. ManualOrder(at, cards \ {c}, lane) = list
  <2>1. PICK U : U = cards \ {c}
    OBVIOUS
  <2>2. U \in SUBSET Iids /\ \A d \in Iids : Holds(list, d) <=> d \in U /\ at[d].lane = lane
    BY <1>16, <2>1
  <2>3. ManualOrder(at, U, lane) = list
    BY <1>15, <1>17, <2>2, ManualIs
  <2> QED BY <2>1, <2>3
<1>19. \A k \in DOMAIN list : at[list[k]] = [lane |-> lane, position |-> IF k <= p THEN k - 1 ELSE k]
  <2> TAKE k \in DOMAIN list
  <2>1. at[list[k]] = [lane |-> at[list[k]].lane, position |-> at[list[k]].position]
    BY <1>13 DEF Places
  <2> QED BY <1>13, <2>1
<1>20. Lands(at, list, c, lane, p)
  BY <1>19 DEF Lands, Stands
<1> QED BY <1>18, <1>20

-----------------------------------------------------------------------------
(* BoardDrag: a drop *)

\* What a drop by hand reads: the card c is the kth of the lane's group, rest are the
\* lane's other cards, and p is the place it asks for.
Plans(c, lane, seen, k, rest, p) ==
    /\ Sees(seen, rest, c, k) /\ Between(seen, rest, k, p)
    /\ \A d \in Iids : Holds(seen, d) <=> d = c \/ (d \in Visible \ {c} /\ board[d].lane = lane)
    /\ \A l \in Lanes : l # lane => drag.groups[l] = ManualOrder(board, Visible \ {c}, l)

LEMMA DropPlan ==
    ASSUME DragInv, drag # NoDrag, sortMode = "manual"
    PROVE  \E c \in Visible, lane \in Lanes, p \in Nat : \E seen, k, rest :
              /\ c = drag.card /\ lane = LaneIn(drag.groups, c) /\ seen = drag.groups[lane]
              /\ rest = ManualOrder(board, Shown \ {c}, lane) /\ p = WantedPosition(c, lane)
              /\ Plans(c, lane, seen, k, rest, p)
<1>1. PICK c, groups : c = drag.card /\ groups = drag.groups
  OBVIOUS
<1>2. c \in Visible /\ Previews(groups, c) /\ board \in Places
  BY <1>1 DEF DragInv
<1>3. PICK lane : lane = LaneIn(groups, c)
  OBVIOUS
<1>4. lane \in Lanes /\ Holds(groups[lane], c)
  BY <1>2, <1>3 DEF Previews, LaneIn
<1>5. PICK seen, k, rest, p :
          /\ seen = groups[lane] /\ k = PlaceIn(seen, c) /\ rest = ManualOrder(board, Shown \ {c}, lane)
          /\ p = WantedPosition(c, lane)
  OBVIOUS
<1>6. Once(seen) /\ Holds(seen, c) /\ Only(seen, Iids \ {c}) = ManualOrder(board, Visible \ {c}, lane)
  BY <1>2, <1>4, <1>5 DEF Previews
<1>7. k \in DOMAIN seen /\ seen[k] = c
  BY <1>5, <1>6, PlaceFound
<1>8. Preview(seen, board, Visible, lane, c, k)
  BY <1>6, <1>7 DEF Preview
<1>9. /\ Sees(seen, rest, c, k)
      /\ \A d \in Iids : Holds(seen, d) <=> d = c \/ (d \in Visible \ {c} /\ board[d].lane = lane)
  <2>1. PICK at, cards, some : at = board /\ cards = Shown /\ some = Visible
    OBVIOUS
  <2>2. at \in Places /\ cards \in SUBSET Iids /\ some \in SUBSET cards /\ c \in some
    BY <1>2, <2>1, SomeCards
  <2>3. Preview(seen, at, some, lane, c, k)
    BY <1>8, <2>1
  <2>4. /\ Sees(seen, ManualOrder(at, cards \ {c}, lane), c, k)
        /\ \A d \in Iids : Holds(seen, d) <=> d = c \/ (d \in some \ {c} /\ at[d].lane = lane)
    <3> USE <2>2, <2>3
    <3> QED BY PreviewSees
  <2> QED BY <1>5, <2>1, <2>4
<1>10. p = IF k < Len(seen) THEN PlaceIn(rest, seen[k + 1]) - 1
           ELSE IF k > 1 THEN PlaceIn(rest, seen[k - 1]) ELSE Len(rest)
  BY <1>1, <1>5 DEF WantedPosition
<1>11. Between(seen, rest, k, p)
  <2>1. k \in 1 .. Len(seen) /\ Len(seen) \in Nat
    BY <1>6, <1>7 DEF Once
  <2>2. /\ k < Len(seen) => Between(seen, rest, k, PlaceIn(rest, seen[k + 1]) - 1)
        /\ k = Len(seen) /\ k > 1 => Between(seen, rest, k, PlaceIn(rest, seen[k - 1]))
        /\ k = Len(seen) /\ k = 1 => Between(seen, rest, k, Len(rest))
    BY <1>9, WantedBetween
  <2>3. CASE k < Len(seen)
    BY <1>10, <2>2, <2>3
  <2>4. CASE k = Len(seen) /\ k > 1
    <3>1. ~(k < Len(seen))
      BY <2>1, <2>4
    <3> QED BY <1>10, <2>2, <2>4, <3>1
  <2>5. CASE k = Len(seen) /\ k = 1
    <3>1. ~(k < Len(seen)) /\ ~(k > 1)
      BY <2>1, <2>5
    <3> QED BY <1>10, <2>2, <2>5, <3>1
  <2> QED BY <2>1, <2>3, <2>4, <2>5
<1>12. p \in Nat
  <2>1. p \in 0 .. Len(rest) /\ Len(rest) \in Nat
    BY <1>9, <1>11 DEF Between, Sees, Once
  <2> QED BY <2>1
<1>13. ASSUME NEW l \in Lanes, l # lane PROVE groups[l] = ManualOrder(board, Visible \ {c}, l)
  <2>1. Once(groups[l]) /\ ~Holds(groups[l], c)
           /\ Only(groups[l], Iids \ {c}) = ManualOrder(board, Visible \ {c}, l)
    BY <1>2, <1>4, <1>13 DEF Previews
  <2>2. PICK s, S : s = groups[l] /\ S = Iids \ {c}
    OBVIOUS
  <2>3. Once(s) /\ ~Holds(s, c)
    BY <2>1, <2>2
  <2>4. \A i, j \in DOMAIN s : i < j => PlaceIn(s, s[i]) < PlaceIn(s, s[j])
    BY <2>3, PlaceFound
  <2>5. \A d \in Iids : Holds(s, d) <=> Holds(s, d) /\ d \in S
    BY <2>2, <2>3
  <2>6. Only(s, S) = s
    BY <2>3, <2>4, <2>5, OnlyIs
  <2> QED BY <2>1, <2>2, <2>6
<1>14. Plans(c, lane, seen, k, rest, p)
  BY <1>1, <1>9, <1>11, <1>13 DEF Plans
<1> QED BY <1>1, <1>2, <1>3, <1>4, <1>5, <1>12, <1>14

\* The drop changes nothing, or it moves the card to the place it asks for.
Drops(c, lane, p, order) ==
    \/ Stands(board, c, lane, p) /\ UNCHANGED <<board, asked>>
    \/ /\ ~Stands(board, c, lane, p)
       /\ board' = Moved(board, Shown, c, lane, p)
       /\ asked' = Append(asked, [card |-> c, lane |-> lane, position |-> p, order |-> order,
                                  straight |-> straight, at |-> "sent"])

LEMMA DropMoves ==
    ASSUME DragInv, DropByHand
    PROVE  \E c \in Visible, lane \in Lanes, p \in Nat : \E seen, k, rest :
              /\ c = drag.card /\ seen = drag.groups[lane] /\ rest = ManualOrder(board, Shown \ {c}, lane)
              /\ Plans(c, lane, seen, k, rest, p)
              /\ Drops(c, lane, p, Inserted(rest, p, c))
<1>1. drag # NoDrag /\ sortMode = "manual"
  BY DEF DropByHand
<1>2. PICK c \in Visible, lane \in Lanes, p \in Nat : \E seen, k, rest :
          /\ c = drag.card /\ lane = LaneIn(drag.groups, c) /\ seen = drag.groups[lane]
          /\ rest = ManualOrder(board, Shown \ {c}, lane) /\ p = WantedPosition(c, lane)
          /\ Plans(c, lane, seen, k, rest, p)
  BY <1>1, DropPlan
<1>3. PICK seen, k, rest :
          /\ c = drag.card /\ lane = LaneIn(drag.groups, c) /\ seen = drag.groups[lane]
          /\ rest = ManualOrder(board, Shown \ {c}, lane) /\ p = WantedPosition(c, lane)
          /\ Plans(c, lane, seen, k, rest, p)
  BY <1>2
<1>4. Drops(c, lane, p, Inserted(rest, p, c))
  BY <1>3 DEF DropByHand, AskToMove, Moved, Drops, Stands
<1> QED BY <1>3, <1>4

LEMMA LandsInLane ==
    ASSUME NEW at \in Places, NEW to \in Places, NEW cards \in SUBSET Iids, NEW some \in SUBSET cards,
           NEW c \in some, NEW lane \in Lanes, NEW seen, NEW k, NEW rest, NEW p,
           Sees(seen, rest, c, k), Between(seen, rest, k, p), Lands(to, rest, c, lane, p),
           \A d \in Iids : Holds(seen, d) <=> d = c \/ (d \in some \ {c} /\ at[d].lane = lane),
           \A d \in cards \ {c} : to[d].lane = at[d].lane
    PROVE  Only(ManualOrder(to, cards, lane), some) = seen
<1>1. some \in SUBSET Iids /\ cards \cap some = some
  OBVIOUS
<1>2. to[c].lane = lane
  BY DEF Lands
<1>3. ASSUME NEW d \in Iids PROVE Holds(seen, d) <=> d \in some /\ to[d].lane = lane
  <2>1. CASE d = c
    BY <1>2, <2>1
  <2>2. CASE d # c
    <3>1. d \in some => to[d].lane = at[d].lane
      BY <2>2
    <3> QED BY <2>2, <3>1
  <2> QED BY <2>1, <2>2
<1>4. ManualOrder(to, some, lane) = seen
  BY <1>1, <1>3, LandsAsSeen
<1>5. Only(ManualOrder(to, cards, lane), some) = ManualOrder(to, cards \cap some, lane)
  BY OnlyManual
<1> QED BY <1>1, <1>4, <1>5

LEMMA KeepsElsewhere ==
    ASSUME NEW at \in Places, NEW to \in Places, NEW cards \in SUBSET Iids, NEW some \in SUBSET cards,
           NEW c \in some, NEW l, to[c].lane # l, Keeps(at, to, cards \ {c})
    PROVE  Only(ManualOrder(to, cards, l), some) = ManualOrder(at, some \ {c}, l)
<1>1. PICK U, V : U = cards \ {c} /\ V = some \ {c}
  OBVIOUS
<1>2. U \in SUBSET Iids /\ U \cap some = V
  BY <1>1
<1>3. InLane(to, cards, l) = InLane(to, U, l)
  BY <1>1 DEF InLane
<1>4. ManualOrder(to, cards, l) = ManualOrder(to, U, l)
  BY <1>3 DEF ManualOrder
<1>5. ManualOrder(to, U, l) = ManualOrder(at, U, l)
  BY <1>1 DEF Keeps
<1>6. Only(ManualOrder(at, U, l), some) = ManualOrder(at, U \cap some, l)
  BY <1>2, OnlyManual
<1> QED BY <1>1, <1>2, <1>4, <1>5, <1>6

\* What the two conjuncts of DropLandsAsShown say of a lane.
LandsShown(at, to, cards, some, c, group, l) ==
    /\ Dense(at, cards, l) => Only(ManualOrder(to, cards, l), some) = group
    /\ Only(ManualOrder(to, cards \ {c}, l), cards) = ManualOrder(at, cards \ {c}, l)

LEMMA DropLands ==
    ASSUME DragInv, DropByHand
    PROVE  /\ board' \in Places /\ asked' \in Seq(Move)
           /\ \A l \in Lanes : LandsShown(board, board', Shown, Visible, drag.card, drag.groups[l], l)
<1>1. PICK c \in Visible, lane \in Lanes, p \in Nat : \E seen, k, rest :
              /\ c = drag.card /\ seen = drag.groups[lane] /\ rest = ManualOrder(board, Shown \ {c}, lane)
              /\ Plans(c, lane, seen, k, rest, p)
              /\ Drops(c, lane, p, Inserted(rest, p, c))
  BY DropMoves
<1>2. PICK seen, k, rest :
              /\ c = drag.card /\ seen = drag.groups[lane] /\ rest = ManualOrder(board, Shown \ {c}, lane)
              /\ Plans(c, lane, seen, k, rest, p)
              /\ Drops(c, lane, p, Inserted(rest, p, c))
  BY <1>1
<1>3. PICK at, to, cards, some, groups :
          at = board /\ to = board' /\ cards = Shown /\ some = Visible /\ groups = drag.groups
  OBVIOUS
<1>4. at \in Places /\ cards \in SUBSET Iids /\ some \in SUBSET cards /\ c \in some /\ c \in cards /\ c \in Iids
  BY <1>3, SomeCards DEF DragInv
<1>5. /\ Sees(seen, rest, c, k) /\ Between(seen, rest, k, p)
      /\ \A d \in Iids : Holds(seen, d) <=> d = c \/ (d \in some \ {c} /\ at[d].lane = lane)
      /\ \A l \in Lanes : l # lane => groups[l] = ManualOrder(at, some \ {c}, l)
  BY <1>2, <1>3 DEF Plans
<1>6. rest = ManualOrder(at, cards \ {c}, lane) /\ seen = groups[lane] /\ asked \in Seq(Move)
  BY <1>2, <1>3 DEF DragInv
<1>7. CASE Stands(at, c, lane, p) /\ to = at /\ asked' = asked
  <2>1. Keeps(at, to, cards \ {c})
    BY <1>7 DEF Keeps
  <2>2. to[c].lane = lane /\ to \in Places /\ Stands(to, c, lane, p)
    BY <1>4, <1>7 DEF Stands
  <2>3. ASSUME NEW l \in Lanes, l # lane PROVE Only(ManualOrder(to, cards, l), some) = groups[l]
    <3>1. Only(ManualOrder(to, cards, l), some) = ManualOrder(at, some \ {c}, l)
      <4>1. to[c].lane # l
        BY <2>2, <2>3
      <4> QED BY <1>4, <2>1, <2>2, <4>1, KeepsElsewhere
    <3> QED BY <1>5, <2>3, <3>1
  <2>4. ASSUME Dense(at, cards, lane) PROVE Only(ManualOrder(to, cards, lane), some) = groups[lane]
    <3>1. Lands(at, ManualOrder(at, cards \ {c}, lane), c, lane, p)
      BY <1>4, <1>7, <2>4, CompactLands
    <3>2. Lands(to, rest, c, lane, p)
      BY <1>6, <1>7, <3>1
    <3>3. \A d \in cards \ {c} : to[d].lane = at[d].lane
      BY <1>7
    <3>4. Only(ManualOrder(to, cards, lane), some) = seen
      BY <1>4, <1>5, <2>2, <3>2, <3>3, LandsInLane
    <3> QED BY <1>6, <3>4
  <2>5. ASSUME NEW l \in Lanes
        PROVE  Only(ManualOrder(to, cards \ {c}, l), cards) = ManualOrder(at, cards \ {c}, l)
    <3>1. cards \ {c} \in SUBSET Iids /\ (cards \ {c}) \cap cards = cards \ {c}
      BY <1>4
    <3>2. Only(ManualOrder(at, cards \ {c}, l), cards) = ManualOrder(at, (cards \ {c}) \cap cards, l)
      BY <1>4, <3>1, OnlyManual
    <3> QED BY <1>7, <3>1, <3>2
  <2>6. \A l \in Lanes : LandsShown(at, to, cards, some, c, groups[l], l)
    BY <2>3, <2>4, <2>5 DEF LandsShown
  <2>7. to \in Places /\ asked' \in Seq(Move)
    BY <1>6, <1>7, <2>2
  <2> QED BY <1>2, <1>3, <2>6, <2>7
<1>8. ASSUME NEW order, order = Inserted(rest, p, c), to = Moved(at, cards, c, lane, p),
             asked' = Append(asked, [card |-> c, lane |-> lane, position |-> p, order |-> order,
                                     straight |-> straight, at |-> "sent"])
      PROVE  /\ to \in Places /\ asked' \in Seq(Move)
             /\ \A l \in Lanes : LandsShown(at, to, cards, some, c, groups[l], l)
  <2>1. PICK t, u : /\ t = Moved(at, cards, c, lane, p) /\ u = ManualOrder(at, cards \ {c}, lane)
                    /\ t \in Places /\ ManualOrder(t, cards, lane) = Inserted(u, p, c)
                    /\ \A d \in cards \ {c} : t[d].lane = at[d].lane
                    /\ \E q \in 0 .. Len(u) : (p <= Len(u) => q = p) /\ Lands(t, u, c, lane, q)
                    /\ Keeps(at, t, cards \ {c})
    BY <1>4, MovedPlaces
  <2>2. /\ to \in Places /\ \A d \in cards \ {c} : to[d].lane = at[d].lane
        /\ Keeps(at, to, cards \ {c})
    BY <1>8, <2>1
  <2>3. Lands(to, rest, c, lane, p)
    <3>1. PICK q \in 0 .. Len(rest) : (p <= Len(rest) => q = p) /\ Lands(to, rest, c, lane, q)
      BY <1>6, <1>8, <2>1
    <3>2. p <= Len(rest)
      BY <1>5 DEF Between, Sees, Once
    <3> QED BY <3>1, <3>2
  <2>4. to[c].lane = lane
    BY <2>3 DEF Lands
  <2>5. ASSUME NEW l \in Lanes, l # lane PROVE Only(ManualOrder(to, cards, l), some) = groups[l]
    <3>1. Only(ManualOrder(to, cards, l), some) = ManualOrder(at, some \ {c}, l)
      <4>1. to[c].lane # l
        BY <2>4, <2>5
      <4> QED BY <1>4, <2>2, <4>1, KeepsElsewhere
    <3> QED BY <1>5, <2>5, <3>1
  <2>6. Only(ManualOrder(to, cards, lane), some) = groups[lane]
    <3>1. Only(ManualOrder(to, cards, lane), some) = seen
      BY <1>4, <1>5, <2>2, <2>3, LandsInLane
    <3> QED BY <1>6, <3>1
  <2>7. ASSUME NEW l \in Lanes
        PROVE  Only(ManualOrder(to, cards \ {c}, l), cards) = ManualOrder(at, cards \ {c}, l)
    <3>1. cards \ {c} \in SUBSET Iids /\ (cards \ {c}) \cap cards = cards \ {c}
      BY <1>4
    <3>2. Only(ManualOrder(at, cards \ {c}, l), cards) = ManualOrder(at, (cards \ {c}) \cap cards, l)
      BY <1>4, <3>1, OnlyManual
    <3>3. ManualOrder(to, cards \ {c}, l) = ManualOrder(at, cards \ {c}, l)
      BY <2>2 DEF Keeps
    <3> QED BY <3>1, <3>2, <3>3
  <2>8. \A l \in Lanes : LandsShown(at, to, cards, some, c, groups[l], l)
    BY <2>5, <2>6, <2>7 DEF LandsShown
  <2>9. asked' \in Seq(Move)
    <3>1. order \in Seq(Iids)
      <4>1. Once(rest) /\ ~Holds(rest, c)
        <5>1. cards \ {c} \in SUBSET Iids
          BY <1>4
        <5>2. LET r == ManualOrder(at, cards \ {c}, lane)
              IN  Once(r) /\ \A d : Holds(r, d) <=> d \in cards \ {c} /\ at[d].lane = lane
          BY <1>4, <5>1, ManualArranges
        <5> QED BY <1>6, <5>2
      <4>2. \E q \in 0 .. Len(rest) : Puts(Inserted(rest, p, c), rest, q, c)
        BY <1>4, <4>1, InsertedPlaces
      <4> QED BY <1>8, <4>2 DEF Puts, Once
    <3>2. [card |-> c, lane |-> lane, position |-> p, order |-> order,
           straight |-> straight, at |-> "sent"] \in Move
      BY <1>4, <3>1 DEF Move, DragInv
    <3> QED BY <1>6, <1>8, <3>2
  <2> QED BY <2>2, <2>8, <2>9
<1>9. CASE /\ to = Moved(at, cards, c, lane, p)
           /\ asked' = Append(asked, [card |-> c, lane |-> lane, position |-> p,
                                      order |-> Inserted(rest, p, c), straight |-> straight, at |-> "sent"])
  BY <1>2, <1>3, <1>8, <1>9
<1>10. \/ Stands(at, c, lane, p) /\ to = at /\ asked' = asked
       \/ /\ to = Moved(at, cards, c, lane, p)
          /\ asked' = Append(asked, [card |-> c, lane |-> lane, position |-> p,
                                     order |-> Inserted(rest, p, c), straight |-> straight, at |-> "sent"])
  BY <1>2, <1>3 DEF Drops
<1> QED BY <1>7, <1>9, <1>10

-----------------------------------------------------------------------------
(* BoardDrag: the invariant of the drag *)

LEMMA ReorderedPlaces ==
    ASSUME NEW at \in Places, NEW c \in Iids \ gone, NEW lane \in Lanes, NEW p \in Nat
    PROVE  Reordered(at, c, lane, p) \in Places
<1>1. PICK stored : stored = Iids \ gone
  OBVIOUS
<1>2. stored \in SUBSET Iids /\ c \in stored
  BY <1>1
<1>3. Moved(at, stored, c, lane, p) \in Places
  <2>1. PICK to, rest :
              /\ to = Moved(at, stored, c, lane, p) /\ rest = ManualOrder(at, stored \ {c}, lane)
              /\ to \in Places /\ ManualOrder(to, stored, lane) = Inserted(rest, p, c)
              /\ \A d \in stored \ {c} : to[d].lane = at[d].lane
              /\ \E q \in 0 .. Len(rest) : (p <= Len(rest) => q = p) /\ Lands(to, rest, c, lane, q)
              /\ Keeps(at, to, stored \ {c})
    BY <1>2, MovedPlaces
  <2> QED BY <2>1
<1>4. Reordered(at, c, lane, p) = at \/ Reordered(at, c, lane, p) = Moved(at, stored, c, lane, p)
  BY <1>1 DEF Reordered, Moved
<1> QED BY <1>3, <1>4

\* The drag goes on while the board and what is seen of it stay.
LEMMA PreviewStays ==
    ASSUME DragInv, UNCHANGED <<hiddenCards, sortMode, drag>>, Shown' = Shown,
           drag # NoDrag => board' = board,
           rows' \in Places, board' \in Places, asked' \in Seq(Move), straight' \in BOOLEAN
    PROVE  DragInv'
<1>1. CASE drag = NoDrag
  BY <1>1 DEF DragInv, NoDrag
<1>2. CASE drag # NoDrag
  <2>1. PICK c, groups, initial : c = drag.card /\ groups = drag.groups /\ initial = drag.initial
    OBVIOUS
  <2>2. c \in Visible /\ Previews(groups, c) /\ Previews(initial, c)
    BY <1>2, <2>1 DEF DragInv
  <2>3. board' = board /\ Visible' = Visible
    BY <1>2 DEF Visible
  <2>4. \A l \in Lanes : ManualOrder(board, Visible \ {c}, l)' = ManualOrder(board, Visible \ {c}, l)
    BY <2>3
  <2>5. Previews(groups, c)' /\ Previews(initial, c)' /\ (c \in Visible)'
    BY <2>2, <2>3, <2>4 DEF Previews
  <2>6. drag'.card = c /\ drag'.groups = groups /\ drag'.initial = initial /\ DOMAIN drag' = DOMAIN drag
    BY <2>1
  <2> QED BY <1>2, <2>5, <2>6 DEF DragInv
<1> QED BY <1>1, <1>2

\* No card is dragged.
LEMMA NothingDragged ==
    ASSUME DragInv, drag' = NoDrag, rows' \in Places, board' \in Places, asked' \in Seq(Move),
           straight' \in BOOLEAN, hiddenCards' \subseteq Iids, sortMode' \in {"manual", "due"}
    PROVE  DragInv'
BY DEF DragInv, NoDrag

LEMMA DragKeepsInv ==
    ASSUME DragInv, [DragNext]_dragVars
    PROVE  DragInv'
<1>t. /\ rows \in Places /\ board \in Places /\ asked \in Seq(Move) /\ straight \in BOOLEAN
      /\ hiddenCards \subseteq Iids /\ sortMode \in {"manual", "due"}
  BY DEF DragInv
<1>1. ASSUME NEW cards \in SUBSET Iids, Filter(cards) PROVE DragInv'
  BY <1>t, <1>1, NothingDragged DEF Filter
<1>2. ASSUME NEW mode \in {"manual", "due"}, SortBy(mode) PROVE DragInv'
  BY <1>t, <1>2, NothingDragged DEF SortBy
<1>3. ASSUME NEW c \in Iids, OnDragStart(c) PROVE DragInv'
  <2>1. c \in Visible /\ UNCHANGED <<rows, leaving, gone, board, hiddenCards, sortMode, asked, straight>>
    BY <1>3 DEF OnDragStart
  <2>2. PICK groups : groups = Groups(board)
    OBVIOUS
  <2>3. drag' = [card |-> c, from |-> board[c].lane, initial |-> groups, groups |-> groups]
    BY <1>3, <2>2 DEF OnDragStart
  <2>4. Previews(groups, c)
    <3>1. board[c].lane \in Lanes
      BY <1>t DEF Places
    <3>2. Previews(Groups(board), c)
      BY <1>t, <2>1, <3>1, GroupsPreview
    <3> QED BY <2>2, <3>2
  <2>5. /\ DOMAIN drag' = {"card", "from", "initial", "groups"}
        /\ drag'.card = c /\ drag'.groups = groups /\ drag'.initial = groups
    BY <2>3
  <2>6. Visible' = Visible /\ \A l \in Lanes : ManualOrder(board, Visible \ {c}, l)' = ManualOrder(board, Visible \ {c}, l)
    BY <2>1 DEF Visible, Shown
  <2>7. Previews(groups, c)' /\ (c \in Visible)'
    BY <2>1, <2>4, <2>6 DEF Previews
  <2> QED BY <1>t, <2>1, <2>5, <2>7 DEF DragInv
<1>4. ASSUME NEW c \in Iids, BeginDeletion(c) PROVE DragInv'
  BY <1>t, <1>4, NothingDragged DEF BeginDeletion
<1>5. ASSUME NEW c \in Iids, EndDeletion(c) PROVE DragInv'
  <2>1. UNCHANGED <<rows, hiddenCards, sortMode, drag, asked, straight>> /\ c \in leaving
    BY <1>5 DEF EndDeletion
  <2>2. Shown' = Shown
    BY <1>5 DEF EndDeletion, Shown
  <2>3. PICK lane, cards : lane = rows[c].lane /\ cards = {d \in Shown : board[d].lane = rows[c].lane}
    OBVIOUS
  <2>4. Numbered(board, lane, ManualOrder(rows, cards, lane)) \in Places
    <3>1. lane \in Lanes /\ cards \in SUBSET Iids
      BY <1>t, <2>3 DEF Places, Shown
    <3>2. Once(ManualOrder(rows, cards, lane))
      BY <1>t, <3>1, ManualArranges
    <3> QED BY <1>t, <3>1, <3>2, NumberedPlaces
  <2>5. /\ drag # NoDrag => board' = board
        /\ drag = NoDrag => board' = Numbered(board, lane, ManualOrder(rows, cards, lane))
    BY <1>5, <2>3 DEF EndDeletion
  <2>6. board' \in Places
    BY <1>t, <2>4, <2>5
  <2> QED BY <1>t, <2>1, <2>2, <2>5, <2>6, PreviewStays
<1>6. ASSUME NEW lane \in Lanes, NEW k \in Nat, OnDragOver(lane, k) PROVE DragInv'
  BY <1>6, OverKeeps
<1>7. ASSUME NEW c \in Iids, NEW lane \in Lanes, NEW k \in Nat, TheyMove(c, lane, k) PROVE DragInv'
  <2>1. c \in Iids \ gone /\ rows' = Reordered(rows, c, lane, k)
    BY <1>7 DEF TheyMove
  <2>2. rows' \in Places
    BY <1>t, <2>1, ReorderedPlaces
  <2>3. UNCHANGED <<leaving, gone, board, hiddenCards, sortMode, drag, asked>> /\ straight' = FALSE
    BY <1>7 DEF TheyMove
  <2>4. Shown' = Shown
    BY <2>3 DEF Shown
  <2> QED BY <1>t, <2>2, <2>3, <2>4, PreviewStays
<1>8. CASE DropByHand
  <2>1. board' \in Places /\ asked' \in Seq(Move)
    BY <1>8, DropLands
  <2>2. drag' = NoDrag /\ UNCHANGED <<rows, hiddenCards, sortMode, straight>>
    BY <1>8 DEF DropByHand, AskToMove
  <2> QED BY <1>t, <2>1, <2>2, NothingDragged
<1>9. CASE DropOnLane
  <2>1. PICK c, lane : c = drag.card /\ lane = LaneIn(drag.groups, c)
    OBVIOUS
  <2>2. c \in Iids /\ lane \in Lanes
    <3>1. drag # NoDrag
      BY <1>9 DEF DropOnLane
    <3>2. c \in Visible /\ Previews(drag.groups, c)
      BY <2>1, <3>1 DEF DragInv
    <3> QED BY <2>1, <3>2, SomeCards DEF Previews, LaneIn
  <2>3. /\ drag' = NoDrag /\ UNCHANGED <<rows, hiddenCards, sortMode>>
        /\ straight' = (straight /\ asked' = asked)
        /\ \/ UNCHANGED <<board, asked>>
           \/ /\ board' = [board EXCEPT ![c].lane = lane]
              /\ asked' = Append(asked, [card |-> c, lane |-> lane, position |-> -1, order |-> <<>>,
                                         straight |-> straight, at |-> "sent"])
    BY <1>9, <2>1 DEF DropOnLane, AskToMove
  <2>4. [board EXCEPT ![c].lane = lane] \in Places
    BY <1>t, <2>2, PlacesMove
  <2>5. [card |-> c, lane |-> lane, position |-> -1, order |-> <<>>, straight |-> straight, at |-> "sent"] \in Move
    BY <1>t, <2>2 DEF Move
  <2>6. board' \in Places /\ asked' \in Seq(Move)
    <3>1. \A m \in Move : Append(asked, m) \in Seq(Move)
      BY <1>t
    <3>2. Append(asked, [card |-> c, lane |-> lane, position |-> -1, order |-> <<>>,
                         straight |-> straight, at |-> "sent"]) \in Seq(Move)
      BY <2>5, <3>1
    <3> QED BY <1>t, <2>3, <2>4, <3>2
  <2>7. straight' \in BOOLEAN
    BY <2>3
  <2> QED BY <1>t, <2>3, <2>6, <2>7, NothingDragged
<1>10. CASE CancelDrag
  BY <1>t, <1>10, NothingDragged DEF CancelDrag
<1>11. ASSUME NEW n \in 1 .. Len(asked), ServerMoves(n) PROVE DragInv'
  <2>1. /\ asked[n] \in Move /\ asked' = [asked EXCEPT ![n].at = "done"]
        /\ UNCHANGED <<leaving, gone, board, hiddenCards, sortMode, drag>>
    BY <1>t, <1>11 DEF ServerMoves
  <2>2. asked' \in Seq(Move)
    <3>1. PICK m : m = [asked[n] EXCEPT !.at = "done"]
      OBVIOUS
    <3>2. m \in Move
      BY <2>1, <3>1 DEF Move
    <3>3. asked' = [asked EXCEPT ![n] = m]
      BY <2>1, <3>1
    <3> QED BY <1>t, <3>2, <3>3
  <2>3. PICK c, lane, p : c = asked[n].card /\ lane = asked[n].lane
                          /\ p = IF asked[n].position = -1 THEN rows[c].position ELSE asked[n].position
    OBVIOUS
  <2>4. c \in Iids /\ lane \in Lanes /\ p \in Nat
    BY <1>t, <2>1, <2>3 DEF Move, Places
  <2>5. rows' = (IF c \in Iids \ (gone \cup leaving) THEN Reordered(rows, c, lane, p) ELSE rows)
    BY <1>11, <2>3 DEF ServerMoves
  <2>6. rows' \in Places
    <3>1. CASE c \in Iids \ (gone \cup leaving)
      <4>1. Reordered(rows, c, lane, p) \in Places
        BY <1>t, <2>4, <3>1, ReorderedPlaces
      <4> QED BY <2>5, <3>1, <4>1
    <3> QED BY <1>t, <2>5, <3>1
  <2>7. straight' \in BOOLEAN
    BY <1>11 DEF ServerMoves
  <2>8. Shown' = Shown
    BY <2>1 DEF Shown
  <2> QED BY <1>t, <2>1, <2>2, <2>6, <2>7, <2>8, PreviewStays
<1>12. CASE BoardIsTold
  BY <1>t, <1>12, NothingDragged DEF BoardIsTold
<1>13. CASE UNCHANGED dragVars
  <2>1. Shown' = Shown /\ UNCHANGED <<rows, board, hiddenCards, sortMode, drag, asked, straight>>
    BY <1>13 DEF dragVars, Shown
  <2> QED BY <1>t, <2>1, PreviewStays
<1>14. 0 .. Cardinality(Iids) - 1 \subseteq Nat
  OBVIOUS
<1>15. CASE DragNext
  BY <1>15, <1>1, <1>2, <1>3, <1>4, <1>5, <1>6, <1>7, <1>8, <1>9, <1>10, <1>11, <1>12, <1>14 DEF DragNext
<1> QED BY <1>13, <1>15

LEMMA DragStarts == DragInit => DragInv
<1> SUFFICES ASSUME DragInit PROVE DragInv
  OBVIOUS
<1>1. rows \in Places
  <2>1. rows \in [Iids -> Place]
    BY DEF DragInit
  <2> QED BY <2>1 DEF Place, Places
<1>2. board = rows /\ hiddenCards = {} /\ sortMode = "manual" /\ drag = NoDrag /\ asked = <<>> /\ straight = TRUE
  BY DEF DragInit
<1> QED BY <1>1, <1>2 DEF DragInv

LEMMA DragInvariance == DragSpec => []DragInv
BY DragStarts, DragKeepsInv, PTL DEF DragSpec

\* A manual drop leaves each lane as the preview showed it, and moves no other card past
\* another, hidden ones included (planCardDrop, canonicalPositionForVisibleOrder).
THEOREM DropsLand == DragSpec => DropLandsAsShown
<1>1. ASSUME DragInv, [DragNext]_dragVars
      PROVE  [DropByHand => \A l \in Lanes :
                 /\ Compact(board, l) => Only(ManualOrder(board', Shown, l), Visible) = drag.groups[l]
                 /\ Only(ManualOrder(board', Shown \ {drag.card}, l), Shown)
                        = ManualOrder(board, Shown \ {drag.card}, l)]_dragVars
  <2>1. SUFFICES ASSUME DropByHand, NEW l \in Lanes
                 PROVE  /\ Compact(board, l) => Only(ManualOrder(board', Shown, l), Visible) = drag.groups[l]
                        /\ Only(ManualOrder(board', Shown \ {drag.card}, l), Shown)
                               = ManualOrder(board, Shown \ {drag.card}, l)
    OBVIOUS
  <2>2. LandsShown(board, board', Shown, Visible, drag.card, drag.groups[l], l)
    BY <1>1, <2>1, DropLands
  <2> QED BY <2>2 DEF LandsShown, Compact, Dense
<1> QED BY <1>1, DragInvariance, PTL DEF DragSpec, DropLandsAsShown

-----------------------------------------------------------------------------
(* BoardDrag: the server's order and the browser's *)

\* The move takes the lanes from at to to, and puts the card where its order has it.
Goes(at, to, m) ==
    /\ m.card \in Iids /\ m.lane \in Lanes /\ m.position \in Nat
    /\ ~Stands(at, m.card, m.lane, m.position)
    /\ to = Moved(at, Iids, m.card, m.lane, m.position)
    /\ ManualOrder(to, Iids, m.lane) = m.order

\* The first done moves are done; those on their way lead from the server's lanes to the browser's.
Chain(done, boards) ==
    /\ done \in 0 .. Len(asked)
    /\ \A m \in 1 .. Len(asked) : asked[m].at = "done" <=> m <= done
    /\ boards \in [done .. Len(asked) -> Places]
    /\ boards[done] = rows /\ boards[Len(asked)] = board
    /\ \A m \in done + 1 .. Len(asked) : Goes(boards[m - 1], boards[m], asked[m])

StraightInv == straight /\ leaving \cup gone = {} => \E done, boards : Chain(done, boards)

LEMMA ChainStays ==
    ASSUME StraightInv, UNCHANGED <<rows, board, asked>>, straight' => straight,
           leaving' \cup gone' = {} => leaving \cup gone = {}
    PROVE  StraightInv'
<1> SUFFICES ASSUME straight', leaving' \cup gone' = {} PROVE \E done, boards : Chain(done, boards)'
  BY DEF StraightInv
<1>1. PICK done, boards : Chain(done, boards)
  BY DEF StraightInv
<1>2. Chain(done, boards)'
  BY <1>1 DEF Chain
<1> QED BY <1>2

\* A move by hand goes on from what the browser shows.
LEMMA DropGoesOn ==
    ASSUME DragInv, StraightInv, DropByHand
    PROVE  StraightInv'
<1>u. UNCHANGED <<rows, leaving, gone, straight>>
  BY DEF DropByHand
<1> SUFFICES ASSUME straight', leaving' \cup gone' = {} PROVE \E done, boards : Chain(done, boards)'
  BY DEF StraightInv
<1>1. PICK done, boards : Chain(done, boards)
  BY <1>u DEF StraightInv
<1>2. Shown = Iids /\ board \in Places /\ board' \in Places /\ asked \in Seq(Move) /\ asked' \in Seq(Move)
  BY <1>u, DropLands DEF Shown, DragInv
<1>3. PICK c \in Visible, lane \in Lanes, p \in Nat : \E seen, k, rest :
              /\ c = drag.card /\ seen = drag.groups[lane] /\ rest = ManualOrder(board, Shown \ {c}, lane)
              /\ Plans(c, lane, seen, k, rest, p)
              /\ Drops(c, lane, p, Inserted(rest, p, c))
  BY DropMoves
<1>4. PICK at, to, n, order : at = board /\ to = board' /\ n = Len(asked)
                              /\ order = Inserted(ManualOrder(board, Shown \ {c}, lane), p, c)
  OBVIOUS
<1>5. c \in Iids /\ n \in Nat /\ at \in Places /\ to \in Places /\ Drops(c, lane, p, order)
  BY <1>2, <1>3, <1>4, SomeCards
<1>6. CASE UNCHANGED <<board, asked>>
  <2>1. Chain(done, boards)'
    BY <1>u, <1>1, <1>6 DEF Chain
  <2> QED BY <2>1
<1>7. ASSUME NEW m, m = [card |-> c, lane |-> lane, position |-> p, order |-> order,
                         straight |-> straight, at |-> "sent"],
             ~Stands(at, c, lane, p), to = Moved(at, Iids, c, lane, p), asked' = Append(asked, m)
      PROVE  \E b : Chain(done, b)'
  <2>1. Goes(at, to, m)
    <3>1. PICK t, r : /\ t = Moved(at, Iids, c, lane, p) /\ r = ManualOrder(at, Iids \ {c}, lane)
                      /\ t \in Places /\ ManualOrder(t, Iids, lane) = Inserted(r, p, c)
                      /\ \A d \in Iids \ {c} : t[d].lane = at[d].lane
                      /\ \E q \in 0 .. Len(r) : (p <= Len(r) => q = p) /\ Lands(t, r, c, lane, q)
                      /\ Keeps(at, t, Iids \ {c})
      BY <1>5, MovedPlaces
    <3>2. m.card = c /\ m.lane = lane /\ m.position = p /\ m.order = order
      BY <1>7
    <3>3. ManualOrder(to, Iids, lane) = order
      BY <1>2, <1>4, <1>7, <3>1
    <3> QED BY <1>5, <1>7, <3>2, <3>3 DEF Goes
  <2> DEFINE b == [x \in done .. n + 1 |-> IF x = n + 1 THEN to ELSE boards[x]]
  <2>2. done \in 0 .. n /\ done \in Int /\ boards \in [done .. n -> Places] /\ boards[done] = rows /\ boards[n] = at
    BY <1>1, <1>4, <1>5 DEF Chain
  <2>3. b \in [done .. n + 1 -> Places]
    BY <1>5, <2>2
  <2>4. b[n + 1] = to /\ \A x \in done .. n : b[x] = boards[x]
    BY <1>5, <2>2
  <2> HIDE DEF b
  <2>5. Len(asked') = n + 1 /\ asked'[n + 1] = m /\ \A x \in 1 .. n : asked'[x] = asked[x]
    BY <1>2, <1>4, <1>7
  <2>6. ASSUME NEW x \in done + 1 .. n + 1 PROVE Goes(b[x - 1], b[x], asked'[x])
    <3>1. CASE x = n + 1
      <4>1. x - 1 = n /\ n \in done .. n
        BY <1>5, <2>2, <3>1
      <4>2. b[x - 1] = at /\ b[x] = to /\ asked'[x] = m
        BY <2>2, <2>4, <2>5, <3>1, <4>1
      <4> QED BY <2>1, <4>2
    <3>2. CASE x # n + 1
      <4>1. x \in done + 1 .. n /\ x - 1 \in done .. n /\ x \in done .. n /\ x \in 1 .. n
        BY <1>5, <2>2, <3>2
      <4>2. b[x - 1] = boards[x - 1] /\ b[x] = boards[x] /\ asked'[x] = asked[x]
        BY <2>4, <2>5, <4>1
      <4>3. Goes(boards[x - 1], boards[x], asked[x])
        BY <1>1, <1>4, <4>1 DEF Chain
      <4> QED BY <4>2, <4>3
    <3> QED BY <3>1, <3>2
  <2>7. ASSUME NEW x \in 1 .. n + 1 PROVE asked'[x].at = "done" <=> x <= done
    <3>1. CASE x = n + 1
      <4>1. asked'[x].at = "sent"
        BY <1>7, <2>5, <3>1
      <4>2. ~(x <= done)
        BY <1>5, <2>2, <3>1
      <4> QED BY <4>1, <4>2
    <3>2. CASE x # n + 1
      <4>1. x \in 1 .. n
        BY <1>5, <3>2
      <4>2. asked[x].at = "done" <=> x <= done
        BY <1>1, <1>4, <4>1 DEF Chain
      <4> QED BY <2>5, <4>1, <4>2
    <3> QED BY <3>1, <3>2
  <2>8. done \in 0 .. n + 1 /\ b[done] = rows' /\ b[n + 1] = board'
    BY <1>u, <1>4, <1>5, <2>2, <2>4
  <2>9. Chain(done, b)'
    BY <2>3, <2>5, <2>6, <2>7, <2>8 DEF Chain
  <2> QED BY <2>9
<1>8. CASE ~UNCHANGED <<board, asked>>
  <2>1. PICK m : m = [card |-> c, lane |-> lane, position |-> p, order |-> order,
                      straight |-> straight, at |-> "sent"]
    OBVIOUS
  <2>2. ~Stands(at, c, lane, p) /\ to = Moved(at, Iids, c, lane, p) /\ asked' = Append(asked, m)
    BY <1>2, <1>4, <1>5, <1>8, <2>1 DEF Drops
  <2> QED BY <1>7, <2>1, <2>2
<1> QED BY <1>6, <1>8

\* The server handles the first move that is on its way.
LEMMA ServerGoesOn ==
    ASSUME DragInv, StraightInv, NEW n \in 1 .. Len(asked), ServerMoves(n), straight', leaving \cup gone = {}
    PROVE  /\ ManualOrder(rows', Iids, asked[n].lane) = asked[n].order
           /\ \E done, boards : Chain(done, boards)'
<1>1. straight /\ (\A m \in 1 .. Len(asked) : (m < n) <=> asked[m].at = "done") /\ asked[n].card \in Iids
  BY DEF ServerMoves
<1>2. PICK done, boards : Chain(done, boards)
  BY <1>1 DEF StraightInv
<1>3. PICK m, k, at, to : m = asked[n] /\ k = Len(asked) /\ at = boards[n - 1] /\ to = boards[n]
  OBVIOUS
<1>4. k \in Nat /\ n \in 1 .. k /\ done \in 0 .. k /\ asked \in Seq(Move) /\ m \in Move
  BY <1>2, <1>3 DEF Chain, DragInv
<1>5. done = n - 1
  <2>1. \A x \in 1 .. k : x < n <=> x <= done
    BY <1>1, <1>2, <1>3 DEF Chain
  <2>2. ~(n <= done)
    BY <1>4, <2>1
  <2>3. CASE n - 1 >= 1
    <3>1. n - 1 <= done
      BY <1>4, <2>1, <2>3
    <3> QED BY <1>4, <2>2, <3>1
  <2>4. CASE n = 1
    BY <1>4, <2>2, <2>4
  <2> QED BY <1>4, <2>3, <2>4
<1>6. /\ boards \in [n - 1 .. k -> Places] /\ at = rows /\ boards[k] = board
      /\ \A x \in n .. k : Goes(boards[x - 1], boards[x], asked[x])
  <2>1. (n - 1) + 1 = n
    BY <1>4
  <2> QED BY <1>2, <1>3, <1>5, <2>1 DEF Chain
<1>7. Goes(at, to, m) /\ at \in Places /\ to \in Places
  <2>1. n - 1 \in n - 1 .. k /\ n \in n - 1 .. k /\ n \in n .. k
    BY <1>4
  <2>2. Goes(boards[n - 1], boards[n], asked[n])
    BY <1>6, <2>1
  <2>3. boards[n - 1] \in Places /\ boards[n] \in Places
    BY <1>6, <2>1
  <2> QED BY <1>3, <2>2, <2>3
<1>8. rows' = to
  <2>1. PICK c, lane, p : c = m.card /\ lane = m.lane /\ p = m.position
    OBVIOUS
  <2>2. c \in Iids /\ p \in Nat /\ ~Stands(at, c, lane, p) /\ to = Moved(at, Iids, c, lane, p)
    BY <1>7, <2>1 DEF Goes
  <2>3. rows' = Reordered(at, c, lane, p)
    <3>1. p # -1 /\ c \in Iids \ (gone \cup leaving)
      BY <2>2
    <3> QED BY <1>3, <1>6, <2>1, <3>1 DEF ServerMoves
  <2>4. Iids \ gone = Iids
    OBVIOUS
  <2>5. Reordered(at, c, lane, p) = Moved(at, Iids, c, lane, p)
    BY <2>2, <2>4 DEF Reordered, Moved, Stands
  <2> QED BY <2>2, <2>3, <2>5
<1>9. ManualOrder(rows', Iids, asked[n].lane) = asked[n].order
  BY <1>3, <1>7, <1>8 DEF Goes
<1>10. asked' = [asked EXCEPT ![n].at = "done"] /\ board' = board
  BY DEF ServerMoves
<1>11. Len(asked') = k /\ asked'[n].at = "done" /\ \A x \in 1 .. k : x # n => asked'[x] = asked[x]
  <2>1. PICK d : d = [m EXCEPT !.at = "done"]
    OBVIOUS
  <2>2. d \in Move /\ d.at = "done"
    BY <1>4, <2>1 DEF Move
  <2>3. asked' = [asked EXCEPT ![n] = d]
    BY <1>3, <1>10, <2>1
  <2> QED BY <1>3, <1>4, <2>2, <2>3
<1> DEFINE b == [x \in n .. k |-> boards[x]]
<1>12. b \in [n .. k -> Places] /\ \A x \in n .. k : b[x] = boards[x]
  BY <1>4, <1>6
<1> HIDE DEF b
<1>13. b[n] = rows' /\ b[k] = board'
  BY <1>3, <1>4, <1>6, <1>8, <1>10, <1>12
<1>14. ASSUME NEW x \in n + 1 .. k PROVE Goes(b[x - 1], b[x], asked'[x])
  <2>1. x \in n .. k /\ x - 1 \in n .. k /\ x # n /\ x \in 1 .. k
    BY <1>4
  <2> QED BY <1>6, <1>11, <1>12, <2>1
<1>15. ASSUME NEW x \in 1 .. k PROVE asked'[x].at = "done" <=> x <= n
  <2>1. x < n <=> asked[x].at = "done"
    BY <1>1, <1>3
  <2>2. CASE x = n
    BY <1>4, <1>11, <2>2
  <2>3. CASE x # n
    <3>1. asked'[x] = asked[x]
      BY <1>11, <2>3
    <3>2. x < n <=> x <= n
      BY <1>4, <2>3
    <3> QED BY <2>1, <3>1, <3>2
  <2> QED BY <2>2, <2>3
<1>16. n \in 0 .. k
  BY <1>4
<1>17. Chain(n, b)'
  BY <1>11, <1>12, <1>13, <1>14, <1>15, <1>16 DEF Chain
<1> QED BY <1>9, <1>17

LEMMA StraightKeepsInv ==
    ASSUME DragInv, StraightInv, [DragNext]_dragVars
    PROVE  StraightInv'
<1>1. ASSUME NEW cards, Filter(cards) PROVE StraightInv'
  BY <1>1, ChainStays DEF Filter
<1>2. ASSUME NEW mode, SortBy(mode) PROVE StraightInv'
  BY <1>2, ChainStays DEF SortBy
<1>3. ASSUME NEW c, OnDragStart(c) PROVE StraightInv'
  BY <1>3, ChainStays DEF OnDragStart
<1>4. ASSUME NEW c, BeginDeletion(c) PROVE StraightInv'
  BY <1>4, ChainStays DEF BeginDeletion
<1>5. ASSUME NEW c, EndDeletion(c) PROVE StraightInv'
  <2>1. leaving' \cup gone' # {}
    BY <1>5 DEF EndDeletion
  <2> QED BY <2>1 DEF StraightInv
<1>6. ASSUME NEW lane, NEW k, OnDragOver(lane, k) PROVE StraightInv'
  BY <1>6, ChainStays DEF OnDragOver
<1>7. ASSUME NEW c, NEW lane, NEW k, TheyMove(c, lane, k) PROVE StraightInv'
  BY <1>7 DEF TheyMove, StraightInv
<1>8. CASE DropByHand
  BY <1>8, DropGoesOn
<1>9. CASE DropOnLane
  <2>1. CASE asked' = asked
    <3>1. asked' # Append(asked, [card |-> drag.card, lane |-> LaneIn(drag.groups, drag.card), position |-> -1,
                                  order |-> <<>>, straight |-> straight, at |-> "sent"])
      BY <2>1 DEF DragInv
    <3>2. board' = board
      BY <1>9, <3>1 DEF DropOnLane, AskToMove
    <3>3. UNCHANGED <<rows, leaving, gone>> /\ (straight' => straight)
      BY <1>9 DEF DropOnLane
    <3> QED BY <2>1, <3>2, <3>3, ChainStays
  <2>2. CASE asked' # asked
    <3>1. ~straight'
      BY <1>9, <2>2 DEF DropOnLane
    <3> QED BY <3>1 DEF StraightInv
  <2> QED BY <2>1, <2>2
<1>10. CASE CancelDrag
  BY <1>10, ChainStays DEF CancelDrag
<1>11. ASSUME NEW n \in 1 .. Len(asked), ServerMoves(n) PROVE StraightInv'
  <2>1. SUFFICES ASSUME straight', leaving' \cup gone' = {} PROVE \E done, boards : Chain(done, boards)'
    BY DEF StraightInv
  <2>2. leaving \cup gone = {}
    BY <1>11, <2>1 DEF ServerMoves
  <2> QED BY <1>11, <2>1, <2>2, ServerGoesOn
<1>12. CASE BoardIsTold
  <2>1. /\ \A n \in 1 .. Len(asked) : asked[n].at = "done"
        /\ board' = rows /\ rows' = rows /\ asked' = asked
    BY <1>12 DEF BoardIsTold
  <2>2. rows \in Places /\ Len(asked) \in Nat
    BY DEF DragInv
  <2>3. PICK k, at : k = Len(asked) /\ at = rows
    OBVIOUS
  <2>4. PICK b : b = [x \in k .. k |-> at]
    OBVIOUS
  <2>5. b \in [k .. k -> Places] /\ b[k] = at /\ k \in 0 .. k
    BY <2>2, <2>3, <2>4
  <2>6. \A x \in 1 .. k : x <= k
    BY <2>2, <2>3
  <2>7. \A x \in k + 1 .. k : FALSE
    BY <2>2, <2>3
  <2>8. Chain(k, b)'
    BY <2>1, <2>3, <2>5, <2>6, <2>7 DEF Chain
  <2> QED BY <2>8 DEF StraightInv
<1>13. CASE UNCHANGED dragVars
  BY <1>13, ChainStays DEF dragVars
<1>14. CASE DragNext
  BY <1>14, <1>1, <1>2, <1>3, <1>4, <1>5, <1>6, <1>7, <1>8, <1>9, <1>10, <1>11, <1>12 DEF DragNext
<1> QED BY <1>13, <1>14

LEMMA StraightStarts == DragInit => StraightInv
<1> SUFFICES ASSUME DragInit PROVE StraightInv
  OBVIOUS
<1>1. asked = <<>> /\ board = rows /\ rows \in Places
  BY DragStarts DEF DragInit, DragInv
<1>2. PICK at : at = rows
  OBVIOUS
<1>3. PICK b : b = [x \in 0 .. 0 |-> at]
  OBVIOUS
<1>4. b \in [0 .. 0 -> Places] /\ b[0] = at
  BY <1>1, <1>2, <1>3
<1>5. Len(asked) = 0
  BY <1>1
<1>6. Chain(0, b)
  BY <1>1, <1>2, <1>4, <1>5 DEF Chain
<1> QED BY <1>6 DEF StraightInv

LEMMA StraightInvariance == DragSpec => []StraightInv
<1>1. DragInit => StraightInv
  BY StraightStarts
<1>2. DragInv /\ StraightInv /\ [DragNext]_dragVars => StraightInv'
  BY StraightKeepsInv
<1> QED BY <1>1, <1>2, DragInvariance, PTL DEF DragSpec

\* The server puts the card where the browser showed it (reorderCardPositions), unless the
\* orders of the two have parted, or a card is being or was deleted.
THEOREM ServerPutsItThere == DragSpec => ServerKeepsTheDrop
<1>1. ASSUME DragInv, StraightInv, [DragNext]_dragVars
      PROVE  [\A n \in 1 .. Len(asked) :
                 ServerMoves(n) /\ straight' /\ asked[n].straight /\ asked[n].order # <<>>
                 /\ leaving \cup gone = {}
                 => ManualOrder(rows', Iids, asked[n].lane) = asked[n].order]_dragVars
  BY <1>1, ServerGoesOn
<1> QED BY <1>1, DragInvariance, StraightInvariance, PTL DEF DragSpec, ServerKeepsTheDrop

=============================================================================
