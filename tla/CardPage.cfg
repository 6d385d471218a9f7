SPECIFICATION PageSpec
CONSTANTS
t = t
a = a
f = f
q1 = q1
i1 = i1
i2 = i2
CardOrder <- MCCardOrder
Temp = t
Final = f
Titles = {x, y, e}
Descriptions = {d1, d2}
BlankText = e
NoCard = none
MaxRemote = 1
MaxDeletes = 1
Fields = {team, due}
MaxEdits = 2
MaxSends = 3
Items = {i1, i2}
Queries = {q1}
Matches <- MCMatches
TooShort = TooShort
Unloaded = Unloaded
MaxSaves = 1
MaxChanges = 2
Texts = {t1, q}
EmptyBody = EmptyBody
QuickActions = {q}
MaxSubmits = 2
MaxReads = 2
MonthStarts <- MCMonthStarts
Week = 7
CalendarStart = 3
CalendarEnd = 20
Today = 22
Entries = {9, 16}
NoDate <- MCNoDate
MaxEntries = 3
MaxTheirDates = 1
member = member
refSign = refSign
Letters = {member}
Slash = Slash
Blank = Blank
NewLine = NewLine
Member = refSign
References <- MCReferences
QuickCommands <- MCQuickCommands
Known <- MCKnown
Drafts <- MCDrafts
MaxText = 2
MaxRequests = 1
EditKinds = {"details", "team"}
MaxBoardEdits = 2
MaxTheirEdits = 1
MaxCardReads = 1
CHECK_DEADLOCK FALSE
INVARIANTS DraftStaysWithCard SavedIsStored SavingEnds ListEndsTrue SubmittedTextSurvives LastEntryIsKept MenuIsAtCaret EditsSurvive
PROPERTY UnsavedHoldsDrawer
