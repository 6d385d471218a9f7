SPECIFICATION PageSpec
CONSTANTS
TeamT = TeamT
TeamU = TeamU
p = p
q = q
x = x
w = w
c1 = c1
c2 = c2
c3 = c3
LabelIds = {g, c}
Names = {a, b}
TeamLabels = {TeamT, TeamU}
Gone = Gone
MaxRequests = 1
MaxTagEdits = 1
MaxElsewhere = 1
Iids = {1, 2, 3}
Lanes = {L, M}
MaxDrops = 1
MaxHidden = 1
MaxChanges = 2
TeamList <- MCTeamList
PeopleList <- MCPeopleList
LabelList <- MCLabelList
NoTeam = NoTeam
FilterCards <- MCCards
TeamOf <- MCTeamOf
PeopleOf <- MCPeopleOf
FirstCarried <- MCFirstCarried
Texts = {NoText, w}
NoText = NoText
Finds <- MCFinds
Page = 1
MaxFilters = 2
MaxNews = 1
GanttCards = {1, 2}
TeamKeys <- MCTeamKeys
MinDay = 0
MaxDay = 40
Days = {4, 17}
TodayDay = 11
Milestones = {2, 30}
Positions = {0}
CHECK_DEADLOCK FALSE
INVARIANTS MenuFollowsCatalog SearchIsTheTyped MarksFit
PROPERTIES OnlyRemovedTagsGo DropLandsAsShown ServerKeepsTheDrop ReloadKeepsView
