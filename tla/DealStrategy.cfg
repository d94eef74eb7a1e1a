\* Two methodologies, of which one lists the element; a tag of the taxonomy and two
\* new ones, on two deals; two emails and two calls; two tabs of the deal's page.
CONSTANTS
    Methods = {meddpicc, bant}
    First = meddpicc
    Listing = {meddpicc}
    MaxRuns = 2
    MaxAnalyses = 2
    MaxEdits = 1
    MaxSwitches = 1
    MaxDeaths = 1
    ElementKeys = {"economic_buyer", "champion"}
    RuleNames <- SomeRules
    MinElements = 1
    MaxElements = 2
    Library = {"meddpicc", "bant"}
    Tags = {"known", "new1", "new2"}
    Known = {"known"}
    Similar <- SomeSimilar
    DealOf <- SomeDeals
    MaxCalls = 2
    MaxSeen = 3
    MaxNudges = 4
    MaxClicks = 2
    Window = 2
    EmergingCalls = 1
    EmergingDeals = 1
    EmergingShare = 50
    EstablishedCalls = 2
    EstablishedDeals = 2
    DormantAfter = 1
    RetireAfter = 2
    MinShown = 1
    Unhelpful = 60
    Floor = 3
    Factor = 2
    Weight = 6
    Emails = {e1, e2}
    NoEmail = NoEmail
    DayLen = 2
    ReplyDays = 1
    MeetDays = 1
    MaxTime = 5
    MaxRead = 3
    Tabs = {t1, t2}
    Stages = {s1, s2}
    Reasons = {r1, r2}
    NoReason = NoReason
    MaxSaves = 3
SPECIFICATION AllSpec
CONSTRAINTS OneTrouble Plain OneFamily OneSubject
INVARIANTS SellersWord NothingMissed  HistoryTells
  
CHECK_DEADLOCK FALSE
