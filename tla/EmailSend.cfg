\* One email: two handler threads, two Gmail calls, two contents, every button.
\* Outreach: one loop, two nudges, one follow-up allowed; every race of the threads.
CONSTANTS
    Threads = {t1, t2}
    Requests = {r1, r2}
    Bodies = {b1, b2}
    FirstBody = b1
    NoReq = NoReq
    Clicks = {"send", "draft", "edit", "skip", "not_sent", "mark_sent"}
    Loops = {l1}
    Scheduler = scheduler
    Worker = worker
    Limit = 1
    Gap = 1
    CheckAfter = 1
    Cap = 1
    Facts = {"none", "deal_closed"}
    MaxDay = 2
    MaxNudges = 2
    MaxReplies = 1
    MaxClicks = 1
SPECIFICATION BothSpec
SYMMETRY Symmetry
CONSTRAINT OneRace
INVARIANTS NeverTwice SentAsApproved KeepsLimits
PROPERTIES  DeliversAsPromised
\* an email that was sent or rejected has nothing left to do
CHECK_DEADLOCK FALSE
