\* One meeting: the poller and two requests import it and answer for it.
\* Two polls of the folder over three files of two names; two threads or
\* processes that open a store of any age.
CONSTANTS
    Meetings = {m1}
    Internal = {}
    Unlabelled = {m1}
    Pollers = {p1}
    Threads = {t1, t2}
    NoMeeting = NoMeeting
    Overlap = 1
    Lookback = 2
    Cap = 1
    MaxTime = 3
    Names = {n}
    Spare = {s}
    Files = {a, b, c}
    Bad = {b}
    Readers = {p, q}
    NoFile = NoFile
    Openers = {o1, o2}
    Calls = {c1, c2}
    Granola = {c1}
    Columns = {x, y}
    NoOne = NoOne
    MaxTrouble = 1
    MaxDeaths = 1
SPECIFICATION AllSpec
SYMMETRY Symmetry
INVARIANTS NothingMissed AnswersHold FolderKept StoreKept
\* every meeting is over and imported
CHECK_DEADLOCK FALSE
