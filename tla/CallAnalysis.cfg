\* A call of two turns, run twice, with a click and a stop between the steps;
\* two agent runs at once; three providers; Retry from a page that is out of
\* date and a `salescoach work` beside the server.
CONSTANTS
    Turns = {1, 2}
    AsrGrade <- MCGrades
    People = {ann}
    Deals = {d1, d2}
    Answers = {x}
    Actions = {a}
    Reports <- MCReports
    RerunFrom <- MCRerunFrom
    NoOne = NoOne
    MaxRuns = 2
    MaxClicks = 2
    MaxStops = 1
    Runs = {r1, r2}
    Providers = {"cli", "api", "gate"}
    Default = "cli"
    NeedsKey = {"api"}
    Editable = {"gate"}
    Preset = {"cli", "api"}
    Hosts = {"here", "there"}
    MaxEdits = 2
    NumEvents = 2
    OfCall = {1, 2}
    CallEnded = {1}
    Worker = worker
    Drainers = {drain}
    RetryFrom = {"failed", "running", "pending", "done"}
    MaxAttempts = 2
    MaxRetries = 1
    MaxDefers = 1
    MaxLive = 0
    MaxErrors = 0
SPECIFICATION AllSpec
SYMMETRY Symmetry
INVARIANTS EvidenceStands FindingsStand AttemptsTell DoneIsTrue
PROPERTY SettingsHold
CHECK_DEADLOCK FALSE
