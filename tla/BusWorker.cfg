\* The server's worker alone; Retry pressed on jobs that gave up, as the page
\* offers it.  Of the call, the agents and the choice of a model: the least.
CONSTANTS
    Turns = {1}
    AsrGrade <- MCGrades
    People = {ann}
    Deals = {d1}
    Answers = {x}
    Actions = {a}
    Reports <- MCReports
    RerunFrom <- MCRerunFrom
    NoOne = NoOne
    MaxRuns = 1
    MaxClicks = 0
    MaxStops = 0
    Runs = {r1}
    Providers = {"cli"}
    Default = "cli"
    NeedsKey = {}
    Editable = {}
    Preset = {"cli"}
    Hosts = {"here"}
    MaxEdits = 0
    NumEvents = 3
    OfCall = {1, 2}
    CallEnded = {1}
    Worker = worker
    Drainers = {}
    RetryFrom = {"failed"}
    MaxAttempts = 2
    MaxRetries = 1
    MaxDefers = 1
    MaxLive = 1
    MaxErrors = 1
SPECIFICATION BusSpec
PROPERTIES  Settles
