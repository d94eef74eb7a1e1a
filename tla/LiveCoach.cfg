\* An objection and one trigger about a slot; a segmenter whose pauses and lengths
\* are some samples; a queue of two segments.
CONSTANTS
    Triggers = {objection, quantify}
    Objection = objection
    Asking = {quantify}
    Display = 1
    Cooldown = 2
    ObjectionGap = 1
    Warmup = 1
    MaxPerCall = 2
    StaleAfter <- Staleness
    RepeatWindow = 2
    MaxAge = 1
    InboxSize = 3
    MaxTime = 2
    MaxLines = 2
    MaxCandidates = 3
    MaxPasses = 1
    MaxFaults = 1
    MaxClicks = 1
    Block = 2
    Onset = 2
    Preroll = 1
    MinSegment = 8
    MaxSegment = 12
    Silence = 4
    ShortFlush = 6
    KeepTail = 1
    MinSpeech = 5
    SplitSearch = 12
    MaxFeed = 3
    MaxGap = 5
    End = 17
    Channels = {them}
    MaxQueue = 2
    Stop = Stop
    Threshold = 2
    MaxSegs = 4
    MaxTrouble = 2
SPECIFICATION AllSpec
CONSTRAINT OneTrouble
INVARIANTS   SegmentsTrue WordsTrue
 
CHECK_DEADLOCK FALSE
