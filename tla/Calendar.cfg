\* One meeting, two threads that copy the calendar, one that records.
CONSTANTS
    Calls = {c1}
    Server = server
    Recorders = {}
    NoCall = NoCall
    NoProc = NoProc
    MaxLen = 1
    MaxFaults = 1
    Meetings = {m1}
    NoMeeting = NoMeeting
    Syncers = {duty, worker}
    Recorder = recorder
    Click = click
    Starts = {0, 1}
    Duration = 1
    Lead = 0
    Grace = 1
    Back = 1
    Ahead = 1
    MaxTime = 3
    MaxCalls = 2
    MaxMoves = 1
    MaxClicks = 2
    MaxEdits = 1
    Answers <- SomeAnswers
    Scheduling <- DayRules
SPECIFICATION CalendarSpec
CONSTRAINTS Apart OneRace
INVARIANTS ArmedIsRecorded SlotsAreFree
PROPERTY StopsItself
\* the last tick has passed and nothing is queued
CHECK_DEADLOCK FALSE
