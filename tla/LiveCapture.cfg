\* The server alone: two calls, crashes, operations that raise.
CONSTANTS
    Calls = {c1, c2}
    Server = server
    Recorders = {}
    NoCall = NoCall
    NoProc = NoProc
    MaxLen = 2
    MaxFaults = 2
SPECIFICATION FairSpec
INVARIANTS OneUnlessStray AudioIsWhole
PROPERTIES EveryCallEnds
\* every call was recorded and processed
CHECK_DEADLOCK FALSE
