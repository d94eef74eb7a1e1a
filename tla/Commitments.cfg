\* One loop and one commitment of Jarvis's own: one request, one agent, one sync.
CONSTANTS
    Loops = {l1}
    Own = {w1}
    Sellers = {h1}
    Agents = {a1}
    Syncers = {s1}
    Choices = {"open", "done"}
    Strengths = {1, 3}
    NoOne = NoOne
    MaxClicks = 2
    MaxClaims = 2
    MaxWorld = 1
    MaxFaults = 1
SPECIFICATION FairSpec
INVARIANTS HisWordStands
PROPERTIES OwnClosedOnHisWord Agree
