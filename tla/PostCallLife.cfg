\* A recorded call: steps that fail and a process that dies up to twice, and re-runs.
CONSTANTS
    Handlers = {h1}
    Clicks = {"send", "skip", "close", "complete", "retry", "rerun"}
    RerunFrom = {"summarized", "email_drafted"}
    HasAudio = TRUE
    MaxJobs = 2
    MaxEmails = 2
    MaxFaults = 2
SPECIFICATION FairSpec
PROPERTIES ProcessedForGood
\* a call that is done, with no job and no click left
CHECK_DEADLOCK FALSE
