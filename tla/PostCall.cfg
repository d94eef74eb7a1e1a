\* Two handlers press every button while the worker processes, fails and re-runs the call.
CONSTANTS
    Handlers = {h1, h2}
    Clicks = {"send", "auto", "draft", "mark_sent", "not_sent", "skip", "edit", "close", "complete", "retry", "rerun"}
    RerunFrom = {"loops_reconciled", "email_drafted"}
    HasAudio = FALSE
    MaxJobs = 2
    MaxEmails = 2
    MaxFaults = 1
SPECIFICATION Spec
SYMMETRY Symmetry
INVARIANTS OneFollowUp SellerWins NeverForgotten
\* a call that is done, with no job and no click left
CHECK_DEADLOCK FALSE
