\* Save to Drafts and Send pressed for the same email while an earlier save has not answered.
CONSTANTS
    Threads = {t1, t2}
    Requests = {r1, r2, r3}
    Bodies = {b1}
    FirstBody = b1
    NoReq = NoReq
    Clicks = {"send", "draft"}
SPECIFICATION Spec
INVARIANTS ExactlyOnce
CHECK_DEADLOCK FALSE
