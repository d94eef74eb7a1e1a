------------------------------ MODULE EmailSend ------------------------------
(***************************************************************************)
(* The one path to Gmail (salescoach/execution/policy.py) and every other  *)
(* handler that writes the same `emails` row: edit, skip, "It was not      *)
(* sent" and "mark sent".  One email, any number of handler threads (the   *)
(* web server runs each click on a thread of its own; the auto-send        *)
(* executor is one more), Gmail, and a process that may die at any point.  *)
(*                                                                         *)
(* SQLite runs a BEGIN IMMEDIATE block and a single statement atomically;  *)
(* a SELECT followed by an UPDATE outside such a block is two steps here,  *)
(* and so is a Gmail call and the UPDATE that records what it returned.    *)
(*                                                                         *)
(* An operator named ...Slip is a plausible slip in the code that the      *)
(* operator below it models; the README says which property notices it.    *)
(***************************************************************************)
EXTENDS Naturals, FiniteSets

CONSTANTS
    Threads,    \* handler threads that may work on this email at once
    Requests,   \* supply of Gmail calls: bounds the attempts of a behaviour
    Bodies,     \* the contents the email can have
    FirstBody,  \* what the drafter wrote
    Clicks,     \* the buttons the seller uses
    NoReq

AllClicks == {"send", "draft", "edit", "skip", "not_sent", "mark_sent"}
Modes     == {"send", "draft"}
Statuses  == {"drafted", "sending", "sent", "saved_to_gmail", "failed", "rejected"}

ASSUME ConstantsOK ==
    /\ FirstBody \in Bodies
    /\ Clicks \subseteq AllClicks
    /\ NoReq \notin Requests

VARIABLES
    row,        \* the emails row
    gmail,      \* every Gmail call ever planned, and what became of it
    pc,         \* where each handler thread is
    click,      \* the mode a thread was asked for
    seen,       \* the row as a thread last read it
    mine,       \* the Gmail call a thread is making
    taint       \* history: the races that have happened so far

vars == <<row, gmail, pc, click, seen, mine, taint>>

(* "overtaken": a write landed on a row that had moved on since its        *)
(* handler read it.  "hasty": an attempt was released (by the seller, or   *)
(* by the retry of a stuck save) while it was still running.               *)
Races == {"overtaken", "hasty"}
Taint(overtaken, hasty) ==
    taint' = taint \cup (IF overtaken THEN {"overtaken"} ELSE {})
                   \cup (IF hasty THEN {"hasty"} ELSE {})

(* `attempt` is not a column: it names the call that last set 'sending'.   *)
(* The Message-ID is a hash of mode and content, so <<mode, approved>> is  *)
(* the rfc822_message_id column.                                           *)
Row == [status : Statuses, mode : Modes \cup {"none"}, approved : Bodies,
        body : Bodies, attempt : Requests \cup {NoReq}]

Fate == {"unused", "planned", "flight", "accepted", "lost", "mailed"}
Call == [mode : Modes, approved : Bodies, body : Bodies, fate : Fate]

Places == {"idle", "issue", "wait", "look", "adopt", "release", "again",
           "edit", "skip", "not_sent", "mark_sent"}

Drafted == [status |-> "drafted", mode |-> "none", approved |-> FirstBody,
            body |-> FirstBody, attempt |-> NoReq]

Init ==
    /\ row = Drafted
    /\ gmail = [r \in Requests |-> [mode |-> "send", approved |-> FirstBody,
                                    body |-> FirstBody, fate |-> "unused"]]
    /\ pc = [t \in Threads |-> "idle"]
    /\ click = [t \in Threads |-> "send"]
    /\ seen = [t \in Threads |-> Drafted]
    /\ mine = [t \in Threads |-> NoReq]
    /\ taint = {}

----------------------------------------------------------------------------
(* What the buyer and Gmail can see.                                       *)

Delivered(r) == \/ gmail[r].mode = "send" /\ gmail[r].fate = "accepted"
                \/ gmail[r].mode = "draft" /\ gmail[r].fate = "mailed"

InGmail(mode, approved) ==
    \E r \in Requests : /\ gmail[r].mode = mode
                        /\ gmail[r].approved = approved
                        /\ gmail[r].fate = "accepted"

Underway(r) == gmail[r].fate \in {"planned", "flight"}

(* Some thread has not yet recorded what became of call r, or r itself may *)
(* still reach Gmail.                                                      *)
StillMaking(r) == Underway(r) \/ \E t \in Threads : mine[t] = r

----------------------------------------------------------------------------
(* Thread bookkeeping.  Return forgets the thread's locals.                *)

Goto(t, place) ==
    /\ pc' = [pc EXCEPT ![t] = place]
    /\ UNCHANGED <<click, mine>>

Return(t) ==
    /\ pc' = [pc EXCEPT ![t] = "idle"]
    /\ click' = [click EXCEPT ![t] = "send"]
    /\ seen' = [seen EXCEPT ![t] = Drafted]
    /\ mine' = [mine EXCEPT ![t] = NoReq]

(* The UPDATE `new` by thread t lands on a row that had moved on since t   *)
(* read it, or since t's own Gmail call was the current attempt.           *)
Stale(t, new) == row # seen[t] /\ row # new
Late(t, new)  == (row.status # "sending" \/ row.attempt # mine[t]) /\ row # new

----------------------------------------------------------------------------
(* approve_and_send: the BEGIN IMMEDIATE block.  A click that finds the    *)
(* email sent, saved, rejected or blocked by policy.evaluate changes       *)
(* nothing, so it is not a step.                                           *)

SendableSlip  == {"drafted", "failed", "sending"}
SendableSlip2 == {"drafted", "failed", "sent"}
Sendable == {"drafted", "failed"}

MayApprove(t, mode) ==
    \/ pc[t] = "idle" /\ mode \in Clicks
    \/ pc[t] = "again" /\ mode = click[t]

Approve(t, mode, r) ==
    /\ MayApprove(t, mode)
    /\ row.status \in Sendable
    /\ gmail[r].fate = "unused"
    /\ LET new == [row EXCEPT !.status = "sending", !.mode = mode,
                              !.approved = row.body, !.attempt = r]
       IN  /\ row' = new
           /\ seen' = [seen EXCEPT ![t] = new]
    /\ gmail' = [gmail EXCEPT ![r] = [mode |-> mode, approved |-> row.body,
                                      body |-> row.body, fate |-> "planned"]]
    /\ pc' = [pc EXCEPT ![t] = "issue"]
    /\ click' = [click EXCEPT ![t] = mode]
    /\ mine' = [mine EXCEPT ![t] = r]
    /\ UNCHANGED taint

(* The row is 'sending': an earlier attempt is unresolved.                 *)
FoundSending(t, mode) ==
    /\ MayApprove(t, mode)
    /\ row.status = "sending"
    /\ seen' = [seen EXCEPT ![t] = row]
    /\ pc' = [pc EXCEPT ![t] = "look"]
    /\ click' = [click EXCEPT ![t] = mode]
    /\ UNCHANGED <<row, gmail, mine, taint>>

(* The retried approval finds that somebody else settled the email.        *)
AlreadyDone(t) ==
    /\ pc[t] = "again"
    /\ row.status \in {"sent", "saved_to_gmail", "rejected"}
    /\ Return(t)
    /\ UNCHANGED <<row, gmail, taint>>

(* The row is read again for the content; the key is the approved one.     *)
Issue(t) ==
    /\ pc[t] = "issue"
    /\ gmail' = [gmail EXCEPT ![mine[t]] = [@ EXCEPT !.fate = "flight", !.body = row.body]]
    /\ Goto(t, "wait")
    /\ UNCHANGED <<row, seen, taint>>

(* An error before Gmail could have accepted it: no credentials, a bad     *)
(* header, or a 4xx.                                                       *)
DefinitelyNotSent(t) ==
    /\ \/ pc[t] = "issue"
       \/ pc[t] = "wait" /\ gmail[mine[t]].fate = "flight"
    /\ gmail' = [gmail EXCEPT ![mine[t]].fate = "lost"]
    /\ row' = [row EXCEPT !.status = "failed"]
    /\ Taint(Late(t, row'), FALSE)
    /\ Return(t)

DeliveryUnknownSlip(t) ==
    /\ pc[t] = "wait"
    /\ row' = [row EXCEPT !.status = "failed"]
    /\ Taint(Late(t, row'), FALSE)
    /\ Return(t)
    /\ UNCHANGED gmail

(* Any other error (timeout, reset, 5xx): only the error text changes.     *)
DeliveryUnknown(t) ==
    /\ pc[t] = "wait"
    /\ Return(t)
    /\ UNCHANGED <<row, gmail, taint>>

StatusAfterSlip(mode) == IF mode = "send" THEN "sent" ELSE "draft"
StatusAfter(mode) == IF mode = "send" THEN "sent" ELSE "saved_to_gmail"

(* Gmail answered: _mark_sent updates the row by id, whatever it says now. *)
MarkSent(t) ==
    /\ pc[t] = "wait"
    /\ gmail[mine[t]].fate \in {"accepted", "mailed"}
    /\ row' = [row EXCEPT !.status = StatusAfter(gmail[mine[t]].mode)]
    /\ Taint(Late(t, row'), FALSE)
    /\ Return(t)
    /\ UNCHANGED gmail

----------------------------------------------------------------------------
(* _recover: search Gmail for the copy the stuck attempt would have left.  *)

LookFound(t) ==
    /\ pc[t] = "look"
    /\ InGmail(seen[t].mode, seen[t].approved)
    /\ Goto(t, "adopt")
    /\ UNCHANGED <<row, gmail, seen, taint>>

(* Not found, or the search itself failed: a stuck save will be released,  *)
SaveNotFound(t) ==
    /\ pc[t] = "look"
    /\ seen[t].mode = "draft"
    /\ Goto(t, "release")
    /\ UNCHANGED <<row, gmail, seen, taint>>

(* and the retry of a stuck send is refused.                               *)
SendNotFound(t) ==
    /\ pc[t] = "look"
    /\ seen[t].mode # "draft"
    /\ Return(t)
    /\ UNCHANGED <<row, gmail, taint>>

(* The copy is recorded as what the stuck attempt was, not as what this    *)
(* click asked for.                                                        *)
AdoptedModeSlip(t) == click[t]
AdoptedMode(t) == seen[t].mode

Adopt(t) ==
    /\ pc[t] = "adopt"
    /\ row' = [row EXCEPT !.status = StatusAfter(AdoptedMode(t))]
    /\ Taint(Stale(t, row'), FALSE)
    /\ Return(t)
    /\ UNCHANGED gmail

Release(t) ==
    /\ pc[t] = "release"
    /\ row' = [row EXCEPT !.status = "failed"]
    /\ Taint(Stale(t, row'), \E r \in Requests : StillMaking(r))
    /\ Goto(t, "again")
    /\ UNCHANGED <<gmail, seen>>

----------------------------------------------------------------------------
(* The other handlers: check the status, then write by id.                 *)

Check(t, button, statuses) ==
    /\ pc[t] = "idle"
    /\ button \in Clicks
    /\ row.status \in statuses
    /\ seen' = [seen EXCEPT ![t] = row]
    /\ Goto(t, button)
    /\ UNCHANGED <<row, gmail>>

Write(t, button, new) ==
    /\ pc[t] = button
    /\ row' = new
    /\ Taint(Stale(t, new), FALSE)
    /\ Return(t)
    /\ UNCHANGED gmail

EditableSlip == {"drafted", "failed", "sending"}
Editable == {"drafted", "failed"}

EditCheck(t) == Check(t, "edit", Editable) /\ UNCHANGED taint
EditWrite(t, b) == Write(t, "edit", [row EXCEPT !.status = "drafted", !.body = b])

SkipCheck(t) == Check(t, "skip", {"drafted", "failed"}) /\ UNCHANGED taint
SkipWrite(t) == Write(t, "skip", [row EXCEPT !.status = "rejected"])

(* The seller presses "It was not sent" after looking in Gmail Sent.       *)
NotSentCheck(t) ==
    /\ ~InGmail("send", row.approved)
    /\ Check(t, "not_sent", {"sending"})
    /\ Taint(FALSE, \E r \in Requests : StillMaking(r))
NotSentWrite(t) == Write(t, "not_sent", [row EXCEPT !.status = "failed"])

(* The seller sends the saved draft from Gmail, then says so here.         *)
SendByHand(r) ==
    /\ row.status = "saved_to_gmail"
    /\ \A q \in Requests : gmail[q].fate # "mailed"
    /\ gmail[r].mode = "draft" /\ gmail[r].fate = "accepted"
    /\ "mark_sent" \in Clicks
    /\ gmail' = [gmail EXCEPT ![r].fate = "mailed"]
    /\ UNCHANGED <<row, pc, click, seen, mine, taint>>

MarkSentCheck(t) ==
    /\ \E r \in Requests : gmail[r].fate = "mailed"
    /\ Check(t, "mark_sent", {"saved_to_gmail"})
    /\ UNCHANGED taint
MarkSentWrite(t) == Write(t, "mark_sent", [row EXCEPT !.status = "sent"])

----------------------------------------------------------------------------
(* Gmail and the network; the process.                                     *)

Accept(r) ==
    /\ gmail[r].fate = "flight"
    /\ gmail' = [gmail EXCEPT ![r].fate = "accepted"]
    /\ UNCHANGED <<row, pc, click, seen, mine, taint>>

Lose(r) ==
    /\ gmail[r].fate = "flight"
    /\ gmail' = [gmail EXCEPT ![r].fate = "lost"]
    /\ UNCHANGED <<row, pc, click, seen, mine, taint>>

(* The server dies and is restarted.  What is on the wire stays there.     *)
Crash ==
    /\ \E t \in Threads : pc[t] # "idle"
    /\ pc' = [t \in Threads |-> "idle"]
    /\ click' = [t \in Threads |-> "send"]
    /\ seen' = [t \in Threads |-> Drafted]
    /\ mine' = [t \in Threads |-> NoReq]
    /\ gmail' = [r \in Requests |-> IF gmail[r].fate = "planned"
                                    THEN [gmail[r] EXCEPT !.fate = "lost"]
                                    ELSE gmail[r]]
    /\ UNCHANGED <<row, taint>>

----------------------------------------------------------------------------
ThreadStep(t) ==
    \/ \E mode \in Modes, r \in Requests : Approve(t, mode, r)
    \/ \E mode \in Modes : FoundSending(t, mode)
    \/ AlreadyDone(t) \/ Issue(t) \/ DefinitelyNotSent(t)
    \/ DeliveryUnknown(t) \/ MarkSent(t)
    \/ LookFound(t) \/ SaveNotFound(t) \/ SendNotFound(t)
    \/ Adopt(t) \/ Release(t)
    \/ EditCheck(t) \/ \E b \in Bodies : EditWrite(t, b)
    \/ SkipCheck(t) \/ SkipWrite(t)
    \/ NotSentCheck(t) \/ NotSentWrite(t)
    \/ MarkSentCheck(t) \/ MarkSentWrite(t)

Outside == \/ \E r \in Requests : Accept(r) \/ Lose(r) \/ SendByHand(r)
           \/ Crash

Next == Outside \/ \E t \in Threads : ThreadStep(t)

Spec == Init /\ [][Next]_vars

----------------------------------------------------------------------------
TypeOK ==
    /\ row \in Row
    /\ gmail \in [Requests -> Call]
    /\ pc \in [Threads -> Places]
    /\ click \in [Threads -> Modes]
    /\ seen \in [Threads -> Row]
    /\ mine \in [Threads -> Requests \cup {NoReq}]
    /\ taint \subseteq Races

(* No handler overwrote a row that had moved on under it, and the seller   *)
(* released no attempt that was still running.                             *)
Clean == taint = {}

(* At most one copy of the email reaches the buyer: sent by the app or by  *)
(* the seller's own hand from Gmail Drafts.                                *)
ExactlyOnce ==
    \A r, q \in Requests : Delivered(r) /\ Delivered(q) => r = q

(* Duplicate-send guard of approve_and_send.  Unless a check-then-write    *)
(* handler was overtaken or the seller released a running attempt, the     *)
(* buyer gets at most one copy, whatever crashes, timeouts and retries do. *)
NoDuplicate == Clean => ExactlyOnce

(* An email the page offers to send, edit or retry has not reached the     *)
(* buyer, and no send of it is still on its way.                           *)
RetryIsSafe ==
    Clean /\ row.status \in {"drafted", "failed", "rejected"} =>
        \A r \in Requests : gmail[r].mode = "send" =>
            gmail[r].fate \in {"unused", "lost"}

(* The buyer never gets the email twice: there are no two copies, and what *)
(* the page offers for a retry cannot become a second one.                 *)
NeverTwice == NoDuplicate /\ RetryIsSafe

(* 'sent' is never recorded for an email nobody delivered: not by a        *)
(* recovery that found a Gmail draft, not by a click on the other button.  *)
SentIsTrue == row.status = "sent" => \E r \in Requests : Delivered(r)

(* The content handed to Gmail is the content policy.evaluate approved and *)
(* the Message-ID was derived from.                                        *)
ApprovedBytes ==
    Clean => \A r \in Requests : gmail[r].fate # "unused" =>
                 gmail[r].body = gmail[r].approved

(* What went out is what was approved, and 'sent' is said of nothing else. *)
SentAsApproved == SentIsTrue /\ ApprovedBytes

(* What the page and the buyer have of it: the calls the seller has asked  *)
(* for, and the copies that reached the buyer, each by its call.           *)
Says == CASE row.status \in {"drafted", "failed"} -> "open"
          [] row.status = "sending" -> "unknown"
          [] row.status = "saved_to_gmail" -> "saved"
          [] OTHER -> row.status
Granted == {[mode |-> gmail[r].mode, body |-> gmail[r].approved] :
               r \in {q \in Requests : gmail[q].fate # "unused"}}
Reached == {[call |-> r, body |-> gmail[r].body] : r \in {q \in Requests : Delivered(q)}}

Delivery == INSTANCE OneDelivery WITH
    Calls <- Requests, says <- Says, text <- row.body, granted <- Granted, reached <- Reached,
    asked <- [mode |-> row.mode, body |-> row.approved]

(* What the page says and what the buyer gets are as OneDelivery promises, *)
(* for as long as no race that the code accepts has happened: at most one  *)
(* copy, with the content last approved, and "sent" once and for all.      *)
DeliversAsPromised == Delivery!Init /\ [][Clean' => Delivery!Next]_(Delivery!vars)

(* With Send the only button, and clicks and the auto-send executor racing *)
(* on it: no late answer, recovery or error takes 'sent' back.             *)
SentIsFinal == [][row.status = "sent" => row'.status = "sent"]_vars

(* review.update_email: "only a draft can be edited".                      *)
OnlyDraftsEdited ==
    [][row'.body # row.body => row.status \in {"drafted", "failed"}]_vars
=============================================================================
